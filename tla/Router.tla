------------------------------- MODULE Router -------------------------------
(***************************************************************************)
(* libsponge/router.{hh,cc} as operators on a record:                      *)
(*   interfaces   _interfaces: network interfaces, each with the queue     *)
(*                datagrams_out that AsyncNetworkInterface adds            *)
(*   table        _routing_table                                           *)
(* An IP address is a number of AddrBits bits; a datagram is a record with *)
(* the fields dst and ttl, and others that routing does not look at.       *)
(***************************************************************************)
EXTENDS NetworkInterface, SequencesExt

CONSTANTS AddrBits,   \* 32
          Direct      \* the empty optional: no next hop

NewAsyncInterface(mac, ip) ==
  [mac |-> mac, ip |-> ip, frames_out |-> << >>, cache |-> << >>,
   cache_age |-> << >>, waiting |-> << >>, req_age |-> << >>, reqs |-> << >>,
   datagrams_out |-> << >>]

\* AsyncNetworkInterface::recv_frame keeps the datagram for later.
KeepDatagram(ai, frame) == [ai EXCEPT !.datagrams_out = Append(@, frame.payload)]

async_recv_frame(ai, frame) ==
  IF returns_datagram(ai, frame) THEN KeepDatagram(recv_frame(ai, frame), frame)
  ELSE recv_frame(ai, frame)

Route(prefix, length, next_hop, interface) ==
  [prefix |-> prefix, length |-> length, next_hop |-> next_hop, interface |-> interface]

\* The i-th bit from the most significant one; the mask runs out after the
\* last, so that bits beyond it agree.
Bit(addr, i) == IF i > AddrBits THEN 0 ELSE (addr \div 2^(AddrBits - i)) % 2

match_one_bit_less(dst, entry) ==     \* mutant: the loop stops too early
  \A i \in 1 .. entry.length - 1 : Bit(dst, i) = Bit(entry.prefix, i)

match(dst, entry) ==
  \A i \in 1 .. entry.length : Bit(dst, i) = Bit(entry.prefix, i)

\* One round of the loop over the table: best is the entry found so far.
NoEntry == << >>

Better_last_wins(best, entry, dst) ==     \* mutant: lengths are not compared
  IF match(dst, entry) THEN entry ELSE best

Better(best, entry, dst) ==
  IF match(dst, entry) /\ (best = NoEntry \/ best.length < entry.length)
  THEN entry ELSE best

longest_match(table, dst) ==
  LET best[i \in 0 .. Len(table)] ==
        IF i = 0 THEN NoEntry ELSE Better(best[i - 1], table[i], dst)
  IN  best[Len(table)]

Forward(r, dgram, entry) ==
  [r EXCEPT !.interfaces[entry.interface] =
     send_datagram(@, dgram, IF entry.next_hop = Direct THEN dgram.dst
                             ELSE entry.next_hop)]

Expired(dgram) == dgram.ttl <= 1

\* Mutant: the time to live is not counted down.
route_found_same_ttl(r, dgram, entry) ==
  IF entry = NoEntry THEN r ELSE Forward(r, dgram, entry)

route_found(r, dgram, entry) ==
  IF entry = NoEntry THEN r ELSE Forward(r, [dgram EXCEPT !.ttl = @ - 1], entry)

route_one_datagram(r, dgram) ==
  IF Expired(dgram) THEN r ELSE route_found(r, dgram, longest_match(r.table, dgram.dst))

\* Every interface's queue is emptied, one interface after the other; routing
\* adds nothing to these queues.
route(r) ==
  FoldLeft(route_one_datagram,
           [r EXCEPT !.interfaces = [i \in DOMAIN @ |-> [@[i] EXCEPT !.datagrams_out = << >>]]],
           FlattenSeq([i \in DOMAIN r.interfaces |-> r.interfaces[i].datagrams_out]))
=============================================================================
