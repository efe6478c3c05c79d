-------------------------- MODULE NetworkInterface --------------------------
(***************************************************************************)
(* libsponge/network_interface.{hh,cc} as operators on a record:           *)
(*   mac, ip               _ethernet_address, _ip_address                  *)
(*   frames_out            _frames_out                                     *)
(*   cache, cache_age      _IP_MAC_cache and _time_since_cache             *)
(*   waiting               _waiting_list: next hop -> datagram             *)
(*   req_age, reqs         _time_since_req_send and _reqs                  *)
(* A datagram is any value.  The payload of an ARP frame is a message, or  *)
(* Garbage when it does not parse.                                         *)
(***************************************************************************)
EXTENDS Naturals, Sequences, Functions

CONSTANTS MaxReqTime,      \* MAX_REQ_TIME
          MaxCacheTime,    \* MAX_CACHE_TIME
          AgeMod,          \* 2^32: _time_since_req_send holds a uint32_t
          Broadcast,       \* ETHERNET_BROADCAST
          Garbage          \* a payload that does not parse

\* A request is held back for a shorter time than an answer is remembered.
ASSUME InterfaceAssumption ==
  /\ MaxReqTime \in Nat /\ MaxCacheTime \in Nat /\ AgeMod \in Nat
  /\ 0 < MaxReqTime /\ MaxReqTime <= MaxCacheTime /\ MaxReqTime < AgeMod

NewInterface(mac, ip) ==
  [mac |-> mac, ip |-> ip, frames_out |-> << >>, cache |-> << >>,
   cache_age |-> << >>, waiting |-> << >>, req_age |-> << >>, reqs |-> << >>]

\* Assignment to, and erasure of, an element of a std::map.
Put(map, key, value) ==
  [k \in DOMAIN map \cup {key} |-> IF k = key THEN value ELSE map[k]]
Erase(map, key) == Restrict(map, DOMAIN map \ {key})

Frame(dst, src, type, payload) ==
  [dst |-> dst, src |-> src, type |-> type, payload |-> payload]

\* target_mac is left unset in a request.
RequestFrame(ni, next_hop) ==
  Frame(Broadcast, ni.mac, "ARP",
        [opcode |-> "REQUEST", sender_mac |-> ni.mac, sender_ip |-> ni.ip,
         target_ip |-> next_hop])

ReplyFrame(ni, dst, msg) ==
  Frame(dst, ni.mac, "ARP",
        [opcode |-> "REPLY", sender_mac |-> ni.mac, sender_ip |-> ni.ip,
         target_ip |-> msg.sender_ip])

DatagramFrame(ni, dst, dgram) == Frame(dst, ni.mac, "IPv4", dgram)

Push(ni, frame) == Append(ni.frames_out, frame)

\* Ask again for an address already asked for.
AskAgain_keeps_age(ni, next_hop) ==    \* mutant
  [ni EXCEPT !.frames_out = Push(ni, ni.reqs[next_hop])]

AskAgain(ni, next_hop) ==
  [ni EXCEPT !.req_age = Put(ni.req_age, next_hop, 0),
             !.frames_out = Push(ni, ni.reqs[next_hop])]

\* One datagram waits for each unresolved next hop; others are dropped, but
\* may repeat the request.
send_datagram(ni, dgram, next_hop) ==
  IF next_hop \in DOMAIN ni.cache
  THEN [ni EXCEPT !.frames_out = Push(ni, DatagramFrame(ni, ni.cache[next_hop], dgram))]
  ELSE IF next_hop \notin DOMAIN ni.waiting
  THEN [ni EXCEPT !.waiting = Put(ni.waiting, next_hop, dgram),
                  !.frames_out = Push(ni, RequestFrame(ni, next_hop)),
                  !.req_age = Put(ni.req_age, next_hop, 0),
                  !.reqs = Put(ni.reqs, next_hop, RequestFrame(ni, next_hop))]
  ELSE IF ni.req_age[next_hop] >= MaxReqTime
  THEN AskAgain(ni, next_hop)
  ELSE ni

\* Every ARP message that parses teaches the sender's address.
Learn(ni, msg) ==
  [ni EXCEPT !.cache = Put(ni.cache, msg.sender_ip, msg.sender_mac),
             !.cache_age = Put(ni.cache_age, msg.sender_ip, 0)]

\* Mutant: the age of the request is left behind.
recv_reply_keeps_age(ni, msg) ==
  LET ip == msg.sender_ip
  IN  IF ip \notin DOMAIN ni.waiting THEN Learn(ni, msg)
      ELSE Learn([ni EXCEPT
             !.waiting = Erase(ni.waiting, ip), !.reqs = Erase(ni.reqs, ip),
             !.frames_out = Push(ni, DatagramFrame(ni, msg.sender_mac, ni.waiting[ip]))], msg)

recv_reply(ni, msg) ==
  LET ip == msg.sender_ip
  IN  IF ip \notin DOMAIN ni.waiting THEN Learn(ni, msg)
      ELSE Learn([ni EXCEPT
             !.waiting = Erase(ni.waiting, ip),
             !.req_age = Erase(ni.req_age, ip),
             !.reqs = Erase(ni.reqs, ip),
             !.frames_out = Push(ni, DatagramFrame(ni, msg.sender_mac, ni.waiting[ip]))], msg)

recv_request(ni, src, msg) ==
  IF msg.target_ip # ni.ip THEN Learn(ni, msg)
  ELSE Learn([ni EXCEPT !.frames_out = Push(ni, ReplyFrame(ni, src, msg))], msg)

accepts(ni, frame) == frame.dst \in {Broadcast, ni.mac} /\ frame.payload # Garbage

\* The interface after a frame; the datagram it returns, if any, is below.
recv_frame(ni, frame) ==
  IF ~accepts(ni, frame) \/ frame.type # "ARP" THEN ni
  ELSE IF frame.payload.opcode = "REPLY" THEN recv_reply(ni, frame.payload)
  ELSE recv_request(ni, frame.src, frame.payload)

returns_datagram(ni, frame) == accepts(ni, frame) /\ frame.type = "IPv4"

Expires_late(ni, ip, ms) == ni.cache_age[ip] + ms > MaxCacheTime    \* mutant

Expires(ni, ip, ms) == ni.cache_age[ip] + ms >= MaxCacheTime

tick(ni, ms) ==
  LET kept == {ip \in DOMAIN ni.cache_age : ~Expires(ni, ip, ms)}
  IN  [ni EXCEPT
        !.req_age = [ip \in DOMAIN ni.req_age |-> (ni.req_age[ip] + ms) % AgeMod],
        !.cache = Restrict(ni.cache, DOMAIN ni.cache \ (DOMAIN ni.cache_age \ kept)),
        !.cache_age = [ip \in kept |-> ni.cache_age[ip] + ms]]
=============================================================================
