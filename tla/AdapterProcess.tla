--------------------------- MODULE AdapterProcess ---------------------------
(***************************************************************************)
(* One adapter, listening or connected, and several peers that have an     *)
(* adapter connected to it.  One packet at a time is on its way in (wire); *)
(* it may be lost or have a byte changed.  What the adapter sends (out)    *)
(* arrives whole: at the address it is sent to (UDP), at every peer (TUN), *)
(* or at a router that answers ARP requests and forwards datagrams (TAP).  *)
(***************************************************************************)
EXTENDS Adapter, FiniteSets

CONSTANTS Kind,                 \* the kinds of adapter
          Peer, PeerAddress,    \* the peers; peer -> [ip, port]
          Local,                \* this side's [ip, port]
          LocalMac, RouterMac, RouterIp,
          Segments, Replies,    \* what the peers, and this side, write
          Deltas,               \* what is added to a damaged byte
          MaxPacket,            \* bytes of the longest packet
          TickMs, NoPeer

VARIABLES
  a,            \* the adapter
  wire,         \* [packet, from, seg, whole], or Nothing
  out,          \* packets written to the device: [to, packet]
  knocked,      \* peers that sent a SYN without RST while it listened
  heard,        \* peers whose segments have been handed up
  handed,       \* the last read(): what it got and what it returned
  reached       \* the last packet to arrive: <<peer, segment>> handed up there

vars == <<a, wire, out, knocked, heard, handed, reached>>

Nothing == [packet |-> << >>, from |-> NoPeer, seg |-> NoSegment, whole |-> TRUE]
Unread == [segment |-> NoSegment, sent |-> NoSegment, from |-> NoPeer, due |-> FALSE]
Unknown == [ip |-> Zeros(4), port |-> 0]

\* The frame without contents that the TAP adapter's constructor writes first
\* says nothing to anyone and is left out.
NewAdapter(kind, source, destination, listening) ==
  [kind |-> kind, source |-> source, destination |-> destination, listening |-> listening,
   interface |-> NewInterface(LocalMac, Local.ip), next_hop |-> RouterIp]

\* A peer's adapter; behind the router, datagrams are bare.
PeerAdapter(p) ==
  NewAdapter(IF a.kind = "udp" THEN "udp" ELSE "tun", PeerAddress[p], Local, FALSE)

Ethernet(bytes) ==
  EthernetFrameBytes([header |-> [dst |-> LocalMac, src |-> RouterMac, type |-> TYPE_IPv4],
                      payload |-> bytes])

PacketOf(p, seg) ==
  CASE a.kind = "udp" -> [source_address |-> PeerAddress[p],
                          payload |-> udp_write(PeerAdapter(p), seg)]
    [] a.kind = "tun" -> tun_write(PeerAdapter(p), seg)
    [] a.kind = "tap" -> Ethernet(tun_write(PeerAdapter(p), seg))

Router == NewInterface(RouterMac, RouterIp)

\* Segments as TCP sees them: the adapters fill in ports and checksum.
Same(s, t) ==
  /\ s.payload = t.payload
  /\ [s.header EXCEPT !.sport = 0, !.dport = 0, !.cksum = 0]
       = [t.header EXCEPT !.sport = 0, !.dport = 0, !.cksum = 0]

-----------------------------------------------------------------------------
Init ==
  /\ \E kind \in Kind :
       \/ /\ a = NewAdapter(kind, [Local EXCEPT !.ip = Zeros(4)], Unknown, TRUE)
          /\ knocked = {}
       \/ \E p \in Peer : /\ a = NewAdapter(kind, Local, PeerAddress[p], FALSE)
                          /\ knocked = {p}
  /\ wire = Nothing /\ out = << >> /\ heard = {} /\ handed = Unread
  /\ reached = {}

\* A peer writes a segment.
PeerWrites(p, seg) ==
  /\ wire = Nothing /\ out = << >>
  /\ wire' = [packet |-> PacketOf(p, seg), from |-> p, seg |-> seg, whole |-> TRUE]
  /\ knocked' = IF a.listening /\ Adopts(seg) THEN knocked \cup {p} ELSE knocked
  /\ handed' = Unread /\ reached' = {}
  /\ UNCHANGED <<a, out, heard>>

\* The router wants to know this side's Ethernet address.
RouterAsks ==
  /\ a.kind = "tap" /\ wire = Nothing /\ out = << >>
  /\ wire' = [Nothing EXCEPT !.packet = FrameBytes(RequestFrame(Router, Local.ip))]
  /\ handed' = Unread /\ reached' = {}
  /\ UNCHANGED <<a, out, knocked, heard>>

Damaged(bytes, i, d) == [bytes EXCEPT ![i] = (@ + d) % 256]

\* One byte of the datagram changes; a frame's own header is covered by
\* Ethernet's checksum.
Damage(i, d) ==
  /\ wire.from # NoPeer /\ wire.whole
  /\ IF a.kind = "udp"
     THEN /\ i \in DOMAIN wire.packet.payload
          /\ wire' = [wire EXCEPT !.packet.payload = Damaged(@, i, d), !.whole = FALSE]
     ELSE /\ i \in DOMAIN wire.packet /\ (a.kind = "tap" => i > 14)
          /\ wire' = [wire EXCEPT !.packet = Damaged(@, i, d), !.whole = FALSE]
  /\ UNCHANGED <<a, out, knocked, heard, handed, reached>>

Lose ==
  /\ wire # Nothing /\ wire.whole
  /\ wire' = Nothing
  /\ UNCHANGED <<a, out, knocked, heard, handed, reached>>

\* Should read() return what is on the wire?
Due(should_drop) ==
  /\ wire.from # NoPeer /\ wire.whole /\ ~should_drop
  /\ IF a.listening THEN Adopts(wire.seg) ELSE PeerAddress[wire.from] = a.destination

ToDevice(packets) ==
  [i \in DOMAIN packets |-> [to |-> a.destination, packet |-> packets[i]]]

Read(should_drop) ==
  /\ wire # Nothing /\ out = << >> /\ (a.kind = "tap" => ~should_drop)
  /\ \E got \in {lossy_read(a, wire.packet, should_drop)} :
       /\ a' = send_pending(got.adapter)
       /\ out' = ToDevice(Pending(got.adapter))
       /\ handed' = [segment |-> got.segment, sent |-> wire.seg, from |-> wire.from,
                     due |-> Due(should_drop)]
       /\ heard' = IF got.segment = NoSegment THEN heard ELSE heard \cup {wire.from}
  /\ wire' = Nothing /\ reached' = {}
  /\ UNCHANGED knocked

\* The connection's segments: it sends none while the adapter listens.
Write(seg, should_drop) ==
  /\ ~a.listening /\ out = << >> /\ wire = Nothing /\ (a.kind = "tap" => ~should_drop)
  /\ a' = IF should_drop THEN a ELSE write(a, seg)
  /\ out' = IF should_drop THEN << >>
            ELSE ToDevice(Written(a, seg))
  /\ handed' = Unread /\ reached' = {}
  /\ UNCHANGED <<wire, knocked, heard>>

\* Time passes; a packet from a peer is as good before as after it.
Tick ==
  /\ a.kind = "tap" /\ wire.from = NoPeer
  /\ a' = tap_tick(a, TickMs)
  /\ handed' = Unread /\ reached' = {}
  /\ UNCHANGED <<wire, out, knocked, heard>>

\* What the peers make of a packet that arrives there.
HandedUpAt(p, packet) ==
  CASE a.kind = "udp" -> read(PeerAdapter(p), [source_address |-> Local, payload |-> packet]).segment
    [] a.kind = "tun" -> read(PeerAdapter(p), packet).segment
    [] a.kind = "tap" -> read(PeerAdapter(p), EthernetFrameParse(packet).payload).segment
Reaches(p, to) == a.kind = "udp" => PeerAddress[p] = to

IsARP(packet) == a.kind = "tap" /\ EthernetFrameParse(packet).header.type = TYPE_ARP

\* A packet arrives at the peers.
Arrive ==
  /\ out # << >> /\ ~IsARP(Head(out).packet)
  /\ reached' = {r \in {<<p, HandedUpAt(p, Head(out).packet)>> :
                           p \in {q \in Peer : Reaches(q, Head(out).to)}} :
                   r[2] # NoSegment}
  /\ out' = Tail(out)
  /\ UNCHANGED <<a, wire, knocked, heard, handed>>

\* An ARP message arrives at the router, which answers a request.
RouterAnswers ==
  /\ out # << >> /\ IsARP(Head(out).packet) /\ wire = Nothing
  /\ \E frames \in {recv_frame(Router, FrameOf(Head(out).packet)).frames_out} :
       wire' = IF frames = << >> THEN Nothing
               ELSE [Nothing EXCEPT !.packet = FrameBytes(Head(frames))]
  /\ out' = Tail(out)
  /\ UNCHANGED <<a, knocked, heard, handed, reached>>

Next ==
  \/ \E p \in Peer, seg \in Segments : PeerWrites(p, seg)
  \/ RouterAsks
  \/ \E i \in 1..MaxPacket, d \in Deltas : Damage(i, d)
  \/ Lose
  \/ \E should_drop \in BOOLEAN : Read(should_drop)
  \/ \E seg \in Replies, should_drop \in BOOLEAN : Write(seg, should_drop)
  \/ Tick
  \/ Arrive
  \/ RouterAnswers

Spec == Init /\ [][Next]_vars

-----------------------------------------------------------------------------
(* Properties                                                              *)

\* What read() hands up is what its peer wrote, even when a byte was changed
\* on the way: every byte a segment or its addresses depend on is covered by
\* the TCP checksum and the pseudo header, although IPv4Datagram::parse
\* ignores what the IP header's own checks return.
OnlyWhatWasSent ==
  handed.segment # NoSegment =>
    /\ handed.from # NoPeer
    /\ Same(handed.segment, handed.sent)
    /\ PeerAddress[handed.from] = a.destination

\* An adapter serves one peer: once it has adopted one that sent a SYN without
\* RST (or was connected to it), it hands up no other's segments, whether they
\* come from another address or from another port of the same one.
OnePeer ==
  IF a.listening THEN heard = {}
  ELSE \E p \in knocked : PeerAddress[p] = a.destination /\ heard \subseteq {p}

\* A segment of the peer that arrives undamaged, or the SYN a listening
\* adapter waits for, is handed up: the filters and the two checksums refuse
\* nothing of their own making, and a SYN that the lossy adapter dropped after
\* it was adopted is handed up when it is repeated.
HandsUp == handed.due => handed.segment # NoSegment

\* Every packet that is written arrives at the peer that was adopted, as it was
\* written: nothing is refused there, and no other peer hands it up.  The
\* address to reply from is the one the peer contacted.  On a TAP device this
\* includes the datagram that waited for ARP.
RepliesReachThePeer ==
  [][Arrive => /\ reached' # {}
               /\ \A r \in reached' : /\ PeerAddress[r[1]] = a.destination
                                     /\ \E seg \in Replies : Same(r[2], seg)]_vars
=============================================================================
