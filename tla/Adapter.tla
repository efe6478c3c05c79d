------------------------------ MODULE Adapter -------------------------------
(***************************************************************************)
(* The adapters that carry TCP segments in datagrams: in UDP payloads      *)
(* (tcp_helpers/fd_adapter.{hh,cc}), in IPv4 datagrams of a TUN device, in *)
(* Ethernet frames of a TAP device (tuntap_adapter.{hh,cc}, tcp_over_ip.cc)*)
(* and the lossy wrapper (lossy_fd_adapter.hh).  An adapter is a record:   *)
(*   kind                  "udp", "tun" or "tap"                           *)
(*   source, destination   config(): [ip, port]                            *)
(*   listening             _listen                                         *)
(*   interface, next_hop   _interface, _next_hop (used by "tap" only)      *)
(* What read() gets is a UDP datagram [source_address, payload], the bytes *)
(* of an IPv4 datagram, or those of an Ethernet frame.                     *)
(***************************************************************************)
EXTENDS Wire, NetworkInterface

CONSTANT NoSegment

\* read() as a pair: the adapter it leaves and what it returns.
Returns(a, seg) == [adapter |-> a, segment |-> seg]

\* While listening: should we target this source in all future replies?
Adopts(seg) == seg.header.syn /\ ~seg.header.rst

\* Mutant: the adapter goes on listening.
Adopt_keeps_listening(a, source, destination) ==
  [a EXCEPT !.source = source, !.destination = destination]

\* Mutant: the address the peer contacted is not kept.
Adopt_keeps_source(a, source, destination) ==
  [a EXCEPT !.destination = destination, !.listening = FALSE]

Adopt(a, source, destination) ==
  [a EXCEPT !.source = source, !.destination = destination, !.listening = FALSE]

Segment(parsed) == [header |-> parsed.header, payload |-> parsed.payload]

-----------------------------------------------------------------------------
(* TCPOverUDPSocketAdapter: the ports of the TCP header are not looked at. *)

UDPParsed(a, parsed, source_address) ==
  IF parsed.result # "NoError" THEN Returns(a, NoSegment)
  ELSE IF ~a.listening THEN Returns(a, Segment(parsed))
  ELSE IF Adopts(parsed) THEN Returns(Adopt(a, a.source, source_address), Segment(parsed))
  ELSE Returns(a, NoSegment)
udp_read(a, datagram) ==
  IF ~a.listening /\ datagram.source_address # a.destination THEN Returns(a, NoSegment)
  ELSE UDPParsed(a, TCPSegmentParse(datagram.payload, 0), datagram.source_address)

WithPorts(a, seg) ==
  [seg EXCEPT !.header.sport = a.source.port, !.header.dport = a.destination.port]

udp_write(a, seg) == TCPSegmentBytes(WithPorts(a, seg), 0)

-----------------------------------------------------------------------------
(* TCPOverIPv4Adapter                                                      *)

\* Mutant: another port of this host is good enough.
ForUs_any_port(a, seg) == TRUE

ForUs(a, seg) == seg.header.dport = a.source.port

FromPeer(a, seg) == seg.header.sport = a.destination.port

IPParsed(a, h, parsed) ==
  IF parsed.result # "NoError" THEN Returns(a, NoSegment)
  ELSE IF ~ForUs(a, parsed) THEN Returns(a, NoSegment)
  ELSE IF a.listening /\ Adopts(parsed)
  THEN Returns(Adopt(a, [ip |-> h.dst, port |-> a.source.port],
                        [ip |-> h.src, port |-> parsed.header.sport]), Segment(parsed))
  ELSE IF a.listening \/ ~FromPeer(a, parsed) THEN Returns(a, NoSegment)
  ELSE Returns(a, Segment(parsed))
unwrap_tcp_in_ip(a, dgram) ==
  IF \/ ~a.listening /\ dgram.header.dst # a.source.ip
     \/ ~a.listening /\ dgram.header.src # a.destination.ip
     \/ dgram.header.proto # 6
  THEN Returns(a, NoSegment)
  ELSE IPParsed(a, dgram.header, TCPSegmentParse(dgram.payload, pseudo_cksum(dgram.header)))

Wrapped(h, seg) == [header |-> h, payload |-> TCPSegmentBytes(seg, pseudo_cksum(h))]
wrap_tcp_in_ip(a, seg) ==
  Wrapped(IPv4Header(a.source.ip, a.destination.ip,
                     20 + 4 * seg.header.doff + Len(seg.payload)),
          WithPorts(a, seg))

-----------------------------------------------------------------------------
(* TCPOverIPv4OverTunFdAdapter                                             *)

DatagramParsed(a, dgram) ==
  IF dgram.result # "NoError" THEN Returns(a, NoSegment) ELSE unwrap_tcp_in_ip(a, dgram)
tun_read(a, bytes) == DatagramParsed(a, IPv4DatagramParse(bytes))

tun_write(a, seg) == IPv4DatagramBytes(wrap_tcp_in_ip(a, seg))

-----------------------------------------------------------------------------
(* TCPOverIPv4OverEthernetAdapter.  The frames of NetworkInterface have    *)
(* parsed payloads: FrameOf and FrameBytes are the conversions its         *)
(* recv_frame and send_datagram make.  The target's Ethernet address of an *)
(* ARP message, which nothing reads, is unset in a request.                *)

DatagramOf(dgram) == IF dgram.result # "NoError" THEN Garbage ELSE dgram
MessageOf(arp) ==
  IF arp.result # "NoError" THEN Garbage
  ELSE [opcode |-> IF arp.message.opcode = OPCODE_REPLY THEN "REPLY" ELSE "REQUEST",
        sender_mac |-> arp.message.sender_ethernet_address,
        sender_ip |-> arp.message.sender_ip_address,
        target_ip |-> arp.message.target_ip_address]

FrameRecord(h, payload) ==
  CASE h.type = TYPE_IPv4 -> Frame(h.dst, h.src, "IPv4", DatagramOf(IPv4DatagramParse(payload)))
    [] h.type = TYPE_ARP -> Frame(h.dst, h.src, "ARP", MessageOf(ARPMessageParse(payload)))
    [] OTHER -> Frame(h.dst, h.src, "other", Garbage)
ParsedFrame(frame) == FrameRecord(frame.header, frame.payload)
FrameOf(bytes) == ParsedFrame(EthernetFrameParse(bytes))

FrameBytes(frame) ==
  LET m == frame.payload
      IsRequest == m.opcode = "REQUEST"
  IN  EthernetFrameBytes(
        [header |-> [dst |-> frame.dst, src |-> frame.src,
                     type |-> IF frame.type = "ARP" THEN TYPE_ARP ELSE TYPE_IPv4],
         payload |-> IF frame.type = "IPv4" THEN IPv4DatagramBytes(m)
                     ELSE ARPMessageBytes(
                            ARPMessage(IF IsRequest THEN OPCODE_REQUEST ELSE OPCODE_REPLY,
                                       m.sender_mac, m.sender_ip,
                                       IF IsRequest THEN Zeros(6) ELSE frame.dst,
                                       m.target_ip))])

\* send_pending() empties frames_out: the frames it writes, and the rest.
Serialized(frames) == [i \in DOMAIN frames |-> FrameBytes(frames[i])]
Pending(a) == Serialized(a.interface.frames_out)
send_pending(a) == [a EXCEPT !.interface.frames_out = << >>]

\* The adapter with the frames of a read still to be written.
Receive(a, frame) ==
  IF returns_datagram(a.interface, frame) THEN unwrap_tcp_in_ip(a, frame.payload)
  ELSE Returns([a EXCEPT !.interface = recv_frame(@, frame)], NoSegment)
tap_read(a, bytes) == Receive(a, FrameOf(bytes))

tap_write(a, seg) ==
  [a EXCEPT !.interface = send_datagram(@, wrap_tcp_in_ip(a, seg), a.next_hop)]

tap_tick(a, ms) == [a EXCEPT !.interface = tick(@, ms)]

-----------------------------------------------------------------------------
(* LossyFdAdapter: read() drops what has already been read, write() drops  *)
(* before it writes; FullStackSocket uses its TAP adapter without it.      *)

read(a, packet) ==
  CASE a.kind = "udp" -> udp_read(a, packet)
    [] a.kind = "tun" -> tun_read(a, packet)
    [] a.kind = "tap" -> tap_read(a, packet)

Drop(got, should_drop) == IF should_drop THEN Returns(got.adapter, NoSegment) ELSE got
lossy_read(a, packet, should_drop) == Drop(read(a, packet), should_drop)

\* The packets a write puts on the device, and the adapter it leaves.
Written(a, seg) ==
  CASE a.kind = "udp" -> <<udp_write(a, seg)>>
    [] a.kind = "tun" -> <<tun_write(a, seg)>>
    [] a.kind = "tap" -> Pending(tap_write(a, seg))
write(a, seg) == IF a.kind = "tap" THEN send_pending(tap_write(a, seg)) ELSE a
=============================================================================
