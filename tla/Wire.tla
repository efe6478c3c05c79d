-------------------------------- MODULE Wire --------------------------------
(***************************************************************************)
(* The bytes on the wire: NetParser and NetUnparser (util/parser.cc), the  *)
(* Internet checksum (util/util.cc), and the IPv4, TCP, Ethernet and ARP   *)
(* formats of libsponge/tcp_helpers.  A format is a layout, the sequence   *)
(* of its fields with their widths in bytes.  Fields of one or two bytes   *)
(* are numbers; wider ones (addresses, sequence numbers) stay the tuple of *)
(* their bytes.                                                            *)
(***************************************************************************)
EXTENDS Naturals, Sequences, SequencesExt, Functions

Zeros(n) == [i \in 1..n |-> 0]

\* The number, or the wide field, that big-endian bytes stand for; and back.
Number(bytes) ==
  CASE Len(bytes) = 1 -> bytes[1]
    [] Len(bytes) = 2 -> 256 * bytes[1] + bytes[2]
    [] OTHER -> bytes
unparse_int(val, len) ==
  CASE len = 1 -> <<val>>
    [] len = 2 -> <<val \div 256, val % 256>>
    [] OTHER -> val

NetParser(buffer) == [buffer |-> buffer, error |-> "NoError"]

check_size(p, size) ==
  IF size > Len(p.buffer) THEN [p EXCEPT !.error = "PacketTooShort"] ELSE p

\* An error sticks, and nothing is consumed after it.
Consume(p, n) ==
  IF p.error # "NoError" THEN p ELSE [p EXCEPT !.buffer = SubSeq(@, n + 1, Len(@))]
remove_prefix(p, n) == Consume(check_size(p, n), n)

\* What u8, u16 and u32 return (remove_prefix(p, len) is what they leave).
parse_int(p, len) ==
  Number(IF check_size(p, len).error # "NoError" THEN Zeros(len)
         ELSE SubSeq(p.buffer, 1, len))

\* The fields of a layout, read and written one after the other.
Fields(p, layout) ==
  FoldLeft(LAMBDA s, f : [p |-> remove_prefix(s.p, f[2]),
                          raw |-> s.raw @@ (f[1] :> parse_int(s.p, f[2]))],
           [p |-> p, raw |-> << >>], layout)
Bytes(raw, layout) ==
  FoldLeft(LAMBDA s, f : s \o unparse_int(raw[f[1]], f[2]), << >>, layout)

\* ret.resize(): header bytes beyond the fields are zero.
Resize(bytes, n) == SubSeq(bytes \o Zeros(n), 1, n)

Flag(n, bit) == (n \div 2 ^ bit) % 2 = 1
FlagBit(set, bit) == IF set THEN 2 ^ bit ELSE 0

-----------------------------------------------------------------------------
(* util.cc: InternetChecksum.                                              *)

\* The bytes add up as 16-bit numbers, the even ones high.
Word(data, i) == 256 * data[2 * i - 1] + (IF 2 * i <= Len(data) THEN data[2 * i] ELSE 0)
Words(data) == [i \in 1..((Len(data) + 1) \div 2) |-> Word(data, i)]
Sum(initial_sum, data) == FoldFunction(+, initial_sum, Words(data))

\* Two rounds bring any sum of 32 bits into 16.
Fold16(sum) == (sum \div 65536) + (sum % 65536)
Folded(sum) == Fold16(Fold16(sum))

Checksum(initial_sum, data) == 65535 - Folded(Sum(initial_sum, data))

-----------------------------------------------------------------------------
(* ipv4_header.{hh,cc}, ipv4_datagram.cc                                   *)

IPv4Layout == << <<"first_byte", 1>>, <<"tos", 1>>, <<"len", 2>>, <<"id", 2>>,
                 <<"fo_val", 2>>, <<"ttl", 1>>, <<"proto", 1>>, <<"cksum", 2>>,
                 <<"src", 4>>, <<"dst", 4>> >>

IPv4Header(src, dst, len) ==
  [ver |-> 4, hlen |-> 5, tos |-> 0, len |-> len, id |-> 0, df |-> TRUE, mf |-> FALSE,
   offset |-> 0, ttl |-> 128, proto |-> 6, cksum |-> 0, src |-> src, dst |-> dst]

IPv4Fields(raw) ==
  [ver |-> raw.first_byte \div 16, hlen |-> raw.first_byte % 16, tos |-> raw.tos,
   len |-> raw.len, id |-> raw.id, df |-> Flag(raw.fo_val, 14), mf |-> Flag(raw.fo_val, 13),
   offset |-> raw.fo_val % 8192, ttl |-> raw.ttl, proto |-> raw.proto,
   cksum |-> raw.cksum, src |-> raw.src, dst |-> raw.dst]

\* The header, the parser behind it, and the result the function returns.
HeaderRead(h, p, result) == [header |-> h, p |-> p, result |-> result]

VerifyIPv4(h, p, serialized) ==
  HeaderRead(h, p, IF p.error # "NoError" THEN p.error
                   ELSE IF Checksum(0, SubSeq(serialized, 1, 4 * h.hlen)) # 0
                   THEN "BadChecksum" ELSE "NoError")

CheckIPv4(h, p, serialized) ==
  IF Len(serialized) < 4 * h.hlen THEN HeaderRead(h, p, "PacketTooShort")
  ELSE IF h.ver # 4 THEN HeaderRead(h, p, "WrongIPVersion")
  ELSE IF h.hlen < 5 THEN HeaderRead(h, p, "HeaderTooShort")
  ELSE IF Len(serialized) # h.len THEN HeaderRead(h, p, "TruncatedPacket")
  ELSE VerifyIPv4(h, remove_prefix(p, 4 * h.hlen - 20), serialized)

CheckIPv4Fields(read, serialized) == CheckIPv4(IPv4Fields(read.raw), read.p, serialized)

IPv4HeaderParse(p) ==
  IF Len(p.buffer) < 20
  THEN HeaderRead(IPv4Header(Zeros(4), Zeros(4), 0), p, "PacketTooShort")
  ELSE CheckIPv4Fields(Fields(p, IPv4Layout), p.buffer)

IPv4HeaderBytes(h) ==
  Resize(Bytes([first_byte |-> 16 * h.ver + h.hlen, tos |-> h.tos, len |-> h.len, id |-> h.id,
                fo_val |-> FlagBit(h.df, 14) + FlagBit(h.mf, 13) + h.offset, ttl |-> h.ttl,
                proto |-> h.proto, cksum |-> h.cksum, src |-> h.src, dst |-> h.dst],
               IPv4Layout),
         4 * h.hlen)

payload_length(h) == (65536 + h.len - 4 * h.hlen) % 65536

\* Mutant: the addresses are left out.
pseudo_cksum_no_addresses(h) == h.proto + payload_length(h)

pseudo_cksum(h) ==
  Sum(0, h.src) + Sum(0, h.dst) + h.proto + payload_length(h)

\* What the header's own parse returns is ignored: only the length and an
\* error of the parser count.
DatagramRead(read) ==
  [header |-> read.header, payload |-> read.p.buffer,
   result |-> IF Len(read.p.buffer) # payload_length(read.header) THEN "PacketTooShort"
              ELSE read.p.error]
IPv4DatagramParse(buffer) == DatagramRead(IPv4HeaderParse(NetParser(buffer)))

IPv4DatagramBytes(dgram) ==
  LET cksum == Checksum(0, IPv4HeaderBytes([dgram.header EXCEPT !.cksum = 0]))
  IN  IPv4HeaderBytes([dgram.header EXCEPT !.cksum = cksum]) \o dgram.payload

-----------------------------------------------------------------------------
(* tcp_header.cc, tcp_segment.cc                                           *)

TCPLayout == << <<"sport", 2>>, <<"dport", 2>>, <<"seqno", 4>>, <<"ackno", 4>>,
                <<"offset", 1>>, <<"fl_b", 1>>, <<"win", 2>>, <<"cksum", 2>>, <<"uptr", 2>> >>

TCPFields(raw) ==
  [sport |-> raw.sport, dport |-> raw.dport, seqno |-> raw.seqno, ackno |-> raw.ackno,
   doff |-> raw.offset \div 16, urg |-> Flag(raw.fl_b, 5), ack |-> Flag(raw.fl_b, 4),
   psh |-> Flag(raw.fl_b, 3), rst |-> Flag(raw.fl_b, 2), syn |-> Flag(raw.fl_b, 1),
   fin |-> Flag(raw.fl_b, 0), win |-> raw.win, cksum |-> raw.cksum, uptr |-> raw.uptr]

\* A data offset below 5 leaves the parser, and so the payload, behind the
\* fixed fields.
SkipOptions(h, p) ==
  [header |-> h, p |-> IF h.doff < 5 THEN p ELSE remove_prefix(p, 4 * h.doff - 20)]
TCPFieldsRead(read) == SkipOptions(TCPFields(read.raw), read.p)
TCPHeaderParse(p) == TCPFieldsRead(Fields(p, TCPLayout))

TCPHeaderBytes(h) ==
  Resize(Bytes([sport |-> h.sport, dport |-> h.dport, seqno |-> h.seqno, ackno |-> h.ackno,
                offset |-> 16 * h.doff,
                fl_b |-> FlagBit(h.urg, 5) + FlagBit(h.ack, 4) + FlagBit(h.psh, 3)
                         + FlagBit(h.rst, 2) + FlagBit(h.syn, 1) + FlagBit(h.fin, 0),
                win |-> h.win, cksum |-> h.cksum, uptr |-> h.uptr],
               TCPLayout),
         4 * h.doff)

SegmentRead(read) ==
  [header |-> read.header, payload |-> read.p.buffer, result |-> read.p.error]
TCPSegmentParse(buffer, datagram_layer_checksum) ==
  IF Checksum(datagram_layer_checksum, buffer) # 0 THEN [result |-> "BadChecksum"]
  ELSE SegmentRead(TCPHeaderParse(NetParser(buffer)))

TCPSegmentBytes(seg, datagram_layer_checksum) ==
  LET cksum == Checksum(datagram_layer_checksum,
                        TCPHeaderBytes([seg.header EXCEPT !.cksum = 0]) \o seg.payload)
  IN  TCPHeaderBytes([seg.header EXCEPT !.cksum = cksum]) \o seg.payload

-----------------------------------------------------------------------------
(* ethernet_header.cc, ethernet_frame.cc, arp_message.cc                   *)

EthernetLayout == << <<"dst", 6>>, <<"src", 6>>, <<"type", 2>> >>
TYPE_IPv4 == 2048
TYPE_ARP == 2054

\* A frame too short for its header parses without an error, with the header
\* left as it was (here: zero, no frame's address).
FrameRead(read) == [header |-> read.raw, payload |-> read.p.buffer]
EthernetFrameParse(buffer) ==
  IF Len(buffer) < 14
  THEN [header |-> [dst |-> Zeros(6), src |-> Zeros(6), type |-> 0], payload |-> buffer]
  ELSE FrameRead(Fields(NetParser(buffer), EthernetLayout))

EthernetFrameBytes(frame) == Bytes(frame.header, EthernetLayout) \o frame.payload

ARPLayout == << <<"hardware_type", 2>>, <<"protocol_type", 2>>, <<"hardware_address_size", 1>>,
                <<"protocol_address_size", 1>>, <<"opcode", 2>>,
                <<"sender_ethernet_address", 6>>, <<"sender_ip_address", 4>>,
                <<"target_ethernet_address", 6>>, <<"target_ip_address", 4>> >>
OPCODE_REQUEST == 1
OPCODE_REPLY == 2

ARPMessage(opcode, sender_mac, sender_ip, target_mac, target_ip) ==
  [hardware_type |-> 1, protocol_type |-> TYPE_IPv4, hardware_address_size |-> 6,
   protocol_address_size |-> 4, opcode |-> opcode,
   sender_ethernet_address |-> sender_mac, sender_ip_address |-> sender_ip,
   target_ethernet_address |-> target_mac, target_ip_address |-> target_ip]

supported(m) ==
  /\ m.hardware_type = 1 /\ m.protocol_type = TYPE_IPv4
  /\ m.hardware_address_size = 6 /\ m.protocol_address_size = 4
  /\ m.opcode \in {OPCODE_REQUEST, OPCODE_REPLY}

MessageRead(read) ==
  IF ~supported(read.raw) THEN [result |-> "Unsupported"]
  ELSE [message |-> read.raw, result |-> read.p.error]
ARPMessageParse(buffer) ==
  IF Len(buffer) < 28 THEN [result |-> "PacketTooShort"]
  ELSE MessageRead(Fields(NetParser(buffer), ARPLayout))

ARPMessageBytes(m) == Bytes(m, ARPLayout)
=============================================================================
