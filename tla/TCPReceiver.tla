----------------------------- MODULE TCPReceiver ----------------------------
(***************************************************************************)
(* libsponge/tcp_receiver.{hh,cc} as operators on a record:                *)
(*   reassembler   _reassembler, which owns the inbound stream             *)
(*   isn, isn_set  the peer's initial sequence number, once known          *)
(***************************************************************************)
EXTENDS StreamReassembler, WrappingIntegers, TCPSegment

NewReceiver(cap) ==
  [reassembler |-> NewReassembler(cap), isn |-> 0, isn_set |-> FALSE]

stream_out(rcv) == rcv.reassembler.output

\* Mutant: every segment is taken for the next in order.
segment_received_in_order(rcv, seg) ==
  IF ~ (seg.syn \/ rcv.isn_set) THEN rcv
  ELSE [isn |-> IF seg.syn THEN seg.seqno ELSE rcv.isn, isn_set |-> TRUE,
        reassembler |-> push_substring(rcv.reassembler, seg.payload,
                                       stream_out(rcv).written, seg.fin)]

\* Every SYN sets the ISN anew.  A number at or before the ISN itself gives
\* the index 2^64 - 1 (an unsigned 0 - 1), which the reassembler refuses.
segment_received(rcv, seg) ==
  LET isn == IF seg.syn THEN seg.seqno ELSE rcv.isn
      data_seqno == IF seg.syn THEN wrap(1, isn) ELSE seg.seqno
      index == (unwrap(data_seqno, isn, stream_out(rcv).written) - 1) % SizeMod
  IN  IF ~ (seg.syn \/ rcv.isn_set) THEN rcv
      ELSE [isn |-> isn, isn_set |-> TRUE,
            reassembler |-> push_substring(rcv.reassembler, seg.payload, index, seg.fin)]

\* ackno().has_value()
has_ackno(rcv) == rcv.isn_set

\* The absolute number of the first byte not received: the SYN is number 0
\* and the FIN comes after the last byte.
absolute_ackno(rcv) ==
  stream_out(rcv).written + (IF stream_out(rcv).input_end THEN 2 ELSE 1)

ackno(rcv) == wrap(absolute_ackno(rcv), rcv.isn)

window_size_ignores_buffer(rcv) == stream_out(rcv).capacity    \* mutant

window_size(rcv) == remaining_capacity(stream_out(rcv))
=============================================================================
