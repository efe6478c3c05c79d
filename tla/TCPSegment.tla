----------------------------- MODULE TCPSegment -----------------------------
(***************************************************************************)
(* The parts of a TCP segment the endpoints act on (tcp_helpers/           *)
(* tcp_header.hh, tcp_segment.{hh,cc}).                                    *)
(***************************************************************************)
EXTENDS Naturals, Sequences

\* A default-constructed segment, with its sequence number filled in.
Segment(seqno) ==
  [seqno |-> seqno, syn |-> FALSE, fin |-> FALSE, rst |-> FALSE,
   ack |-> FALSE, ackno |-> 0, win |-> 0, payload |-> << >>]

length_in_sequence_space(seg) ==
  Len(seg.payload) + (IF seg.syn THEN 1 ELSE 0) + (IF seg.fin THEN 1 ELSE 0)
=============================================================================
