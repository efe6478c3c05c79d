---------------------------- MODULE TCPConnection ---------------------------
(***************************************************************************)
(* libsponge/tcp_connection.{hh,cc} as operators on a record:              *)
(*   receiver, sender   the two halves of the endpoint                     *)
(*   segments_out       segments for the owner to put on the wire          *)
(*   linger             _linger_after_streams_finish                       *)
(*   since              _time_since_last_seg_rec                           *)
(***************************************************************************)
EXTENDS Naturals, Sequences

CONSTANTS SeqnoMod,     \* 2^32
          SizeMod,      \* 2^64
          WinMod,       \* 2^16: the range of the header's window field
          MaxPayload,   \* TCPConfig::MAX_PAYLOAD_SIZE
          RtTimeout,    \* _cfg.rt_timeout
          MaxRetx       \* TCPConfig::MAX_RETX_ATTEMPTS

ASSUME ConnectionAssumption ==
  /\ {SeqnoMod, SizeMod, WinMod, MaxPayload, RtTimeout} \subseteq Nat \ {0}
  /\ MaxRetx \in Nat

Stream == INSTANCE ByteStream
Segment == INSTANCE TCPSegment
Sender == INSTANCE TCPSender
Receiver == INSTANCE TCPReceiver

NewConnection(send_capacity, recv_capacity, isn) ==
  [receiver |-> Receiver!NewReceiver(recv_capacity),
   sender |-> Sender!NewSender(send_capacity, RtTimeout, isn),
   segments_out |-> << >>, linger |-> TRUE, since |-> 0]

inbound_stream(c) == Receiver!stream_out(c.receiver)

\* The acknowledgment fields, which the sender leaves to the connection.
WithAck(c, seg) ==
  IF Receiver!has_ackno(c.receiver)
  THEN [seg EXCEPT !.ack = TRUE, !.ackno = Receiver!ackno(c.receiver),
                   !.win = Receiver!window_size(c.receiver) % WinMod]
  ELSE seg

send_all_segs(c) ==
  LET out == c.sender.segments_out
  IN  [c EXCEPT !.segments_out = @ \o [i \in DOMAIN out |-> WithAck(c, out[i])],
                !.sender.segments_out = << >>]

\* send_empty_segment, unless the sender has something to carry the ACK.
EnsureSegment(s) ==
  IF s.segments_out = << >> THEN Sender!send_empty_segment(s) ELSE s

\* The reset carries the sender's front segment, which stays queued.
QueueReset(c) ==
  [c EXCEPT !.segments_out =
     Append(@, [WithAck(c, Head(c.sender.segments_out)) EXCEPT !.rst = TRUE])]

send_rst_seg(c) == QueueReset([c EXCEPT !.sender = EnsureSegment(@)])

set_errors(c) ==
  [c EXCEPT !.sender.stream = Stream!set_error(@),
            !.receiver.reassembler.output = Stream!set_error(@)]

time_wait_state_unacked(c) ==    \* mutant: bytes_in_flight is not looked at
  /\ Stream!eof(inbound_stream(c))
  /\ Stream!eof(c.sender.stream)
  /\ c.sender.next_seqno = c.sender.stream.written + 2
  /\ ~c.sender.zero_win_seg_send

time_wait_state(c) ==
  /\ Stream!eof(inbound_stream(c))
  /\ Stream!eof(c.sender.stream)
  /\ Sender!bytes_in_flight(c.sender) = 0
  /\ c.sender.next_seqno = c.sender.stream.written + 2
  /\ ~c.sender.zero_win_seg_send

connection_establish(c) ==
  /\ Receiver!has_ackno(c.receiver)
  /\ c.sender.next_seqno > Sender!bytes_in_flight(c.sender)

active(c) ==
  /\ ~ (c.sender.stream.error /\ inbound_stream(c).error)
  /\ time_wait_state(c) => c.linger /\ c.since < 10 * RtTimeout

\* The SYN goes out as it is.
QueueSyn(c) ==
  [c EXCEPT !.sender.segments_out = Tail(@),
            !.segments_out = Append(@, Head(c.sender.segments_out))]

connect(c) == QueueSyn([c EXCEPT !.sender = Sender!fill_window(@)])

SendIfEstablished(c) ==
  IF connection_establish(c)
  THEN send_all_segs([c EXCEPT !.sender = Sender!fill_window(@)]) ELSE c

write(c, data) == SendIfEstablished([c EXCEPT !.sender.stream = Stream!write(@, data)])

end_input_stream(c) ==
  LET ended == [c.sender EXCEPT !.stream = Stream!end_input(@)]
  IN  send_all_segs([c EXCEPT !.sender = Sender!fill_window(ended)])

\* The sender hears the acknowledgment, and once it has sent its SYN answers
\* with whatever the window allows.
FillIfStarted(s) == IF s.next_seqno # 0 THEN Sender!fill_window(s) ELSE s

HearAck(s, seg) ==
  IF seg.ack THEN FillIfStarted(Sender!ack_received(s, seg.ackno, seg.win)) ELSE s

Hear(c, seg) ==
  [c EXCEPT !.receiver = Receiver!segment_received(@, seg), !.sender = HearAck(@, seg)]

\* A segment that occupies sequence numbers is answered: by the SYN if this
\* endpoint was listening, and by an empty ACK if there is nothing else.
SynIfListening(s) == IF s.next_seqno = 0 THEN Sender!fill_window(s) ELSE s

Answer(c, seg) ==
  IF Segment!length_in_sequence_space(seg) > 0 /\ Receiver!has_ackno(c.receiver)
  THEN [c EXCEPT !.sender = EnsureSegment(SynIfListening(@))] ELSE c

\* The peer has ended its stream before this end has: no need to linger.
PassiveClose_any_order(c) == inbound_stream(c).input_end    \* mutant

PassiveClose(c) == inbound_stream(c).input_end /\ ~c.sender.stream.input_end

NoteClosing(c) ==
  [c EXCEPT !.since = IF time_wait_state(c) THEN 0 ELSE @,
            !.linger = @ /\ ~PassiveClose(c)]

\* An empty segment one before the expected number is answered, too.
KeepAlive(c, seg) ==
  IF /\ Segment!length_in_sequence_space(seg) = 0
     /\ Receiver!has_ackno(c.receiver)
     /\ seg.seqno = (Receiver!ackno(c.receiver) + SeqnoMod - 1) % SeqnoMod
  THEN send_all_segs([c EXCEPT !.sender = Sender!send_empty_segment(@)]) ELSE c

segment_received(c, seg) ==
  IF ~active(c) THEN c
  ELSE IF seg.rst THEN set_errors(c)
  ELSE KeepAlive(send_all_segs(Answer(NoteClosing(Hear(c, seg)), seg)), seg)

Age(c, ms) == [c EXCEPT !.since = IF time_wait_state(c) THEN @ + ms ELSE @]

SendOrGiveUp(c) ==
  IF Sender!consecutive_retransmissions(c.sender) > MaxRetx THEN send_rst_seg(set_errors(c))
  ELSE IF active(c) THEN send_all_segs(c) ELSE c

tick(c, ms) ==
  IF active(c) THEN SendOrGiveUp(Age([c EXCEPT !.sender = Sender!tick(@, ms)], ms)) ELSE c

remaining_outbound_capacity(c) == Stream!remaining_capacity(c.sender.stream)

\* ~TCPConnection: an endpoint that is still active queues a reset.
destroy(c) == IF active(c) THEN send_rst_seg(set_errors(c)) ELSE c
=============================================================================
