------------------------------ MODULE TCPSender -----------------------------
(***************************************************************************)
(* libsponge/tcp_sender.{hh,cc} as operators on a record:                  *)
(*   isn, stream, segments_out, next_seqno, win_size, ackno, rx_time_left, *)
(*   timer_running, rx_times, zero_win_seg, zero_win_seg_send,             *)
(*   zero_win_seg_seq    the fields of the same names                      *)
(*   timeout             _initial_retransmission_timeout, doubled by each  *)
(*                       retransmission                                    *)
(*   outstanding         _outstanding_segs: absolute number -> segment     *)
(***************************************************************************)
EXTENDS ByteStream, WrappingIntegers, TCPSegment, FiniteSets, Functions

CONSTANT MaxPayload    \* TCPConfig::MAX_PAYLOAD_SIZE

NewSender(cap, rt_timeout, isn) ==
  [isn |-> isn, stream |-> NewByteStream(cap), segments_out |-> << >>,
   next_seqno |-> 0, outstanding |-> << >>, win_size |-> 0, ackno |-> 0,
   timeout |-> rt_timeout, rx_time_left |-> rt_timeout,
   timer_running |-> FALSE, rx_times |-> 0, zero_win_seg |-> Segment(0),
   zero_win_seg_send |-> FALSE, zero_win_seg_seq |-> 0]

\* The absolute numbers that outstanding segments occupy.  The zero-window
\* probe is not among them.
Seqnos(k, seg) == k .. k + length_in_sequence_space(seg) - 1
InFlight(s) == UNION {Seqnos(k, s.outstanding[k]) : k \in DOMAIN s.outstanding}

bytes_in_flight(s) == Cardinality(InFlight(s))

next_seqno(s) == wrap(s.next_seqno, s.isn)

StartTimer_not_running(s) ==    \* mutant: the timer is set but not started
  IF s.timer_running THEN s ELSE [s EXCEPT !.rx_time_left = s.timeout]

\* Start the retransmission timer unless it is running.
StartTimer(s) ==
  IF s.timer_running THEN s
  ELSE [s EXCEPT !.timer_running = TRUE, !.rx_time_left = s.timeout]

\* Queue a new segment and remember it until it is acknowledged.
SendNew(s, seg) ==
  StartTimer([s EXCEPT
    !.segments_out = Append(@, seg),
    !.outstanding = [k \in DOMAIN @ \cup {s.next_seqno} |->
                       IF k = s.next_seqno THEN seg ELSE @[k]],
    !.next_seqno = @ + length_in_sequence_space(seg)])

\* The data loop: T bytes fit in the window; they leave in segments of at
\* most MaxPayload, and the FIN rides on the last one if there is room for it.
DataSegment(s, first, len, fin) ==
  [Segment(wrap(s.next_seqno + first - 1, s.isn))
     EXCEPT !.payload = SubSeq(s.stream.buffer, first, first + len - 1), !.fin = fin]

SendData(s) ==
  LET room == s.win_size - bytes_in_flight(s)
      T == Lesser(room, Len(s.stream.buffer))
      starts == {k \in 1 .. T : (k - 1) % MaxPayload = 0}
      fin == room > T /\ eof(pop_output(s.stream, T))
      segment(k) ==
        LET len == Lesser(MaxPayload, T - k + 1)
        IN  DataSegment(s, k, len, fin /\ k + len = T + 1)
  IN  StartTimer([s EXCEPT
        !.stream = pop_output(s.stream, T),
        !.segments_out = @ \o [i \in 1 .. (T + MaxPayload - 1) \div MaxPayload |->
                                 segment((i - 1) * MaxPayload + 1)],
        !.outstanding = [k \in DOMAIN @ \cup {s.next_seqno + f - 1 : f \in starts} |->
                           IF k < s.next_seqno THEN @[k]
                           ELSE segment(k - s.next_seqno + 1)],
        !.next_seqno = @ + T + (IF fin THEN 1 ELSE 0)])

\* A zero-window probe: one byte of data, or the FIN once the stream is at
\* its end.  The probe segment's fin flag, once set, stays set.
SendProbe(s, payload, fin, stream) ==
  LET seg == [s.zero_win_seg EXCEPT !.seqno = next_seqno(s), !.payload = payload,
                                    !.fin = @ \/ fin]
  IN  StartTimer([s EXCEPT
        !.stream = stream, !.zero_win_seg = seg, !.zero_win_seg_send = TRUE,
        !.zero_win_seg_seq = s.next_seqno,
        !.next_seqno = @ + length_in_sequence_space(seg),
        !.segments_out = Append(@, seg)])

\* The FIN occupies the number after the last byte's.
FinUnsent_always(s) == TRUE    \* mutant: dropped guard

FinUnsent(s) == s.next_seqno < s.stream.written + 2

fill_window(s) ==
  IF s.next_seqno = 0
  THEN SendNew(s, [Segment(s.isn) EXCEPT !.syn = TRUE])
  ELSE IF s.win_size > bytes_in_flight(s) /\ ~s.zero_win_seg_send
  THEN IF eof(s.stream)
       THEN IF FinUnsent(s)
            THEN SendNew(s, [Segment(next_seqno(s)) EXCEPT !.fin = TRUE]) ELSE s
       ELSE IF buffer_empty(s.stream) THEN s ELSE SendData(s)
  ELSE IF s.win_size = 0 /\ s.next_seqno > bytes_in_flight(s) /\ ~s.zero_win_seg_send
  THEN IF ~buffer_empty(s.stream)
       THEN SendProbe(s, peek_output(s.stream, 1), FALSE, pop_output(s.stream, 1))
       ELSE IF eof(s.stream) THEN SendProbe(s, << >>, TRUE, s.stream) ELSE s
  ELSE s

\* The outstanding segments that acknowledgment number a does not cover.
Unacknowledged_short(s, a) ==    \* mutant: off by one
  {k \in DOMAIN s.outstanding : k + length_in_sequence_space(s.outstanding[k]) - 1 > a}

Unacknowledged(s, a) ==
  {k \in DOMAIN s.outstanding : k + length_in_sequence_space(s.outstanding[k]) - 1 >= a}

\* A new acknowledgment number, larger or smaller, undoes the backoff.
ResetTimer(s, ackno) ==
  IF s.ackno = ackno THEN s
  ELSE [s EXCEPT !.timeout = @ \div 2 ^ s.rx_times, !.rx_times = 0,
                 !.rx_time_left = s.timeout \div 2 ^ s.rx_times]

\* Everything below a is acknowledged.
Acknowledge(s, a) ==
  [s EXCEPT !.zero_win_seg_send = @ /\ a <= s.zero_win_seg_seq,
            !.outstanding = Restrict(@, Unacknowledged(s, a))]

StopTimer(s) ==
  [s EXCEPT !.timer_running = @ /\ (DOMAIN s.outstanding # {} \/ s.zero_win_seg_send)]

\* A number u beyond next_seqno is ignored, unless it is so large that the
\* code takes it for one of the number space before.  Whatever else arrives,
\* old or new, sets the window.
Acknowledged(s, u, ackno, window_size) ==
  IF u > s.next_seqno /\ u < SeqnoMod THEN s
  ELSE [ResetTimer(StopTimer(Acknowledge(s, IF u > s.next_seqno THEN u - SeqnoMod ELSE u)),
                   ackno)
          EXCEPT !.win_size = window_size, !.ackno = ackno]

ack_received(s, ackno, window_size) ==
  Acknowledged(s, unwrap(ackno, s.isn, s.next_seqno), ackno, window_size)

\* The timer expires: resend the probe, else the oldest outstanding segment,
\* and back off unless the window is closed.
Expired(s, ms) == s.rx_time_left <= ms

Elapse(s, ms) == [s EXCEPT !.rx_time_left = IF Expired(s, ms) THEN 0 ELSE @ - ms]

FirstOutstanding(s) ==
  s.outstanding[CHOOSE k \in DOMAIN s.outstanding : \A j \in DOMAIN s.outstanding : k <= j]

Resend(s, seg, timeout, rx_times) ==
  [s EXCEPT !.segments_out = Append(@, seg), !.timer_running = TRUE,
            !.timeout = timeout, !.rx_time_left = timeout, !.rx_times = rx_times]

tick(s, ms) ==
  LET backs_off == \/ s.win_size > 0
                   \/ s.next_seqno > 0 /\ s.next_seqno = bytes_in_flight(s)
  IN  IF s.zero_win_seg_send
      THEN IF Expired(s, ms) THEN Resend(s, s.zero_win_seg, s.timeout, s.rx_times)
           ELSE Elapse(s, ms)
      ELSE IF DOMAIN s.outstanding = {} \/ ~s.timer_running
      THEN [s EXCEPT !.timer_running = FALSE]
      ELSE IF ~Expired(s, ms) THEN Elapse(s, ms)
      ELSE IF backs_off
      THEN Resend(s, FirstOutstanding(s), 2 * s.timeout, s.rx_times + 1)
      ELSE Resend(s, FirstOutstanding(s), s.timeout, s.rx_times)

consecutive_retransmissions(s) == s.rx_times

send_empty_segment(s) ==
  [s EXCEPT !.segments_out = Append(@, Segment(next_seqno(s)))]
=============================================================================
