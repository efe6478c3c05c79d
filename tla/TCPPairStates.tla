---------------------------- MODULE TCPPairStates ---------------------------
(***************************************************************************)
(* The states that an endpoint of the pair reports (TCPState) never go     *)
(* back.  For the receiver that is a matter of three flags which stay set. *)
(* For the sender it is one of the numbers in flight: Forward relates the  *)
(* sender before and after a call.  What it keeps outstanding is what was  *)
(* outstanding before or new numbers behind the old ones, and nothing is   *)
(* new once the FIN is out.                                                *)
(***************************************************************************)
EXTENDS TCPPairInvariant

USE ZenonT(40)

\* The FIN is out: the whole stream is sent, and a number after it.
FinOut(s) == Stream!eof(s.stream) /\ s.next_seqno >= s.stream.written + 2

Forward(s, t) ==
  /\ s.next_seqno <= t.next_seqno
  /\ \A k \in DOMAIN t.outstanding :
       \/ k \in DOMAIN s.outstanding /\ t.outstanding[k] = s.outstanding[k]
       \/ k >= s.next_seqno /\ ~FinOut(s)
  /\ s.stream.error => t.stream.error
  /\ FinOut(s) => FinOut(t)

\* The fields that decide the state of a sender.
Alike(s, t) ==
  t.next_seqno = s.next_seqno /\ t.outstanding = s.outstanding /\ t.stream = s.stream

\* A call that leaves them alone does not go back.
LEMMA AlikeForward ==
  ASSUME NEW s, s.next_seqno \in Nat, NEW t, Alike(s, t)
  PROVE  Forward(s, t)
<1>1. s.next_seqno <= t.next_seqno
  BY SMTT(40) DEF Alike
<1>. QED  BY <1>1 DEF Alike, Forward, FinOut

\* Calls that do not go back compose.
LEMMA ForwardTwice ==
  ASSUME NEW s, NEW t, NEW u, s.next_seqno \in Nat, t.next_seqno \in Nat,
         u.next_seqno \in Nat, DOMAIN u.outstanding \subseteq Nat,
         Forward(s, t), Forward(t, u)
  PROVE  Forward(s, u)
<1>1. s.next_seqno <= u.next_seqno
  BY SMTT(40) DEF Forward
<1>2. ASSUME NEW k \in DOMAIN u.outstanding
      PROVE  \/ k \in DOMAIN s.outstanding /\ u.outstanding[k] = s.outstanding[k]
             \/ k >= s.next_seqno /\ ~FinOut(s)
  <2>1. CASE k \in DOMAIN t.outstanding /\ u.outstanding[k] = t.outstanding[k]
    BY <2>1 DEF Forward
  <2>2. CASE k >= t.next_seqno /\ ~FinOut(t)
    <3>1. k >= s.next_seqno
      BY <1>2, <2>2, SMTT(40) DEF Forward
    <3>. QED  BY <2>2, <3>1 DEF Forward
  <2>. QED  BY <1>2, <2>1, <2>2 DEF Forward
<1>. QED  BY <1>1, <1>2 DEF Forward

\* A segment that is remembered under the next number, while the FIN is not
\* out.
LEMMA SendNewForward ==
  ASSUME NEW s, SenderFields \subseteq DOMAIN s, s.next_seqno \in Nat, ~FinOut(s),
         NEW seg, Sender!length_in_sequence_space(seg) \in Nat
  PROVE  Forward(s, Sender!SendNew(s, seg))
<1>. DEFINE len == Sender!length_in_sequence_space(seg)
            kept == [k \in DOMAIN s.outstanding \cup {s.next_seqno} |->
                       IF k = s.next_seqno THEN seg ELSE s.outstanding[k]]
            u == [s EXCEPT !.segments_out = Append(@, seg), !.outstanding = kept,
                           !.next_seqno = s.next_seqno + len]
            t == Sender!SendNew(s, seg)
<1>1. t = Sender!StartTimer(u)
  BY DEF Sender!SendNew
<1>2. /\ SenderFields \subseteq DOMAIN u /\ u.stream = s.stream
      /\ u.next_seqno = s.next_seqno + len /\ u.outstanding = kept
  BY DEF SenderFields
<1>. HIDE DEF u, t, kept, len
<1>3. t.stream = s.stream /\ t.next_seqno = s.next_seqno + len /\ t.outstanding = kept
  BY <1>1, <1>2, StartTimerKeeps
<1>. USE <1>3
<1>4. s.next_seqno <= t.next_seqno /\ s.next_seqno >= s.next_seqno
  BY SMTT(40) DEF len
<1>. USE <1>4
<1>5. ASSUME NEW k \in DOMAIN t.outstanding
      PROVE  \/ k \in DOMAIN s.outstanding /\ t.outstanding[k] = s.outstanding[k]
             \/ k >= s.next_seqno /\ ~FinOut(s)
  BY <1>5 DEF kept
<1>. QED  BY <1>5 DEF Forward, t

\* The data loop sends only while there is data, so before the FIN is out.
LEMMA SendDataForward ==
  ASSUME Counting, NEW e \in End, NEW s, Sending(e, s),
         s.win_size > Sender!bytes_in_flight(s), ~Sender!buffer_empty(s.stream)
  PROVE  Forward(s, Sender!SendData(s))
<1>. DEFINE next == s.next_seqno
            flight == Sender!bytes_in_flight(s)
            win == s.win_size
            room == win - flight
            l == Len(s.stream.buffer)
            T == Sender!Lesser(room, l)
            starts == {k \in 1 .. T : (k - 1) % MaxPayload = 0}
            rest == Sender!pop_output(s.stream, T)
            fin == room > T /\ Sender!eof(rest)
            len(k) == Sender!Lesser(MaxPayload, T - k + 1)
            segment(k) == Sender!DataSegment(s, k, len(k), fin /\ k + len(k) = T + 1)
            count == (T + MaxPayload - 1) \div MaxPayload
            more == [i \in 1 .. count |-> segment((i - 1) * MaxPayload + 1)]
            kept == [k \in DOMAIN s.outstanding \cup {next + f - 1 : f \in starts} |->
                       IF k < next THEN s.outstanding[k] ELSE segment(k - next + 1)]
            next2 == next + T + (IF fin THEN 1 ELSE 0)
            u == [s EXCEPT !.stream = rest, !.segments_out = @ \o more,
                           !.outstanding = kept, !.next_seqno = next2]
            t == Sender!SendData(s)
<1>1. /\ Outbound(e, s.stream) /\ Queued(e, s) /\ SenderFields \subseteq DOMAIN s
      /\ win \in Nat /\ flight \in Nat /\ next \in Nat
  BY SendingFacts, InFlightCounted
<1>2. t = Sender!StartTimer(u)
  BY DEF Sender!SendData
<1>. USE <1>1
<1>3. l \in Nat
  BY OutboundFacts, LenOfSeq
<1>4. T \in Nat /\ T \in 0 .. l
  <2>. HIDE DEF flight, win, l
  <2>1. win > flight
    BY DEF flight, win
  <2>2. Sender!Lesser(win - flight, l) \in Nat /\ Sender!Lesser(win - flight, l) \in 0 .. l
    BY <1>3, <2>1, SMTT(40) DEF Sender!Lesser
  <2>. QED  BY <2>2
<1>5. /\ SenderFields \subseteq DOMAIN u /\ u.stream = rest
      /\ u.next_seqno = next2 /\ u.outstanding = kept
  BY DEF SenderFields
<1>. USE <1>4
<1>6. rest.error = s.stream.error
  <2>. HIDE DEF T
  <2>. QED  BY PopOutbound
<1>. HIDE DEF u, t
<1>7. t.stream = rest /\ t.next_seqno = next2 /\ t.outstanding = kept
  BY <1>2, <1>5, StartTimerKeeps
<1>8. next <= next2
  <2>. HIDE DEF T, fin, next
  <2>. QED  BY SMTT(40)
<1>9. ~FinOut(s)
  BY DEF FinOut, Stream!eof, Stream!buffer_empty, Sender!buffer_empty
<1>. HIDE DEF segment, rest, next2
<1>10. ASSUME NEW k \in DOMAIN kept
       PROVE  \/ k \in DOMAIN s.outstanding /\ kept[k] = s.outstanding[k]
              \/ k >= next
  <2>. HIDE DEF T, next
  <2>1. \A f \in starts : next + f - 1 >= next
    BY SMTT(40)
  <2>2. CASE k \in DOMAIN s.outstanding
    <3>1. k \in Nat
      BY <2>2 DEF Queued
    <3>2. k < next \/ k >= next
      BY <3>1, SMTT(40)
    <3>. QED  BY <2>2, <3>2
  <2>3. CASE k \in {next + f - 1 : f \in starts}
    BY <2>1, <2>3
  <2>. QED  BY <1>10, <2>2, <2>3
<1>. HIDE DEF kept
<1>. QED  BY <1>6, <1>7, <1>8, <1>9, <1>10 DEF Forward, t

\* A probe is not remembered among the outstanding segments; one with data
\* comes before the FIN, one without repeats it at most.
LEMMA SendProbeForward ==
  ASSUME NEW e \in End, NEW s, Sending(e, s), NEW payload, payload \in Seq(Nat),
         NEW fin \in BOOLEAN, NEW stream, stream.error = s.stream.error,
         stream = s.stream \/ ~FinOut(s)
  PROVE  Forward(s, Sender!SendProbe(s, payload, fin, stream))
<1>. DEFINE seg == [s.zero_win_seg EXCEPT !.seqno = Sender!next_seqno(s), !.payload = payload,
                                          !.fin = @ \/ fin]
            len == Sender!length_in_sequence_space(seg)
            u == [s EXCEPT
                    !.stream = stream, !.zero_win_seg = seg, !.zero_win_seg_send = TRUE,
                    !.zero_win_seg_seq = s.next_seqno, !.next_seqno = @ + len,
                    !.segments_out = Append(@, seg)]
            t == Sender!SendProbe(s, payload, fin, stream)
<1>1. /\ SenderFields \subseteq DOMAIN s /\ Probe(e, s) /\ Outbound(e, s.stream)
      /\ s.next_seqno \in Nat
  BY SendingFacts
<1>. USE <1>1
<1>2. len \in Nat
  <2>1. s.zero_win_seg \in Segments
    BY DEF Probe
  <2>2. seg.payload = payload
    BY <2>1 DEF Segments
  <2>. HIDE DEF seg
  <2>3. Len(payload) \in Nat
    BY LenOfSeq
  <2>. DEFINE l == Len(payload)
              i == IF seg.syn THEN 1 ELSE 0
              j == IF seg.fin THEN 1 ELSE 0
  <2>4. len = l + i + j
    BY <2>2 DEF Sender!length_in_sequence_space
  <2>5. i \in {0, 1} /\ j \in {0, 1}
    OBVIOUS
  <2>. HIDE DEF l, i, j, len
  <2>. QED  BY <2>3, <2>4, <2>5, SMTT(40) DEF l
<1>3. t = Sender!StartTimer(u)
  BY DEF Sender!SendProbe
<1>4. /\ SenderFields \subseteq DOMAIN u /\ u.stream = stream
      /\ u.next_seqno = s.next_seqno + len /\ u.outstanding = s.outstanding
  BY DEF SenderFields
<1>. HIDE DEF u, t, len
<1>5. /\ t.stream = stream /\ t.next_seqno = s.next_seqno + len
      /\ t.outstanding = s.outstanding
  BY <1>3, <1>4, StartTimerKeeps
<1>. USE <1>5, <1>2
<1>6. s.next_seqno <= t.next_seqno
  BY SMTT(40)
<1>7. FinOut(s) => FinOut(t)
  <2>1. SUFFICES ASSUME FinOut(s) PROVE FinOut(t)
    OBVIOUS
  <2>2. s.stream.written \in Nat
    BY OutboundFacts
  <2>. USE <2>1
  <2>3. s.next_seqno + len >= s.stream.written + 2
    BY <2>2, SMTT(40) DEF FinOut
  <2>. QED  BY <2>3 DEF FinOut
<1>. QED  BY <1>6, <1>7 DEF Forward, t

\* fill_window.
LEMMA FillWindowForward ==
  ASSUME Counting, NEW e \in End, NEW s, Sending(e, s)
  PROVE  Forward(s, Sender!fill_window(s))
<1>1. /\ SenderFields \subseteq DOMAIN s /\ s.next_seqno \in Nat /\ Outbound(e, s.stream)
      /\ s.stream.written \in Nat
  BY SendingFacts, OutboundFacts
<1>. USE <1>1
<1>2. Forward(s, s)
  BY AlikeForward DEF Alike
<1>3. << >> \in Seq(Nat)
  BY EmptySeqLen
<1>. USE <1>3
<1>4. /\ Sender!length_in_sequence_space([Sender!Segment(s.isn) EXCEPT !.syn = TRUE]) \in Nat
      /\ Sender!length_in_sequence_space(
           [Sender!Segment(Sender!next_seqno(s)) EXCEPT !.fin = TRUE]) \in Nat
  <2>1. 1 \in Nat /\ TRUE \in BOOLEAN
    BY SMTT(40)
  <2>. USE <2>1
  <2>2. \A seqno :
          /\ Sender!length_in_sequence_space(MadeSegment(seqno, TRUE, FALSE, << >>)) = 1
          /\ Sender!length_in_sequence_space(MadeSegment(seqno, FALSE, TRUE, << >>)) = 1
    BY MadeLength
  <2>. QED  BY <2>2, SegmentMade
<1>5. Sender!eof(s.stream) <=> Stream!eof(s.stream)
  BY DEF Sender!eof, Stream!eof, Sender!buffer_empty, Stream!buffer_empty
<1>. USE <1>4
<1>6. CASE s.next_seqno = 0
  <2>1. Sender!fill_window(s) = Sender!SendNew(s, [Sender!Segment(s.isn) EXCEPT !.syn = TRUE])
    BY <1>6 DEF Sender!fill_window
  <2>2. ~FinOut(s)
    BY <1>6, SMTT(40) DEF FinOut
  <2>. QED  BY <2>1, <2>2, SendNewForward
<1>. USE <1>2
<1>7. CASE s.next_seqno # 0
  <2>2. CASE s.win_size > Sender!bytes_in_flight(s) /\ ~s.zero_win_seg_send
    <3>1. CASE Sender!eof(s.stream) /\ Sender!FinUnsent(s)
      <4>1. Sender!fill_window(s) =
              Sender!SendNew(s, [Sender!Segment(Sender!next_seqno(s)) EXCEPT !.fin = TRUE])
        BY <1>7, <2>2, <3>1 DEF Sender!fill_window
      <4>2. ~FinOut(s)
        BY <3>1, SMTT(40) DEF FinOut, Sender!FinUnsent
      <4>. QED  BY <4>1, <4>2, SendNewForward
    <3>2. CASE ~Sender!eof(s.stream) /\ ~Sender!buffer_empty(s.stream)
      <4>1. Sender!fill_window(s) = Sender!SendData(s)
        BY <1>7, <2>2, <3>2 DEF Sender!fill_window
      <4>. QED  BY <2>2, <3>2, <4>1, SendDataForward
    <3>3. CASE \/ Sender!eof(s.stream) /\ ~Sender!FinUnsent(s)
               \/ ~Sender!eof(s.stream) /\ Sender!buffer_empty(s.stream)
      <4>1. Sender!fill_window(s) = s
        BY <1>7, <2>2, <3>3 DEF Sender!fill_window
      <4>. QED  BY <4>1
    <3>. QED  BY <3>1, <3>2, <3>3
  <2>3. CASE /\ ~ (s.win_size > Sender!bytes_in_flight(s) /\ ~s.zero_win_seg_send)
             /\ /\ s.win_size = 0 /\ s.next_seqno > Sender!bytes_in_flight(s)
                /\ ~s.zero_win_seg_send
    <3>1. CASE ~Sender!buffer_empty(s.stream)
      <4>. DEFINE payload == Sender!peek_output(s.stream, 1)
                  rest == Sender!pop_output(s.stream, 1)
      <4>1. Sender!fill_window(s) = Sender!SendProbe(s, payload, FALSE, rest)
        BY <1>7, <2>3, <3>1 DEF Sender!fill_window
      <4>2. s.stream.buffer \in Seq(Nat) /\ Len(s.stream.buffer) \in Nat
        BY OutboundFacts, LenOfSeq
      <4>. USE <4>2
      <4>3. 1 \in 0 .. Len(s.stream.buffer)
        BY <3>1, SMTT(40) DEF Sender!buffer_empty
      <4>4. rest.error = s.stream.error
        BY <4>3, PopOutbound
      <4>5. payload \in Seq(Nat)
        BY SMTT(40) DEF Sender!peek_output, Sender!Lesser
      <4>6. ~FinOut(s) /\ FALSE \in BOOLEAN
        BY <3>1 DEF FinOut, Stream!eof, Stream!buffer_empty, Sender!buffer_empty
      <4>. HIDE DEF payload, rest
      <4>. QED  BY <4>1, <4>4, <4>5, <4>6, SendProbeForward
    <3>2. CASE Sender!buffer_empty(s.stream) /\ Sender!eof(s.stream)
      <4>1. Sender!fill_window(s) = Sender!SendProbe(s, << >>, TRUE, s.stream)
        BY <1>7, <2>3, <3>2 DEF Sender!fill_window
      <4>. QED  BY <4>1, SendProbeForward
    <3>3. CASE Sender!buffer_empty(s.stream) /\ ~Sender!eof(s.stream)
      <4>1. Sender!fill_window(s) = s
        BY <1>7, <2>3, <3>3 DEF Sender!fill_window
      <4>. QED  BY <4>1
    <3>. QED  BY <3>1, <3>2, <3>3
  <2>4. CASE /\ ~ (s.win_size > Sender!bytes_in_flight(s) /\ ~s.zero_win_seg_send)
             /\ ~ (/\ s.win_size = 0 /\ s.next_seqno > Sender!bytes_in_flight(s)
                   /\ ~s.zero_win_seg_send)
    <3>1. Sender!fill_window(s) = s
      BY <1>7, <2>4 DEF Sender!fill_window
    <3>. QED  BY <3>1
  <2>. QED  BY <2>2, <2>3, <2>4
<1>. QED  BY <1>6, <1>7

\* An acknowledgment only takes outstanding segments away.
LEMMA AckForward ==
  ASSUME NEW e \in End, NEW s, Sending(e, s), NEW u, NEW ackno, NEW window_size
  PROVE  Forward(s, Sender!Acknowledged(s, u, ackno, window_size))
<1>1. SenderFields \subseteq DOMAIN s /\ s.next_seqno \in Nat /\ s.next_seqno <= s.next_seqno
  BY SendingFacts, SMTT(40)
<1>. USE <1>1
<1>2. CASE u > s.next_seqno /\ u < SeqnoMod
  <2>1. Sender!Acknowledged(s, u, ackno, window_size) = s
    BY <1>2 DEF Sender!Acknowledged
  <2>. QED  BY <2>1, AlikeForward DEF Alike
<1>3. CASE ~ (u > s.next_seqno /\ u < SeqnoMod)
  <2>. DEFINE y == IF u > s.next_seqno THEN u - SeqnoMod ELSE u
              kept == Sender!Unacknowledged(s, y)
              a == Sender!Acknowledge(s, y)
              b == Sender!StopTimer(a)
              c == Sender!ResetTimer(b, ackno)
              t == Sender!Acknowledged(s, u, ackno, window_size)
              Keeps(v) == /\ SenderFields \subseteq DOMAIN v /\ v.stream = s.stream
                          /\ v.next_seqno = s.next_seqno
                          /\ v.outstanding = [k \in kept |-> s.outstanding[k]]
  <2>1. t = [c EXCEPT !.win_size = window_size, !.ackno = ackno]
    BY <1>3 DEF Sender!Acknowledged
  <2>. HIDE DEF y, t
  <2>2. Keeps(a)
    BY DEF SenderFields, Sender!Acknowledge, Sender!Restrict
  <2>. HIDE DEF a
  <2>3. Keeps(b)
    BY <2>2 DEF SenderFields, Sender!StopTimer
  <2>. HIDE DEF b
  <2>. USE <2>3
  <2>4. Keeps(c)
    <3>1. CASE b.ackno = ackno
      BY <3>1 DEF Sender!ResetTimer
    <3>2. CASE b.ackno # ackno
      BY <3>2 DEF SenderFields, Sender!ResetTimer
    <3>. QED  BY <3>1, <3>2
  <2>. HIDE DEF c
  <2>5. Keeps(t)
    BY <2>1, <2>4 DEF SenderFields
  <2>6. kept \subseteq DOMAIN s.outstanding
    BY DEF Sender!Unacknowledged
  <2>. HIDE DEF kept
  <2>. QED  BY <2>5, <2>6 DEF Forward, FinOut, t
<1>. QED  BY <1>2, <1>3

\* The timer sends again what is outstanding or the probe.
LEMMA TickForward ==
  ASSUME NEW e \in End, NEW s, Sending(e, s), NEW ms
  PROVE  Forward(s, Sender!tick(s, ms))
<1>1. SenderFields \subseteq DOMAIN s /\ s.next_seqno \in Nat
  BY SendingFacts
<1>. USE <1>1
<1>2. \A seg, timeout, rx_times : Alike(s, Sender!Resend(s, seg, timeout, rx_times))
  BY DEF Alike, Sender!Resend, SenderFields
<1>3. /\ Alike(s, Sender!Elapse(s, ms))
      /\ Alike(s, [s EXCEPT !.timer_running = FALSE])
  BY DEF Alike, Sender!Elapse, SenderFields
<1>4. Alike(s, Sender!tick(s, ms))
  BY <1>2, <1>3 DEF Sender!tick
<1>. QED  BY <1>4, AlikeForward

\* Queueing an empty segment, or handing over the queue, changes no state.
LEMMA QueueAlike ==
  ASSUME NEW s, SenderFields \subseteq DOMAIN s
  PROVE  /\ \A q : Alike(s, Requeue(s, q))
         /\ Alike(s, Sender!send_empty_segment(s))
         /\ Alike(s, EnsureSegment(s))
<1>1. \A q : Alike(s, [s EXCEPT !.segments_out = q])
  BY DEF Alike, SenderFields
<1>. USE <1>1
<1>2. Alike(s, Sender!send_empty_segment(s))
  BY DEF Sender!send_empty_segment
<1>. QED  BY <1>2 DEF Requeue, EnsureSegment, Alike

\* What a stream of another length, end or error does to the state.
LEMMA RestreamForward ==
  ASSUME NEW e \in End, NEW s, Sending(e, s), NEW u, s.stream.error => u.error,
         FinOut(s) => Stream!eof(u) /\ u.written = s.stream.written
  PROVE  Forward(s, Restream(s, u))
<1>1. SenderFields \subseteq DOMAIN s /\ s.next_seqno \in Nat /\ s.next_seqno <= s.next_seqno
  BY SendingFacts, SMTT(40)
<1>. DEFINE t == Restream(s, u)
<1>. USE <1>1
<1>2. t.stream = u /\ t.next_seqno = s.next_seqno /\ t.outstanding = s.outstanding
  BY DEF Restream, SenderFields
<1>. HIDE DEF t
<1>. QED  BY <1>2 DEF Forward, FinOut, t

\* Two calls in a row, the second on a sender that is sound.
LEMMA ForwardOn ==
  ASSUME NEW e \in End, NEW s, Sending(e, s), NEW t, Sending(e, t), NEW u, Sending(e, u),
         Forward(s, t), Forward(t, u)
  PROVE  Forward(s, u)
  BY SendingFacts, ForwardTwice DEF Queued

-----------------------------------------------------------------------------
(***************************************************************************)
(* The calls of a connection: d is c, or c whose sender has moved on.      *)
(***************************************************************************)
Ahead(c, d) == Forward(c.sender, d.sender)

\* Calls in a row.
LEMMA AheadTwice ==
  ASSUME NEW e \in End, NEW b, Linked(e, b), NEW c, Linked(e, c), NEW d, Linked(e, d),
         Ahead(b, c), Ahead(c, d)
  PROVE  Ahead(b, d)
  BY ForwardOn DEF Linked, Ahead

\* A call that leaves the sender's state alone.
LEMMA AheadAlike ==
  ASSUME NEW e \in End, NEW c, Linked(e, c), NEW d, Alike(c.sender, d.sender)
  PROVE  Ahead(c, d)
  BY SendingFacts, AlikeForward DEF Linked, Ahead

\* The sender replaced, send_all_segs, and a reset queued.
LEMMA QueuesAhead ==
  ASSUME NEW e \in End, NEW c, Linked(e, c)
  PROVE  /\ Ahead(c, c) /\ Ahead(c, send_all_segs(c)) /\ Ahead(c, send_rst_seg(c))
         /\ \A s : [c EXCEPT !.sender = s].sender = s
<1>1. ConnFields \subseteq DOMAIN c /\ SenderFields \subseteq DOMAIN c.sender
  BY SendingFacts DEF Linked
<1>. USE <1>1
<1>2. \A s : [c EXCEPT !.sender = s].sender = s
  BY DEF ConnFields
<1>3. send_all_segs(c).sender = Requeue(c.sender, << >>)
  BY DEF ConnFields, send_all_segs, Requeue
<1>4. send_rst_seg(c).sender = EnsureSegment(c.sender)
  BY DEF ConnFields, send_rst_seg, QueueReset
<1>5. Alike(c.sender, c.sender)
  BY DEF Alike
<1>6. Alike(c.sender, send_all_segs(c).sender) /\ Alike(c.sender, send_rst_seg(c).sender)
  BY <1>3, <1>4, QueueAlike
<1>. QED  BY <1>2, <1>5, <1>6, AheadAlike

\* fill_window and send_all_segs.
LEMMA WindowAhead ==
  ASSUME Counting, NEW e \in End, NEW c, Linked(e, c)
  PROVE  Ahead(c, send_all_segs([c EXCEPT !.sender = Sender!fill_window(@)]))
<1>. DEFINE s == Sender!fill_window(c.sender)
            b == [c EXCEPT !.sender = s]
<1>1. Sent(e, c.sender, s) /\ Forward(c.sender, s)
  BY FillWindowSends, FillWindowForward DEF Linked
<1>. HIDE DEF s
<1>. USE <1>1
<1>2. Onward(e, c, b) /\ b.sender = s
  BY SenderReplaced, QueuesAhead
<1>. HIDE DEF b
<1>3. Ahead(c, b) /\ Ahead(b, send_all_segs(b)) /\ Linked(e, b) /\ Linked(e, send_all_segs(b))
  BY <1>2, QueuesAhead, AllSent DEF Onward, Ahead
<1>4. Ahead(c, send_all_segs(b))
  BY <1>3, AheadTwice
<1>. QED  BY <1>4 DEF b, s

\* connect.
LEMMA ConnectAhead ==
  ASSUME Counting, NEW e \in End, NEW c, Linked(e, c), c.sender.next_seqno = 0
  PROVE  Ahead(c, connect(c))
<1>. DEFINE s == Sender!fill_window(c.sender)
            b == [c EXCEPT !.sender = s]
            d == QueueSyn(b)
<1>1. connect(c) = d
  BY DEF connect
<1>2. Sent(e, c.sender, s) /\ Forward(c.sender, s)
  BY FillWindowSends, FillWindowForward DEF Linked
<1>. HIDE DEF s
<1>. USE <1>2
<1>3. Onward(e, c, b) /\ b.sender = s
  BY SenderReplaced, QueuesAhead
<1>. HIDE DEF b
<1>. USE <1>1
<1>4. /\ Linked(e, b) /\ Ahead(c, b) /\ Linked(e, d)
      /\ ConnFields \subseteq DOMAIN b /\ SenderFields \subseteq DOMAIN b.sender
  BY <1>3, Connects, SendingFacts DEF Onward, Linked, Ahead
<1>. USE <1>4
<1>5. d.sender = Requeue(b.sender, Tail(b.sender.segments_out))
  BY DEF ConnFields, QueueSyn, Requeue
<1>. HIDE DEF d
<1>6. Ahead(b, d)
  BY <1>5, QueueAlike, AheadAlike
<1>. QED  BY <1>6, AheadTwice

\* d is c with the outbound stream u, then what the window allows is sent.
LEMMA StreamAhead ==
  ASSUME NEW e \in End, NEW c, Linked(e, c), NEW u, NEW b, Linked(e, b),
         b.sender = Restream(c.sender, u), c.sender.stream.error => u.error,
         FinOut(c.sender) => Stream!eof(u) /\ u.written = c.sender.stream.written
  PROVE  Ahead(c, b)
  BY RestreamForward DEF Linked, Ahead

\* TCPConnection::write: more to send, and no FIN is out.
LEMMA WriteAhead ==
  ASSUME Counting, NEW e \in End, NEW c, Linked(e, c), NEW n \in Nat \ {0},
         n <= Stream!remaining_capacity(c.sender.stream),
         c.sender.stream.written + n <= StreamLen[e]
  PROVE  Ahead(c, write(c, [i \in 1 .. n |-> c.sender.stream.written + i - 1]))
<1>. DEFINE t == c.sender.stream
            data == [i \in 1 .. n |-> t.written + i - 1]
            u == Stream!write(t, data)
            b == [c EXCEPT !.sender.stream = u]
            d == SendIfEstablished(b)
<1>1. /\ ConnFields \subseteq DOMAIN c /\ Sending(e, c.sender) /\ Acking(e, c.receiver)
      /\ Outbound(e, t) /\ SenderFields \subseteq DOMAIN c.sender
  BY SendingFacts DEF Linked
<1>. USE <1>1
<1>2. /\ Outbound(e, u) /\ u.read = t.read /\ u.written = t.written + n
      /\ u.input_end = t.input_end /\ u.error = t.error
  BY WriteOutbound
<1>. USE <1>2
<1>3. t.written <= u.written /\ ~t.input_end
  <2>1. t.written \in Nat /\ StreamLen[e] \in Nat /\ (t.input_end => t.written = StreamLen[e])
    BY OutboundFacts DEF Outbound
  <2>. USE <2>1
  <2>2. t.written <= t.written + n /\ t.written # StreamLen[e]
    BY SMTT(40)
  <2>. QED  BY <2>2
<1>4. write(c, data) = d
  BY DEF write
<1>. HIDE DEF u
<1>5. /\ ConnFields \subseteq DOMAIN b /\ b.receiver = c.receiver /\ b.linger = c.linger
      /\ b.sender = Restream(c.sender, u) /\ b.segments_out = c.segments_out
  BY DEF ConnFields, Restream
<1>. HIDE DEF b
<1>. USE <1>3, <1>5
<1>6. Linked(e, b)
  <2>1. Restreamed(e, c, u, b)
    BY StreamChanged
  <2>. QED  BY <2>1 DEF Restreamed
<1>. USE <1>6
<1>7. Ahead(c, b)
  BY StreamAhead DEF FinOut, Stream!eof
<1>8. Ahead(b, d) /\ Linked(e, d)
  BY WindowAhead, QueuesAhead, SentIfEstablished DEF SendIfEstablished, Onward
<1>. QED  BY <1>4, <1>7, <1>8, AheadTwice

\* TCPConnection::end_input_stream.
LEMMA EndInputAhead ==
  ASSUME Counting, NEW e \in End, NEW c, Linked(e, c), c.sender.stream.written = StreamLen[e]
  PROVE  Ahead(c, end_input_stream(c))
<1>. DEFINE t == c.sender.stream
            u == Stream!end_input(t)
            r == Restream(c.sender, u)
            s == Sender!fill_window(r)
            b == [c EXCEPT !.sender = s]
<1>1. /\ Sending(e, c.sender) /\ Outbound(e, t) /\ StreamFields \subseteq DOMAIN t
      /\ SenderFields \subseteq DOMAIN c.sender
  BY SendingFacts DEF Linked, Outbound
<1>. USE <1>1
<1>2. /\ StreamFields \subseteq DOMAIN u /\ u.capacity = t.capacity /\ u.read = t.read
      /\ u.written = t.written /\ u.buffer = t.buffer
      /\ u.input_end = TRUE /\ u.error = t.error
  BY DEF StreamFields, Stream!end_input
<1>3. end_input_stream(c) = send_all_segs(b)
  BY DEF end_input_stream, Restream
<1>. HIDE DEF u
<1>. USE <1>2
<1>4. Outbound(e, u)
  BY DEF Outbound
<1>5. t.written <= u.written
  <2>1. t.written \in Nat
    BY OutboundFacts
  <2>2. t.written <= t.written
    BY <2>1, SMTT(40)
  <2>. QED  BY <2>2
<1>6. Sending(e, r)
  BY <1>4, <1>5, StreamReplaced
<1>7. Forward(c.sender, r)
  <2>1. FinOut(c.sender) => Stream!eof(u) /\ u.written = t.written
    BY DEF FinOut, Stream!eof, Stream!buffer_empty
  <2>. QED  BY <2>1, RestreamForward
<1>. HIDE DEF r
<1>. USE <1>6
<1>8. Sending(e, s) /\ Forward(r, s)
  BY FillWindowSends, FillWindowForward DEF Sent
<1>. HIDE DEF s
<1>. USE <1>8
<1>9. Forward(c.sender, s)
  BY <1>7, ForwardOn
<1>10. b.sender = s
  BY DEF Linked, ConnFields
<1>. USE <1>10
<1>11. /\ ConnFields \subseteq DOMAIN b /\ SenderFields \subseteq DOMAIN b.sender
       /\ b.sender.next_seqno \in Nat
  <2>1. SenderFields \subseteq DOMAIN s /\ s.next_seqno \in Nat
    BY SendingFacts
  <2>2. ConnFields \subseteq DOMAIN b
    BY DEF Linked, ConnFields
  <2>. QED  BY <2>1, <2>2
<1>. HIDE DEF b
<1>. USE <1>11
<1>12. send_all_segs(b).sender = Requeue(s, << >>)
  BY DEF ConnFields, send_all_segs, Requeue
<1>13. Forward(s, Requeue(s, << >>))
  BY QueueAlike, AlikeForward
<1>. USE <1>3
<1>14. Linked(e, send_all_segs(b))
  BY EndsInput DEF Wrote
<1>15. Forward(c.sender, send_all_segs(b).sender)
  BY <1>9, <1>12, <1>13, <1>14, ForwardOn DEF Linked
<1>. QED  BY <1>15 DEF Ahead

\* set_errors.
LEMMA ErrorsAhead ==
  ASSUME NEW e \in End, NEW c, Linked(e, c)
  PROVE  Ahead(c, set_errors(c)) /\ Linked(e, set_errors(c))
<1>. DEFINE t == c.sender.stream
            u == Stream!set_error(t)
            d == set_errors(c)
<1>1. /\ ConnFields \subseteq DOMAIN c /\ StreamFields \subseteq DOMAIN t
      /\ SenderFields \subseteq DOMAIN c.sender
  BY SendingFacts DEF Linked, Outbound
<1>. USE <1>1
<1>2. u.written = t.written /\ u.buffer = t.buffer /\ u.input_end = t.input_end /\ u.error = TRUE
  BY DEF StreamFields, Stream!set_error
<1>3. d.sender = Restream(c.sender, u)
  BY DEF ConnFields, set_errors, Restream
<1>4. Linked(e, d)
  BY ErrorsSet DEF GivenUp
<1>. HIDE DEF u, d
<1>. USE <1>2
<1>5. FinOut(c.sender) => Stream!eof(u) /\ u.written = t.written
  BY DEF FinOut, Stream!eof, Stream!buffer_empty
<1>. USE <1>4
<1>6. Ahead(c, d)
  BY <1>3, <1>5, StreamAhead
<1>. QED  BY <1>6 DEF d

\* HearAck: the acknowledgment, then whatever the window allows.
LEMMA HearAckForward ==
  ASSUME Counting, NEW e \in End, 2 * (StreamLen[e] + 3) < SeqnoMod, NEW s, Sending(e, s),
         NEW seg \in Segments,
         seg.ack => Sender!unwrap(seg.ackno, s.isn, s.next_seqno) \in 0 .. StreamLen[e] + 2
  PROVE  Forward(s, HearAck(s, seg))
<1>1. s.next_seqno \in Nat
  BY SendingFacts
<1>2. CASE ~seg.ack
  <2>1. HearAck(s, seg) = s
    BY <1>2 DEF HearAck
  <2>. QED  BY <1>1, <2>1, AlikeForward DEF Alike
<1>3. CASE seg.ack
  <2>. DEFINE y == Sender!unwrap(seg.ackno, s.isn, s.next_seqno)
              t == Sender!Acknowledged(s, y, seg.ackno, seg.win)
              u == FillIfStarted(t)
  <2>1. HearAck(s, seg) = u
    BY <1>3 DEF HearAck, Sender!ack_received
  <2>2. y \in 0 .. StreamLen[e] + 2 /\ seg.win \in Nat
    BY <1>3 DEF Segments
  <2>. HIDE DEF y
  <2>3. Sending(e, t)
    BY <2>2, AckHeard DEF Acked
  <2>4. Forward(s, t)
    BY AckForward
  <2>. HIDE DEF t
  <2>. USE <2>1, <2>3, <2>4
  <2>5. CASE t.next_seqno # 0
    <3>1. u = Sender!fill_window(t)
      BY <2>5 DEF FillIfStarted
    <3>2. Forward(t, u) /\ Sending(e, u)
      BY <3>1, FillWindowForward, FillWindowSends DEF Sent
    <3>. HIDE DEF u
    <3>3. Forward(s, u)
      BY <3>2, ForwardOn
    <3>. QED  BY <3>3
  <2>6. CASE t.next_seqno = 0
    BY <2>6 DEF FillIfStarted
  <2>. QED  BY <2>5, <2>6
<1>. QED  BY <1>2, <1>3

\* The answer to a segment that occupies sequence numbers.
LEMMA AnswerAhead ==
  ASSUME Counting, NEW e \in End, NEW c, Linked(e, c), NEW seg
  PROVE  Ahead(c, Answer(c, seg))
<1>. DEFINE s == SynIfListening(c.sender)
            t == EnsureSegment(s)
            b == [c EXCEPT !.sender = t]
<1>1. Sending(e, c.sender) /\ Ahead(c, c)
  BY QueuesAhead DEF Linked
<1>. USE <1>1
<1>2. Sending(e, s) /\ Forward(c.sender, s)
  <2>1. CASE c.sender.next_seqno = 0
    BY <2>1, FillWindowSends, FillWindowForward DEF SynIfListening, Sent
  <2>2. CASE c.sender.next_seqno # 0
    BY <2>2 DEF SynIfListening, Ahead
  <2>. QED  BY <2>1, <2>2
<1>. HIDE DEF s
<1>. USE <1>2
<1>3. Sending(e, t) /\ Forward(s, t)
  BY SegmentEnsured, SendingFacts, QueueAlike, AlikeForward DEF Sent
<1>. HIDE DEF t
<1>4. Forward(c.sender, t)
  BY <1>3, ForwardOn
<1>5. b.sender = t
  BY QueuesAhead
<1>. HIDE DEF b
<1>6. Ahead(c, b)
  BY <1>4, <1>5 DEF Ahead
<1>. QED  BY <1>6 DEF Answer, b, t, s

\* The answer to a keep-alive.
LEMMA KeepAliveAhead ==
  ASSUME NEW e \in End, NEW c, Linked(e, c), NEW seg
  PROVE  Ahead(c, KeepAlive(c, seg))
<1>. DEFINE s == Sender!send_empty_segment(c.sender)
            b == [c EXCEPT !.sender = s]
<1>1. Sending(e, c.sender) /\ Ahead(c, c)
  BY QueuesAhead DEF Linked
<1>. USE <1>1
<1>2. Sent(e, c.sender, s) /\ Alike(c.sender, s)
  BY EmptySegmentSent, SendingFacts, QueueAlike
<1>. HIDE DEF s
<1>. USE <1>2
<1>3. Linked(e, b) /\ b.sender = s
  BY SenderReplaced, QueuesAhead DEF Onward
<1>. HIDE DEF b
<1>. USE <1>3
<1>4. Ahead(c, b)
  BY AheadAlike
<1>5. Ahead(b, send_all_segs(b)) /\ Linked(e, send_all_segs(b))
  BY QueuesAhead, AllSent DEF Onward
<1>6. Ahead(c, send_all_segs(b))
  BY <1>4, <1>5, AheadTwice
<1>. QED  BY <1>6 DEF KeepAlive, b, s

\* TCPConnection::segment_received, for a segment that is not a reset.
LEMMA SegmentAhead ==
  ASSUME Counting, NEW e \in End, NEW c, Linked(e, c), NEW seg, active(c), ~seg.rst,
         Acking(e, Receiver!segment_received(c.receiver, seg)),
         Heard(e, c.sender, HearAck(c.sender, seg)), Forward(c.sender, HearAck(c.sender, seg))
  PROVE  Ahead(c, segment_received(c, seg))
<1>. DEFINE rcv == Receiver!segment_received(c.receiver, seg)
            s == HearAck(c.sender, seg)
            h == Hear(c, seg)
            n == NoteClosing(h)
            a == Answer(n, seg)
            b == send_all_segs(a)
            d == KeepAlive(b, seg)
<1>1. segment_received(c, seg) = d
  BY DEF segment_received
<1>2. /\ ConnFields \subseteq DOMAIN c
      /\ c.segments_out \in Seq(Truthful(e, c.sender.stream.written, c.sender.stream.input_end))
  BY DEF Linked
<1>. USE <1>2
<1>3. /\ ConnFields \subseteq DOMAIN h /\ h.receiver = rcv /\ h.sender = s
      /\ h.segments_out = c.segments_out
  BY DEF ConnFields, Hear
<1>. HIDE DEF h, rcv, s
<1>4. /\ ConnFields \subseteq DOMAIN n /\ n.receiver = rcv /\ n.sender = s
      /\ n.segments_out = c.segments_out
  BY <1>3 DEF ConnFields, NoteClosing
<1>. HIDE DEF n
<1>5. Linked(e, n) /\ Ahead(c, n)
  BY <1>4 DEF Linked, Heard, SameStream, Ahead, rcv, s
<1>. USE <1>5
<1>6. Linked(e, a) /\ Ahead(n, a)
  BY Answered, AnswerAhead DEF Onward
<1>. HIDE DEF a
<1>. USE <1>6
<1>7. Linked(e, b) /\ Ahead(a, b)
  BY AllSent, QueuesAhead DEF Onward
<1>. HIDE DEF b
<1>. USE <1>7
<1>8. Linked(e, d) /\ Ahead(b, d)
  BY KeptAlive, KeepAliveAhead DEF Onward
<1>. HIDE DEF d
<1>9. Ahead(c, a)
  BY AheadTwice
<1>10. Ahead(c, b)
  BY <1>9, AheadTwice
<1>11. Ahead(c, d)
  BY <1>8, <1>10, AheadTwice
<1>. QED  BY <1>1, <1>11

\* TCPConnection::tick.
LEMMA TickAhead ==
  ASSUME Counting, NEW e \in End, NEW c, Linked(e, c), NEW ms
  PROVE  Ahead(c, tick(c, ms))
<1>1. CASE ~active(c)
  <2>1. tick(c, ms) = c
    BY <1>1 DEF tick
  <2>. QED  BY <2>1, QueuesAhead
<1>2. CASE active(c)
  <2>. DEFINE s == Sender!tick(c.sender, ms)
              b == [c EXCEPT !.sender = s]
              a == Age(b, ms)
              d == SendOrGiveUp(a)
  <2>1. tick(c, ms) = d
    BY <1>2 DEF tick
  <2>2. Ticked(e, c.sender, s) /\ Forward(c.sender, s)
    BY SenderTicks, TickForward DEF Linked
  <2>. HIDE DEF s
  <2>3. /\ ConnFields \subseteq DOMAIN b /\ b.receiver = c.receiver
        /\ b.sender = s /\ b.segments_out = c.segments_out
    BY DEF Linked, ConnFields
  <2>. HIDE DEF b
  <2>. USE <2>3, <2>2
  <2>4. Linked(e, b)
    BY DEF Linked, Ticked
  <2>5. a.sender = b.sender
    BY DEF Age, ConnFields
  <2>6. Linked(e, a)
    BY <2>4, Aged DEF Onward
  <2>. HIDE DEF a
  <2>7. Ahead(c, a)
    BY <2>5 DEF Ahead
  <2>. DEFINE f == set_errors(a)
  <2>. USE <2>6
  <2>8. Linked(e, f) /\ Ahead(a, f)
    BY ErrorsAhead
  <2>. HIDE DEF f
  <2>. USE <2>8
  <2>9. Linked(e, send_rst_seg(f)) /\ Ahead(f, send_rst_seg(f))
    BY ResetSent, QueuesAhead DEF Onward
  <2>. USE <2>9
  <2>10. Ahead(a, send_rst_seg(f))
    BY AheadTwice
  <2>11. Linked(e, send_all_segs(a)) /\ Ahead(a, send_all_segs(a)) /\ Ahead(a, a)
    BY AllSent, QueuesAhead DEF Onward
  <2>12. d = send_rst_seg(f) \/ d = send_all_segs(a) \/ d = a
    BY DEF SendOrGiveUp, f
  <2>. HIDE DEF d
  <2>13. Linked(e, d) /\ Ahead(a, d)
    BY <2>10, <2>11, <2>12
  <2>14. Ahead(c, d)
    BY <2>7, <2>13, AheadTwice
  <2>. QED  BY <2>1, <2>14
<1>. QED  BY <1>1, <1>2

-----------------------------------------------------------------------------
(***************************************************************************)
(* Both halves of a connection at once, and every step of the pair.        *)
(***************************************************************************)
Advanced(c, d) == Ahead(c, d) /\ Grown(c.receiver, d.receiver)

\* The inbound stream failed, or read from.
LEMMA OutputGrown ==
  ASSUME NEW e, NEW rcv, NEW d, NEW n, NEW f, Receiving(e, rcv, d, n, f)
  PROVE  /\ Grown(rcv, rcv) /\ Grown(rcv, Failed(rcv))
         /\ \A len : Grown(rcv, Reoutput(rcv, Stream!pop_output(rcv.reassembler.output, len)))
<1>. DEFINE t == rcv.reassembler.output
<1>1. /\ InboundFields \subseteq DOMAIN t /\ {"reassembler", "isn", "isn_set"} \subseteq DOMAIN rcv
      /\ {"output", "substrs", "size"} \subseteq DOMAIN rcv.reassembler
  BY DEF Receiving, Inbound
<1>. USE <1>1
<1>2. \A u : /\ Reoutput(rcv, u).isn_set = rcv.isn_set
             /\ Receiver!stream_out(Reoutput(rcv, u)) = u
  BY DEF Reoutput, Receiver!stream_out
<1>3. /\ Stream!set_error(t).input_end = t.input_end /\ Stream!set_error(t).error = TRUE
      /\ \A len : /\ Stream!pop_output(t, len).input_end = t.input_end
                  /\ Stream!pop_output(t, len).error = t.error
  BY DEF InboundFields, Stream!set_error, Stream!pop_output
<1>4. Failed(rcv) = Reoutput(rcv, Stream!set_error(t))
  BY DEF Failed, Reoutput
<1>5. Receiver!stream_out(rcv) = t
  BY DEF Receiver!stream_out
<1>. USE <1>2, <1>3, <1>5
<1>6. Grown(rcv, rcv) /\ Grown(rcv, Reoutput(rcv, Stream!set_error(t)))
  BY DEF Grown
<1>7. \A len : Grown(rcv, Reoutput(rcv, Stream!pop_output(t, len)))
  BY DEF Grown
<1>. QED  BY <1>4, <1>6, <1>7

Advances == \A e \in End : Advanced(conn[e], conn'[e])

\* What the invariant says of an end that holds still, or sends the same.
LEMMA StillAdvanced ==
  ASSUME IInv, NEW e \in End
  PROVE  /\ Linked(e, conn[e]) /\ Advanced(conn[e], conn[e])
         /\ \A d : Ahead(conn[e], d) /\ d.receiver = conn[e].receiver => Advanced(conn[e], d)
         /\ \A d : Ahead(conn[e], d) /\ d.receiver = Failed(conn[e].receiver)
                     => Advanced(conn[e], d)
<1>. DEFINE c == conn[e]
            n == conn[Peer(e)].sender.stream.written
            f == conn[Peer(e)].sender.stream.input_end
<1>1. Linked(e, c) /\ Receiving(e, c.receiver, received[e], n, f)
  BY EndFacts DEF Held
<1>. USE <1>1
<1>2. Ahead(c, c)
  BY QueuesAhead
<1>3. Grown(c.receiver, c.receiver) /\ Grown(c.receiver, Failed(c.receiver))
  <2>. HIDE DEF n, f, c
  <2>. QED  BY OutputGrown
<1>. QED  BY <1>2, <1>3 DEF Advanced

\* A step of one end.
LEMMA OneAdvances ==
  ASSUME IInv, NEW e \in End, NEW c, conn' = [conn EXCEPT ![e] = c], Advanced(conn[e], c)
  PROVE  Advances
<1>1. conn'[e] = c /\ \A p \in End : p # e => conn'[p] = conn[p]
  BY DEF IInv
<1>. USE <1>1
<1>2. ASSUME NEW p \in End PROVE Advanced(conn[p], conn'[p])
  <2>1. CASE p = e
    BY <2>1
  <2>2. CASE p # e
    BY <2>2, StillAdvanced
  <2>. QED  BY <2>1, <2>2
<1>. QED  BY <1>2 DEF Advances

\* The application connects, writes or ends its stream.
LEMMA ApplicationAdvances ==
  ASSUME Counting, IInv, NEW e \in End,
         Connect \/ EndInput(e) \/ \E n \in 1 .. SendCapacity : Write(e, n)
  PROVE  Advances
<1>1. ASSUME Connect PROVE Advances
  <2>. DEFINE c == conn[Client]
  <2>1. /\ Client \in End /\ c.sender.next_seqno = 0
        /\ conn' = [conn EXCEPT ![Client] = connect(c)]
    BY <1>1 DEF Connect, End
  <2>. USE <2>1
  <2>2. Linked(Client, c)
    BY StillAdvanced
  <2>3. Ahead(c, connect(c)) /\ connect(c).receiver = c.receiver
    BY <2>2, ConnectAhead, Connects DEF Onward
  <2>4. Advanced(c, connect(c))
    BY <2>3, StillAdvanced
  <2>. QED  BY <2>4, OneAdvances
<1>2. ASSUME NEW n \in 1 .. SendCapacity, Write(e, n) PROVE Advances
  <2>. DEFINE c == conn[e]
              w == c.sender.stream.written
              d == write(c, [i \in 1 .. n |-> w + i - 1])
  <2>1. /\ n <= Stream!remaining_capacity(c.sender.stream) /\ w + n <= StreamLen[e]
        /\ conn' = [conn EXCEPT ![e] = d]
    BY <1>2 DEF Write
  <2>2. n \in Nat \ {0}
    BY <1>2, PairAssumption, SMTT(40)
  <2>3. Linked(e, c)
    BY StillAdvanced
  <2>. USE <2>1
  <2>4. Wrote(e, c, w + n, c.sender.stream.input_end, d) /\ Ahead(c, d)
    BY <2>2, <2>3, Writes, WriteAhead
  <2>. HIDE DEF d
  <2>5. Advanced(c, d)
    BY <2>4, StillAdvanced DEF Wrote
  <2>. QED  BY <2>5, OneAdvances
<1>3. ASSUME EndInput(e) PROVE Advances
  <2>. DEFINE c == conn[e]
              d == end_input_stream(c)
  <2>1. c.sender.stream.written = StreamLen[e] /\ conn' = [conn EXCEPT ![e] = d]
    BY <1>3 DEF EndInput
  <2>2. Linked(e, c)
    BY StillAdvanced
  <2>. USE <2>1
  <2>3. Wrote(e, c, c.sender.stream.written, TRUE, d) /\ Ahead(c, d)
    BY <2>2, EndsInput, EndInputAhead
  <2>. HIDE DEF d
  <2>4. Advanced(c, d)
    BY <2>3, StillAdvanced DEF Wrote
  <2>. QED  BY <2>4, OneAdvances
<1>. QED  BY <1>1, <1>2, <1>3

\* The application reads.
LEMMA ReadAdvances ==
  ASSUME IInv, NEW e \in End, NEW n, Read(e, n)
  PROVE  Advances
<1>. DEFINE c == conn[e]
            u == Stream!pop_output(c.receiver.reassembler.output, n)
            d == [c EXCEPT !.receiver.reassembler.output = Stream!pop_output(@, n)]
            w == conn[Peer(e)].sender.stream.written
            f == conn[Peer(e)].sender.stream.input_end
<1>1. conn' = [conn EXCEPT ![e] = d]
  BY DEF Read
<1>2. Linked(e, c) /\ Receiving(e, c.receiver, received[e], w, f) /\ Ahead(c, c)
  BY EndFacts, StillAdvanced DEF Held, Advanced
<1>. USE <1>2
<1>3. d.sender = c.sender /\ d.receiver = Reoutput(c.receiver, u)
  BY DEF Linked, ConnFields, Reoutput
<1>4. Grown(c.receiver, Reoutput(c.receiver, u))
  <2>. HIDE DEF w, f, c
  <2>. QED  BY OutputGrown
<1>. HIDE DEF d, u
<1>5. Advanced(c, d)
  BY <1>3, <1>4 DEF Advanced, Ahead
<1>. QED  BY <1>1, <1>5, OneAdvances

\* Time passes.
LEMMA TickAdvances ==
  ASSUME Counting, IInv, NEW E, Tick(E)
  PROVE  Advances
<1>1. ASSUME NEW e \in End PROVE Advanced(conn[e], conn'[e])
  <2>. DEFINE c == conn[e]
              d == tick(c, TickMs)
  <2>1. conn'[e] = c \/ conn'[e] = d
    BY DEF Tick
  <2>2. Linked(e, c)
    BY StillAdvanced
  <2>3. ClockedOn(e, c, d) /\ Ahead(c, d)
    BY <2>2, ConnectionTicks, TickAhead
  <2>. HIDE DEF d
  <2>. USE <2>3
  <2>4. d.receiver = c.receiver \/ d.receiver = Failed(c.receiver)
    BY DEF ClockedOn
  <2>5. Advanced(c, d) /\ Advanced(c, c)
    BY <2>4, StillAdvanced
  <2>. QED  BY <2>1, <2>5
<1>. QED  BY <1>1 DEF Advances

\* TCPConnection::segment_received, for a segment that the other end sent.
LEMMA SegmentAdvances ==
  ASSUME Counting, ReceiverKeeps, ShortStreams, IInv, NEW e \in End,
         NEW seg \in Truthful(Peer(e), conn[Peer(e)].sender.stream.written,
                              conn[Peer(e)].sender.stream.input_end)
  PROVE  Advanced(conn[e], segment_received(conn[e], seg))
<1>. DEFINE c == conn[e]
            n == conn[Peer(e)].sender.stream.written
            f == conn[Peer(e)].sender.stream.input_end
            d == segment_received(c, seg)
            rcv == Receiver!segment_received(c.receiver, seg)
<1>1. /\ Linked(e, c) /\ Sending(e, c.sender) /\ Receiving(e, c.receiver, received[e], n, f)
      /\ n \in 0 .. StreamLen[Peer(e)] /\ n <= StreamLen[Peer(e)]
      /\ f => n = StreamLen[Peer(e)]
  BY EndFacts DEF Held, Linked
<1>2. CASE ~active(c)
  <2>1. d = c
    BY <1>2 DEF segment_received
  <2>. QED  BY <2>1, StillAdvanced
<1>. USE <1>1
<1>3. CASE active(c) /\ seg.rst
  <2>1. d = set_errors(c)
    BY <1>3 DEF segment_received
  <2>2. GivenUp(e, c, set_errors(c)) /\ Ahead(c, set_errors(c))
    BY ErrorsSet, ErrorsAhead
  <2>. QED  BY <2>1, <2>2, StillAdvanced DEF GivenUp
<1>4. CASE active(c) /\ ~seg.rst
  <2>1. Receiving(e, rcv, received[e], n, f) /\ Grown(c.receiver, rcv)
    BY DEF ReceiverKeeps
  <2>. USE <2>1
  <2>2. Acking(e, rcv)
    <3>. HIDE DEF rcv, n, f
    <3>. QED  BY ReceivingAcks
  <2>3. Heard(e, c.sender, HearAck(c.sender, seg)) /\ Forward(c.sender, HearAck(c.sender, seg))
    <3>1. seg \in Segments
      BY DEF Truthful
    <3>2. 2 * (StreamLen[e] + 3) < SeqnoMod
      BY DEF ShortStreams
    <3>3. seg.ack => Sender!unwrap(seg.ackno, c.sender.isn, c.sender.next_seqno)
                       \in 0 .. StreamLen[e] + 2
      BY AckRecovered
    <3>. QED  BY <3>1, <3>2, <3>3, AckAnswered, HearAckForward
  <2>4. Received(e, c, rcv, d) /\ Ahead(c, d)
    BY <1>4, <2>2, <2>3, SegmentTaken, SegmentAhead
  <2>. HIDE DEF rcv, d
  <2>5. Advanced(c, d)
    BY <2>4 DEF Received, Advanced
  <2>. QED  BY <2>5 DEF d
<1>. QED  BY <1>2, <1>3, <1>4

\* A segment of e is handed to the other end, and e keeps its halves.
LEMMA HandedAdvances ==
  ASSUME Counting, ReceiverKeeps, ShortStreams, IInv, NEW e \in End, NEW seg,
         seg \in Truthful(e, conn[e].sender.stream.written, conn[e].sender.stream.input_end),
         conn'[e].sender = conn[e].sender, conn'[e].receiver = conn[e].receiver,
         conn'[Peer(e)] = segment_received(conn[Peer(e)], seg)
  PROVE  Advances
<1>. DEFINE p == Peer(e)
<1>1. p \in End /\ Peer(p) = e /\ \A a \in End : a = e \/ a = p
  BY Ends DEF End, Peer
<1>. USE <1>1
<1>2. Advanced(conn[p], conn'[p])
  BY SegmentAdvances
<1>3. Advanced(conn[e], conn'[e])
  BY StillAdvanced DEF Advanced, Ahead
<1>. QED  BY <1>2, <1>3 DEF Advances

\* The network delivers, duplicates or loses a segment.
LEMMA NetworkAdvances ==
  ASSUME Counting, ReceiverKeeps, ShortStreams, IInv, NEW e \in End,
         \/ \E i \in DOMAIN conn[e].segments_out : Deliver(e, i)
         \/ Duplicate(e) \/ Lose(e)
  PROVE  Advances
<1>. DEFINE c == conn[e]
            q == c.segments_out
            S == Truthful(e, c.sender.stream.written, c.sender.stream.input_end)
            p == Peer(e)
<1>1. p \in End /\ p # e /\ Linked(e, c) /\ q \in Seq(S) /\ ConnFields \subseteq DOMAIN c
  BY Ends, StillAdvanced DEF Linked
<1>. USE <1>1
<1>2. ASSUME NEW i \in DOMAIN q, Deliver(e, i) PROVE Advances
  <2>1. conn' = [conn EXCEPT ![e].segments_out = Without(@, i),
                             ![p] = segment_received(@, q[i])]
    BY <1>2 DEF Deliver
  <2>2. /\ conn'[e] = [c EXCEPT !.segments_out = Without(q, i)]
        /\ conn'[p] = segment_received(conn[p], q[i])
    BY <2>1 DEF IInv
  <2>. USE <2>2
  <2>3. conn'[e].sender = c.sender /\ conn'[e].receiver = c.receiver
    BY DEF ConnFields
  <2>4. q[i] \in S
    <3>. HIDE DEF S, q
    <3>. QED  BY <1>2, WithoutOne
  <2>. QED  BY <2>3, <2>4, HandedAdvances
<1>3. ASSUME Duplicate(e) PROVE Advances
  <2>1. q # << >> /\ conn' = [conn EXCEPT ![p] = segment_received(@, Head(q))]
    BY <1>3 DEF Duplicate
  <2>. USE <2>1
  <2>2. conn'[e] = c /\ conn'[p] = segment_received(conn[p], Head(q))
    BY DEF IInv
  <2>3. Head(q) \in S
    <3>. HIDE DEF S, q
    <3>. QED  BY SMTT(40)
  <2>. QED  BY <2>2, <2>3, HandedAdvances
<1>4. ASSUME Lose(e) PROVE Advances
  <2>. DEFINE d == [c EXCEPT !.segments_out = Tail(@)]
  <2>1. conn' = [conn EXCEPT ![e] = d]
    BY <1>4 DEF Lose
  <2>2. d.sender = c.sender /\ d.receiver = c.receiver
    BY DEF ConnFields
  <2>. HIDE DEF d
  <2>3. Advanced(c, d)
    BY <2>2, StillAdvanced DEF Advanced, Ahead
  <2>. QED  BY <2>1, <2>3, OneAdvances
<1>. QED  BY <1>2, <1>3, <1>4

\* Every step.
LEMMA NextAdvances ==
  ASSUME Counting, ReceiverKeeps, ShortStreams, IInv, [Next]_vars
  PROVE  Advances
<1>1. CASE Next
  BY <1>1, ApplicationAdvances, ReadAdvances, TickAdvances, NetworkAdvances DEF Next, End
<1>2. CASE UNCHANGED vars
  <2>1. conn' = conn
    BY <1>2 DEF vars
  <2>. QED  BY <2>1, StillAdvanced DEF Advances
<1>. QED  BY <1>1, <1>2

-----------------------------------------------------------------------------
(***************************************************************************)
(* The states' ranks.  What a finite set counts is a hypothesis here and a *)
(* theorem of TCPPairProofs.                                               *)
(***************************************************************************)
Counted ==
  \A n \in Nat : \A F \in SUBSET (0 .. n - 1) :
    /\ Sender!Cardinality(F) \in Nat
    /\ Sender!Cardinality(F) = n <=> F = 0 .. n - 1
    /\ Sender!Cardinality(F) = 0 <=> F = {}

\* The ranks of the states that tcp_state.cc names.
LEMMA Ranks ==
  /\ Rank("CLOSED") = 1 /\ Rank("LISTEN") = 2 /\ Rank("SYN_SENT") = 3
  /\ Rank("SYN_ACKED") = 4 /\ Rank("SYN_RECV") = 5 /\ Rank("FIN_SENT") = 6
  /\ Rank("FIN_ACKED") = 7 /\ Rank("FIN_RECV") = 8 /\ Rank("ERROR") = 9
<1>1. DOMAIN StateOrder = 1 .. 9
  BY SMTT(40) DEF StateOrder
<1>2. /\ StateOrder[1] = "CLOSED" /\ StateOrder[2] = "LISTEN" /\ StateOrder[3] = "SYN_SENT"
      /\ StateOrder[4] = "SYN_ACKED" /\ StateOrder[5] = "SYN_RECV"
      /\ StateOrder[6] = "FIN_SENT" /\ StateOrder[7] = "FIN_ACKED"
      /\ StateOrder[8] = "FIN_RECV" /\ StateOrder[9] = "ERROR"
  BY SMTT(40) DEF StateOrder
<1>. USE <1>2
<1>3. \A i, j \in 1 .. 9 : StateOrder[i] = StateOrder[j] => i = j
  <2>1. \A i \in 1 .. 9 : i = 1 \/ i = 2 \/ i = 3 \/ i = 4 \/ i = 5 \/ i = 6 \/ i = 7
                          \/ i = 8 \/ i = 9
    BY SMTT(40)
  <2>. QED  BY <2>1, SMTT(40)
<1>. USE <1>1
<1>4. ASSUME NEW i \in 1 .. 9 PROVE Rank(StateOrder[i]) = i
  <2>1. \E j \in DOMAIN StateOrder : StateOrder[j] = StateOrder[i]
    OBVIOUS
  <2>2. Rank(StateOrder[i]) \in 1 .. 9 /\ StateOrder[Rank(StateOrder[i])] = StateOrder[i]
    BY <2>1 DEF Rank
  <2>. QED  BY <1>3, <2>2
<1>5. /\ 1 \in 1 .. 9 /\ 2 \in 1 .. 9 /\ 3 \in 1 .. 9 /\ 4 \in 1 .. 9 /\ 5 \in 1 .. 9
      /\ 6 \in 1 .. 9 /\ 7 \in 1 .. 9 /\ 8 \in 1 .. 9 /\ 9 \in 1 .. 9
  BY SMTT(40)
<1>. QED  BY <1>4, <1>5

\* What is in flight lies below the next number.
LEMMA FlightBelow ==
  ASSUME NEW e \in End, NEW s, Sending(e, s)
  PROVE  s.next_seqno \in Nat /\ Sender!InFlight(s) \in SUBSET (0 .. s.next_seqno - 1)
<1>. DEFINE next == s.next_seqno
<1>1. Queued(e, s) /\ next \in Nat
  BY SendingFacts
<1>. USE <1>1
<1>2. ASSUME NEW k \in DOMAIN s.outstanding
      PROVE  Sender!Seqnos(k, s.outstanding[k]) \subseteq 0 .. next - 1
  <2>1. /\ k \in Nat /\ s.outstanding[k] \in Truthful(e, s.stream.written, s.stream.input_end)
        /\ k + Sender!length_in_sequence_space(s.outstanding[k]) <= next
    BY DEF Queued
  <2>. USE <2>1
  <2>2. Sender!length_in_sequence_space(s.outstanding[k]) \in Nat
    BY TruthfulLength
  <2>. QED  BY <2>2, SMTT(40) DEF Sender!Seqnos
<1>. QED  BY <1>2 DEF Sender!InFlight

\* A number in flight was in flight before, or is new while no FIN was out.
LEMMA FlightForward ==
  ASSUME NEW e \in End, NEW s, Sending(e, s), NEW t, Sending(e, t), Forward(s, t),
         NEW x \in Sender!InFlight(t)
  PROVE  x \in Sender!InFlight(s) \/ (x >= s.next_seqno /\ ~FinOut(s))
<1>1. PICK k \in DOMAIN t.outstanding : x \in Sender!Seqnos(k, t.outstanding[k])
  BY DEF Sender!InFlight
<1>. USE <1>1
<1>2. CASE k \in DOMAIN s.outstanding /\ t.outstanding[k] = s.outstanding[k]
  BY <1>2 DEF Sender!InFlight
<1>3. CASE k >= s.next_seqno /\ ~FinOut(s)
  <2>1. k \in Nat /\ s.next_seqno \in Nat /\ t.next_seqno \in Nat
    BY SendingFacts DEF Queued
  <2>. USE <2>1
  <2>2. x \in Nat
    <3>1. x \in 0 .. t.next_seqno - 1
      BY FlightBelow
    <3>. QED  BY <3>1, SMTT(40)
  <2>3. x >= k
    <3>. DEFINE len == Sender!length_in_sequence_space(t.outstanding[k])
    <3>1. t.outstanding[k] \in Truthful(e, t.stream.written, t.stream.input_end)
      BY SendingFacts DEF Queued
    <3>2. len \in Nat
      BY <3>1, TruthfulLength
    <3>3. x \in k .. k + len - 1
      BY DEF Sender!Seqnos
    <3>. HIDE DEF len
    <3>. QED  BY <3>2, <3>3, SMTT(40)
  <2>4. x >= s.next_seqno
    BY <1>3, <2>2, <2>3, SMTT(40)
  <2>. QED  BY <1>3, <2>4
<1>. QED  BY <1>2, <1>3 DEF Forward

\* So the state of a sender never goes back ...
LEMMA SenderRank ==
  ASSUME Counted, NEW e \in End, NEW s, Sending(e, s), NEW t, Sending(e, t), Forward(s, t)
  PROVE  Rank(sender_state(s)) <= Rank(sender_state(t))
<1>. DEFINE n == s.next_seqno
            m == t.next_seqno
            F == Sender!InFlight(s)
            G == Sender!InFlight(t)
            a == Sender!Cardinality(F)
            b == Sender!Cardinality(G)
<1>1. /\ n \in Nat /\ F \in SUBSET (0 .. n - 1) /\ m \in Nat /\ G \in SUBSET (0 .. m - 1)
  BY FlightBelow
<1>. USE <1>1
<1>2. /\ a \in Nat /\ (a = n <=> F = 0 .. n - 1) /\ (a = 0 <=> F = {})
      /\ b \in Nat /\ (b = m <=> G = 0 .. m - 1) /\ (b = 0 <=> G = {})
  BY DEF Counted
<1>3. \A x \in G : x \in F \/ (x >= n /\ ~FinOut(s))
  BY FlightForward
<1>4. n <= m /\ (s.stream.error => t.stream.error) /\ (FinOut(s) => FinOut(t))
  BY DEF Forward
<1>5. s.stream.written \in Nat /\ t.stream.written \in Nat
  BY SendingFacts, OutboundFacts
<1>. DEFINE sf == FinOut(s)
            tf == FinOut(t)
<1>. USE <1>5
<1>6. /\ Stream!eof(s.stream) /\ ~ (n < s.stream.written + 2) <=> sf
      /\ Stream!eof(t.stream) /\ ~ (m < t.stream.written + 2) <=> tf
  <2>1. ~ (n < s.stream.written + 2) <=> n >= s.stream.written + 2
    BY SMTT(40)
  <2>2. ~ (m < t.stream.written + 2) <=> m >= t.stream.written + 2
    BY SMTT(40)
  <2>. QED  BY <2>1, <2>2 DEF FinOut
<1>. USE <1>6
<1>7. sender_state(s) = IF s.stream.error THEN "ERROR" ELSE IF n = 0 THEN "CLOSED"
                        ELSE IF n = a THEN "SYN_SENT" ELSE IF ~sf THEN "SYN_ACKED"
                        ELSE IF a > 0 THEN "FIN_SENT" ELSE "FIN_ACKED"
  BY DEF sender_state, Sender!bytes_in_flight
<1>8. sender_state(t) = IF t.stream.error THEN "ERROR" ELSE IF m = 0 THEN "CLOSED"
                        ELSE IF m = b THEN "SYN_SENT" ELSE IF ~tf THEN "SYN_ACKED"
                        ELSE IF b > 0 THEN "FIN_SENT" ELSE "FIN_ACKED"
  BY DEF sender_state, Sender!bytes_in_flight
<1>. HIDE DEF n, m, F, G, sf, tf, a, b
<1>. USE <1>2, <1>4, <1>3
<1>9. b = m => a = n
  <2>. SUFFICES ASSUME b = m PROVE a = n
    OBVIOUS
  <2>1. \A x \in 0 .. n - 1 : x \in 0 .. m - 1 /\ ~ (x >= n)
    BY SMTT(40)
  <2>2. \A x \in 0 .. n - 1 : x \in F
    BY <2>1
  <2>. QED  BY <2>2
<1>10. sf /\ a = 0 => b = 0
  BY DEF sf
<1>11. sf => tf
  BY DEF sf, tf
<1>12. (m = 0 => n = 0) /\ (a > 0 <=> a # 0) /\ (b > 0 <=> b # 0)
  BY SMTT(40)
<1>. USE <1>7, <1>8
<1>13. CASE t.stream.error
  <2>1. Rank(sender_state(t)) = 9
    BY <1>13, Ranks
  <2>2. Rank(sender_state(s)) \in {1, 3, 4, 6, 7, 9}
    BY Ranks
  <2>. QED  BY <2>1, <2>2, SMTT(40)
<1>. USE <1>12, <1>9
<1>14. CASE ~t.stream.error
  <2>1. ~s.stream.error
    BY <1>14
  <2>. USE <2>1
  <2>2. CASE n = 0
    <3>1. Rank(sender_state(s)) = 1
      BY <2>2, Ranks
    <3>2. Rank(sender_state(t)) \in {1, 3, 4, 6, 7, 9}
      BY Ranks
    <3>. QED  BY <3>1, <3>2, SMTT(40)
  <2>3. CASE n # 0 /\ n = a
    <3>1. Rank(sender_state(s)) = 3
      BY <2>3, Ranks
    <3>2. Rank(sender_state(t)) \in {3, 4, 6, 7, 9}
      BY <2>3, Ranks
    <3>. QED  BY <3>1, <3>2, SMTT(40)
  <2>4. CASE n # 0 /\ n # a /\ ~sf
    <3>1. Rank(sender_state(s)) = 4
      BY <2>4, Ranks
    <3>2. Rank(sender_state(t)) \in {4, 6, 7, 9}
      BY <2>4, Ranks
    <3>. QED  BY <3>1, <3>2, SMTT(40)
  <2>5. CASE n # 0 /\ n # a /\ sf
    <3>1. Rank(sender_state(s)) = IF a # 0 THEN 6 ELSE 7
      BY <2>5, Ranks
    <3>2. Rank(sender_state(t)) = IF b # 0 THEN 6 ELSE 7
      BY <1>11, <1>14, <2>5, Ranks
    <3>. QED  BY <1>10, <2>5, <3>1, <3>2, SMTT(40)
  <2>. QED  BY <2>2, <2>3, <2>4, <2>5
<1>. QED  BY <1>13, <1>14

\* ... nor does the state of a receiver.
LEMMA ReceiverRank ==
  ASSUME NEW rcv, NEW new, Grown(rcv, new)
  PROVE  Rank(receiver_state(rcv)) <= Rank(receiver_state(new))
<1>. DEFINE t == Receiver!stream_out(rcv)
            u == Receiver!stream_out(new)
<1>1. /\ rcv.isn_set => new.isn_set
      /\ t.input_end => u.input_end
      /\ t.error => u.error
  BY DEF Grown
<1>2. receiver_state(rcv) = IF t.error THEN "ERROR" ELSE IF ~rcv.isn_set THEN "LISTEN"
                            ELSE IF t.input_end THEN "FIN_RECV" ELSE "SYN_RECV"
  BY DEF receiver_state, Receiver!has_ackno
<1>3. receiver_state(new) = IF u.error THEN "ERROR" ELSE IF ~new.isn_set THEN "LISTEN"
                            ELSE IF u.input_end THEN "FIN_RECV" ELSE "SYN_RECV"
  BY DEF receiver_state, Receiver!has_ackno
<1>. HIDE DEF t, u
<1>4. Rank(receiver_state(rcv)) = IF t.error THEN 9 ELSE IF ~rcv.isn_set THEN 2
                                  ELSE IF t.input_end THEN 8 ELSE 5
  BY <1>2, Ranks
<1>5. Rank(receiver_state(new)) = IF u.error THEN 9 ELSE IF ~new.isn_set THEN 2
                                  ELSE IF u.input_end THEN 8 ELSE 5
  BY <1>3, Ranks
<1>. QED  BY <1>1, <1>4, <1>5, SMTT(40)

\* Every step keeps both states of both ends from going back.
LEMMA RanksKept ==
  ASSUME Counting, Counted, ReceiverKeeps, ShortStreams, IInv, [Next]_vars, NEW e \in End
  PROVE  /\ Rank(sender_state(conn[e].sender)) <= Rank(sender_state(conn'[e].sender))
         /\ Rank(receiver_state(conn[e].receiver)) <= Rank(receiver_state(conn'[e].receiver))
<1>1. Forward(conn[e].sender, conn'[e].sender) /\ Grown(conn[e].receiver, conn'[e].receiver)
  BY NextAdvances DEF Advances, Advanced, Ahead
<1>2. IInv'
  BY NextHolds DEF Moved
<1>3. Sending(e, conn[e].sender) /\ Sending(e, conn'[e].sender)
  BY <1>2 DEF IInv, HeldBy, Held, Linked
<1>. QED  BY <1>1, <1>3, SenderRank, ReceiverRank
=============================================================================
