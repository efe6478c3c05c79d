--------------------------- MODULE TCPPairLemmas ----------------------------
(***************************************************************************)
(* Two connected endpoints, whatever the network loses, repeats and        *)
(* reorders: what each application reads is what the other one wrote, and  *)
(* the two never both close without lingering.  The theorems are about     *)
(* streams that occupy less than half of the sequence space: nothing in    *)
(* the code tells a segment from one that is older by a whole turn of it.  *)
(***************************************************************************)
EXTENDS TCPPair, Integers, TLAPS

(***************************************************************************)
(* Facts about sequences.  The elementary ones are known to the SMT        *)
(* backend; they are stated here to be cited where Zenon does the rest.    *)
(***************************************************************************)


\* A sequence is a function on 1 .. its length.
LEMMA LenOfSeq ==
  ASSUME NEW S, NEW s \in Seq(S)
  PROVE  Len(s) \in Nat /\ DOMAIN s = 1 .. Len(s) /\ s \in [1 .. Len(s) -> S]
  OBVIOUS

\* A function on 1 .. n is a sequence of length n.
LEMMA FunctionIsSeq ==
  ASSUME NEW S, NEW n \in Nat, NEW f \in [1 .. n -> S]
  PROVE  f \in Seq(S) /\ Len(f) = n
  OBVIOUS

\* Its elements.
LEMMA SeqElement ==
  ASSUME NEW S, NEW s \in Seq(S), NEW i \in 1 .. Len(s)
  PROVE  s[i] \in S
  OBVIOUS

\* Only the empty sequence has length 0.
LEMMA EmptySeqLen ==
  ASSUME NEW S
  PROVE  /\ << >> \in Seq(S) /\ Len(<< >>) = 0
         /\ \A s \in Seq(S) : s # << >> => Len(s) \in Nat \ {0}
  OBVIOUS

\* Sequences that agree at every place are the same.
LEMMA SameSeq ==
  ASSUME NEW S, NEW s \in Seq(S), NEW t \in Seq(S), Len(s) = Len(t),
         \A i \in 1 .. Len(s) : s[i] = t[i]
  PROVE  s = t
  OBVIOUS

\* Two sequences joined.
LEMMA Concatenation ==
  ASSUME NEW S, NEW s \in Seq(S), NEW t \in Seq(S)
  PROVE  /\ s \o t \in Seq(S) /\ Len(s \o t) = Len(s) + Len(t)
         /\ \A i \in 1 .. Len(s) + Len(t) :
              (s \o t)[i] = IF i <= Len(s) THEN s[i] ELSE t[i - Len(s)]
  OBVIOUS

\* Joining the empty sequence changes nothing.
LEMMA ConcatEmpty ==
  ASSUME NEW S, NEW s \in Seq(S)
  PROVE  s \o << >> = s /\ << >> \o s = s
  OBVIOUS

\* A part of a sequence.
LEMMA SubSeqSlice ==
  ASSUME NEW S, NEW s \in Seq(S), NEW m \in 1 .. Len(s) + 1, NEW n \in m - 1 .. Len(s)
  PROVE  /\ SubSeq(s, m, n) \in Seq(S) /\ Len(SubSeq(s, m, n)) = n - m + 1
         /\ \A i \in 1 .. n - m + 1 : SubSeq(s, m, n)[i] = s[m + i - 1]
  OBVIOUS

(***************************************************************************)
(* What the bytes taken from the front and the bytes left over have to do  *)
(* with each other: split anywhere, a sequence is the two parts joined.    *)
(* peek_output and pop_output split the buffer at the same place.          *)
(***************************************************************************)
LEMMA SplitSeq ==
  ASSUME NEW S, NEW s \in Seq(S), NEW n \in 0 .. Len(s)
  PROVE  /\ SubSeq(s, 1, n) \in Seq(S)
         /\ SubSeq(s, n + 1, Len(s)) \in Seq(S)
         /\ Len(SubSeq(s, 1, n)) = n
         /\ Len(SubSeq(s, n + 1, Len(s))) = Len(s) - n
         /\ s = SubSeq(s, 1, n) \o SubSeq(s, n + 1, Len(s))
<1>. DEFINE p == SubSeq(s, 1, n)
            q == SubSeq(s, n + 1, Len(s))
<1>1. /\ Len(s) \in Nat
      /\ \A i \in 1 .. Len(s) : s[i] \in S
  BY SeqElement, LenOfSeq
<1>2. /\ p \in Seq(S)
      /\ Len(p) = n
      /\ \A i \in 1 .. n : p[i] = s[i]
  BY <1>1, SubSeqSlice
<1>3. /\ q \in Seq(S)
      /\ Len(q) = Len(s) - n
      /\ \A i \in 1 .. Len(s) - n : q[i] = s[n + i]
  BY <1>1, SubSeqSlice
<1>4. s = p \o q
  <2>1. /\ p \o q \in Seq(S) /\ Len(p \o q) = Len(p) + Len(q)
        /\ \A i \in 1 .. Len(p) + Len(q) :
             (p \o q)[i] = IF i <= Len(p) THEN p[i] ELSE q[i - Len(p)]
    BY <1>2, <1>3, Concatenation, Zenon
  <2>. HIDE DEF p, q
  <2>2. Len(p \o q) = Len(s)
    BY <1>1, <1>2, <1>3, <2>1
  <2>3. ASSUME NEW i \in 1 .. Len(s) PROVE (p \o q)[i] = s[i]
    BY <1>1, <1>2, <1>3, <2>1
  <2>. QED  BY <2>1, <2>2, <2>3, SameSeq, Zenon
<1>. QED  BY <1>2, <1>3, <1>4, Zenon

\* Joining sequences is associative.
LEMMA JoinSeqs ==
  ASSUME NEW S, NEW s \in Seq(S), NEW t \in Seq(S), NEW u \in Seq(S)
  PROVE  (s \o t) \o u = s \o (t \o u)
<1>1. s \o t \in Seq(S) /\ t \o u \in Seq(S)
  BY Zenon, Concatenation
<1>2. (s \o t) \o u \in Seq(S) /\ s \o (t \o u) \in Seq(S)
  BY <1>1, Zenon, Concatenation
<1>3. Len((s \o t) \o u) = Len(s \o (t \o u))
  BY SMTT(60)
<1>4. ASSUME NEW i \in 1 .. Len((s \o t) \o u)
      PROVE  ((s \o t) \o u)[i] = (s \o (t \o u))[i]
  BY SMTT(60)
<1>. QED  BY <1>2, <1>3, <1>4, SameSeq, Zenon

\* Joining runs of bytes is associative: what was read, then the buffer, then
\* what is written.
LEMMA JoinBytes == \A s, t, u \in Seq(Nat) : (s \o t) \o u = s \o (t \o u)
<1>. DEFINE B == Nat
<1>. HIDE DEF B
<1>1. \A s, t, u \in Seq(B) : (s \o t) \o u = s \o (t \o u)
  BY JoinSeqs, SMTT(60)
<1>. QED  BY <1>1, Zenon DEF B

(***************************************************************************)
(* The numbers a .. b - 1, in order: the bytes of a stream, in the models. *)
(***************************************************************************)
Run(a, b) == [k \in 1 .. b - a |-> a + k - 1]

\* They are as many as the range is long.
LEMMA RunType ==
  ASSUME NEW a \in Nat, NEW b \in Nat, a <= b
  PROVE  /\ Run(a, b) \in Seq(Nat)
         /\ Len(Run(a, b)) = b - a
         /\ \A k \in 1 .. b - a : Run(a, b)[k] = a + k - 1
<1>1. b - a \in Nat /\ \A k \in 1 .. b - a : a + k - 1 \in Nat
  OBVIOUS
<1>2. Run(a, b) \in [1 .. b - a -> Nat]
  BY <1>1 DEF Run
<1>3. Run(a, b) \in Seq(Nat)
  BY <1>1, <1>2, FunctionIsSeq
<1>4. Len(Run(a, b)) = b - a
  BY <1>1, <1>3, LenOfSeq DEF Run
<1>. QED  BY <1>3, <1>4 DEF Run

\* Only an empty range has none.
LEMMA RunEmpty ==
  ASSUME NEW a \in Nat, NEW b \in Nat, a <= b
  PROVE  Run(a, b) = << >> <=> a = b
<1>1. Run(a, b) \in Seq(Nat) /\ Len(Run(a, b)) = b - a
  BY RunType
<1>2. Run(a, b) = << >> <=> Len(Run(a, b)) = 0
  BY <1>1, EmptySeqLen
<1>. QED  BY <1>1, <1>2

(***************************************************************************)
(* A part of a run is a run, and runs that meet join.                      *)
(***************************************************************************)
LEMMA RunSub ==
  ASSUME NEW a \in Nat, NEW b \in Nat, a <= b,
         NEW m \in 0 .. b - a, NEW n \in m .. b - a
  PROVE  SubSeq(Run(a, b), m + 1, n) = Run(a + m, a + n)
<1>. DEFINE s == Run(a, b)
            t == SubSeq(s, m + 1, n)
            u == Run(a + m, a + n)
<1>1. /\ s \in Seq(Nat) /\ Len(s) = b - a
      /\ \A k \in 1 .. b - a : s[k] = a + k - 1
  BY RunType
<1>2. a + m \in Nat /\ a + n \in Nat /\ a + m <= a + n /\ (a + n) - (a + m) = n - m
  OBVIOUS
<1>3. /\ u \in Seq(Nat) /\ Len(u) = (a + n) - (a + m)
      /\ \A k \in 1 .. (a + n) - (a + m) : u[k] = (a + m) + k - 1
  BY <1>2, RunType, Zenon
<1>. HIDE DEF s, u
<1>4. m + 1 \in 1 .. Len(s) + 1 /\ n \in m .. Len(s)
  BY <1>1
<1>5. \A k \in 1 .. Len(s) : s[k] \in Nat
  BY <1>1, SeqElement
<1>6. /\ t \in Seq(Nat) /\ Len(t) = n - m
      /\ \A k \in 1 .. n - m : t[k] = s[m + k]
  <2>1. m + 1 \in 1 .. Len(s) + 1 /\ n \in (m + 1) - 1 .. Len(s) /\ n - (m + 1) + 1 = n - m
    BY <1>1
  <2>2. /\ t \in Seq(Nat) /\ Len(t) = n - (m + 1) + 1
        /\ \A k \in 1 .. n - (m + 1) + 1 : t[k] = s[(m + 1) + k - 1]
    BY <1>1, <2>1, SubSeqSlice, ZenonT(40)
  <2>3. \A k \in 1 .. n - m : (m + 1) + k - 1 = m + k
    BY <1>1
  <2>. QED  BY <2>1, <2>2, <2>3, Zenon
<1>7. \A k \in 1 .. n - m : t[k] = u[k]
  BY <1>1, <1>3, <1>6
<1>8. Len(t) = Len(u)
  BY <1>2, <1>3, <1>6
<1>. HIDE DEF t
<1>. QED  BY <1>3, <1>6, <1>7, <1>8, SameSeq DEF s, t, u

\* Runs that meet join.
LEMMA RunJoin ==
  ASSUME NEW a \in Nat, NEW b \in Nat, NEW c \in Nat, a <= b, b <= c
  PROVE  Run(a, b) \o Run(b, c) = Run(a, c)
<1>. DEFINE s == Run(a, b)
            t == Run(b, c)
            u == Run(a, c)
<1>1. s \in Seq(Nat) /\ Len(s) = b - a /\ \A k \in 1 .. b - a : s[k] = a + k - 1
  BY RunType
<1>2. t \in Seq(Nat) /\ Len(t) = c - b /\ \A k \in 1 .. c - b : t[k] = b + k - 1
  BY RunType
<1>3. u \in Seq(Nat) /\ Len(u) = c - a /\ \A k \in 1 .. c - a : u[k] = a + k - 1
  BY RunType
<1>. HIDE DEF s, t, u
<1>4. /\ s \o t \in Seq(Nat)
      /\ Len(s \o t) = Len(s) + Len(t)
      /\ \A k \in 1 .. Len(s) + Len(t) :
           (s \o t)[k] = IF k <= Len(s) THEN s[k] ELSE t[k - Len(s)]
  BY <1>1, <1>2, Concatenation, Zenon
<1>5. Len(s \o t) = c - a /\ Len(s) + Len(t) = c - a
  BY <1>1, <1>2, <1>4
<1>6. ASSUME NEW k \in 1 .. c - a PROVE (s \o t)[k] = u[k]
  <2>1. CASE k <= b - a
    <3>1. k \in 1 .. b - a
      BY <2>1
    <3>. QED  BY <1>1, <1>3, <1>4, <1>5, <2>1, <3>1
  <2>2. CASE ~(k <= b - a)
    <3>1. k - (b - a) \in 1 .. c - b
      BY <2>2
    <3>2. t[k - (b - a)] = b + (k - (b - a)) - 1
      BY <1>2, <3>1
    <3>3. (s \o t)[k] = t[k - (b - a)]
      BY <1>1, <1>4, <1>5, <2>2, SMTT(40)
    <3>. QED  BY <1>3, <3>2, <3>3
  <2>. QED  BY <2>1, <2>2, Zenon
<1>. QED  BY <1>3, <1>4, <1>5, <1>6, SameSeq, Zenon DEF s, t, u

-----------------------------------------------------------------------------

\* Leaves without arithmetic, which are most of them, are Zenon's.
USE ZenonT(40)

\* Every number of a stream, its SYN and its FINs lies within half a turn of
\* the sequence space from every other.
ShortStreams == \A e \in End : 2 * (StreamLen[e] + 3) < SeqnoMod

\* A segment as the endpoints read it.
Segments == [seqno : Nat, syn : BOOLEAN, fin : BOOLEAN, rst : BOOLEAN,
             ack : BOOLEAN, ackno : Nat, win : Nat, payload : Seq(Nat)]

\* The segment at number x of e's stream, of which n bytes are written.
At(e, x, n, ended, seg) ==
  /\ seg.seqno = Sender!wrap(x, Isn[e])
  /\ seg.syn => x = 0 /\ seg.payload = << >> /\ ~seg.fin
  /\ seg.payload # << >> => /\ x > 0 /\ x - 1 + Len(seg.payload) <= n
                            /\ seg.payload = Run(x - 1, x - 1 + Len(seg.payload))
  /\ seg.fin => ended /\ x > 0 /\ x - 1 + Len(seg.payload) >= StreamLen[e]

\* Its acknowledgment is of a number of the other stream.
AcksPeer(e, seg) ==
  seg.ack => \E y \in 0 .. StreamLen[Peer(e)] + 2 : seg.ackno = Sender!wrap(y, Isn[Peer(e)])

\* The segments that tell the truth about e's stream.
Truthful(e, n, ended) ==
  {seg \in Segments :
     /\ \E x \in 0 .. StreamLen[e] + 3 : At(e, x, n, ended, seg)
     /\ AcksPeer(e, seg)}

SenderFields == {"isn", "stream", "segments_out", "next_seqno", "outstanding", "win_size",
                 "ackno", "timeout", "rx_time_left", "timer_running", "rx_times",
                 "zero_win_seg", "zero_win_seg_send", "zero_win_seg_seq"}
StreamFields == {"capacity", "buffer", "written", "read", "input_end", "error"}

\* The outbound stream holds what is written and not yet sent.
Outbound(e, t) ==
  /\ StreamFields \subseteq DOMAIN t /\ t.capacity \in Nat
  /\ t.written \in 0 .. StreamLen[e] /\ t.read \in 0 .. t.written
  /\ t.buffer = Run(t.read, t.written)
  /\ t.input_end \in BOOLEAN
  /\ t.input_end => t.written = StreamLen[e]

\* The next number is that of the next byte, or lies behind the FIN; a probe
\* may send the FIN again under the number after it, and is then never
\* acknowledged.
Position(e, s) ==
  \/ s.next_seqno = 0 /\ s.stream.read = 0
  \/ s.next_seqno = s.stream.read + 1
  \/ /\ s.stream.input_end /\ s.stream.read = StreamLen[e]
     /\ \/ s.next_seqno = StreamLen[e] + 2
        \/ /\ s.next_seqno = StreamLen[e] + 3
           /\ s.zero_win_seg_send /\ s.zero_win_seg_seq = StreamLen[e] + 2

\* What the sender has queued, and what it keeps until it is acknowledged.
Queued(e, s) ==
  LET truthful == Truthful(e, s.stream.written, s.stream.input_end)
  IN  /\ s.segments_out \in Seq(truthful)
      /\ DOMAIN s.outstanding \subseteq Nat
      /\ \A k \in DOMAIN s.outstanding :
           /\ s.outstanding[k] \in truthful
           /\ k + Sender!length_in_sequence_space(s.outstanding[k]) <= s.next_seqno

\* The zero-window probe.
Probe(e, s) ==
  /\ s.zero_win_seg_send \in BOOLEAN
  /\ s.zero_win_seg \in Segments
  /\ ~s.zero_win_seg.syn /\ ~s.zero_win_seg.ack
  /\ s.zero_win_seg.fin => s.stream.input_end /\ s.stream.read = StreamLen[e]
  /\ s.zero_win_seg_send =>
       s.zero_win_seg \in Truthful(e, s.stream.written, s.stream.input_end)

Sending(e, s) ==
  /\ SenderFields \subseteq DOMAIN s
  /\ s.isn = Isn[e] /\ s.win_size \in Nat /\ s.rx_times \in Nat
  /\ Outbound(e, s.stream) /\ Position(e, s) /\ Queued(e, s) /\ Probe(e, s)

-----------------------------------------------------------------------------
\* The two ends and what the constants are.
LEMMA Ends ==
  ASSUME NEW e \in End
  PROVE  /\ Peer(e) \in End /\ Peer(e) # e /\ Peer(Peer(e)) = e
         /\ StreamLen[e] \in Nat
         /\ Isn[e] \in 0 .. SeqnoMod - 1 /\ SeqnoMod \in Nat \ {0}
  BY PairAssumption, ConnectionAssumption, SMTT(40) DEF End, Peer

\* Queues may hold more kinds of segments.
LEMMA SeqMore ==
  ASSUME NEW S, NEW T, S \subseteq T, NEW q \in Seq(S)
  PROVE  q \in Seq(T)
<1>1. q \in [1 .. Len(q) -> S] /\ Len(q) \in Nat
  BY LenOfSeq, FunctionIsSeq, SMTT(40)
<1>2. q \in [1 .. Len(q) -> T]
  BY <1>1, SMTT(40)
<1>. QED  BY <1>1, <1>2, FunctionIsSeq, SMTT(40)

\* Segments stay truthful while the application writes on.
LEMMA TruthfulMore ==
  ASSUME NEW e \in End, NEW n \in Nat, NEW m \in Nat, n <= m, NEW f, NEW g, f => g
  PROVE  Truthful(e, n, f) \subseteq Truthful(e, m, g)
<1>1. SUFFICES ASSUME NEW seg \in Truthful(e, n, f) PROVE seg \in Truthful(e, m, g)
  OBVIOUS
<1>2. seg \in Segments /\ AcksPeer(e, seg)
  BY DEF Truthful
<1>3. PICK x \in 0 .. StreamLen[e] + 3 : At(e, x, n, f, seg)
  BY DEF Truthful
<1>4. At(e, x, m, g, seg)
  <2>1. x - 1 + Len(seg.payload) \in Int
    BY <1>2, Ends, SMTT(40) DEF Segments
  <2>. QED  BY <1>3, <2>1, SMTT(40) DEF At
<1>. QED  BY <1>2, <1>3, <1>4 DEF Truthful

\* The length of a segment, in sequence numbers.
LEMMA LengthType ==
  ASSUME NEW seg \in Segments
  PROVE  /\ Len(seg.payload) \in Nat
         /\ Sender!length_in_sequence_space(seg) \in Len(seg.payload) .. Len(seg.payload) + 2
<1>1. seg.payload \in Seq(Nat) /\ seg.syn \in BOOLEAN /\ seg.fin \in BOOLEAN
  BY SMTT(40) DEF Segments
<1>. DEFINE l == Len(seg.payload)
<1>2. l \in Nat
  BY <1>1, LenOfSeq
<1>3. Sender!length_in_sequence_space(seg) =
        l + (IF seg.syn THEN 1 ELSE 0) + (IF seg.fin THEN 1 ELSE 0)
  BY DEF Sender!length_in_sequence_space
<1>. HIDE DEF l
<1>4. Sender!length_in_sequence_space(seg) \in l .. l + 2
  BY <1>1, <1>2, <1>3, SMTT(40)
<1>. QED  BY <1>2, <1>4 DEF l

\* A truthful segment has a length.
LEMMA TruthfulLength ==
  ASSUME NEW e, NEW n, NEW ended, NEW seg \in Truthful(e, n, ended)
  PROVE  seg \in Segments /\ Sender!length_in_sequence_space(seg) \in Nat
<1>1. seg \in Segments
  BY DEF Truthful
<1>2. /\ Len(seg.payload) \in Nat
      /\ Sender!length_in_sequence_space(seg) \in Len(seg.payload) .. Len(seg.payload) + 2
  BY <1>1, LengthType
<1>. QED  BY <1>1, <1>2, SMTT(40)

\* A segment as the sender creates it: number x, payload and flags filled in.
MadeSegment(seqno, syn, fin, payload) ==
  [seqno |-> seqno, syn |-> syn, fin |-> fin, rst |-> FALSE,
   ack |-> FALSE, ackno |-> 0, win |-> 0, payload |-> payload]

\* The segments without data.
LEMMA SegmentMade ==
  ASSUME NEW seqno
  PROVE  /\ [Sender!Segment(seqno) EXCEPT !.syn = TRUE] = MadeSegment(seqno, TRUE, FALSE, << >>)
         /\ [Sender!Segment(seqno) EXCEPT !.fin = TRUE] = MadeSegment(seqno, FALSE, TRUE, << >>)
         /\ Sender!Segment(seqno) = MadeSegment(seqno, FALSE, FALSE, << >>)
<1>. DEFINE seg == Sender!Segment(seqno)
<1>1. seg = [seqno |-> seqno, syn |-> FALSE, fin |-> FALSE, rst |-> FALSE,
             ack |-> FALSE, ackno |-> 0, win |-> 0, payload |-> << >>]
  BY SMTT(40) DEF Sender!Segment
<1>. HIDE DEF seg
<1>2. ASSUME NEW t, t = [seg EXCEPT !.syn = TRUE]
      PROVE  t = MadeSegment(seqno, TRUE, FALSE, << >>)
  BY <1>1, <1>2 DEF MadeSegment
<1>3. ASSUME NEW t, t = [seg EXCEPT !.fin = TRUE]
      PROVE  t = MadeSegment(seqno, FALSE, TRUE, << >>)
  BY <1>1, <1>3 DEF MadeSegment
<1>4. seg = MadeSegment(seqno, FALSE, FALSE, << >>)
  BY <1>1 DEF MadeSegment
<1>. QED  BY <1>2, <1>3, <1>4 DEF seg

\* A segment with data.
LEMMA DataSegmentMade ==
  ASSUME NEW s, NEW k, NEW len, NEW fin
  PROVE  Sender!DataSegment(s, k, len, fin) =
           MadeSegment(Sender!wrap(s.next_seqno + k - 1, s.isn), FALSE, fin,
                       SubSeq(s.stream.buffer, k, k + len - 1))
<1>. DEFINE seqno == Sender!wrap(s.next_seqno + k - 1, s.isn)
            payload == SubSeq(s.stream.buffer, k, k + len - 1)
            seg == Sender!Segment(seqno)
<1>1. seg = [seqno |-> seqno, syn |-> FALSE, fin |-> FALSE, rst |-> FALSE,
             ack |-> FALSE, ackno |-> 0, win |-> 0, payload |-> << >>]
  BY SMTT(40) DEF Sender!Segment
<1>2. Sender!DataSegment(s, k, len, fin) = [seg EXCEPT !.payload = payload, !.fin = fin]
  BY DEF Sender!DataSegment
<1>. HIDE DEF seg, seqno, payload
<1>3. ASSUME NEW t, t = [seg EXCEPT !.payload = payload, !.fin = fin]
      PROVE  t = MadeSegment(seqno, FALSE, fin, payload)
  BY <1>1, <1>3 DEF MadeSegment
<1>. QED  BY <1>2, <1>3 DEF seqno, payload

\* Its length.
LEMMA MadeLength ==
  ASSUME NEW seqno, NEW payload \in Seq(Nat), NEW fin \in BOOLEAN
  PROVE  /\ Sender!length_in_sequence_space(MadeSegment(seqno, TRUE, FALSE, << >>)) = 1
         /\ Sender!length_in_sequence_space(MadeSegment(seqno, FALSE, TRUE, << >>)) = 1
         /\ Sender!length_in_sequence_space(MadeSegment(seqno, FALSE, fin, payload)) =
              Len(payload) + (IF fin THEN 1 ELSE 0)
<1>1. ASSUME NEW seg, seg = MadeSegment(seqno, TRUE, FALSE, << >>)
      PROVE  Sender!length_in_sequence_space(seg) = 1
  <2>1. seg.syn = TRUE /\ seg.fin = FALSE /\ seg.payload = << >> /\ Len(<< >>) = 0
    BY <1>1, EmptySeqLen DEF MadeSegment
  <2>. QED  BY <2>1, SMTT(40) DEF Sender!length_in_sequence_space
<1>2. ASSUME NEW seg, seg = MadeSegment(seqno, FALSE, TRUE, << >>)
      PROVE  Sender!length_in_sequence_space(seg) = 1
  <2>1. seg.syn = FALSE /\ seg.fin = TRUE /\ seg.payload = << >> /\ Len(<< >>) = 0
    BY <1>2, EmptySeqLen DEF MadeSegment
  <2>. QED  BY <2>1, SMTT(40) DEF Sender!length_in_sequence_space
<1>3. ASSUME NEW seg, seg = MadeSegment(seqno, FALSE, fin, payload)
      PROVE  Sender!length_in_sequence_space(seg) = Len(payload) + (IF fin THEN 1 ELSE 0)
  <2>1. seg.syn = FALSE /\ seg.fin = fin /\ seg.payload = payload
    BY <1>3 DEF MadeSegment
  <2>2. Sender!length_in_sequence_space(seg) =
          Len(payload) + (IF FALSE THEN 1 ELSE 0) + (IF fin THEN 1 ELSE 0)
    BY <2>1 DEF Sender!length_in_sequence_space
  <2>. DEFINE l == Len(payload)
  <2>3. l \in Nat
    BY LenOfSeq, SMTT(40)
  <2>. HIDE DEF l
  <2>4. l + (IF FALSE THEN 1 ELSE 0) + (IF fin THEN 1 ELSE 0) = l + (IF fin THEN 1 ELSE 0)
    BY <2>3, SMTT(40)
  <2>. QED  BY <2>2, <2>4 DEF l
<1>. QED  BY <1>1, <1>2, <1>3

\* A segment made from the stream's numbers and bytes is truthful.
LEMMA MadeTruthful ==
  ASSUME NEW e \in End, NEW x \in 0 .. StreamLen[e] + 3, NEW n \in Nat, NEW ended,
         NEW syn \in BOOLEAN, NEW fin \in BOOLEAN, NEW payload \in Seq(Nat),
         syn => x = 0 /\ payload = << >> /\ ~fin,
         payload # << >> => /\ x > 0 /\ x - 1 + Len(payload) <= n
                            /\ payload = Run(x - 1, x - 1 + Len(payload)),
         fin => ended /\ x > 0 /\ x - 1 + Len(payload) >= StreamLen[e]
  PROVE  MadeSegment(Sender!wrap(x, Isn[e]), syn, fin, payload) \in Truthful(e, n, ended)
<1>. DEFINE seg == MadeSegment(Sender!wrap(x, Isn[e]), syn, fin, payload)
<1>1. Sender!wrap(x, Isn[e]) \in Nat
  BY Ends, SMTT(40) DEF Sender!wrap
<1>2. seg \in Segments
  BY <1>1, SMTT(40) DEF MadeSegment, Segments
<1>3. /\ seg.seqno = Sender!wrap(x, Isn[e]) /\ seg.syn = syn /\ seg.fin = fin
      /\ seg.payload = payload /\ seg.ack = FALSE
  BY SMTT(40) DEF MadeSegment
<1>. HIDE DEF seg
<1>4. At(e, x, n, ended, seg) /\ AcksPeer(e, seg)
  BY <1>3 DEF At, AcksPeer
<1>. QED  BY <1>2, <1>4 DEF Truthful, seg

-----------------------------------------------------------------------------
\* t has the fields of a sender, and those that sending does not change.
Kept(s, t) ==
  /\ SenderFields \subseteq DOMAIN t
  /\ t.isn = s.isn /\ t.win_size = s.win_size /\ t.rx_times = s.rx_times

SameProbe(s, t) ==
  /\ t.zero_win_seg = s.zero_win_seg /\ t.zero_win_seg_send = s.zero_win_seg_send
  /\ t.zero_win_seg_seq = s.zero_win_seg_seq

\* Starting the timer changes nothing else.
LEMMA StartTimerKeeps ==
  ASSUME NEW s, SenderFields \subseteq DOMAIN s
  PROVE  LET t == Sender!StartTimer(s)
         IN  /\ Kept(s, t) /\ SameProbe(s, t)
             /\ t.stream = s.stream /\ t.segments_out = s.segments_out
             /\ t.next_seqno = s.next_seqno /\ t.outstanding = s.outstanding
  BY DEF Sender!StartTimer, SenderFields, Kept, SameProbe

\* What SendNew does.
LEMMA SendNewQueues ==
  ASSUME NEW e \in End, NEW s, SenderFields \subseteq DOMAIN s, s.next_seqno \in Nat,
         Queued(e, s), NEW seg \in Truthful(e, s.stream.written, s.stream.input_end)
  PROVE  LET t == Sender!SendNew(s, seg)
         IN  /\ Kept(s, t) /\ SameProbe(s, t) /\ t.stream = s.stream
             /\ t.segments_out = Append(s.segments_out, seg)
             /\ t.next_seqno = s.next_seqno + Sender!length_in_sequence_space(seg)
             /\ Queued(e, t)
<1>. DEFINE kept == [k \in DOMAIN s.outstanding \cup {s.next_seqno} |->
                       IF k = s.next_seqno THEN seg ELSE s.outstanding[k]]
            next == s.next_seqno + Sender!length_in_sequence_space(seg)
            u == [s EXCEPT !.segments_out = Append(@, seg), !.outstanding = kept,
                           !.next_seqno = next]
            t == Sender!SendNew(s, seg)
<1>1. t = Sender!StartTimer(u)
  BY DEF Sender!SendNew
<1>2. /\ Kept(s, u) /\ SameProbe(s, u) /\ u.stream = s.stream
      /\ u.segments_out = Append(s.segments_out, seg)
      /\ u.next_seqno = next /\ u.outstanding = kept
  BY DEF SenderFields, Kept, SameProbe
<1>. HIDE DEF u, kept, t
<1>3. /\ Kept(s, t) /\ SameProbe(s, t) /\ t.stream = s.stream
      /\ t.segments_out = Append(s.segments_out, seg)
      /\ t.next_seqno = next /\ t.outstanding = kept
  BY <1>1, <1>2, StartTimerKeeps DEF Kept, SameProbe
<1>. DEFINE truthful == Truthful(e, s.stream.written, s.stream.input_end)
<1>4. Sender!length_in_sequence_space(seg) \in Nat
  BY TruthfulLength
<1>5. \A k \in DOMAIN s.outstanding :
        k \in Nat /\ Sender!length_in_sequence_space(s.outstanding[k]) \in Nat
  BY TruthfulLength DEF Queued
<1>6. Append(s.segments_out, seg) \in Seq(truthful)
  BY SMTT(40) DEF Queued
<1>7. DOMAIN kept \subseteq Nat
  BY SMTT(40) DEF kept, Queued
<1>8. ASSUME NEW k \in DOMAIN kept
      PROVE  kept[k] \in truthful /\ k + Sender!length_in_sequence_space(kept[k]) <= next
  <2>1. CASE k = s.next_seqno
    <3>1. kept[k] = seg
      BY <2>1 DEF kept
    <3>. QED  BY <1>4, <2>1, <3>1, SMTT(40)
  <2>2. CASE k # s.next_seqno
    <3>1. k \in DOMAIN s.outstanding /\ kept[k] = s.outstanding[k]
      BY <2>2 DEF kept
    <3>. QED  BY <1>4, <1>5, <3>1, SMTT(40) DEF Queued
  <2>. QED  BY <2>1, <2>2, SMTT(40)
<1>. QED  BY <1>3, <1>6, <1>7, <1>8 DEF Queued, t

-----------------------------------------------------------------------------
\* The numbers of an outbound stream.
LEMMA OutboundFacts ==
  ASSUME NEW e \in End, NEW t, Outbound(e, t)
  PROVE  /\ t.written \in Nat /\ t.read \in Nat /\ t.read <= t.written
         /\ t.written <= StreamLen[e] /\ StreamLen[e] \in Nat
         /\ t.buffer \in Seq(Nat) /\ Len(t.buffer) = t.written - t.read
         /\ t.buffer = Run(t.read, t.written)
<1>1. t.written \in 0 .. StreamLen[e] /\ t.read \in 0 .. t.written
  BY DEF Outbound
<1>2. t.written \in Nat /\ t.read \in Nat /\ t.read <= t.written
      /\ t.written <= StreamLen[e] /\ StreamLen[e] \in Nat
  BY <1>1, Ends, SMTT(40)
<1>3. t.buffer = Run(t.read, t.written)
  BY DEF Outbound
<1>. QED  BY <1>2, <1>3, RunType

\* pop_output takes bytes from the front.
LEMMA PopOutbound ==
  ASSUME NEW e \in End, NEW t, Outbound(e, t), NEW n \in 0 .. Len(t.buffer)
  PROVE  LET u == Sender!pop_output(t, n)
         IN  /\ Outbound(e, u)
             /\ u.written = t.written /\ u.read = t.read + n
             /\ u.input_end = t.input_end /\ u.error = t.error
<1>. DEFINE u == Sender!pop_output(t, n)
            l == Len(t.buffer)
            a == t.read
            b == t.written
<1>1. a \in Nat /\ b \in Nat /\ a <= b /\ l = b - a /\ t.buffer = Run(a, b)
  BY OutboundFacts
<1>2. Sender!Lesser(n, l) = n
  BY <1>1, SMTT(40) DEF Sender!Lesser
<1>3. /\ StreamFields \subseteq DOMAIN u
      /\ u.written = t.written /\ u.input_end = t.input_end /\ u.error = t.error
      /\ u.capacity = t.capacity /\ u.read = t.read + Sender!Lesser(n, l)
      /\ u.buffer = SubSeq(t.buffer, Sender!Lesser(n, l) + 1, l)
  BY DEF Outbound, StreamFields, Sender!pop_output
<1>4. SubSeq(Run(a, b), n + 1, l) = Run(a + n, b)
  <2>1. n \in 0 .. b - a /\ b - a \in n .. b - a /\ a + (b - a) = b
    BY <1>1, SMTT(40)
  <2>2. SubSeq(Run(a, b), n + 1, b - a) = Run(a + n, a + (b - a))
    BY <1>1, <2>1, RunSub
  <2>. QED  BY <1>1, <2>1, <2>2
<1>5. u.read = a + n /\ u.buffer = Run(a + n, b)
  BY <1>1, <1>2, <1>3, <1>4
<1>6. n \in 0 .. b - a
  BY <1>1, SMTT(40)
<1>. HIDE DEF u, l
<1>7. u.read \in 0 .. u.written
  BY <1>1, <1>3, <1>5, <1>6, SMTT(40)
<1>. QED  BY <1>3, <1>5, <1>7 DEF Outbound, u

-----------------------------------------------------------------------------
\* t is s after it has sent something, or nothing.
Sent(e, s, t) ==
  /\ Sending(e, t)
  /\ t.rx_times = s.rx_times /\ t.win_size = s.win_size
  /\ t.stream.written = s.stream.written /\ t.stream.input_end = s.stream.input_end
  /\ t.stream.error = s.stream.error

\* What a sender (tcp_sender.hh) of the pair always is, with its bounds.
LEMMA SendingFacts ==
  ASSUME NEW e \in End, NEW s, Sending(e, s)
  PROVE  /\ SenderFields \subseteq DOMAIN s /\ s.isn = Isn[e]
         /\ s.win_size \in Nat /\ s.rx_times \in Nat
         /\ Outbound(e, s.stream) /\ Position(e, s) /\ Queued(e, s) /\ Probe(e, s)
         /\ s.next_seqno \in 0 .. StreamLen[e] + 3 /\ s.next_seqno \in Nat
<1>1. /\ SenderFields \subseteq DOMAIN s /\ s.isn = Isn[e]
      /\ s.win_size \in Nat /\ s.rx_times \in Nat
      /\ Outbound(e, s.stream) /\ Position(e, s) /\ Queued(e, s) /\ Probe(e, s)
  BY DEF Sending
<1>2. s.stream.read \in Nat /\ s.stream.read <= StreamLen[e] /\ StreamLen[e] \in Nat
  BY <1>1, OutboundFacts, SMTT(40)
<1>3. s.next_seqno \in 0 .. StreamLen[e] + 3 /\ s.next_seqno \in Nat
  BY <1>1, <1>2, SMTT(40) DEF Position
<1>. QED  BY <1>1, <1>3

\* A segment sent without data moves only the next number.
LEMMA SentWithoutData ==
  ASSUME NEW e \in End, NEW s, Sending(e, s), NEW t,
         Kept(s, t), SameProbe(s, t), t.stream = s.stream, Queued(e, t), Position(e, t)
  PROVE  Sent(e, s, t)
<1>1. Probe(e, t)
  BY DEF Sending, Probe, SameProbe
<1>. QED  BY <1>1 DEF Sent, Sending, Kept

\* The SYN.
LEMMA SynSent ==
  ASSUME NEW e \in End, NEW s, Sending(e, s), s.next_seqno = 0
  PROVE  LET t == Sender!SendNew(s, [Sender!Segment(s.isn) EXCEPT !.syn = TRUE])
         IN  Sent(e, s, t) /\ t.segments_out # << >>
<1>. DEFINE seg == [Sender!Segment(s.isn) EXCEPT !.syn = TRUE]
            t == Sender!SendNew(s, seg)
            w == s.stream.written
<1>1. SenderFields \subseteq DOMAIN s /\ s.isn = Isn[e] /\ Queued(e, s) /\ Position(e, s)
      /\ Outbound(e, s.stream)
  BY SendingFacts
<1>2. Sender!wrap(0, Isn[e]) = Isn[e]
  BY Ends, SMTT(40) DEF Sender!wrap
<1>3. seg = MadeSegment(Sender!wrap(0, Isn[e]), TRUE, FALSE, << >>)
  BY <1>1, <1>2, SegmentMade
<1>4. w \in Nat /\ s.stream.read \in Nat /\ 0 \in 0 .. StreamLen[e] + 3 /\ << >> \in Seq(Nat)
  BY <1>1, OutboundFacts, SMTT(40)
<1>5. seg \in Truthful(e, w, s.stream.input_end)
  <2>1. MadeSegment(Sender!wrap(0, Isn[e]), TRUE, FALSE, << >>)
          \in Truthful(e, w, s.stream.input_end)
    BY <1>4, MadeTruthful
  <2>. QED  BY <1>3, <2>1
<1>6. Sender!length_in_sequence_space(seg) = 1
  BY <1>3, <1>4, MadeLength
<1>. HIDE DEF seg
<1>7. /\ Kept(s, t) /\ SameProbe(s, t) /\ t.stream = s.stream /\ Queued(e, t)
      /\ t.segments_out = Append(s.segments_out, seg)
      /\ t.next_seqno = s.next_seqno + Sender!length_in_sequence_space(seg)
  <2>1. s.next_seqno \in Nat
    BY SMTT(40)
  <2>. QED  BY <1>1, <1>5, <2>1, SendNewQueues
<1>8. Position(e, t)
  BY <1>1, <1>4, <1>6, <1>7, SMTT(40) DEF Position
<1>9. Append(s.segments_out, seg) # << >>
  BY <1>1, <1>5, SMTT(40) DEF Queued
<1>. QED  BY <1>7, <1>8, <1>9, SentWithoutData DEF seg

\* A stream at its end has been sent whole.
LEMMA EofFacts ==
  ASSUME NEW e \in End, NEW t, Outbound(e, t)
  PROVE  /\ Sender!eof(t) => t.input_end /\ t.read = StreamLen[e] /\ t.written = StreamLen[e]
         /\ ~Sender!buffer_empty(t) => t.read < t.written /\ Len(t.buffer) > 0
<1>1. /\ t.written \in Nat /\ t.read \in Nat /\ t.read <= t.written
      /\ Len(t.buffer) = t.written - t.read
      /\ t.input_end \in BOOLEAN /\ (t.input_end => t.written = StreamLen[e])
  BY OutboundFacts DEF Outbound
<1>. QED  BY <1>1, SMTT(40) DEF Sender!eof, Sender!buffer_empty

\* A FIN without data.
LEMMA FinSent ==
  ASSUME NEW e \in End, NEW s, Sending(e, s), s.next_seqno # 0,
         Sender!eof(s.stream), Sender!FinUnsent(s)
  PROVE  Sent(e, s, Sender!SendNew(s, [Sender!Segment(Sender!next_seqno(s)) EXCEPT !.fin = TRUE]))
<1>. DEFINE seg == [Sender!Segment(Sender!next_seqno(s)) EXCEPT !.fin = TRUE]
            t == Sender!SendNew(s, seg)
            x == s.next_seqno
            N == StreamLen[e]
<1>1. /\ SenderFields \subseteq DOMAIN s /\ s.isn = Isn[e] /\ Queued(e, s) /\ Position(e, s)
      /\ Outbound(e, s.stream) /\ x \in Nat /\ N \in Nat
  BY SendingFacts, Ends
<1>2. s.stream.input_end /\ s.stream.read = N /\ s.stream.written = N
  BY <1>1, EofFacts
<1>3. x = N + 1
  BY <1>1, <1>2, SMTT(40) DEF Position, Sender!FinUnsent
<1>4. seg = MadeSegment(Sender!wrap(x, Isn[e]), FALSE, TRUE, << >>)
  BY <1>1, SegmentMade DEF Sender!next_seqno
<1>5. << >> \in Seq(Nat) /\ Len(<< >>) = 0
  BY EmptySeqLen, SMTT(40)
<1>6. seg \in Truthful(e, N, s.stream.input_end)
  <2>1. x \in 0 .. N + 3 /\ x > 0 /\ x - 1 + Len(<< >>) >= N
    BY <1>1, <1>3, <1>5, SMTT(40)
  <2>2. MadeSegment(Sender!wrap(x, Isn[e]), FALSE, TRUE, << >>)
          \in Truthful(e, N, s.stream.input_end)
    BY <1>1, <1>2, <1>5, <2>1, MadeTruthful
  <2>. QED  BY <1>4, <2>2
<1>7. Sender!length_in_sequence_space(seg) = 1
  BY <1>4, <1>5, MadeLength
<1>. HIDE DEF seg
<1>8. /\ Kept(s, t) /\ SameProbe(s, t) /\ t.stream = s.stream /\ Queued(e, t)
      /\ t.next_seqno = s.next_seqno + Sender!length_in_sequence_space(seg)
  BY <1>1, <1>2, <1>6, SendNewQueues
<1>9. Position(e, t)
  BY <1>1, <1>2, <1>3, <1>7, <1>8, SMTT(40) DEF Position
<1>. QED  BY <1>8, <1>9, SentWithoutData DEF seg

\* A probe may carry this payload and this FIN.
ProbeAllowed(e, s, payload, fin) ==
  /\ payload \in Seq(Nat) /\ fin \in BOOLEAN
  /\ payload # << >> =>
       /\ s.next_seqno - 1 + Len(payload) <= s.stream.written
       /\ payload = Run(s.next_seqno - 1, s.next_seqno - 1 + Len(payload))
  /\ s.zero_win_seg.fin \/ fin =>
       s.stream.input_end /\ s.next_seqno - 1 + Len(payload) >= StreamLen[e]

\* t is s after the probe.
Probed(e, s, payload, fin, stream, t) ==
  /\ Kept(s, t) /\ t.stream = stream /\ Queued(e, t)
  /\ t.next_seqno = s.next_seqno + Len(payload) + (IF s.zero_win_seg.fin \/ fin THEN 1 ELSE 0)
  /\ t.zero_win_seg_send = TRUE /\ t.zero_win_seg_seq = s.next_seqno
  /\ t.zero_win_seg \in Truthful(e, s.stream.written, s.stream.input_end)
  /\ ~t.zero_win_seg.syn /\ ~t.zero_win_seg.ack
  /\ t.zero_win_seg.fin = (s.zero_win_seg.fin \/ fin)

\* What a probe with the given payload does.
LEMMA ProbeQueues ==
  ASSUME NEW e \in End, NEW s, Sending(e, s), s.next_seqno # 0, NEW payload, NEW fin,
         NEW stream, stream.written = s.stream.written, stream.input_end = s.stream.input_end,
         ProbeAllowed(e, s, payload, fin)
  PROVE  Probed(e, s, payload, fin, stream, Sender!SendProbe(s, payload, fin, stream))
<1>. DEFINE x == s.next_seqno
            f == s.zero_win_seg.fin \/ fin
            seg == [s.zero_win_seg EXCEPT !.seqno = Sender!next_seqno(s), !.payload = payload,
                                          !.fin = @ \/ fin]
            len == Sender!length_in_sequence_space(seg)
            u == [s EXCEPT
                    !.stream = stream, !.zero_win_seg = seg, !.zero_win_seg_send = TRUE,
                    !.zero_win_seg_seq = x, !.next_seqno = @ + len,
                    !.segments_out = Append(@, seg)]
            t == Sender!SendProbe(s, payload, fin, stream)
            truthful == Truthful(e, s.stream.written, s.stream.input_end)
<1>0. /\ payload \in Seq(Nat) /\ fin \in BOOLEAN
      /\ (payload # << >> =>
            /\ x - 1 + Len(payload) <= s.stream.written
            /\ payload = Run(x - 1, x - 1 + Len(payload)))
      /\ (f => s.stream.input_end /\ x - 1 + Len(payload) >= StreamLen[e])
  BY DEF ProbeAllowed
<1>1. /\ SenderFields \subseteq DOMAIN s /\ s.isn = Isn[e] /\ Queued(e, s) /\ Probe(e, s)
      /\ x \in 0 .. StreamLen[e] + 3 /\ x \in Nat
  BY SendingFacts
<1>2. Sender!next_seqno(s) = Sender!wrap(x, Isn[e]) /\ Sender!wrap(x, Isn[e]) \in Nat
  BY <1>1, Ends, SMTT(40) DEF Sender!next_seqno, Sender!wrap
<1>3. /\ s.zero_win_seg \in Segments /\ s.zero_win_seg.syn = FALSE /\ s.zero_win_seg.ack = FALSE
      /\ f \in BOOLEAN
  <2>1. s.zero_win_seg \in Segments /\ ~s.zero_win_seg.syn /\ ~s.zero_win_seg.ack
    BY <1>1 DEF Probe
  <2>2. s.zero_win_seg.syn \in BOOLEAN /\ s.zero_win_seg.ack \in BOOLEAN
    BY <2>1 DEF Segments
  <2>. QED  BY <1>0, <2>1, <2>2
<1>4. seg \in Segments
  BY <1>0, <1>2, <1>3 DEF Segments
<1>5. /\ seg.seqno = Sender!wrap(x, Isn[e]) /\ seg.payload = payload /\ seg.fin = f
      /\ seg.syn = FALSE /\ seg.ack = FALSE
  BY <1>2, <1>3 DEF Segments
<1>6. t = Sender!StartTimer(u)
  BY DEF Sender!SendProbe
<1>7. /\ Kept(s, u) /\ u.stream = stream
      /\ u.segments_out = Append(s.segments_out, seg)
      /\ u.next_seqno = x + len /\ u.outstanding = s.outstanding
      /\ u.zero_win_seg = seg /\ u.zero_win_seg_send = TRUE /\ u.zero_win_seg_seq = x
  BY <1>1 DEF SenderFields, Kept
<1>. HIDE DEF u, t, seg
<1>8. /\ Kept(s, t) /\ t.stream = stream
      /\ t.segments_out = Append(s.segments_out, seg)
      /\ t.next_seqno = x + len /\ t.outstanding = s.outstanding
      /\ t.zero_win_seg = seg /\ t.zero_win_seg_send = TRUE /\ t.zero_win_seg_seq = x
  BY <1>6, <1>7, StartTimerKeeps DEF Kept, SameProbe
<1>9. seg \in truthful
  <2>1. x > 0
    BY <1>1, SMTT(40)
  <2>2. At(e, x, s.stream.written, s.stream.input_end, seg) /\ AcksPeer(e, seg)
    BY <1>0, <1>5, <2>1 DEF At, AcksPeer
  <2>. QED  BY <1>1, <1>4, <2>2 DEF Truthful
<1>10. len = Len(payload) + (IF f THEN 1 ELSE 0) /\ len \in Nat /\ Len(payload) \in Nat
  <2>1. len = Len(payload) + (IF FALSE THEN 1 ELSE 0) + (IF f THEN 1 ELSE 0)
    BY <1>5 DEF Sender!length_in_sequence_space
  <2>2. Len(payload) \in Nat
    BY <1>0, LenOfSeq, SMTT(40)
  <2>. QED  BY <1>3, <2>1, <2>2, SMTT(40)
<1>11. Append(s.segments_out, seg) \in Seq(truthful)
  BY <1>1, <1>9, SMTT(40) DEF Queued
<1>12. ASSUME NEW k \in DOMAIN s.outstanding
       PROVE  /\ k \in Nat /\ s.outstanding[k] \in truthful
              /\ k + Sender!length_in_sequence_space(s.outstanding[k]) <= x + len
  <2>1. /\ k \in Nat /\ s.outstanding[k] \in truthful
        /\ k + Sender!length_in_sequence_space(s.outstanding[k]) <= x
    BY <1>1 DEF Queued
  <2>2. Sender!length_in_sequence_space(s.outstanding[k]) \in Nat
    BY <2>1, TruthfulLength
  <2>. QED  BY <1>1, <1>10, <2>1, <2>2, SMTT(40)
<1>13. Queued(e, t)
  BY <1>8, <1>11, <1>12 DEF Queued
<1>14. t.next_seqno = s.next_seqno + Len(payload) + (IF f THEN 1 ELSE 0)
  <2>. DEFINE l == Len(payload)
              g == IF f THEN 1 ELSE 0
  <2>1. g \in Nat
    BY SMTT(40)
  <2>. HIDE DEF len, l, g
  <2>2. len = l + g /\ l \in Nat
    BY <1>10 DEF l, g
  <2>3. x + len = x + l + g
    BY <1>1, <2>1, <2>2, SMTT(40)
  <2>. QED  BY <1>8, <2>3 DEF l, g
<1>. QED  BY <1>5, <1>8, <1>9, <1>13, <1>14 DEF Probed, t

\* The zero-window probe: the next byte of the stream.
LEMMA DataProbeSent ==
  ASSUME NEW e \in End, NEW s, Sending(e, s), s.next_seqno # 0, ~Sender!buffer_empty(s.stream)
  PROVE  Sent(e, s, Sender!SendProbe(s, Sender!peek_output(s.stream, 1), FALSE,
                                     Sender!pop_output(s.stream, 1)))
<1>. DEFINE a == s.stream.read
            b == s.stream.written
            N == StreamLen[e]
            payload == Sender!peek_output(s.stream, 1)
            rest == Sender!pop_output(s.stream, 1)
            t == Sender!SendProbe(s, payload, FALSE, rest)
<1>1. /\ Outbound(e, s.stream) /\ Position(e, s) /\ Probe(e, s) /\ Sending(e, s)
      /\ s.isn = Isn[e] /\ s.win_size \in Nat /\ s.rx_times \in Nat
  BY SendingFacts
<1>2. /\ a \in Nat /\ b \in Nat /\ a < b /\ b <= N /\ N \in Nat
      /\ s.stream.buffer = Run(a, b) /\ Len(s.stream.buffer) = b - a
  BY <1>1, OutboundFacts, EofFacts
<1>3. s.next_seqno = a + 1
  BY <1>1, <1>2, SMTT(40) DEF Position
<1>4. s.zero_win_seg.fin = FALSE
  <2>1. s.zero_win_seg.fin \in BOOLEAN /\ ~s.zero_win_seg.fin
    BY <1>1, <1>2, SMTT(40) DEF Probe, Segments
  <2>. QED  BY <2>1
<1>5. payload = Run(a, a + 1) /\ payload \in Seq(Nat) /\ Len(payload) = 1 /\ payload # << >>
  <2>1. Sender!Lesser(1, b - a) = 1 /\ 1 \in 0 .. b - a /\ 0 \in 0 .. b - a /\ a <= b
    BY <1>2, SMTT(40) DEF Sender!Lesser
  <2>2. payload = SubSeq(Run(a, b), 0 + 1, 1)
    BY <1>2, <2>1, SMTT(40) DEF Sender!peek_output
  <2>3. SubSeq(Run(a, b), 0 + 1, 1) = Run(a + 0, a + 1)
    BY <1>2, <2>1, RunSub
  <2>4. a + 0 = a /\ a + 1 \in Nat /\ a <= a + 1 /\ (a + 1) - a = 1
    BY <1>2, SMTT(40)
  <2>5. Run(a, a + 1) \in Seq(Nat) /\ Len(Run(a, a + 1)) = 1
    BY <1>2, <2>4, RunType
  <2>6. Len(<< >>) = 0
    BY EmptySeqLen, SMTT(40)
  <2>. QED  BY <2>2, <2>3, <2>4, <2>5, <2>6, SMTT(40)
<1>6. /\ Outbound(e, rest) /\ rest.written = b /\ rest.read = a + 1
      /\ rest.input_end = s.stream.input_end /\ rest.error = s.stream.error
  <2>1. 1 \in 0 .. Len(s.stream.buffer)
    BY <1>2, SMTT(40)
  <2>. QED  BY <1>1, <2>1, PopOutbound
<1>. HIDE DEF payload, rest
<1>7. /\ Kept(s, t) /\ t.stream = rest /\ Queued(e, t)
      /\ t.next_seqno = s.next_seqno + Len(payload) + 0
      /\ t.zero_win_seg_send = TRUE
      /\ t.zero_win_seg \in Truthful(e, b, s.stream.input_end)
      /\ ~t.zero_win_seg.syn /\ ~t.zero_win_seg.ack /\ ~t.zero_win_seg.fin
  <2>. DEFINE l == Len(payload)
              x == s.next_seqno
  <2>. HIDE DEF l, x
  <2>1. x = a + 1 /\ l = 1
    BY <1>3, <1>5 DEF l, x
  <2>2. x - 1 = a /\ x - 1 + l = a + 1 /\ a + 1 <= b
    BY <1>2, <2>1, SMTT(40)
  <2>3. ProbeAllowed(e, s, payload, FALSE)
    BY <1>4, <1>5, <2>2 DEF l, x, ProbeAllowed
  <2>4. Probed(e, s, payload, FALSE, rest, t)
    BY <1>1, <1>6, <2>3, ProbeQueues
  <2>. HIDE DEF t
  <2>. QED  BY <1>4, <2>4 DEF Probed
<1>. HIDE DEF t
<1>8. Position(e, t)
  BY <1>2, <1>3, <1>5, <1>6, <1>7, SMTT(40) DEF Position
<1>9. Probe(e, t)
  BY <1>4, <1>6, <1>7, TruthfulLength DEF Probe
<1>. QED  BY <1>1, <1>6, <1>7, <1>8, <1>9 DEF Sent, Sending, Kept, t, payload, rest

\* The zero-window probe: the FIN, or the FIN once more.
LEMMA FinProbeSent ==
  ASSUME NEW e \in End, NEW s, Sending(e, s), s.next_seqno # 0, ~s.zero_win_seg_send,
         Sender!eof(s.stream)
  PROVE  Sent(e, s, Sender!SendProbe(s, << >>, TRUE, s.stream))
<1>. DEFINE N == StreamLen[e]
            x == s.next_seqno
            t == Sender!SendProbe(s, << >>, TRUE, s.stream)
<1>1. /\ Outbound(e, s.stream) /\ Position(e, s) /\ Probe(e, s) /\ Sending(e, s)
      /\ s.isn = Isn[e] /\ s.win_size \in Nat /\ s.rx_times \in Nat /\ N \in Nat
  BY SendingFacts, Ends
<1>2. s.stream.input_end /\ s.stream.read = N /\ s.stream.written = N
  BY <1>1, EofFacts
<1>3. x = N + 1 \/ x = N + 2
  BY <1>1, <1>2, SMTT(40) DEF Position
<1>4. << >> \in Seq(Nat) /\ Len(<< >>) = 0
  BY EmptySeqLen, SMTT(40)
<1>5. /\ Kept(s, t) /\ t.stream = s.stream /\ Queued(e, t)
      /\ t.next_seqno = x + Len(<< >>) + 1
      /\ t.zero_win_seg_send = TRUE /\ t.zero_win_seg_seq = x
      /\ t.zero_win_seg \in Truthful(e, s.stream.written, s.stream.input_end)
      /\ ~t.zero_win_seg.syn /\ ~t.zero_win_seg.ack
  <2>1. x - 1 + Len(<< >>) >= N
    BY <1>1, <1>3, <1>4, SMTT(40)
  <2>2. ProbeAllowed(e, s, << >>, TRUE)
    BY <1>2, <1>4, <2>1 DEF ProbeAllowed
  <2>3. Probed(e, s, << >>, TRUE, s.stream, t)
    BY <1>1, <2>2, ProbeQueues
  <2>. HIDE DEF t
  <2>. QED  BY <2>3 DEF Probed
<1>. HIDE DEF t
<1>6. t.next_seqno = x + 1
  BY <1>1, <1>3, <1>4, <1>5, SMTT(40)
<1>7. Position(e, t)
  BY <1>1, <1>2, <1>3, <1>5, <1>6, SMTT(40) DEF Position
<1>8. Probe(e, t)
  BY <1>2, <1>5, TruthfulLength DEF Probe
<1>. QED  BY <1>1, <1>5, <1>7, <1>8 DEF Sent, Sending, Kept, t

-----------------------------------------------------------------------------
(***************************************************************************)
(* Two facts of the library's induction, stated for the sender's counting: *)
(* they are hypotheses here and theorems of TCPPairProofs.                 *)
(***************************************************************************)
Counting ==
  /\ \A T \in SUBSET Nat : T # {} => \E m \in T : \A n \in T : m <= n
  /\ \A n \in Nat : \A F \in SUBSET (0 .. n) : Sender!Cardinality(F) \in Nat

\* The bytes in flight are counted: they lie below the next number.
LEMMA InFlightCounted ==
  ASSUME Counting, NEW e \in End, NEW s, Sending(e, s)
  PROVE  Sender!bytes_in_flight(s) \in Nat
<1>. DEFINE F == Sender!InFlight(s)
            next == s.next_seqno
<1>1. Queued(e, s) /\ next \in Nat
  BY SendingFacts
<1>2. ASSUME NEW k \in DOMAIN s.outstanding
      PROVE  Sender!Seqnos(k, s.outstanding[k]) \subseteq 0 .. next
  <2>1. /\ k \in Nat /\ s.outstanding[k] \in Truthful(e, s.stream.written, s.stream.input_end)
        /\ k + Sender!length_in_sequence_space(s.outstanding[k]) <= next
    BY <1>1 DEF Queued
  <2>2. Sender!length_in_sequence_space(s.outstanding[k]) \in Nat
    BY <2>1, TruthfulLength
  <2>. QED  BY <1>1, <2>1, <2>2, SMTT(40) DEF Sender!Seqnos
<1>3. F \in SUBSET (0 .. next)
  BY <1>2 DEF Sender!InFlight
<1>. QED  BY <1>1, <1>3 DEF Sender!bytes_in_flight, Counting

\* Products keep the order.
LEMMA TimesMore ==
  ASSUME NEW p \in Nat, NEW q \in Nat, p <= q, NEW m \in Nat
  PROVE  p * m <= q * m
<1>1. q - p \in Nat
  BY SMTT(40)
<1>2. (q - p) * m >= 0
  BY <1>1, SMTT(40)
<1>3. (q - p) * m = q * m - p * m
  BY SMTT(40)
<1>. QED  BY <1>2, <1>3, SMTT(40)

\* The segments of the data loop begin inside the T bytes it sends.
LEMMA Pieces ==
  ASSUME NEW M \in Nat \ {0}, NEW T \in Nat
  PROVE  LET c == (T + M - 1) \div M
         IN  /\ c \in Nat
             /\ \A i \in 1 .. c : (i - 1) * M + 1 \in 1 .. T
<1>. DEFINE c == (T + M - 1) \div M
<1>1. T + M - 1 \in Nat
  BY SMTT(40)
<1>2. c \in Nat /\ M * c <= T + M - 1
  BY <1>1, SMTT(40)
<1>. HIDE DEF c
<1>3. ASSUME NEW i \in 1 .. c
      PROVE  (i - 1) * M + 1 \in 1 .. T
  <2>1. i - 1 \in Nat /\ i \in Nat /\ i <= c
    BY <1>2, SMTT(40)
  <2>2. i * M <= c * M
    BY <1>2, <2>1, TimesMore, SMTT(40)
  <2>3. (i - 1) * M \in Nat /\ (i - 1) * M = i * M - M /\ c * M = M * c
    BY <1>2, <2>1, SMTT(40)
  <2>. DEFINE v == (i - 1) * M
              w == i * M
              z == M * c
  <2>4. v \in Nat /\ v = w - M /\ w <= z /\ z <= T + M - 1 /\ w \in Nat /\ z \in Nat
    BY <1>2, <2>1, <2>2, <2>3, SMTT(40)
  <2>. HIDE DEF v, w, z
  <2>5. v + 1 \in 1 .. T
    BY <2>4, SMTT(40)
  <2>. QED  BY <2>5, SMTT(40) DEF v
<1>. QED  BY <1>2, <1>3 DEF c

\* One segment of the data loop: the len bytes from the k-th of the T bytes
\* it sends, with the FIN if they are the last of an ended stream.
LEMMA PieceTruthful ==
  ASSUME NEW e \in End, NEW s, Sending(e, s), s.next_seqno = s.stream.read + 1,
         NEW T \in 1 .. Len(s.stream.buffer), NEW k \in 1 .. T, NEW len \in 1 .. T - k + 1,
         NEW fin \in BOOLEAN,
         fin => s.stream.input_end /\ s.stream.read + T = StreamLen[e] /\ k + len = T + 1
  PROVE  LET seg == Sender!DataSegment(s, k, len, fin)
         IN  /\ seg \in Truthful(e, s.stream.written, s.stream.input_end)
             /\ Sender!length_in_sequence_space(seg) = len + (IF fin THEN 1 ELSE 0)
<1>. DEFINE a == s.stream.read
            b == s.stream.written
            N == StreamLen[e]
            x == s.next_seqno + k - 1
            payload == SubSeq(s.stream.buffer, k, k + len - 1)
<1>1. Outbound(e, s.stream) /\ s.isn = Isn[e]
  BY SendingFacts
<1>2. /\ a \in Nat /\ b \in Nat /\ a <= b /\ b <= N /\ N \in Nat
      /\ s.stream.buffer = Run(a, b) /\ Len(s.stream.buffer) = b - a
  BY <1>1, OutboundFacts
<1>3. T \in 1 .. b - a /\ s.next_seqno = a + 1
  BY <1>2
<1>4. /\ k - 1 \in 0 .. b - a /\ k + len - 1 \in k - 1 .. b - a /\ (k - 1) + 1 = k
      /\ x = a + k /\ x \in 0 .. N + 3 /\ x > 0 /\ x - 1 = a + (k - 1)
      /\ x - 1 + len = a + (k + len - 1) /\ x - 1 + len <= b
      /\ x - 1 \in Nat /\ x - 1 + len \in Nat /\ x - 1 <= x - 1 + len
      /\ (x - 1 + len) - (x - 1) = len
  <2>. DEFINE next == s.next_seqno
  <2>. HIDE DEF a, b, N, next
  <2>1. next = a + 1
    BY <1>3 DEF next
  <2>2. next + k - 1 = a + k
    BY <1>2, <1>3, <2>1, SMTT(40)
  <2>3. x = a + k
    BY <2>2 DEF next
  <2>. HIDE DEF x
  <2>. QED  BY <1>2, <1>3, <2>3, SMTT(40)
<1>5. payload = Run(x - 1, x - 1 + len)
  <2>1. SubSeq(Run(a, b), (k - 1) + 1, k + len - 1) = Run(a + (k - 1), a + (k + len - 1))
    BY <1>2, <1>4, RunSub
  <2>. QED  BY <1>2, <1>4, <2>1
<1>. HIDE DEF x, payload
<1>6. payload \in Seq(Nat) /\ Len(payload) = len
  BY <1>4, <1>5, RunType
<1>7. Sender!DataSegment(s, k, len, fin) = MadeSegment(Sender!wrap(x, Isn[e]), FALSE, fin, payload)
  BY <1>1, DataSegmentMade DEF x, payload
<1>8. fin => s.stream.input_end /\ x > 0 /\ x - 1 + Len(payload) >= N
  <2>. HIDE DEF a, N
  <2>1. fin => x - 1 + len >= N
    <3>1. fin => a + T = N /\ k + len = T + 1
      BY DEF a, N
    <3>. QED  BY <1>2, <1>3, <1>4, <3>1, SMTT(40)
  <2>. QED  BY <1>4, <1>6, <2>1 DEF a, N
<1>9. payload # << >> => /\ x > 0 /\ x - 1 + Len(payload) <= b
                         /\ payload = Run(x - 1, x - 1 + Len(payload))
  BY <1>4, <1>5, <1>6
<1>10. MadeSegment(Sender!wrap(x, Isn[e]), FALSE, fin, payload) \in Truthful(e, b, s.stream.input_end)
  BY <1>2, <1>4, <1>6, <1>8, <1>9, MadeTruthful
<1>11. Sender!length_in_sequence_space(MadeSegment(Sender!wrap(x, Isn[e]), FALSE, fin, payload)) =
         len + (IF fin THEN 1 ELSE 0)
  BY <1>6, MadeLength
<1>. QED  BY <1>7, <1>10, <1>11

\* The data loop.
LEMMA DataSent ==
  ASSUME Counting, NEW e \in End, NEW s, Sending(e, s), s.next_seqno # 0, ~s.zero_win_seg_send,
         s.win_size > Sender!bytes_in_flight(s), ~Sender!buffer_empty(s.stream)
  PROVE  Sent(e, s, Sender!SendData(s))
<1>. DEFINE a == s.stream.read
            b == s.stream.written
            N == StreamLen[e]
            next == s.next_seqno
            flight == Sender!bytes_in_flight(s)
            win == s.win_size
            room == win - flight
            T == Sender!Lesser(room, Len(s.stream.buffer))
            starts == {k \in 1 .. T : (k - 1) % MaxPayload = 0}
            rest == Sender!pop_output(s.stream, T)
            fin == room > T /\ Sender!eof(rest)
            len(k) == Sender!Lesser(MaxPayload, T - k + 1)
            segment(k) == Sender!DataSegment(s, k, len(k), fin /\ k + len(k) = T + 1)
            count == (T + MaxPayload - 1) \div MaxPayload
            more == [i \in 1 .. count |-> segment((i - 1) * MaxPayload + 1)]
            kept == [k \in DOMAIN s.outstanding \cup {next + f - 1 : f \in starts} |->
                       IF k < next THEN s.outstanding[k] ELSE segment(k - next + 1)]
            next2 == next + T + (IF fin THEN 1 ELSE 0)
            u == [s EXCEPT !.stream = rest, !.segments_out = @ \o more,
                           !.outstanding = kept, !.next_seqno = next2]
            t == Sender!SendData(s)
            truthful == Truthful(e, s.stream.written, s.stream.input_end)
<1>1. /\ Outbound(e, s.stream) /\ Position(e, s) /\ Probe(e, s) /\ Queued(e, s)
      /\ SenderFields \subseteq DOMAIN s
      /\ s.isn = Isn[e] /\ win \in Nat /\ s.rx_times \in Nat
      /\ flight \in Nat /\ MaxPayload \in Nat \ {0}
  <2>1. MaxPayload \in Nat \ {0}
    BY ConnectionAssumption, SMTT(40)
  <2>. QED  BY <2>1, SendingFacts, InFlightCounted
<1>2. t = Sender!StartTimer(u)
  BY DEF Sender!SendData
<1>3. /\ a \in Nat /\ b \in Nat /\ a < b /\ b <= N /\ N \in Nat
      /\ Len(s.stream.buffer) = b - a
  BY <1>1, OutboundFacts, EofFacts
<1>4. next = a + 1
  BY <1>1, <1>3, SMTT(40) DEF Position
<1>5. T \in 1 .. Len(s.stream.buffer) /\ T \in 1 .. b - a
  <2>. DEFINE l == Len(s.stream.buffer)
  <2>. HIDE DEF flight, win, a, b, l
  <2>1. win > flight /\ l = b - a
    BY <1>3 DEF flight, win, l
  <2>2. Sender!Lesser(win - flight, l) \in 1 .. l /\ Sender!Lesser(win - flight, l) \in 1 .. b - a
    BY <1>1, <1>3, <2>1, SMTT(40) DEF Sender!Lesser
  <2>. QED  BY <2>2 DEF l
<1>. HIDE DEF T, u, t
<1>6. /\ Outbound(e, rest) /\ rest.written = b /\ rest.read = a + T
      /\ rest.input_end = s.stream.input_end /\ rest.error = s.stream.error
  <2>1. T \in 0 .. Len(s.stream.buffer)
    BY <1>3, <1>5, SMTT(40)
  <2>. QED  BY <1>1, <2>1, PopOutbound
<1>7. fin \in BOOLEAN /\ (fin => s.stream.input_end /\ a + T = N)
  BY <1>6, EofFacts
<1>. HIDE DEF fin, rest
<1>8. ASSUME NEW k \in 1 .. T
      PROVE  /\ segment(k) \in truthful
             /\ Sender!length_in_sequence_space(segment(k)) \in Nat
             /\ next + k - 1 + Sender!length_in_sequence_space(segment(k)) <= next2
  <2>. DEFINE g == fin /\ k + len(k) = T + 1
              n == len(k)
              seg == segment(k)
              size == Sender!length_in_sequence_space(seg)
  <2>1. g \in BOOLEAN
    OBVIOUS
  <2>2. n \in 1 .. T - k + 1
    BY <1>1, <1>5, <1>8, SMTT(40) DEF Sender!Lesser
  <2>3. seg \in truthful /\ size = n + (IF g THEN 1 ELSE 0)
    <3>1. g => s.stream.input_end /\ s.stream.read + T = StreamLen[e] /\ k + n = T + 1
      BY <1>7
    <3>. HIDE DEF g, n
    <3>2. /\ Sender!DataSegment(s, k, n, g) \in truthful
          /\ Sender!length_in_sequence_space(Sender!DataSegment(s, k, n, g)) =
               n + (IF g THEN 1 ELSE 0)
      BY <1>4, <1>5, <2>1, <2>2, <3>1, PieceTruthful
    <3>. QED  BY <3>2 DEF g, n
  <2>4. g => fin /\ k + n = T + 1
    OBVIOUS
  <2>. HIDE DEF g, n, size, a, next
  <2>5. size \in Nat /\ next + k - 1 + size <= next2
    <3>1. size = n + (IF g THEN 1 ELSE 0) /\ fin \in BOOLEAN /\ k + n <= T + 1
      BY <1>5, <1>7, <2>2, <2>3, SMTT(40)
    <3>. QED  BY <1>3, <1>4, <1>5, <2>1, <2>2, <2>4, <3>1, SMTT(40)
  <2>. QED  BY <2>3, <2>5 DEF size, next
<1>. HIDE DEF segment
<1>9. s.segments_out \o more \in Seq(truthful)
  <2>1. count \in Nat /\ \A i \in 1 .. count : (i - 1) * MaxPayload + 1 \in 1 .. T
    <3>1. T \in Nat
      BY <1>3, <1>5, SMTT(40)
    <3>. QED  BY <1>1, <3>1, Pieces
  <2>. HIDE DEF count
  <2>2. \A i \in 1 .. count : segment((i - 1) * MaxPayload + 1) \in truthful
    BY <1>8, <2>1
  <2>3. more \in [1 .. count -> truthful]
    BY <2>2
  <2>. HIDE DEF more, truthful
  <2>4. more \in Seq(truthful)
    BY <2>1, <2>3, FunctionIsSeq
  <2>5. s.segments_out \in Seq(truthful)
    BY <1>1 DEF Queued, truthful
  <2>. QED  BY <2>4, <2>5, SMTT(40)
<1>10. DOMAIN kept \subseteq Nat
  BY <1>1, <1>3, <1>4, <1>5, SMTT(40) DEF Queued
<1>11. ASSUME NEW k \in DOMAIN kept
       PROVE  /\ kept[k] \in truthful
              /\ k + Sender!length_in_sequence_space(kept[k]) <= next2
  <2>1. CASE k < next
    <3>1. k \in DOMAIN s.outstanding /\ kept[k] = s.outstanding[k]
      <4>1. k \notin {next + f - 1 : f \in starts}
        BY <1>3, <1>4, <1>5, <2>1, SMTT(40)
      <4>. QED  BY <2>1, <4>1
    <3>2. /\ s.outstanding[k] \in truthful
          /\ k + Sender!length_in_sequence_space(s.outstanding[k]) <= next
      BY <1>1, <3>1 DEF Queued
    <3>. DEFINE size == Sender!length_in_sequence_space(s.outstanding[k])
    <3>3. size \in Nat /\ k \in Nat
      BY <1>10, <3>2, TruthfulLength
    <3>. HIDE DEF size, next, a
    <3>4. k + size <= next2
      <4>1. k + size <= next
        BY <3>2 DEF size, next
      <4>. QED  BY <1>3, <1>4, <1>5, <1>7, <3>3, <4>1, SMTT(40)
    <3>. QED  BY <3>1, <3>2, <3>4 DEF size
  <2>2. CASE ~ (k < next)
    <3>1. kept[k] = segment(k - next + 1)
      BY <2>2
    <3>2. k - next + 1 \in 1 .. T /\ next + (k - next + 1) - 1 = k
      <4>1. CASE k \in DOMAIN s.outstanding
        <5>. DEFINE size == Sender!length_in_sequence_space(s.outstanding[k])
        <5>1. k \in Nat /\ s.outstanding[k] \in truthful /\ k + size <= next
          BY <1>1, <4>1 DEF Queued
        <5>2. size \in Nat
          BY <5>1, TruthfulLength
        <5>. HIDE DEF size, next, a
        <5>. QED  BY <1>3, <1>4, <1>5, <2>2, <5>1, <5>2, SMTT(40)
      <4>2. CASE k \in {next + f - 1 : f \in starts}
        <5>1. PICK f \in starts : k = next + f - 1
          BY <4>2
        <5>. HIDE DEF next, a
        <5>. QED  BY <1>3, <1>4, <1>5, <5>1, SMTT(40)
      <4>. QED  BY <4>1, <4>2
    <3>. QED  BY <1>8, <3>1, <3>2
  <2>. QED  BY <2>1, <2>2
<1>. HIDE DEF kept, more, next2
<1>12. /\ Kept(s, u) /\ SameProbe(s, u) /\ u.stream = rest
       /\ u.segments_out = s.segments_out \o more
       /\ u.next_seqno = next2 /\ u.outstanding = kept
  BY <1>1 DEF SenderFields, Kept, SameProbe, u
<1>13. /\ Kept(s, t) /\ SameProbe(s, t) /\ t.stream = rest
       /\ t.segments_out = s.segments_out \o more
       /\ t.next_seqno = next2 /\ t.outstanding = kept
  BY <1>2, <1>12, StartTimerKeeps DEF Kept, SameProbe
<1>14. Queued(e, t)
  BY <1>6, <1>9, <1>10, <1>11, <1>13 DEF Queued
<1>15. Position(e, t)
  <2>. HIDE DEF a, next, N
  <2>1. IF fin THEN next2 = N + 2 ELSE next2 = (a + T) + 1
    <3>1. fin \in BOOLEAN /\ (fin => a + T = N)
      BY <1>7 DEF a, N
    <3>2. T \in Int
      BY <1>3, <1>5, SMTT(40)
    <3>. QED  BY <1>3, <1>4, <3>1, <3>2, SMTT(40) DEF next2
  <2>2. t.stream.read = a + T /\ (fin => t.stream.input_end /\ t.stream.read = StreamLen[e])
    BY <1>6, <1>7, <1>13 DEF N
  <2>. QED  BY <1>7, <1>13, <2>1, <2>2 DEF Position, N
<1>16. Probe(e, t)
  <2>1. ~s.zero_win_seg.fin
    BY <1>1, <1>3, SMTT(40) DEF Probe
  <2>. QED  BY <1>1, <1>6, <1>13, <2>1 DEF Probe, SameProbe
<1>. QED  BY <1>1, <1>6, <1>13, <1>14, <1>15, <1>16 DEF Sent, Sending, Kept, t

\* A sender that does nothing keeps its invariant.
LEMMA SentNothing ==
  ASSUME NEW e \in End, NEW s, Sending(e, s)
  PROVE  Sent(e, s, s)
  BY DEF Sent

\* fill_window sends truthful segments: the SYN, then the FIN, data or a probe.
LEMMA FillWindowSends ==
  ASSUME Counting, NEW e \in End, NEW s, Sending(e, s)
  PROVE  /\ Sent(e, s, Sender!fill_window(s))
         /\ s.next_seqno = 0 => Sender!fill_window(s).segments_out # << >>
<1>1. CASE s.next_seqno = 0
  <2>1. Sender!fill_window(s) = Sender!SendNew(s, [Sender!Segment(s.isn) EXCEPT !.syn = TRUE])
    BY <1>1 DEF Sender!fill_window
  <2>. QED  BY <1>1, <2>1, SynSent
<1>2. CASE s.next_seqno # 0
  <2>1. Sent(e, s, s)
    BY SentNothing
  <2>2. CASE s.win_size > Sender!bytes_in_flight(s) /\ ~s.zero_win_seg_send
    <3>1. CASE Sender!eof(s.stream) /\ Sender!FinUnsent(s)
      <4>1. Sender!fill_window(s) =
              Sender!SendNew(s, [Sender!Segment(Sender!next_seqno(s)) EXCEPT !.fin = TRUE])
        BY <1>2, <2>2, <3>1 DEF Sender!fill_window
      <4>. QED  BY <1>2, <3>1, <4>1, FinSent
    <3>2. CASE ~Sender!eof(s.stream) /\ ~Sender!buffer_empty(s.stream)
      <4>1. Sender!fill_window(s) = Sender!SendData(s)
        BY <1>2, <2>2, <3>2 DEF Sender!fill_window
      <4>. QED  BY <1>2, <2>2, <3>2, <4>1, DataSent
    <3>3. CASE \/ Sender!eof(s.stream) /\ ~Sender!FinUnsent(s)
               \/ ~Sender!eof(s.stream) /\ Sender!buffer_empty(s.stream)
      <4>1. Sender!fill_window(s) = s
        BY <1>2, <2>2, <3>3 DEF Sender!fill_window
      <4>. QED  BY <1>2, <2>1, <4>1
    <3>. QED  BY <3>1, <3>2, <3>3
  <2>3. CASE /\ ~ (s.win_size > Sender!bytes_in_flight(s) /\ ~s.zero_win_seg_send)
             /\ /\ s.win_size = 0 /\ s.next_seqno > Sender!bytes_in_flight(s)
                /\ ~s.zero_win_seg_send
    <3>1. CASE ~Sender!buffer_empty(s.stream)
      <4>1. Sender!fill_window(s) =
              Sender!SendProbe(s, Sender!peek_output(s.stream, 1), FALSE,
                               Sender!pop_output(s.stream, 1))
        BY <1>2, <2>3, <3>1 DEF Sender!fill_window
      <4>. QED  BY <1>2, <3>1, <4>1, DataProbeSent
    <3>2. CASE Sender!buffer_empty(s.stream) /\ Sender!eof(s.stream)
      <4>1. Sender!fill_window(s) = Sender!SendProbe(s, << >>, TRUE, s.stream)
        BY <1>2, <2>3, <3>2 DEF Sender!fill_window
      <4>. QED  BY <1>2, <2>3, <3>2, <4>1, FinProbeSent
    <3>3. CASE Sender!buffer_empty(s.stream) /\ ~Sender!eof(s.stream)
      <4>1. Sender!fill_window(s) = s
        BY <1>2, <2>3, <3>3 DEF Sender!fill_window
      <4>. QED  BY <1>2, <2>1, <4>1
    <3>. QED  BY <3>1, <3>2, <3>3
  <2>4. CASE /\ ~ (s.win_size > Sender!bytes_in_flight(s) /\ ~s.zero_win_seg_send)
             /\ ~ (/\ s.win_size = 0 /\ s.next_seqno > Sender!bytes_in_flight(s)
                   /\ ~s.zero_win_seg_send)
    <3>1. Sender!fill_window(s) = s
      BY <1>2, <2>4 DEF Sender!fill_window
    <3>. QED  BY <1>2, <2>1, <3>1
  <2>. QED  BY <2>2, <2>3, <2>4
<1>. QED  BY <1>1, <1>2

\* t has more or fewer segments queued and outstanding than s, all truthful.
LEMMA SendingStill ==
  ASSUME NEW e \in End, NEW s, Sending(e, s), NEW t, SenderFields \subseteq DOMAIN t,
         t.isn = s.isn, t.win_size \in Nat, t.rx_times \in Nat, t.stream = s.stream,
         t.next_seqno = s.next_seqno, SameProbe(s, t), Queued(e, t)
  PROVE  Sending(e, t)
  BY DEF Sending, Position, Probe, SameProbe

\* An empty segment is truthful.
LEMMA EmptySegmentSent ==
  ASSUME NEW e \in End, NEW s, Sending(e, s)
  PROVE  LET t == Sender!send_empty_segment(s)
         IN  /\ Sent(e, s, t) /\ t.stream = s.stream /\ t.segments_out # << >>
<1>. DEFINE seg == Sender!Segment(Sender!next_seqno(s))
            t == Sender!send_empty_segment(s)
            x == s.next_seqno
<1>1. /\ SenderFields \subseteq DOMAIN s /\ s.isn = Isn[e] /\ Queued(e, s)
      /\ s.win_size \in Nat /\ s.rx_times \in Nat
      /\ Outbound(e, s.stream) /\ x \in 0 .. StreamLen[e] + 3 /\ s.stream.written \in Nat
  BY SendingFacts, OutboundFacts
<1>2. seg = MadeSegment(Sender!wrap(x, Isn[e]), FALSE, FALSE, << >>)
  BY <1>1, SegmentMade DEF Sender!next_seqno
<1>3. << >> \in Seq(Nat)
  BY SMTT(40)
<1>4. seg \in Truthful(e, s.stream.written, s.stream.input_end)
  <2>1. MadeSegment(Sender!wrap(x, Isn[e]), FALSE, FALSE, << >>)
          \in Truthful(e, s.stream.written, s.stream.input_end)
    BY <1>1, <1>3, MadeTruthful
  <2>. QED  BY <1>2, <2>1
<1>. HIDE DEF seg
<1>5. /\ SenderFields \subseteq DOMAIN t /\ SameProbe(s, t) /\ t.stream = s.stream
      /\ t.segments_out = Append(s.segments_out, seg)
      /\ t.next_seqno = s.next_seqno /\ t.outstanding = s.outstanding
      /\ t.isn = s.isn /\ t.win_size = s.win_size /\ t.rx_times = s.rx_times
  BY <1>1 DEF SenderFields, SameProbe, Sender!send_empty_segment, seg
<1>. HIDE DEF t
<1>6. /\ Append(s.segments_out, seg) \in Seq(Truthful(e, s.stream.written, s.stream.input_end))
      /\ Append(s.segments_out, seg) # << >>
  BY <1>1, <1>4, SMTT(40) DEF Queued
<1>7. Queued(e, t)
  BY <1>1, <1>5, <1>6 DEF Queued
<1>8. Sending(e, t)
  BY <1>1, <1>5, <1>7, SendingStill
<1>. QED  BY <1>5, <1>6, <1>8 DEF Sent, t

\* t is s after an acknowledgment: nothing new is sent.
Acked(e, s, t) == Sending(e, t) /\ t.stream = s.stream /\ t.rx_times <= s.rx_times

\* An acknowledgment of a number y of e's stream and its FIN.
LEMMA AckHeard ==
  ASSUME NEW e \in End, 2 * (StreamLen[e] + 3) < SeqnoMod, NEW s, Sending(e, s),
         NEW y \in 0 .. StreamLen[e] + 2, NEW ackno, NEW window_size \in Nat
  PROVE  Acked(e, s, Sender!Acknowledged(s, y, ackno, window_size))
<1>. DEFINE t == Sender!Acknowledged(s, y, ackno, window_size)
            kept == Sender!Unacknowledged(s, y)
            a == Sender!Acknowledge(s, y)
            b == Sender!StopTimer(a)
            c == Sender!ResetTimer(b, ackno)
<1>1. /\ SenderFields \subseteq DOMAIN s /\ s.isn = Isn[e] /\ Queued(e, s) /\ Position(e, s)
      /\ Probe(e, s) /\ Outbound(e, s.stream) /\ s.rx_times \in Nat /\ s.next_seqno \in Nat
  BY SendingFacts
<1>2. y \in Nat /\ y < SeqnoMod /\ s.rx_times <= s.rx_times /\ 0 <= s.rx_times
  BY <1>1, Ends, SMTT(40)
<1>3. CASE y > s.next_seqno
  <2>1. t = s
    BY <1>2, <1>3 DEF Sender!Acknowledged
  <2>. QED  BY <1>2, <2>1 DEF Acked
<1>4. CASE ~(y > s.next_seqno)
  <2>1. t = [c EXCEPT !.win_size = window_size, !.ackno = ackno]
    BY <1>4 DEF Sender!Acknowledged
  <2>2. /\ SenderFields \subseteq DOMAIN a /\ a.isn = s.isn /\ a.stream = s.stream
        /\ a.segments_out = s.segments_out /\ a.next_seqno = s.next_seqno
        /\ a.outstanding = [k \in kept |-> s.outstanding[k]]
        /\ a.rx_times = s.rx_times /\ a.zero_win_seg = s.zero_win_seg
        /\ a.zero_win_seg_seq = s.zero_win_seg_seq
        /\ a.zero_win_seg_send = (s.zero_win_seg_send /\ y <= s.zero_win_seg_seq)
    BY <1>1 DEF SenderFields, Sender!Acknowledge, Sender!Restrict
  <2>. HIDE DEF a
  <2>3. /\ SenderFields \subseteq DOMAIN b /\ b.isn = s.isn /\ b.stream = s.stream
        /\ b.segments_out = s.segments_out /\ b.next_seqno = s.next_seqno
        /\ b.outstanding = [k \in kept |-> s.outstanding[k]]
        /\ b.rx_times = s.rx_times /\ b.zero_win_seg = s.zero_win_seg
        /\ b.zero_win_seg_seq = s.zero_win_seg_seq
        /\ b.zero_win_seg_send = (s.zero_win_seg_send /\ y <= s.zero_win_seg_seq)
    BY <2>2 DEF SenderFields, Sender!StopTimer
  <2>. HIDE DEF b
  <2>4. /\ SenderFields \subseteq DOMAIN c /\ c.isn = s.isn /\ c.stream = s.stream
        /\ c.segments_out = s.segments_out /\ c.next_seqno = s.next_seqno
        /\ c.outstanding = [k \in kept |-> s.outstanding[k]]
        /\ c.rx_times \in {0, s.rx_times} /\ c.zero_win_seg = s.zero_win_seg
        /\ c.zero_win_seg_seq = s.zero_win_seg_seq
        /\ c.zero_win_seg_send = (s.zero_win_seg_send /\ y <= s.zero_win_seg_seq)
    <3>1. CASE b.ackno = ackno
      BY <2>3, <3>1 DEF Sender!ResetTimer
    <3>2. CASE b.ackno # ackno
      BY <2>3, <3>2 DEF SenderFields, Sender!ResetTimer
    <3>. QED  BY <3>1, <3>2
  <2>. HIDE DEF c
  <2>5. /\ SenderFields \subseteq DOMAIN t /\ t.isn = s.isn /\ t.stream = s.stream
        /\ t.segments_out = s.segments_out /\ t.next_seqno = s.next_seqno
        /\ t.outstanding = [k \in kept |-> s.outstanding[k]]
        /\ t.rx_times \in {0, s.rx_times} /\ t.zero_win_seg = s.zero_win_seg
        /\ t.zero_win_seg_seq = s.zero_win_seg_seq
        /\ t.zero_win_seg_send = (s.zero_win_seg_send /\ y <= s.zero_win_seg_seq)
        /\ t.win_size = window_size
    BY <2>1, <2>4 DEF SenderFields
  <2>. HIDE DEF t
  <2>6. kept \subseteq DOMAIN s.outstanding
    BY DEF Sender!Unacknowledged
  <2>. HIDE DEF kept
  <2>7. Queued(e, t)
    <3>1. DOMAIN t.outstanding = kept /\ \A k \in kept : t.outstanding[k] = s.outstanding[k]
      BY <2>5
    <3>. QED  BY <1>1, <2>5, <2>6, <3>1 DEF Queued
  <2>8. Position(e, t)
    <3>1. s.zero_win_seg_send /\ s.zero_win_seg_seq = StreamLen[e] + 2 => t.zero_win_seg_send
      <4>1. y <= StreamLen[e] + 2
        BY Ends, SMTT(40)
      <4>. QED  BY <2>5, <4>1
    <3>. QED  BY <1>1, <2>5, <3>1 DEF Position
  <2>9. Probe(e, t)
    BY <1>1, <2>5 DEF Probe
  <2>10. t.rx_times \in Nat /\ t.rx_times <= s.rx_times
    BY <1>1, <2>5, SMTT(40)
  <2>. QED  BY <1>1, <2>5, <2>7, <2>8, <2>9, <2>10 DEF Acked, Sending, t
<1>. QED  BY <1>3, <1>4

\* t is s after a tick of the clock: something may be sent again.
Ticked(e, s, t) == Sending(e, t) /\ t.stream = s.stream /\ t.rx_times <= s.rx_times + 1

\* Sending again what is truthful.
LEMMA Resent ==
  ASSUME NEW e \in End, NEW s, Sending(e, s),
         NEW seg \in Truthful(e, s.stream.written, s.stream.input_end),
         NEW timeout, NEW rx_times \in 0 .. s.rx_times + 1
  PROVE  Ticked(e, s, Sender!Resend(s, seg, timeout, rx_times))
<1>. DEFINE t == Sender!Resend(s, seg, timeout, rx_times)
<1>1. /\ SenderFields \subseteq DOMAIN s /\ Queued(e, s) /\ s.win_size \in Nat /\ s.rx_times \in Nat
  BY SendingFacts
<1>2. /\ SenderFields \subseteq DOMAIN t /\ SameProbe(s, t) /\ t.stream = s.stream
      /\ t.segments_out = Append(s.segments_out, seg)
      /\ t.next_seqno = s.next_seqno /\ t.outstanding = s.outstanding
      /\ t.isn = s.isn /\ t.win_size = s.win_size /\ t.rx_times = rx_times
  BY <1>1 DEF SenderFields, SameProbe, Sender!Resend
<1>. HIDE DEF t
<1>3. Append(s.segments_out, seg) \in Seq(Truthful(e, s.stream.written, s.stream.input_end))
  BY <1>1, SMTT(40) DEF Queued
<1>4. Queued(e, t)
  BY <1>1, <1>2, <1>3 DEF Queued
<1>5. t.rx_times \in Nat /\ t.rx_times <= s.rx_times + 1
  BY <1>1, <1>2, SMTT(40)
<1>6. Sending(e, t)
  BY <1>1, <1>2, <1>4, <1>5, SendingStill
<1>. QED  BY <1>2, <1>5, <1>6 DEF Ticked, t

\* The timer's fields alone.
LEMMA TimerChanged ==
  ASSUME NEW e \in End, NEW s, Sending(e, s), NEW left, NEW running
  PROVE  /\ Ticked(e, s, [s EXCEPT !.rx_time_left = left])
         /\ Ticked(e, s, [s EXCEPT !.timer_running = running])
<1>. DEFINE t == [s EXCEPT !.rx_time_left = left]
            u == [s EXCEPT !.timer_running = running]
<1>1. /\ SenderFields \subseteq DOMAIN s /\ Queued(e, s) /\ s.win_size \in Nat /\ s.rx_times \in Nat
  BY SendingFacts
<1>2. /\ SenderFields \subseteq DOMAIN t /\ SameProbe(s, t) /\ t.stream = s.stream
      /\ t.segments_out = s.segments_out
      /\ t.next_seqno = s.next_seqno /\ t.outstanding = s.outstanding
      /\ t.isn = s.isn /\ t.win_size = s.win_size /\ t.rx_times = s.rx_times
  BY <1>1 DEF SenderFields, SameProbe
<1>3. /\ SenderFields \subseteq DOMAIN u /\ SameProbe(s, u) /\ u.stream = s.stream
      /\ u.segments_out = s.segments_out
      /\ u.next_seqno = s.next_seqno /\ u.outstanding = s.outstanding
      /\ u.isn = s.isn /\ u.win_size = s.win_size /\ u.rx_times = s.rx_times
  BY <1>1 DEF SenderFields, SameProbe
<1>. HIDE DEF t, u
<1>4. Queued(e, t) /\ Queued(e, u)
  BY <1>1, <1>2, <1>3 DEF Queued
<1>5. Sending(e, t) /\ Sending(e, u)
  BY <1>1, <1>2, <1>3, <1>4, SendingStill
<1>6. s.rx_times <= s.rx_times + 1
  BY <1>1, SMTT(40)
<1>. QED  BY <1>2, <1>3, <1>5, <1>6 DEF Ticked, t, u

\* The oldest outstanding segment is one of them.
LEMMA OldestTruthful ==
  ASSUME Counting, NEW e \in End, NEW s, Sending(e, s), DOMAIN s.outstanding # {}
  PROVE  Sender!FirstOutstanding(s) \in Truthful(e, s.stream.written, s.stream.input_end)
<1>1. Queued(e, s)
  BY SendingFacts
<1>2. DOMAIN s.outstanding \in SUBSET Nat
  BY <1>1 DEF Queued
<1>3. \E k \in DOMAIN s.outstanding : \A j \in DOMAIN s.outstanding : k <= j
  BY <1>2 DEF Counting
<1>. QED  BY <1>1, <1>3 DEF Queued, Sender!FirstOutstanding

\* A tick of the sender resends the probe or the oldest outstanding segment.
LEMMA SenderTicks ==
  ASSUME Counting, NEW e \in End, NEW s, Sending(e, s), NEW ms
  PROVE  Ticked(e, s, Sender!tick(s, ms))
<1>. DEFINE t == Sender!tick(s, ms)
<1>1. /\ Probe(e, s) /\ s.rx_times \in Nat
  BY SendingFacts
<1>2. s.rx_times \in 0 .. s.rx_times + 1 /\ s.rx_times + 1 \in 0 .. s.rx_times + 1
  BY <1>1, SMTT(40)
<1>3. Ticked(e, s, Sender!Elapse(s, ms))
  BY TimerChanged DEF Sender!Elapse
<1>4. CASE s.zero_win_seg_send
  <2>1. s.zero_win_seg \in Truthful(e, s.stream.written, s.stream.input_end)
    BY <1>1, <1>4 DEF Probe
  <2>2. t \in {Sender!Elapse(s, ms), Sender!Resend(s, s.zero_win_seg, s.timeout, s.rx_times)}
    BY <1>4 DEF Sender!tick
  <2>3. Ticked(e, s, Sender!Resend(s, s.zero_win_seg, s.timeout, s.rx_times))
    BY <1>2, <2>1, Resent
  <2>. QED  BY <1>3, <2>2, <2>3
<1>5. CASE ~s.zero_win_seg_send /\ (DOMAIN s.outstanding = {} \/ ~s.timer_running)
  <2>1. t = [s EXCEPT !.timer_running = FALSE]
    BY <1>5 DEF Sender!tick
  <2>2. ASSUME NEW running PROVE Ticked(e, s, [s EXCEPT !.timer_running = running])
    BY TimerChanged
  <2>. QED  BY <2>1, <2>2
<1>6. CASE ~s.zero_win_seg_send /\ ~ (DOMAIN s.outstanding = {} \/ ~s.timer_running)
  <2>1. t \in {Sender!Elapse(s, ms),
               Sender!Resend(s, Sender!FirstOutstanding(s), 2 * s.timeout, s.rx_times + 1),
               Sender!Resend(s, Sender!FirstOutstanding(s), s.timeout, s.rx_times)}
    BY <1>6 DEF Sender!tick
  <2>2. Sender!FirstOutstanding(s) \in Truthful(e, s.stream.written, s.stream.input_end)
    BY <1>6, OldestTruthful
  <2>3. /\ Ticked(e, s, Sender!Resend(s, Sender!FirstOutstanding(s), 2 * s.timeout, s.rx_times + 1))
        /\ Ticked(e, s, Sender!Resend(s, Sender!FirstOutstanding(s), s.timeout, s.rx_times))
    BY <1>2, <2>2, Resent
  <2>. QED  BY <1>3, <2>1, <2>3
<1>. QED  BY <1>4, <1>5, <1>6

-----------------------------------------------------------------------------
ConnFields == {"receiver", "sender", "segments_out", "linger", "since"}
InboundFields == {"capacity", "buffer", "written", "input_end", "error"}

\* What the receiver acknowledges is a number of the other stream.
Acking(e, rcv) ==
  /\ {"reassembler", "isn", "isn_set"} \subseteq DOMAIN rcv
  /\ "output" \in DOMAIN rcv.reassembler
  /\ InboundFields \subseteq DOMAIN rcv.reassembler.output
  /\ rcv.isn_set => /\ rcv.isn = Isn[Peer(e)]
                    /\ Receiver!stream_out(rcv).written \in 0 .. StreamLen[Peer(e)]
  /\ Receiver!window_size(rcv) \in Int

\* A connection that tells the truth.
Linked(e, c) ==
  /\ ConnFields \subseteq DOMAIN c
  /\ Sending(e, c.sender) /\ Acking(e, c.receiver)
  /\ c.segments_out \in Seq(Truthful(e, c.sender.stream.written, c.sender.stream.input_end))

SameStream(t, u) == u.written = t.written /\ u.input_end = t.input_end /\ u.error = t.error

\* d is c after it has queued or sent something.
Onward(e, c, d) ==
  /\ Linked(e, d)
  /\ d.receiver = c.receiver /\ d.linger = c.linger
  /\ d.sender.rx_times = c.sender.rx_times
  /\ SameStream(c.sender.stream, d.sender.stream)

\* Steps of this kind compose.
LEMMA OnwardTwice ==
  ASSUME NEW e, NEW b, NEW c, NEW d, Onward(e, b, c), Onward(e, c, d)
  PROVE  Onward(e, b, d)
  BY DEF Onward, SameStream

\* A call that returns early changes nothing.
LEMMA OnwardNothing ==
  ASSUME NEW e, NEW c, Linked(e, c)
  PROVE  Onward(e, c, c)
  BY DEF Onward, SameStream

\* The acknowledgment the connection fills in.
LEMMA WithAckTruthful ==
  ASSUME NEW e \in End, NEW c, Acking(e, c.receiver), NEW n, NEW ended,
         NEW seg \in Truthful(e, n, ended)
  PROVE  WithAck(c, seg) \in Truthful(e, n, ended)
<1>. DEFINE rcv == c.receiver
            y == Receiver!absolute_ackno(rcv)
            t == WithAck(c, seg)
<1>1. CASE ~Receiver!has_ackno(rcv)
  BY <1>1 DEF WithAck
<1>2. CASE Receiver!has_ackno(rcv)
  <2>1. /\ rcv.isn = Isn[Peer(e)] /\ Receiver!stream_out(rcv).written \in 0 .. StreamLen[Peer(e)]
        /\ Receiver!window_size(rcv) \in Int
    BY <1>2 DEF Acking, Receiver!has_ackno
  <2>2. y \in 0 .. StreamLen[Peer(e)] + 2
    BY <2>1, Ends, SMTT(40) DEF Receiver!absolute_ackno
  <2>3. Receiver!ackno(rcv) = Sender!wrap(y, Isn[Peer(e)])
    BY <2>1 DEF Receiver!ackno, Receiver!wrap, Sender!wrap
  <2>4. Sender!wrap(y, Isn[Peer(e)]) \in Nat /\ Receiver!window_size(rcv) % WinMod \in Nat
    <3>1. /\ y \in Int /\ Isn[Peer(e)] \in Int /\ SeqnoMod \in Nat \ {0} /\ WinMod \in Nat \ {0}
      BY <2>2, Ends, ConnectionAssumption, SMTT(40)
    <3>. HIDE DEF y
    <3>. QED  BY <2>1, <3>1, SMTT(40) DEF Sender!wrap
  <2>5. t = [seg EXCEPT !.ack = TRUE, !.ackno = Receiver!ackno(rcv),
                        !.win = Receiver!window_size(rcv) % WinMod]
    BY <1>2 DEF WithAck
  <2>6. seg \in Segments
    BY DEF Truthful
  <2>7. t \in Segments
    BY <2>3, <2>4, <2>5, <2>6 DEF Segments
  <2>8. /\ t.seqno = seg.seqno /\ t.syn = seg.syn /\ t.fin = seg.fin /\ t.payload = seg.payload
        /\ t.ackno = Sender!wrap(y, Isn[Peer(e)])
    BY <2>3, <2>5, <2>6 DEF Segments
  <2>. HIDE DEF t, y
  <2>9. \E x \in 0 .. StreamLen[e] + 3 : At(e, x, n, ended, t)
    BY <2>8 DEF Truthful, At
  <2>. QED  BY <2>2, <2>7, <2>8, <2>9 DEF Truthful, AcksPeer, t
<1>. QED  BY <1>1, <1>2

\* The sender's queue replaced.
Requeue(s, q) == [s EXCEPT !.segments_out = q]

\* Its invariant holds if all that is queued is truthful.
LEMMA QueueReplaced ==
  ASSUME NEW e \in End, NEW s, Sending(e, s), NEW q,
         q \in Seq(Truthful(e, s.stream.written, s.stream.input_end))
  PROVE  Sent(e, s, Requeue(s, q))
<1>. DEFINE t == Requeue(s, q)
<1>1. /\ SenderFields \subseteq DOMAIN s /\ Queued(e, s) /\ s.win_size \in Nat /\ s.rx_times \in Nat
  BY SendingFacts
<1>2. /\ SenderFields \subseteq DOMAIN t /\ SameProbe(s, t) /\ t.stream = s.stream
      /\ t.segments_out = q
      /\ t.next_seqno = s.next_seqno /\ t.outstanding = s.outstanding
      /\ t.isn = s.isn /\ t.win_size = s.win_size /\ t.rx_times = s.rx_times
  BY <1>1 DEF SenderFields, SameProbe, Requeue
<1>. HIDE DEF t
<1>3. Queued(e, t)
  BY <1>1, <1>2 DEF Queued
<1>4. Sending(e, t)
  BY <1>1, <1>2, <1>3, SendingStill
<1>. QED  BY <1>2, <1>4 DEF Sent, t

\* d has another sender and queue than c.
LEMMA Relinked ==
  ASSUME NEW e \in End, NEW c, Linked(e, c), NEW d, ConnFields \subseteq DOMAIN d,
         d.receiver = c.receiver, d.linger = c.linger, Sending(e, d.sender),
         d.sender.rx_times = c.sender.rx_times, SameStream(c.sender.stream, d.sender.stream),
         d.segments_out \in Seq(Truthful(e, c.sender.stream.written, c.sender.stream.input_end))
  PROVE  Onward(e, c, d)
  BY DEF Onward, Linked, SameStream

\* The sender has sent something.
LEMMA SenderReplaced ==
  ASSUME NEW e \in End, NEW c, Linked(e, c), NEW s, Sent(e, c.sender, s)
  PROVE  Onward(e, c, [c EXCEPT !.sender = s])
<1>. DEFINE d == [c EXCEPT !.sender = s]
<1>1. /\ ConnFields \subseteq DOMAIN d /\ d.receiver = c.receiver /\ d.linger = c.linger
      /\ d.sender = s /\ d.segments_out = c.segments_out
  BY DEF Linked, ConnFields
<1>2. /\ Sending(e, s) /\ s.rx_times = c.sender.rx_times
      /\ SameStream(c.sender.stream, s.stream)
      /\ c.segments_out \in Seq(Truthful(e, c.sender.stream.written, c.sender.stream.input_end))
  BY DEF Sent, SameStream, Linked
<1>. HIDE DEF d
<1>3. Onward(e, c, d)
  BY <1>1, <1>2, Relinked
<1>. QED  BY <1>3 DEF d

\* send_all_segs moves the sender's queue to the connection's.
LEMMA AllSent ==
  ASSUME NEW e \in End, NEW c, Linked(e, c)
  PROVE  Onward(e, c, send_all_segs(c))
<1>. DEFINE truthful == Truthful(e, c.sender.stream.written, c.sender.stream.input_end)
            out == c.sender.segments_out
            moved == [i \in DOMAIN out |-> WithAck(c, out[i])]
            d == send_all_segs(c)
            s == [c.sender EXCEPT !.segments_out = << >>]
<1>1. ConnFields \subseteq DOMAIN c /\ Sending(e, c.sender) /\ Acking(e, c.receiver)
      /\ c.segments_out \in Seq(truthful)
  BY DEF Linked
<1>2. /\ ConnFields \subseteq DOMAIN d /\ d.receiver = c.receiver /\ d.linger = c.linger
      /\ d.sender = s /\ d.segments_out = c.segments_out \o moved
  BY <1>1 DEF ConnFields, send_all_segs
<1>. HIDE DEF d
<1>3. Sent(e, c.sender, s)
  <2>1. << >> \in Seq(truthful)
    BY SMTT(40)
  <2>2. s = Requeue(c.sender, << >>)
    BY DEF Requeue
  <2>3. Sent(e, c.sender, Requeue(c.sender, << >>))
    BY <1>1, <2>1, QueueReplaced
  <2>. HIDE DEF s
  <2>. QED  BY <2>2, <2>3
<1>. HIDE DEF s
<1>4. out \in Seq(truthful)
  BY <1>1, SendingFacts DEF Queued
<1>5. moved \in Seq(truthful)
  <2>. HIDE DEF truthful, out
  <2>1. Len(out) \in Nat /\ DOMAIN out = 1 .. Len(out) /\ \A i \in DOMAIN out : out[i] \in truthful
    BY <1>4, SMTT(40)
  <2>2. \A i \in DOMAIN out : WithAck(c, out[i]) \in truthful
    BY <1>1, <2>1, WithAckTruthful DEF truthful
  <2>3. moved \in [1 .. Len(out) -> truthful]
    BY <2>1, <2>2
  <2>. HIDE DEF moved
  <2>. QED  BY <2>1, <2>3, FunctionIsSeq
<1>6. c.segments_out \o moved \in Seq(truthful)
  <2>. HIDE DEF moved, truthful
  <2>. QED  BY <1>1, <1>5, SMTT(40)
<1>. HIDE DEF moved
<1>7. Onward(e, c, d)
  BY <1>2, <1>3, <1>6, Relinked DEF SameStream, Sent
<1>. QED  BY <1>7 DEF d

\* The first segment of a queue and the others.
LEMMA QueueFront ==
  ASSUME NEW S, NEW q \in Seq(S), q # << >>
  PROVE  Head(q) \in S /\ Tail(q) \in Seq(S)
  BY SMTT(40)

\* The sender has something to carry the acknowledgment.
LEMMA SegmentEnsured ==
  ASSUME NEW e \in End, NEW s, Sending(e, s)
  PROVE  Sent(e, s, EnsureSegment(s)) /\ EnsureSegment(s).segments_out # << >>
<1>1. CASE s.segments_out = << >>
  <2>1. EnsureSegment(s) = Sender!send_empty_segment(s)
    BY <1>1 DEF EnsureSegment
  <2>. QED  BY <2>1, EmptySegmentSent
<1>2. CASE s.segments_out # << >>
  <2>1. EnsureSegment(s) = s
    BY <1>2 DEF EnsureSegment
  <2>. QED  BY <1>2, <2>1, SentNothing
<1>. QED  BY <1>1, <1>2

\* A truthful segment with the RST flag is truthful.
LEMMA ResetTruthful ==
  ASSUME NEW e \in End, NEW n, NEW ended, NEW seg \in Truthful(e, n, ended)
  PROVE  [seg EXCEPT !.rst = TRUE] \in Truthful(e, n, ended)
<1>. DEFINE t == [seg EXCEPT !.rst = TRUE]
<1>1. seg \in Segments /\ AcksPeer(e, seg)
  BY DEF Truthful
<1>2. t \in Segments
  BY <1>1 DEF Segments
<1>3. /\ t.seqno = seg.seqno /\ t.syn = seg.syn /\ t.fin = seg.fin /\ t.payload = seg.payload
      /\ t.ack = seg.ack /\ t.ackno = seg.ackno
  BY <1>1 DEF Segments
<1>. HIDE DEF t
<1>4. \E x \in 0 .. StreamLen[e] + 3 : At(e, x, n, ended, t)
  BY <1>3 DEF Truthful, At
<1>5. AcksPeer(e, t)
  BY <1>1, <1>3 DEF AcksPeer
<1>6. t \in Truthful(e, n, ended)
  BY <1>2, <1>4, <1>5 DEF Truthful
<1>. QED  BY <1>6 DEF t

\* The reset that carries the sender's front segment.
LEMMA ResetQueued ==
  ASSUME NEW e \in End, NEW c, Linked(e, c), c.sender.segments_out # << >>
  PROVE  Onward(e, c, QueueReset(c))
<1>. DEFINE truthful == Truthful(e, c.sender.stream.written, c.sender.stream.input_end)
            seg == [WithAck(c, Head(c.sender.segments_out)) EXCEPT !.rst = TRUE]
            d == QueueReset(c)
<1>1. ConnFields \subseteq DOMAIN c /\ Sending(e, c.sender) /\ Acking(e, c.receiver)
      /\ c.segments_out \in Seq(truthful) /\ c.sender.segments_out \in Seq(truthful)
  BY SendingFacts DEF Linked, Queued
<1>2. Head(c.sender.segments_out) \in truthful
  BY <1>1, QueueFront
<1>3. WithAck(c, Head(c.sender.segments_out)) \in truthful
  BY <1>1, <1>2, WithAckTruthful
<1>4. seg \in truthful
  BY <1>3, ResetTruthful
<1>5. /\ ConnFields \subseteq DOMAIN d /\ d.receiver = c.receiver /\ d.linger = c.linger
      /\ d.sender = c.sender /\ d.segments_out = Append(c.segments_out, seg)
  BY <1>1 DEF ConnFields, QueueReset
<1>. HIDE DEF d, seg
<1>6. Append(c.segments_out, seg) \in Seq(truthful)
  <2>. HIDE DEF truthful
  <2>. QED  BY <1>1, <1>4, SMTT(40)
<1>7. Onward(e, c, d)
  BY <1>1, <1>5, <1>6, Relinked DEF SameStream
<1>. QED  BY <1>7 DEF d

\* send_rst_seg.
LEMMA ResetSent ==
  ASSUME NEW e \in End, NEW c, Linked(e, c)
  PROVE  Onward(e, c, send_rst_seg(c))
<1>. DEFINE s == EnsureSegment(c.sender)
            b == [c EXCEPT !.sender = s]
<1>1. send_rst_seg(c) = QueueReset(b)
  BY DEF send_rst_seg
<1>2. Sent(e, c.sender, s) /\ s.segments_out # << >>
  BY SegmentEnsured DEF Linked
<1>. HIDE DEF s
<1>3. Onward(e, c, b) /\ b.sender = s
  <2>1. Onward(e, c, b)
    BY <1>2, SenderReplaced
  <2>2. b.sender = s
    BY DEF Linked, ConnFields
  <2>. QED  BY <2>1, <2>2
<1>. HIDE DEF b
<1>4. Onward(e, b, QueueReset(b))
  BY <1>2, <1>3, ResetQueued DEF Onward
<1>. QED  BY <1>1, <1>3, <1>4, OnwardTwice

\* connect sends the SYN.
LEMMA Connects ==
  ASSUME Counting, NEW e \in End, NEW c, Linked(e, c), c.sender.next_seqno = 0
  PROVE  Onward(e, c, connect(c))
<1>. DEFINE s == Sender!fill_window(c.sender)
            b == [c EXCEPT !.sender = s]
            d == QueueSyn(b)
            truthful == Truthful(e, b.sender.stream.written, b.sender.stream.input_end)
<1>1. connect(c) = d
  BY DEF connect
<1>2. Sent(e, c.sender, s) /\ s.segments_out # << >>
  BY FillWindowSends DEF Linked
<1>. HIDE DEF s
<1>3. Onward(e, c, b) /\ b.sender = s
  <2>1. Onward(e, c, b)
    BY <1>2, SenderReplaced
  <2>2. b.sender = s
    BY DEF Linked, ConnFields
  <2>. QED  BY <2>1, <2>2
<1>. HIDE DEF b
<1>4. ConnFields \subseteq DOMAIN b /\ Sending(e, b.sender) /\ Linked(e, b)
      /\ b.segments_out \in Seq(truthful) /\ b.sender.segments_out \in Seq(truthful)
  BY <1>3, SendingFacts DEF Onward, Linked, Queued
<1>5. Head(b.sender.segments_out) \in truthful /\ Tail(b.sender.segments_out) \in Seq(truthful)
  BY <1>2, <1>3, <1>4, QueueFront
<1>6. /\ ConnFields \subseteq DOMAIN d /\ d.receiver = b.receiver /\ d.linger = b.linger
      /\ d.sender = Requeue(b.sender, Tail(b.sender.segments_out))
      /\ d.segments_out = Append(b.segments_out, Head(b.sender.segments_out))
  BY <1>4 DEF ConnFields, QueueSyn, Requeue
<1>. HIDE DEF d
<1>7. Append(b.segments_out, Head(b.sender.segments_out)) \in Seq(truthful)
  <2>. HIDE DEF truthful
  <2>. QED  BY <1>4, <1>5, SMTT(40)
<1>8. Sent(e, b.sender, Requeue(b.sender, Tail(b.sender.segments_out)))
  BY <1>4, <1>5, QueueReplaced
<1>9. Onward(e, b, d)
  BY <1>4, <1>6, <1>7, <1>8, Relinked DEF SameStream, Sent
<1>. QED  BY <1>1, <1>3, <1>9, OnwardTwice

\* fill_window and send_all_segs.
LEMMA WindowFilled ==
  ASSUME Counting, NEW e \in End, NEW c, Linked(e, c)
  PROVE  Onward(e, c, send_all_segs([c EXCEPT !.sender = Sender!fill_window(@)]))
<1>. DEFINE s == Sender!fill_window(c.sender)
            b == [c EXCEPT !.sender = s]
<1>1. Sent(e, c.sender, s)
  BY FillWindowSends DEF Linked
<1>. HIDE DEF s
<1>2. Onward(e, c, b)
  BY <1>1, SenderReplaced
<1>. HIDE DEF b
<1>3. Onward(e, b, send_all_segs(b))
  BY <1>2, AllSent DEF Onward
<1>4. Onward(e, c, send_all_segs(b))
  BY <1>2, <1>3, OnwardTwice
<1>. QED  BY <1>4 DEF b, s

\* Data is sent only on an established connection.
LEMMA SentIfEstablished ==
  ASSUME Counting, NEW e \in End, NEW c, Linked(e, c)
  PROVE  Onward(e, c, SendIfEstablished(c))
  BY WindowFilled, OnwardNothing DEF SendIfEstablished

-----------------------------------------------------------------------------
\* The sender's stream replaced.
Restream(s, t) == [s EXCEPT !.stream = t]

\* A stream that has grown or ended keeps all segments truthful.
LEMMA StreamReplaced ==
  ASSUME NEW e \in End, NEW s, Sending(e, s), NEW u, Outbound(e, u), u.read = s.stream.read,
         s.stream.written <= u.written, s.stream.input_end => u.input_end
  PROVE  Sending(e, Restream(s, u))
<1>. DEFINE t == Restream(s, u)
            old == Truthful(e, s.stream.written, s.stream.input_end)
            new == Truthful(e, u.written, u.input_end)
<1>1. /\ SenderFields \subseteq DOMAIN s /\ Queued(e, s) /\ s.win_size \in Nat /\ s.rx_times \in Nat
      /\ s.isn = Isn[e] /\ Position(e, s) /\ Probe(e, s) /\ Outbound(e, s.stream)
  BY SendingFacts
<1>2. /\ SenderFields \subseteq DOMAIN t /\ SameProbe(s, t) /\ t.stream = u
      /\ t.segments_out = s.segments_out
      /\ t.next_seqno = s.next_seqno /\ t.outstanding = s.outstanding
      /\ t.isn = s.isn /\ t.win_size = s.win_size /\ t.rx_times = s.rx_times
  BY <1>1 DEF SenderFields, SameProbe, Restream
<1>. HIDE DEF t
<1>3. old \subseteq new
  <2>1. s.stream.written \in Nat /\ u.written \in Nat
    BY <1>1, OutboundFacts
  <2>. QED  BY <2>1, TruthfulMore, SMTT(40)
<1>4. Queued(e, t)
  <2>1. s.segments_out \in Seq(new)
    BY <1>1, <1>3, SeqMore, SMTT(40) DEF Queued
  <2>. QED  BY <1>1, <1>2, <1>3, <2>1 DEF Queued
<1>5. Position(e, t)
  BY <1>1, <1>2 DEF Position, SameProbe
<1>6. Probe(e, t)
  BY <1>1, <1>2, <1>3 DEF Probe, SameProbe
<1>. QED  BY <1>1, <1>2, <1>4, <1>5, <1>6 DEF Sending, t

\* d is c with another outbound stream.
Restreamed(e, c, u, d) ==
  /\ Linked(e, d) /\ d.sender.stream = u
  /\ d.sender.rx_times = c.sender.rx_times /\ d.linger = c.linger

\* Writing to or ending the outbound stream (tcp_connection.cc) leaves the
\* sender's account and what it has sent true.
LEMMA StreamChanged ==
  ASSUME NEW e \in End, NEW c, Linked(e, c), NEW u, Outbound(e, u), u.read = c.sender.stream.read,
         c.sender.stream.written <= u.written, c.sender.stream.input_end => u.input_end,
         NEW d, ConnFields \subseteq DOMAIN d, Acking(e, d.receiver), d.linger = c.linger,
         d.sender = Restream(c.sender, u), d.segments_out = c.segments_out
  PROVE  Restreamed(e, c, u, d)
<1>. DEFINE old == Truthful(e, c.sender.stream.written, c.sender.stream.input_end)
            new == Truthful(e, u.written, u.input_end)
<1>1. Sending(e, c.sender) /\ c.segments_out \in Seq(old)
  BY DEF Linked
<1>2. Sending(e, d.sender)
  BY <1>1, StreamReplaced
<1>3. d.sender.stream = u /\ d.sender.rx_times = c.sender.rx_times
  <2>1. SenderFields \subseteq DOMAIN c.sender
    BY <1>1, SendingFacts
  <2>. QED  BY <2>1 DEF SenderFields, Restream
<1>4. c.segments_out \in Seq(new)
  <2>1. c.sender.stream.written \in Nat /\ u.written \in Nat
    BY <1>1, SendingFacts, OutboundFacts
  <2>2. old \subseteq new
    BY <2>1, TruthfulMore, SMTT(40)
  <2>. QED  BY <1>1, <2>2, SeqMore, SMTT(40)
<1>. QED  BY <1>2, <1>3, <1>4 DEF Restreamed, Linked

\* What the application writes is added to the stream.
LEMMA WriteOutbound ==
  ASSUME NEW e \in End, NEW t, Outbound(e, t), NEW n \in Nat \ {0},
         n <= Stream!remaining_capacity(t), t.written + n <= StreamLen[e]
  PROVE  LET u == Stream!write(t, [i \in 1 .. n |-> t.written + i - 1])
         IN  /\ Outbound(e, u) /\ u.read = t.read /\ u.written = t.written + n
             /\ u.input_end = t.input_end /\ u.error = t.error
<1>. DEFINE data == [i \in 1 .. n |-> t.written + i - 1]
            u == Stream!write(t, data)
            a == t.read
            b == t.written
            m == Stream!accepted_size(t, data)
<1>1. /\ a \in Nat /\ b \in Nat /\ a <= b /\ t.buffer = Run(a, b) /\ Len(t.buffer) = b - a
      /\ t.capacity \in Nat /\ StreamFields \subseteq DOMAIN t /\ StreamLen[e] \in Nat
      /\ t.input_end \in BOOLEAN /\ (t.input_end => b = StreamLen[e])
  BY OutboundFacts DEF Outbound
<1>2. b + n \in Nat /\ b <= b + n /\ (b + n) - b = n /\ a <= b + n
  BY <1>1, SMTT(40)
<1>3. data = Run(b, b + n)
  BY <1>2 DEF Run
<1>. HIDE DEF data
<1>4. Len(data) = n
  BY <1>1, <1>2, <1>3, RunType
<1>5. m = n
  <2>. DEFINE cap == t.capacity
              l == Len(t.buffer)
  <2>1. m = Stream!Lesser(cap - l, n) /\ n <= cap - l /\ cap \in Nat /\ l = b - a
    BY <1>1, <1>4 DEF Stream!accepted_size, Stream!remaining_capacity
  <2>. HIDE DEF cap, l, a, b, m
  <2>. QED  BY <1>1, <2>1, SMTT(40) DEF Stream!Lesser
<1>6. SubSeq(data, 1, n) = Run(b, b + n)
  <2>1. 0 \in 0 .. (b + n) - b /\ n \in 0 .. (b + n) - b /\ 0 + 1 = 1 /\ b + 0 = b
    BY <1>1, <1>2, SMTT(40)
  <2>2. SubSeq(Run(b, b + n), 0 + 1, n) = Run(b + 0, b + n)
    BY <1>1, <1>2, <2>1, RunSub
  <2>. QED  BY <1>3, <2>1, <2>2
<1>7. Run(a, b) \o Run(b, b + n) = Run(a, b + n)
  BY <1>1, <1>2, RunJoin
<1>8. /\ StreamFields \subseteq DOMAIN u /\ u.capacity = t.capacity /\ u.read = a
      /\ u.written = b + m /\ u.buffer = t.buffer \o SubSeq(data, 1, m)
      /\ u.input_end = t.input_end /\ u.error = t.error
  BY <1>1 DEF StreamFields, Stream!write
<1>9. u.written = b + n /\ u.buffer = Run(a, b + n)
  BY <1>1, <1>5, <1>6, <1>7, <1>8
<1>. HIDE DEF u, m
<1>10. u.written \in 0 .. StreamLen[e] /\ u.read \in 0 .. u.written /\ ~t.input_end
  BY <1>1, <1>2, <1>8, <1>9, SMTT(40)
<1>11. Outbound(e, u)
  BY <1>1, <1>8, <1>9, <1>10 DEF Outbound
<1>. QED  BY <1>8, <1>9, <1>11 DEF u, data

\* d is c after its application has written up to w, and ended the stream or not.
Wrote(e, c, w, ended, d) ==
  /\ Linked(e, d) /\ d.receiver = c.receiver /\ d.linger = c.linger
  /\ d.sender.rx_times = c.sender.rx_times
  /\ d.sender.stream.written = w /\ d.sender.stream.input_end = ended
  /\ d.sender.stream.error = c.sender.stream.error

\* TCPConnection::write.
LEMMA Writes ==
  ASSUME Counting, NEW e \in End, NEW c, Linked(e, c), NEW n \in Nat \ {0},
         n <= Stream!remaining_capacity(c.sender.stream),
         c.sender.stream.written + n <= StreamLen[e]
  PROVE  Wrote(e, c, c.sender.stream.written + n, c.sender.stream.input_end,
               write(c, [i \in 1 .. n |-> c.sender.stream.written + i - 1]))
<1>. DEFINE t == c.sender.stream
            data == [i \in 1 .. n |-> t.written + i - 1]
            u == Stream!write(t, data)
            b == [c EXCEPT !.sender.stream = u]
            d == SendIfEstablished(b)
<1>1. /\ ConnFields \subseteq DOMAIN c /\ Sending(e, c.sender) /\ Acking(e, c.receiver)
      /\ Outbound(e, t) /\ SenderFields \subseteq DOMAIN c.sender
  BY SendingFacts DEF Linked
<1>2. /\ Outbound(e, u) /\ u.read = t.read /\ u.written = t.written + n
      /\ u.input_end = t.input_end /\ u.error = t.error
  BY <1>1, WriteOutbound
<1>3. t.written <= u.written
  <2>1. t.written \in Nat
    BY <1>1, OutboundFacts
  <2>2. t.written <= t.written + n
    BY <2>1, SMTT(40)
  <2>. QED  BY <1>2, <2>2
<1>4. write(c, data) = d
  BY DEF write
<1>. HIDE DEF u
<1>5. /\ ConnFields \subseteq DOMAIN b /\ b.receiver = c.receiver /\ b.linger = c.linger
      /\ b.sender = Restream(c.sender, u) /\ b.segments_out = c.segments_out
  BY <1>1 DEF ConnFields, Restream
<1>. HIDE DEF b
<1>6. Restreamed(e, c, u, b)
  BY <1>1, <1>2, <1>3, <1>5, StreamChanged
<1>7. Onward(e, b, d)
  BY <1>6, SentIfEstablished DEF Restreamed
<1>. HIDE DEF d
<1>8. Wrote(e, c, t.written + n, t.input_end, d)
  BY <1>2, <1>5, <1>6, <1>7 DEF Wrote, Onward, Restreamed, SameStream
<1>. QED  BY <1>4, <1>8

\* TCPConnection::end_input_stream.
LEMMA EndsInput ==
  ASSUME Counting, NEW e \in End, NEW c, Linked(e, c), c.sender.stream.written = StreamLen[e]
  PROVE  Wrote(e, c, c.sender.stream.written, TRUE, end_input_stream(c))
<1>. DEFINE t == c.sender.stream
            u == Stream!end_input(t)
            b == [c EXCEPT !.sender = Restream(c.sender, u)]
            d == send_all_segs([b EXCEPT !.sender = Sender!fill_window(@)])
<1>1. /\ ConnFields \subseteq DOMAIN c /\ Sending(e, c.sender) /\ Acking(e, c.receiver)
      /\ Outbound(e, t) /\ SenderFields \subseteq DOMAIN c.sender
      /\ StreamFields \subseteq DOMAIN t
  BY SendingFacts DEF Linked, Outbound
<1>2. /\ StreamFields \subseteq DOMAIN u /\ u.capacity = t.capacity /\ u.read = t.read
      /\ u.written = t.written /\ u.buffer = t.buffer
      /\ u.input_end = TRUE /\ u.error = t.error
  BY <1>1 DEF StreamFields, Stream!end_input
<1>. HIDE DEF u
<1>3. Outbound(e, u)
  BY <1>1, <1>2 DEF Outbound
<1>4. t.written <= u.written
  <2>1. t.written \in Nat
    BY <1>1, OutboundFacts
  <2>2. t.written <= t.written
    BY <2>1, SMTT(40)
  <2>. QED  BY <1>2, <2>2
<1>5. /\ ConnFields \subseteq DOMAIN b /\ b.receiver = c.receiver /\ b.linger = c.linger
      /\ b.sender = Restream(c.sender, u) /\ b.segments_out = c.segments_out
  BY <1>1 DEF ConnFields
<1>6. end_input_stream(c) = d
  <2>1. end_input_stream(c) =
          send_all_segs([c EXCEPT !.sender = Sender!fill_window(Restream(c.sender, u))])
    BY DEF end_input_stream, Restream, u
  <2>. DEFINE s == Restream(c.sender, u)
  <2>2. [b EXCEPT !.sender = Sender!fill_window(@)] = [b EXCEPT !.sender = Sender!fill_window(s)]
    BY <1>5
  <2>. HIDE DEF s
  <2>3. \A f : [[c EXCEPT !.sender = s] EXCEPT !.sender = f] = [c EXCEPT !.sender = f]
    OBVIOUS
  <2>4. [b EXCEPT !.sender = Sender!fill_window(s)] = [c EXCEPT !.sender = Sender!fill_window(s)]
    BY <2>3 DEF s
  <2>. QED  BY <2>1, <2>2, <2>4 DEF s
<1>. HIDE DEF b
<1>7. Restreamed(e, c, u, b)
  BY <1>1, <1>2, <1>3, <1>4, <1>5, StreamChanged
<1>8. Onward(e, b, d)
  BY <1>7, WindowFilled DEF Restreamed
<1>. HIDE DEF d
<1>9. Wrote(e, c, t.written, TRUE, d)
  BY <1>2, <1>5, <1>7, <1>8 DEF Wrote, Onward, Restreamed, SameStream
<1>. QED  BY <1>6, <1>9

\* The inbound stream with its error flag set.
Failed(rcv) == [rcv EXCEPT !.reassembler.output = Stream!set_error(@)]

\* d is c after set_errors.
GivenUp(e, c, d) ==
  /\ Linked(e, d) /\ d.receiver = Failed(c.receiver) /\ d.linger = c.linger
  /\ d.sender.rx_times = c.sender.rx_times
  /\ d.sender.stream.written = c.sender.stream.written
  /\ d.sender.stream.input_end = c.sender.stream.input_end
  /\ d.sender.stream.error /\ inbound_stream(d).error

\* set_errors.
LEMMA ErrorsSet ==
  ASSUME NEW e \in End, NEW c, Linked(e, c)
  PROVE  GivenUp(e, c, set_errors(c))
<1>. DEFINE t == c.sender.stream
            u == Stream!set_error(t)
            d == set_errors(c)
            rcv == c.receiver
            out == rcv.reassembler.output
<1>1. /\ ConnFields \subseteq DOMAIN c /\ Sending(e, c.sender) /\ Acking(e, rcv)
      /\ Outbound(e, t) /\ SenderFields \subseteq DOMAIN c.sender
      /\ StreamFields \subseteq DOMAIN t
  BY SendingFacts DEF Linked, Outbound
<1>2. /\ StreamFields \subseteq DOMAIN u /\ u.capacity = t.capacity /\ u.read = t.read
      /\ u.written = t.written /\ u.buffer = t.buffer
      /\ u.input_end = t.input_end /\ u.error = TRUE
  BY <1>1 DEF StreamFields, Stream!set_error
<1>3. /\ ConnFields \subseteq DOMAIN d /\ d.receiver = Failed(rcv) /\ d.linger = c.linger
      /\ d.sender = Restream(c.sender, u) /\ d.segments_out = c.segments_out
  BY <1>1 DEF ConnFields, set_errors, Restream, Failed
<1>. HIDE DEF u, d
<1>4. Outbound(e, u)
  BY <1>1, <1>2 DEF Outbound
<1>5. t.written <= u.written
  <2>1. t.written \in Nat
    BY <1>1, OutboundFacts
  <2>2. t.written <= t.written
    BY <2>1, SMTT(40)
  <2>. QED  BY <1>2, <2>2
<1>. DEFINE new == Failed(rcv)
<1>6. /\ {"reassembler", "isn", "isn_set"} \subseteq DOMAIN new
      /\ new.isn_set = rcv.isn_set /\ new.isn = rcv.isn
      /\ new.reassembler = [rcv.reassembler EXCEPT !.output = Stream!set_error(out)]
  BY <1>1 DEF Acking, Failed
<1>. HIDE DEF new
<1>7. "output" \in DOMAIN new.reassembler /\ new.reassembler.output = Stream!set_error(out)
  BY <1>1, <1>6 DEF Acking
<1>8. /\ InboundFields \subseteq DOMAIN new.reassembler.output
      /\ new.reassembler.output.written = out.written
      /\ new.reassembler.output.capacity = out.capacity
      /\ new.reassembler.output.buffer = out.buffer
      /\ new.reassembler.output.error = TRUE
  BY <1>1, <1>7 DEF Acking, InboundFields, Stream!set_error
<1>9. Acking(e, new)
  BY <1>1, <1>6, <1>7, <1>8
  DEF Acking, Receiver!stream_out, Receiver!window_size, Receiver!remaining_capacity
<1>10. Restreamed(e, c, u, d)
  BY <1>1, <1>2, <1>3, <1>4, <1>5, <1>9, StreamChanged DEF new
<1>11. inbound_stream(d).error
  BY <1>3, <1>8 DEF inbound_stream, Receiver!stream_out, new
<1>. QED  BY <1>2, <1>3, <1>10, <1>11 DEF GivenUp, Restreamed, d

-----------------------------------------------------------------------------
\* t is s after an acknowledgment and what the sender sent on it.
Heard(e, s, t) ==
  Sending(e, t) /\ SameStream(s.stream, t.stream) /\ t.rx_times <= s.rx_times

\* The sender hears an acknowledgment of a number of its stream.
LEMMA AckAnswered ==
  ASSUME Counting, NEW e \in End, 2 * (StreamLen[e] + 3) < SeqnoMod, NEW s, Sending(e, s),
         NEW seg \in Segments,
         seg.ack => Sender!unwrap(seg.ackno, s.isn, s.next_seqno) \in 0 .. StreamLen[e] + 2
  PROVE  Heard(e, s, HearAck(s, seg))
<1>1. CASE ~seg.ack
  <2>1. HearAck(s, seg) = s
    BY <1>1 DEF HearAck
  <2>2. s.rx_times <= s.rx_times
    <3>1. s.rx_times \in Nat
      BY SendingFacts
    <3>. QED  BY <3>1, SMTT(40)
  <2>. QED  BY <2>1, <2>2 DEF Heard, SameStream
<1>2. CASE seg.ack
  <2>. DEFINE y == Sender!unwrap(seg.ackno, s.isn, s.next_seqno)
              t == Sender!Acknowledged(s, y, seg.ackno, seg.win)
              u == FillIfStarted(t)
  <2>1. HearAck(s, seg) = u
    BY <1>2 DEF HearAck, Sender!ack_received
  <2>2. y \in 0 .. StreamLen[e] + 2 /\ seg.win \in Nat
    BY <1>2 DEF Segments
  <2>. HIDE DEF y
  <2>3. Acked(e, s, t)
    BY <2>2, AckHeard
  <2>. HIDE DEF t
  <2>4. Sent(e, t, u)
    BY <2>3, FillWindowSends, SentNothing DEF Acked, FillIfStarted
  <2>. HIDE DEF u
  <2>5. Heard(e, s, u)
    BY <2>3, <2>4 DEF Heard, Acked, Sent, SameStream
  <2>. QED  BY <2>1, <2>5
<1>. QED  BY <1>1, <1>2

\* The answer to a segment that occupies sequence numbers.
LEMMA Answered ==
  ASSUME Counting, NEW e \in End, NEW c, Linked(e, c), NEW seg
  PROVE  Onward(e, c, Answer(c, seg))
<1>. DEFINE s == SynIfListening(c.sender)
            t == EnsureSegment(s)
<1>1. Sent(e, c.sender, s)
  BY FillWindowSends, SentNothing DEF Linked, SynIfListening
<1>. HIDE DEF s
<1>2. Sent(e, s, t)
  BY <1>1, SegmentEnsured DEF Sent
<1>. HIDE DEF t
<1>3. Sent(e, c.sender, t)
  BY <1>1, <1>2 DEF Sent
<1>4. Onward(e, c, [c EXCEPT !.sender = t])
  BY <1>3, SenderReplaced
<1>. QED  BY <1>4, OnwardNothing DEF Answer, s, t

\* The answer to a keep-alive.
LEMMA KeptAlive ==
  ASSUME NEW e \in End, NEW c, Linked(e, c), NEW seg
  PROVE  Onward(e, c, KeepAlive(c, seg))
<1>. DEFINE s == Sender!send_empty_segment(c.sender)
            b == [c EXCEPT !.sender = s]
<1>1. Sent(e, c.sender, s)
  BY EmptySegmentSent DEF Linked
<1>. HIDE DEF s
<1>2. Onward(e, c, b)
  BY <1>1, SenderReplaced
<1>. HIDE DEF b
<1>3. Onward(e, b, send_all_segs(b))
  BY <1>2, AllSent DEF Onward
<1>4. Onward(e, c, send_all_segs(b))
  BY <1>2, <1>3, OnwardTwice
<1>. QED  BY <1>4, OnwardNothing DEF KeepAlive, b, s

\* d is c after a segment that made rcv of its receiver.
Received(e, c, rcv, d) ==
  /\ Linked(e, d) /\ d.receiver = rcv
  /\ d.sender.rx_times <= c.sender.rx_times
  /\ SameStream(c.sender.stream, d.sender.stream)
  /\ d.linger = (c.linger /\ ~ (/\ Receiver!stream_out(rcv).input_end
                                /\ ~c.sender.stream.input_end))

\* TCPConnection::segment_received, for a segment that is not a reset.
LEMMA SegmentTaken ==
  ASSUME Counting, NEW e \in End, NEW c, Linked(e, c), NEW seg, active(c), ~seg.rst,
         Acking(e, Receiver!segment_received(c.receiver, seg)),
         Heard(e, c.sender, HearAck(c.sender, seg))
  PROVE  Received(e, c, Receiver!segment_received(c.receiver, seg), segment_received(c, seg))
<1>. DEFINE rcv == Receiver!segment_received(c.receiver, seg)
            s == HearAck(c.sender, seg)
            h == Hear(c, seg)
            n == NoteClosing(h)
            a == Answer(n, seg)
            b == send_all_segs(a)
            d == KeepAlive(b, seg)
<1>1. segment_received(c, seg) = d
  BY DEF segment_received
<1>2. /\ ConnFields \subseteq DOMAIN c
      /\ c.segments_out \in Seq(Truthful(e, c.sender.stream.written, c.sender.stream.input_end))
  BY DEF Linked
<1>3. /\ ConnFields \subseteq DOMAIN h /\ h.receiver = rcv /\ h.sender = s
      /\ h.linger = c.linger /\ h.segments_out = c.segments_out
  BY <1>2 DEF ConnFields, Hear
<1>. HIDE DEF h, rcv, s
<1>4. /\ ConnFields \subseteq DOMAIN n /\ n.receiver = rcv /\ n.sender = s
      /\ n.segments_out = c.segments_out /\ n.linger = (c.linger /\ ~PassiveClose(h))
  BY <1>3 DEF ConnFields, NoteClosing
<1>. HIDE DEF n
<1>5. Linked(e, n)
  BY <1>2, <1>4 DEF Linked, Heard, SameStream, rcv, s
<1>6. Onward(e, n, a)
  BY <1>5, Answered
<1>. HIDE DEF a
<1>7. Onward(e, a, b)
  BY <1>6, AllSent DEF Onward
<1>. HIDE DEF b
<1>8. Onward(e, b, d)
  BY <1>7, KeptAlive DEF Onward
<1>. HIDE DEF d
<1>9. Onward(e, n, d)
  BY <1>6, <1>7, <1>8, OnwardTwice
<1>10. PassiveClose(h) <=> Receiver!stream_out(rcv).input_end /\ ~c.sender.stream.input_end
  BY <1>3 DEF PassiveClose, inbound_stream, Heard, SameStream, s
<1>11. Received(e, c, rcv, d)
  BY <1>4, <1>9, <1>10 DEF Received, Onward, Heard, SameStream, s
<1>. QED  BY <1>1, <1>11 DEF rcv

\* The connection keeps the time in TIME_WAIT.
LEMMA Aged ==
  ASSUME NEW e \in End, NEW c, Linked(e, c), NEW ms
  PROVE  Onward(e, c, Age(c, ms))
<1>. DEFINE d == Age(c, ms)
<1>1. /\ ConnFields \subseteq DOMAIN d /\ d.receiver = c.receiver /\ d.linger = c.linger
      /\ d.sender = c.sender /\ d.segments_out = c.segments_out
  BY DEF Linked, ConnFields, Age
<1>. HIDE DEF d
<1>2. Onward(e, c, d)
  BY <1>1 DEF Onward, Linked, SameStream
<1>. QED  BY <1>2 DEF d

\* d is c after a tick: it has sent something again, or given up.
ClockedOn(e, c, d) ==
  \/ /\ Linked(e, d) /\ d.receiver = c.receiver /\ d.linger = c.linger
     /\ SameStream(c.sender.stream, d.sender.stream)
     /\ d.sender.rx_times <= MaxRetx \/ d = c
  \/ /\ Linked(e, d) /\ d.receiver = Failed(c.receiver) /\ d.linger = c.linger
     /\ d.sender.stream.written = c.sender.stream.written
     /\ d.sender.stream.input_end = c.sender.stream.input_end
     /\ d.sender.stream.error /\ inbound_stream(d).error
     /\ active(c) /\ d.sender.rx_times <= c.sender.rx_times + 1

\* TCPConnection::tick.
LEMMA ConnectionTicks ==
  ASSUME Counting, NEW e \in End, NEW c, Linked(e, c), NEW ms
  PROVE  ClockedOn(e, c, tick(c, ms))
<1>1. CASE ~active(c)
  <2>1. tick(c, ms) = c
    BY <1>1 DEF tick
  <2>. QED  BY <2>1 DEF ClockedOn, SameStream
<1>2. CASE active(c)
  <2>. DEFINE s == Sender!tick(c.sender, ms)
              b == [c EXCEPT !.sender = s]
              a == Age(b, ms)
              d == SendOrGiveUp(a)
  <2>1. tick(c, ms) = d
    BY <1>2 DEF tick
  <2>2. Ticked(e, c.sender, s)
    BY SenderTicks DEF Linked
  <2>. HIDE DEF s
  <2>3. /\ ConnFields \subseteq DOMAIN b /\ b.receiver = c.receiver /\ b.linger = c.linger
        /\ b.sender = s /\ b.segments_out = c.segments_out
    BY DEF Linked, ConnFields
  <2>. HIDE DEF b
  <2>4. Linked(e, b)
    BY <2>2, <2>3 DEF Linked, Ticked
  <2>5. Onward(e, b, a)
    BY <2>4, Aged
  <2>. HIDE DEF a
  <2>6. /\ Linked(e, a) /\ a.receiver = c.receiver /\ a.linger = c.linger
        /\ SameStream(c.sender.stream, a.sender.stream)
        /\ a.sender.rx_times <= c.sender.rx_times + 1 /\ a.sender.rx_times \in Nat
    BY <2>2, <2>3, <2>5, SendingFacts DEF Onward, Ticked, SameStream, Linked
  <2>7. CASE a.sender.rx_times > MaxRetx
    <3>. DEFINE f == set_errors(a)
    <3>1. d = send_rst_seg(f)
      BY <2>7 DEF SendOrGiveUp, Sender!consecutive_retransmissions
    <3>2. GivenUp(e, a, f)
      BY <2>6, ErrorsSet
    <3>. HIDE DEF f
    <3>3. Onward(e, f, send_rst_seg(f))
      BY <3>2, ResetSent DEF GivenUp
    <3>. HIDE DEF d
    <3>4. ClockedOn(e, c, d)
      BY <1>2, <2>6, <3>1, <3>2, <3>3 DEF ClockedOn, GivenUp, Onward, SameStream, inbound_stream
    <3>. QED  BY <2>1, <3>4
  <2>8. CASE ~ (a.sender.rx_times > MaxRetx)
    <3>1. d = send_all_segs(a) \/ d = a
      BY <2>8 DEF SendOrGiveUp, Sender!consecutive_retransmissions
    <3>2. Onward(e, a, d)
      BY <2>6, <3>1, AllSent, OnwardNothing
    <3>. HIDE DEF d
    <3>3. a.sender.rx_times <= MaxRetx
      BY <2>6, <2>8, ConnectionAssumption, SMTT(40)
    <3>4. ClockedOn(e, c, d)
      BY <2>6, <3>2, <3>3 DEF ClockedOn, Onward, SameStream
    <3>. QED  BY <2>1, <3>4
  <2>. QED  BY <2>7, <2>8
<1>. QED  BY <1>1, <1>2
=============================================================================
