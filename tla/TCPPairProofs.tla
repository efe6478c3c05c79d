--------------------------- MODULE TCPPairProofs ----------------------------
(***************************************************************************)
(* The theorems about a connection of two TCPConnections over a network    *)
(* that loses, duplicates and reorders segments (TCPPair), for every       *)
(* window, payload size, timeout, pair of initial sequence numbers and     *)
(* pair of streams that fit in half of the number space (ShortStreams).    *)
(* TCPPairInvariant and TCPPairStates prove them from hypotheses, and this *)
(* module discharges these: ReceiverKeeps, that segment_received of a      *)
(* receiver writes only bytes the peer wrote, follows from the             *)
(* reassembler's lemmas (R, an instance of ReassemblyProofs) and from      *)
(* unwrap() of a number that is close enough; Counting and Counted are     *)
(* facts of the library about natural numbers and finite sets.             *)
(***************************************************************************)
EXTENDS TCPPairStates, TCPPairStreams

USE ZenonT(40)

-----------------------------------------------------------------------------
(***************************************************************************)
(* The refinement: the two directions as reliable streams of bytes.        *)
(***************************************************************************)
\* A connection's streams start empty ...
LEMMA InitInOrder ==
  ASSUME Init
  PROVE  UpstreamBytes!Init /\ DownstreamBytes!Init
<1>1. ASSUME NEW e \in End
      PROVE  /\ BytesWritten(e) = << >> /\ conn[e].sender.stream.input_end = FALSE
             /\ received[e] = << >>
  <2>1. conn[e] = NewConnection(SendCapacity, RecvCapacity, Isn[e]) /\ received[e] = << >>
    BY DEF Init
  <2>2. conn[e].sender.stream.written = 0 /\ conn[e].sender.stream.input_end = FALSE
    BY <2>1, NewLinked
  <2>3. [i \in 1 .. 0 |-> i - 1] = << >>
    BY SMTT(40)
  <2>. QED  BY <2>1, <2>2, <2>3 DEF BytesWritten
<1>2. Client \in End /\ Server \in End
  BY DEF End
<1>. QED  BY <1>1, <1>2 DEF UpstreamBytes!Init, DownstreamBytes!Init

\* ... and go on as the abstract ones do.
LEMMA NextInOrder ==
  ASSUME IInv, Moved, [Next]_vars
  PROVE  [UpstreamBytes!Next]_(UpstreamBytes!vars) /\ [DownstreamBytes!Next]_(DownstreamBytes!vars)
<1>1. Client \in End /\ Server \in End /\ Peer(Client) = Server /\ Peer(Server) = Client
  BY PairAssumption DEF End, Peer
<1>2. UpstreamBytes!Next
  <2>1. UpstreamBytes!EndIsReal
    BY DEF UpstreamBytes!EndIsReal
  <2>. QED  BY <1>1, <2>1, BytesStep
    DEF UpstreamBytes!Next, UpstreamBytes!Send, UpstreamBytes!Finish, UpstreamBytes!Receive,
        BytesMove
<1>3. DownstreamBytes!Next
  <2>1. DownstreamBytes!EndIsReal
    BY DEF DownstreamBytes!EndIsReal
  <2>. QED  BY <1>1, <2>1, BytesStep
    DEF DownstreamBytes!Next, DownstreamBytes!Send, DownstreamBytes!Finish,
        DownstreamBytes!Receive, BytesMove
<1>. QED  BY <1>2, <1>3

\* Each direction is a stream that loses no byte it has handed over, swaps none
\* and repeats none.
LEMMA PairInOrder ==
  ASSUME ShortStreams, Counting, ReceiverKeeps
  PROVE  Spec => InOrderBothWays
<1>1. Init => UpstreamBytes!Init /\ DownstreamBytes!Init
  BY InitInOrder
<1>2. IInv /\ [Next]_vars => /\ [UpstreamBytes!Next]_(UpstreamBytes!vars)
                             /\ [DownstreamBytes!Next]_(DownstreamBytes!vars)
  BY NextHolds, NextInOrder
<1>. QED  BY <1>1, <1>2, InvAlways, PTL
          DEF Spec, InOrderBothWays, UpstreamBytes!Spec, DownstreamBytes!Spec

-----------------------------------------------------------------------------
(***************************************************************************)
(* The receiver: a truthful segment becomes a push of bytes of the stream  *)
(* at their index.                                                         *)
(***************************************************************************)
Reassembling(q, d, n, ended) ==
  /\ {"output", "substrs", "size"} \subseteq DOMAIN q
  /\ q.size \in 0 .. SizeMod - 1
  /\ Inbound(q.output, d, n, ended)
  /\ Waiting(q.substrs, q.output.written)
  /\ Backed(q.substrs, n, ended)

\* Bytes i .. j - 1 are among the first n, and last only if the stream has
\* ended; an end without bytes does not come inside a waiting substring.
Pushable(q, d, n, ended, i, j, is_eof) ==
  /\ Reassembling(q, d, n, ended)
  /\ i < j => j <= n
  /\ is_eof => ended
  /\ i = j /\ is_eof => \A k \in DOMAIN q.substrs : EndOf(q.substrs, k) <= i \/ i <= k

\* The stream u has the end and the error of t.
Outlasts(t, u) == (t.input_end => u.input_end) /\ (t.error => u.error)

\* What the reassembler makes of such a push; proved below.
PushKeeps ==
  \A q, d, n, ended : \A i \in 0 .. Horizon : \A j \in i .. Horizon : \A is_eof \in BOOLEAN :
    Pushable(q, d, n, ended, i, j, is_eof) =>
      /\ Reassembling(Receiver!push_substring(q, Run(i, j), i, is_eof), d, n, ended)
      /\ Outlasts(q.output, Receiver!push_substring(q, Run(i, j), i, is_eof).output)

\* Both streams end before the horizon, and what a window adds to them is
\* within the range of an index.
LEMMA HorizonFar ==
  ASSUME NEW e \in End
  PROVE  /\ Horizon \in Nat /\ StreamLen[e] + 3 <= Horizon
         /\ SizeMod \in Nat /\ RecvCapacity \in Nat /\ StreamLen[e] + RecvCapacity + 2 < SizeMod
<1>1. e = Client \/ e = Server
  BY DEF End
<1>2. StreamLen[Client] \in Nat /\ StreamLen[Server] \in Nat
  BY PairAssumption, SMTT(40) DEF End
<1>3. Horizon \in Nat /\ StreamLen[e] + 3 <= Horizon
  BY <1>1, <1>2, SMTT(40) DEF Horizon
<1>. QED  BY <1>3, PairAssumption, ConnectionAssumption, SMTT(40)

\* The index of a segment with number x.
LEMMA IndexOf ==
  ASSUME ShortStreams, NEW e \in End, NEW x \in 0 .. StreamLen[e] + 3,
         NEW w \in 0 .. StreamLen[e]
  PROVE  /\ Receiver!unwrap(Sender!wrap(x, Isn[e]), Isn[e], w) = x
         /\ (x - 1) % SizeMod = IF x = 0 THEN SizeMod - 1 ELSE x - 1
<1>1. 2 * (StreamLen[e] + 3) < SeqnoMod
  BY DEF ShortStreams
<1>2. StreamLen[e] \in Nat /\ SeqnoMod \in Nat \ {0} /\ Isn[e] \in 0 .. SeqnoMod - 1
  BY Ends
<1>. USE <1>2
<1>3. x \in Nat /\ w \in Nat /\ 2 * x < SeqnoMod /\ 2 * w < SeqnoMod
  BY <1>1, SMTT(40)
<1>4. Receiver!unwrap(Sender!wrap(x, Isn[e]), Isn[e], w) = x
  BY <1>3, ReceiverUnwraps
<1>5. SizeMod \in Nat /\ StreamLen[e] + 2 < SizeMod
  <2>. DEFINE l == StreamLen[e]
  <2>1. /\ SizeMod \in Nat /\ RecvCapacity \in Nat /\ l + RecvCapacity + 2 < SizeMod
        /\ l \in Nat
    BY HorizonFar
  <2>. HIDE DEF l
  <2>2. l + 2 < SizeMod
    BY <2>1, SMTT(40)
  <2>. QED  BY <2>1, <2>2 DEF l
<1>. USE <1>5
<1>6. (x - 1) % SizeMod = IF x = 0 THEN SizeMod - 1 ELSE x - 1
  <2>1. CASE x = 0
    <3>1. SizeMod \in Nat \ {0}
      BY ConnectionAssumption, SMTT(40)
    <3>2. (0 - 1) % SizeMod = SizeMod - 1
      BY <3>1, SMTT(40)
    <3>. QED  BY <2>1, <3>2
  <2>2. CASE x # 0
    <3>. DEFINE l == StreamLen[e]
    <3>1. l \in Nat /\ x \in 0 .. l + 3 /\ l + 2 < SizeMod
      OBVIOUS
    <3>. HIDE DEF l
    <3>2. x - 1 \in 0 .. SizeMod - 1
      BY <2>2, <3>1, SMTT(40)
    <3>. QED  BY <2>2, <3>2, SMTT(40)
  <2>. QED  BY <2>1, <2>2
<1>. QED  BY <1>4, <1>6

\* A number outside of the stream gives an index outside of the window.
LEMMA LastIndexRefused ==
  ASSUME NEW e \in End, NEW q, NEW d, NEW n, NEW f, Reassembling(q, d, n, f),
         n <= StreamLen[e], NEW data, NEW eof
  PROVE  Receiver!push_substring(q, data, SizeMod - 1, eof) = q
<1>. DEFINE w == q.output.written
            l == Len(q.output.buffer)
            s == StreamLen[e]
<1>1. /\ w \in 0 .. Horizon /\ n \in Nat /\ w <= n /\ l <= RecvCapacity
      /\ q.output.buffer \in Seq(Nat) /\ q.output.capacity = RecvCapacity
  BY DEF Reassembling, Inbound
<1>. USE <1>1
<1>2. l \in Nat /\ s \in Nat
  BY LenOfSeq, Ends
<1>3. /\ Horizon \in Nat /\ SizeMod \in Nat /\ RecvCapacity \in Nat
      /\ s + RecvCapacity + 2 < SizeMod
  BY HorizonFar
<1>4. Receiver!WindowEnd(q) = w + (RecvCapacity - l)
  BY DEF Receiver!WindowEnd, Receiver!remaining_capacity
<1>. HIDE DEF w, l, s
<1>5. SizeMod - 1 >= Receiver!WindowEnd(q)
  <2>1. n <= s
    BY DEF s
  <2>. QED  BY <1>2, <1>3, <1>4, <2>1, SMTT(40)
<1>. QED  BY <1>5 DEF Receiver!push_substring

\* The receiver's wrap is the sender's.
LEMMA SameWrap == \A p, i : Receiver!wrap(p, i) = Sender!wrap(p, i)
  BY DEF Receiver!wrap, Sender!wrap

\* A receiver that has taken a segment holds the reassembler that push_substring
\* has made.
LEMMA PushedInto ==
  ASSUME NEW e \in End, NEW rcv, NEW d, NEW n, NEW f, Receiving(e, rcv, d, n, f),
         NEW q, Reassembling(q, d, n, f)
  PROVE  Receiving(e, [isn |-> Isn[Peer(e)], isn_set |-> TRUE, reassembler |-> q], d, n, f)
<1>. DEFINE new == [isn |-> Isn[Peer(e)], isn_set |-> TRUE, reassembler |-> q]
<1>1. /\ {"reassembler", "isn", "isn_set"} \subseteq DOMAIN new
      /\ new.isn = Isn[Peer(e)] /\ new.isn_set = TRUE /\ new.reassembler = q
  BY SMTT(40)
<1>. HIDE DEF new
<1>2. Receiving(e, new, d, n, f)
  BY <1>1 DEF Receiving, Reassembling
<1>. QED  BY <1>2 DEF new

\* TCPReceiver::segment_received.
LEMMA ReceiverReassembles ==
  ASSUME PushKeeps, ShortStreams
  PROVE  ReceiverKeeps
<1>1. SUFFICES ASSUME NEW e \in End, NEW rcv, NEW d, NEW n, NEW f, NEW seg,
                      n \in 0 .. StreamLen[Peer(e)], f => n = StreamLen[Peer(e)],
                      Receiving(e, rcv, d, n, f), seg \in Truthful(Peer(e), n, f)
               PROVE  /\ Receiving(e, Receiver!segment_received(rcv, seg), d, n, f)
                      /\ Grown(rcv, Receiver!segment_received(rcv, seg))
  BY DEF ReceiverKeeps
<1>. DEFINE p == Peer(e)
            N == StreamLen[p]
            q == rcv.reassembler
            w == q.output.written
            isn == IF seg.syn THEN seg.seqno ELSE rcv.isn
            data_seqno == IF seg.syn THEN Receiver!wrap(1, isn) ELSE seg.seqno
            index == (Receiver!unwrap(data_seqno, isn, w) - 1) % SizeMod
            q2 == Receiver!push_substring(q, seg.payload, index, seg.fin)
            new == [isn |-> isn, isn_set |-> TRUE, reassembler |-> q2]
<1>. USE <1>1
<1>2. CASE ~ (seg.syn \/ rcv.isn_set)
  <2>1. Receiver!segment_received(rcv, seg) = rcv
    BY <1>2 DEF Receiver!segment_received
  <2>. QED  BY <2>1 DEF Grown
<1>3. CASE seg.syn \/ rcv.isn_set
  <2>1. Receiver!segment_received(rcv, seg) = new
    BY <1>3 DEF Receiver!segment_received, Receiver!stream_out
  <2>2. Reassembling(q, d, n, f)
    BY DEF Receiving, Reassembling
  <2>3. p \in End /\ Isn[p] \in 0 .. SeqnoMod - 1 /\ SeqnoMod \in Nat \ {0} /\ N \in Nat
    BY Ends
  <2>4. PICK x \in 0 .. N + 3 : At(p, x, n, f, seg)
    BY DEF Truthful
  <2>5. seg \in Segments
    BY DEF Truthful
  <2>. USE <2>3, <2>4
  <2>6. isn = Isn[p]
    <3>1. CASE seg.syn
      <4>1. seg.seqno = Sender!wrap(0, Isn[p])
        BY <3>1 DEF At
      <4>2. Sender!wrap(0, Isn[p]) = Isn[p]
        BY SMTT(40) DEF Sender!wrap
      <4>. QED  BY <3>1, <4>1, <4>2
    <3>2. CASE ~seg.syn
      BY <1>3, <3>2 DEF Receiving
    <3>. QED  BY <3>1, <3>2
  <2>. DEFINE y == IF seg.syn THEN 1 ELSE x
              i == y - 1
              j == i + Len(seg.payload)
  <2>. USE <2>2
  <2>7. y \in 0 .. N + 3 /\ w \in 0 .. N
    <3>1. y \in 0 .. N + 3
      BY SMTT(40)
    <3>2. w \in 0 .. Horizon /\ n \in Nat /\ w <= n
      BY DEF Reassembling, Inbound
    <3>. HIDE DEF w, N
    <3>3. w \in 0 .. N
      BY <3>2, SMTT(40) DEF N, p
    <3>. QED  BY <3>1, <3>3
  <2>. USE <2>6
  <2>8. data_seqno = Sender!wrap(y, Isn[p])
    <3>1. Receiver!wrap(1, Isn[p]) = Sender!wrap(1, Isn[p])
      BY DEF Receiver!wrap, Sender!wrap
    <3>2. seg.seqno = Sender!wrap(x, Isn[p])
      BY DEF At
    <3>. QED  BY <3>1, <3>2
  <2>. HIDE DEF data_seqno, y, isn, N
  <2>9. index = IF y = 0 THEN SizeMod - 1 ELSE y - 1
    BY <2>7, <2>8, IndexOf DEF N
  <2>. HIDE DEF index
  <2>10. Reassembling(q2, d, n, f) /\ Outlasts(q.output, q2.output)
    <3>1. CASE y = 0
      <4>1. n <= StreamLen[p]
        BY SMTT(40) DEF N
      <4>2. Receiver!push_substring(q, seg.payload, SizeMod - 1, seg.fin) = q
        BY <4>1, LastIndexRefused
      <4>. QED  BY <2>9, <3>1, <4>2 DEF Outlasts
    <3>2. CASE y # 0
      <4>. HIDE DEF j
      <4>1. seg.payload \in Seq(Nat) /\ seg.fin \in BOOLEAN
        BY <2>5 DEF Segments
      <4>2. Len(seg.payload) \in Nat
        BY <4>1, LenOfSeq
      <4>3. /\ i \in Nat /\ j \in Nat /\ i <= j /\ j = i + Len(seg.payload) /\ i <= N + 2
            /\ i = j <=> Len(seg.payload) = 0
        <5>1. j = i + Len(seg.payload)
          BY DEF j
        <5>. QED  BY <2>7, <3>2, <4>2, <5>1, SMTT(40)
      <4>. USE <4>3
      <4>4. seg.payload = Run(i, j) /\ (i < j => j <= n)
        <5>1. CASE seg.payload = << >>
          <6>1. Len(seg.payload) = 0
            BY <5>1, SMTT(40)
          <6>2. i = j /\ ~ (i < j)
            BY <6>1, SMTT(40)
          <6>3. Run(i, j) = << >>
            BY <6>2, RunEmpty
          <6>. QED  BY <5>1, <6>2, <6>3
        <5>2. CASE seg.payload # << >>
          <6>1. /\ x - 1 + Len(seg.payload) <= n /\ ~seg.syn
                /\ seg.payload = Run(x - 1, x - 1 + Len(seg.payload))
            BY <5>2 DEF At
          <6>. QED  BY <6>1 DEF y, j
        <5>. QED  BY <5>1, <5>2
      <4>5. seg.fin => f /\ j >= N
        <5>1. seg.fin => f /\ x - 1 + Len(seg.payload) >= N /\ ~seg.syn
          BY DEF At, N
        <5>. QED  BY <5>1 DEF y, j
      <4>6. Horizon \in Nat /\ N + 3 <= Horizon
        BY HorizonFar DEF N
      <4>7. n \in Nat /\ n <= N /\ (f => n = N)
        BY SMTT(40) DEF N
      <4>. HIDE DEF i
      <4>. USE <4>4, <4>7
      <4>8. i \in 0 .. Horizon /\ j \in i .. Horizon
        BY <4>2, <4>6, SMTT(40)
      <4>9. ASSUME i = j, seg.fin, NEW k \in DOMAIN q.substrs
            PROVE  EndOf(q.substrs, k) <= i \/ i <= k
        <5>1. /\ k \in 0 .. Horizon /\ EndOf(q.substrs, k) \in k .. Horizon
              /\ k < EndOf(q.substrs, k) => EndOf(q.substrs, k) <= n
          BY DEF Reassembling, Waiting, Backed
        <5>2. n <= i
          BY <4>5, <4>9, SMTT(40)
        <5>. QED  BY <4>6, <5>1, <5>2, SMTT(40)
      <4>10. /\ Reassembling(Receiver!push_substring(q, Run(i, j), i, seg.fin), d, n, f)
             /\ Outlasts(q.output, Receiver!push_substring(q, Run(i, j), i, seg.fin).output)
        <5>1. Pushable(q, d, n, f, i, j, seg.fin)
          BY <4>5, <4>9 DEF Pushable
        <5>. QED  BY <4>1, <4>8, <5>1 DEF PushKeeps
      <4>. QED  BY <2>9, <3>2, <4>10 DEF i
    <3>. QED  BY <3>1, <3>2
  <2>11. /\ {"reassembler", "isn", "isn_set"} \subseteq DOMAIN new
         /\ new.isn_set = TRUE /\ new.isn = Isn[p] /\ new.reassembler = q2
    BY SMTT(40)
  <2>. HIDE DEF new, q2
  <2>12. Receiving(e, new, d, n, f) /\ Grown(rcv, new)
    BY <2>10, <2>11 DEF Receiving, Reassembling, Outlasts, Grown, Receiver!stream_out
  <2>. QED  BY <2>1, <2>12
<1>. QED  BY <1>2, <1>3

-----------------------------------------------------------------------------
(***************************************************************************)
(* The reassembler's lemmas, for a stream as long as the horizon.          *)
(***************************************************************************)
R == INSTANCE ReassemblyProofs
       WITH Capacity <- RecvCapacity, StreamLen <- Horizon, MaxPush <- 0, r <- conn,
            delivered <- received, marked <- faults, orderly <- faults

\* The receiver's push_substring is the one the reassembler's lemmas are about.
LEMMA SamePush ==
  \A q, data, i, is_eof :
    Receiver!push_substring(q, data, i, is_eof) = R!push_substring(q, data, i, is_eof)
<1>1. \A q : Receiver!DrainStep(q) = R!DrainStep(q)
  BY DEF Receiver!DrainStep, R!DrainStep, Receiver!DrainOne, R!DrainOne, Receiver!Erase,
        R!Erase, Receiver!Restrict, R!Restrict, Receiver!Assign, R!Assign,
        Receiver!Following, R!Following, Receiver!Lesser, R!Lesser,
        Receiver!remaining_capacity, R!remaining_capacity, Receiver!accepted_size,
        R!accepted_size, Receiver!write, R!write, Receiver!end_input, R!end_input
<1>2. \A S : Receiver!Cardinality(S) = R!Cardinality(S)
  BY DEF Receiver!Cardinality, R!Cardinality
<1>3. \A q : Receiver!Drain(q) = R!Drain(q)
  BY <1>1, <1>2
  DEF Receiver!Drain, R!Drain
<1>4. \A q : Receiver!empty_size(q) = R!empty_size(q)
  BY DEF Receiver!empty_size, R!empty_size, Receiver!buffer_size, R!buffer_size
<1>5. \A q : Receiver!LastIndex(q) = R!LastIndex(q) /\ Receiver!LastLen(q) = R!LastLen(q)
  BY DEF Receiver!LastIndex, R!LastIndex, Receiver!LastLen, R!LastLen, Receiver!Max, R!Max
<1>. USE <1>5
<1>6. \A q : Receiver!EraseLast(q) = R!EraseLast(q)
  BY DEF Receiver!EraseLast, R!EraseLast, Receiver!Erase, R!Erase, Receiver!Restrict, R!Restrict
<1>. USE <1>4
<1>7. \A q, n, f : Receiver!TruncateLast(q, n, f) = R!TruncateLast(q, n, f)
  BY DEF Receiver!TruncateLast, R!TruncateLast, Receiver!Leading, R!Leading,
        Receiver!Lesser, R!Lesser
<1>8. \A q, n : Receiver!CanTruncateLast(q, n) = R!CanTruncateLast(q, n)
  BY DEF Receiver!CanTruncateLast, R!CanTruncateLast
<1>9. \A q : Receiver!empty(q) = R!empty(q)
  BY DEF Receiver!empty, R!empty
<1>10. \A q, n, i : Receiver!Evict(q, n, i) = R!Evict(q, n, i)
  BY <1>6, <1>7, <1>8, <1>9
  DEF Receiver!Evict, R!Evict
<1>11. ASSUME NEW q, NEW data, NEW i PROVE Receiver!MakeRoom(q, data, i) = R!MakeRoom(q, data, i)
  <2>. DEFINE n == Len(data)
              last == R!LastIndex(q) + R!LastLen(q) + 1
              bound == Receiver!LastIndex(q) + Receiver!LastLen(q) + 1
              f[k \in 0 .. last] == IF k = 0 THEN R!EraseLast(q) ELSE R!Evict(f[k - 1], n, i)
              g[k \in 0 .. bound] ==
                IF k = 0 THEN Receiver!EraseLast(q) ELSE Receiver!Evict(g[k - 1], n, i)
              Pick(free, cut, len, short, h, left, rest) ==
                IF free >= n THEN [r |-> q, data |-> data]
                ELSE IF DOMAIN q.substrs = {} THEN [r |-> q, data |-> cut]
                ELSE IF len + free > n THEN [r |-> short, data |-> data]
                ELSE [r |-> h, data |-> IF left >= n THEN data ELSE rest]
              Room(h) ==
                Pick(R!empty_size(q), R!Leading(data, R!empty_size(q)), R!LastLen(q),
                     R!TruncateLast(q, n, FALSE), h, R!empty_size(h),
                     R!Leading(data, R!empty_size(h)))
              Space(h) ==
                Pick(Receiver!empty_size(q), Receiver!Leading(data, Receiver!empty_size(q)),
                     Receiver!LastLen(q), Receiver!TruncateLast(q, n, FALSE), h,
                     Receiver!empty_size(h), Receiver!Leading(data, Receiver!empty_size(h)))
  <2>1. f = g /\ last = bound
    BY <1>6, <1>10
  <2>2. R!MakeRoom(q, data, i) = Room(f[last])
    BY DEF R!MakeRoom, R!CanTruncateLast, R!empty
  <2>3. Receiver!MakeRoom(q, data, i) = Space(g[bound])
    BY DEF Receiver!MakeRoom, Receiver!CanTruncateLast, Receiver!empty
  <2>. HIDE DEF f, g, last, bound
  <2>4. ASSUME NEW h PROVE Space(h) = Room(h)
    <3>1. \A x, m : Receiver!Leading(x, m) = R!Leading(x, m)
      BY DEF Receiver!Leading, R!Leading, Receiver!Lesser, R!Lesser
    <3>. HIDE DEF Pick
    <3>. QED  BY <1>7, <3>1
  <2>. HIDE DEF Room, Space
  <2>. QED  BY <2>1, <2>2, <2>3, <2>4
<1>12. \A q, p : Receiver!Store(q, p) = R!Store(q, p)
  <2>1. \A room, p : Receiver!Put(room, p) = R!Put(room, p)
    BY <1>3 DEF Receiver!Put, R!Put, Receiver!Assign, R!Assign
  <2>. QED  BY <1>11, <2>1
    DEF Receiver!Store, R!Store, Receiver!empty, R!empty
<1>. USE <1>12
<1>13. \A q, p : Receiver!PushPiece(q, p) = R!PushPiece(q, p)
  BY DEF Receiver!PushPiece, R!PushPiece, Receiver!WindowEnd, R!WindowEnd,
        Receiver!remaining_capacity, R!remaining_capacity
<1>14. \A q, u : Receiver!StorePieces(q, u) = R!StorePieces(q, u)
  BY <1>13
  DEF Receiver!StorePieces, R!StorePieces
<1>15. \A q, acc, i : Receiver!OverlapAt(q, acc, i) = R!OverlapAt(q, acc, i)
  <2>1. \A p, c : Receiver!PartBelow(p, c) = R!PartBelow(p, c)
    BY DEF Receiver!PartBelow, R!PartBelow, Receiver!Leading, R!Leading, Receiver!Lesser,
          R!Lesser
  <2>2. \A p, c : Receiver!PartAbove(p, c) = R!PartAbove(p, c)
    BY DEF Receiver!PartAbove, R!PartAbove, Receiver!Following, R!Following
  <2>3. ASSUME NEW acc, NEW b, NEW c PROVE Receiver!Overlap(acc, b, c) = R!Overlap(acc, b, c)
    <3>. DEFINE left == R!PartBelow(acc.p, b)
                right == R!PartAbove(acc.p, c)
    <3>1. Receiver!PartBelow(acc.p, b) = left /\ Receiver!PartAbove(acc.p, c) = right
      BY <2>1, <2>2
    <3>. HIDE DEF left, right
    <3>. QED  BY <3>1, SMTT(40) DEF Receiver!Overlap, R!Overlap, left, right
  <2>. QED  BY <2>3 DEF Receiver!OverlapAt, R!OverlapAt
<1>16. \A q, p : Receiver!Uncovered(q, p) = R!Uncovered(q, p)
  BY <1>15
  DEF Receiver!Uncovered, R!Uncovered
<1>17. \A q, p : Receiver!StoreUnwritten(q, p) = R!StoreUnwritten(q, p)
  BY <1>14, <1>16
  DEF Receiver!StoreUnwritten, R!StoreUnwritten, Receiver!WindowEnd, R!WindowEnd,
        Receiver!remaining_capacity, R!remaining_capacity
<1>18. \A q, data, i, f : Receiver!Unwritten(q, data, i, f) = R!Unwritten(q, data, i, f)
  BY DEF Receiver!Unwritten, R!Unwritten, Receiver!Greater, R!Greater,
        Receiver!Following, R!Following
<1>. QED  BY <1>17, <1>18, ZenonT(60)
  DEF Receiver!push_substring, R!push_substring, Receiver!WindowEnd, R!WindowEnd,
        Receiver!remaining_capacity, R!remaining_capacity, Receiver!empty, R!empty

\* What that module assumes.
LEMMA ReassemblyAssumed == R!ReassemblyAssumption /\ R!SizeModAssumption
<1>1. Client \in End
  BY DEF End
<1>2. Horizon \in Nat
  BY <1>1, HorizonFar
<1>. QED  BY <1>2, PairAssumption, ConnectionAssumption, SMTT(40)
          DEF R!ReassemblyAssumption, R!SizeModAssumption

\* push_substring of bytes of the stream at their index.
LEMMA PushesKept == PushKeeps
<1>1. SUFFICES ASSUME NEW q, NEW d, NEW n, NEW f, NEW i \in 0 .. Horizon, NEW j \in i .. Horizon,
                      NEW eof \in BOOLEAN, Pushable(q, d, n, f, i, j, eof)
               PROVE  /\ Reassembling(Receiver!push_substring(q, Run(i, j), i, eof), d, n, f)
                      /\ Outlasts(q.output, Receiver!push_substring(q, Run(i, j), i, eof).output)
  BY DEF PushKeeps
<1>. DEFINE q2 == R!push_substring(q, R!StreamBytes(i, j), i, eof)
<1>. USE <1>1
<1>3. R!Sound(q, d) /\ R!Within(q, n, f, q.output)
  BY DEF Pushable, Reassembling, Inbound, Waiting, Backed, EndOf, Run, InboundFields,
              R!Sound, R!Within, R!EndAt, R!StreamBytes
<1>4. i = j /\ eof => \A k \in DOMAIN q.substrs : R!EndAt(q, k) <= i \/ i <= k
  BY DEF Pushable, EndOf, R!EndAt
<1>5. R!Sound(q2, d) /\ R!Within(q2, n, f, q.output)
  BY <1>3, <1>4, ReassemblyAssumed, R!PushSound DEF Pushable
<1>6. q2 = Receiver!push_substring(q, Run(i, j), i, eof)
  BY SamePush DEF Run, R!StreamBytes
<1>. HIDE DEF q2
<1>7. Reassembling(q2, d, n, f) /\ Outlasts(q.output, q2.output)
  BY <1>5 DEF Reassembling, Outlasts, Inbound, Waiting, Backed, EndOf, Run, InboundFields,
              R!Sound, R!Within, R!EndAt, R!StreamBytes
<1>. QED  BY <1>6, <1>7

\* What the lemmas about the sender take from the library: bytes_in_flight()
\* counts the numbers in flight, none of them, all of them or some ...
LEMMA CountsExactly == Counted
<1>. USE ReassemblyAssumed
<1>1. ASSUME NEW n \in Nat, NEW F \in SUBSET (0 .. n - 1)
      PROVE  /\ Sender!Cardinality(F) \in Nat
             /\ Sender!Cardinality(F) = n <=> F = 0 .. n - 1
             /\ Sender!Cardinality(F) = 0 <=> F = {}
  <2>. DEFINE b == n - 1
  <2>1. 0 \in Int /\ b \in Int /\ n = IF 0 > b THEN 0 ELSE b - 0 + 1
    BY SMTT(40)
  <2>. HIDE DEF b
  <2>2. R!IsFiniteSet(0 .. b) /\ R!Cardinality(0 .. b) = n
    BY <2>1, R!FS_Interval
  <2>3. R!IsFiniteSet(F) /\ (R!Cardinality(F) = n => F = 0 .. b)
    BY <2>2, R!FS_Subset DEF b
  <2>4. R!Cardinality(F) \in Nat /\ (R!Cardinality(F) = 0 <=> F = {})
    BY <2>3, R!FS_CardinalityType, R!FS_EmptySet
  <2>5. Sender!Cardinality(F) = R!Cardinality(F)
    BY DEF Sender!Cardinality, R!Cardinality
  <2>. QED  BY <2>2, <2>3, <2>4, <2>5 DEF b
<1>. QED  BY <1>1 DEF Counted

\* ... and the earliest of them is the least number of a set.
LEMMA Counts == Counting
<1>1. \A T \in SUBSET Nat : T # {} => \E m \in T : \A n \in T : m <= n
  BY ReassemblyAssumed, R!LeastElement
<1>2. ASSUME NEW n \in Nat, NEW F \in SUBSET (0 .. n) PROVE Sender!Cardinality(F) \in Nat
  <2>1. n + 1 \in Nat /\ 0 .. (n + 1) - 1 = 0 .. n
    BY SMTT(40)
  <2>. QED  BY <2>1, CountsExactly DEF Counted
<1>. QED  BY <1>1, <1>2 DEF Counting

\* So the hypotheses of TCPPairInvariant and of TCPPairStates hold.
LEMMA Discharged ==
  ASSUME ShortStreams
  PROVE  Counting /\ Counted /\ ReceiverKeeps
  BY Counts, CountsExactly, PushesKept, ReceiverReassembles

-----------------------------------------------------------------------------
\* The counters of tcp_sender.cc stay within the stream, its SYN, its FIN and
\* one FIN more; tick gives up at the retransmission limit.
THEOREM PairTypes ==
  ASSUME ShortStreams
  PROVE  Spec => []TypeOK
  BY Discharged, PairSafe, PTL

\* Of the two ends at least one lingers after both streams have ended
\* (tcp_connection.cc, _linger_after_streams_finish), in whatever order the
\* FINs cross or are repeated.
THEOREM PairLingers ==
  ASSUME ShortStreams
  PROVE  Spec => []SomeoneLingers
  BY Discharged, PairSafe, PTL

\* From fill_window through the segments on the wire, unwrap and
\* push_substring to the inbound stream: what an end has taken in is what the
\* other application has written, byte for byte.
THEOREM PairIntegrity ==
  ASSUME ShortStreams
  PROVE  Spec => []NothingInvented
  BY Discharged, PairSafe, PTL

\* The bytes of both directions implement the reliable stream.
THEOREM PairRefines ==
  ASSUME ShortStreams
  PROVE  Spec => InOrderBothWays
  BY Discharged, PairInOrder, PTL

\* The states of tcp_state.cc, as state_summary names them for the sender and
\* for the receiver of an end, never go back: not by an acknowledgment that
\* comes late or twice, not by a probe of a closed window, not by a
\* retransmission.
THEOREM PairStatesForward ==
  ASSUME ShortStreams
  PROVE  Spec => StatesMoveForward
<1>1. ASSUME IInv, [Next]_vars
      PROVE  \A e \in End :
               /\ Rank(sender_state(conn[e].sender)) <= Rank(sender_state(conn'[e].sender))
               /\ Rank(receiver_state(conn[e].receiver))
                    <= Rank(receiver_state(conn'[e].receiver))
  BY <1>1, Discharged, RanksKept
<1>2. Spec => []IInv
  BY Discharged, InvAlways
<1>. QED  BY <1>1, <1>2, PTL DEF Spec, StatesMoveForward
=============================================================================
