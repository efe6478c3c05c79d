-------------------------- MODULE ReassemblyLemmas --------------------------
(***************************************************************************)
(* What the parts of push_substring keep, for every capacity and every     *)
(* stream: a turn of the writing loop, the eviction loop, the              *)
(* duplicate-removal loop and the storing of a piece. The loops are        *)
(* recursive functions of the number of turns; the first lemmas are the    *)
(* induction that unrolls them.                                            *)
(***************************************************************************)
EXTENDS Reassembly, Integers, TLAPS, WellFoundedInduction

(***************************************************************************)
(* Facts about sequences.  The elementary ones are known to the SMT        *)
(* backend; they are stated here to be cited where Zenon does the rest.    *)
(***************************************************************************)


\* A sequence is a function on 1 .. its length.
LEMMA LenOfSeq ==
  ASSUME NEW S, NEW s \in Seq(S)
  PROVE  Len(s) \in Nat /\ DOMAIN s = 1 .. Len(s) /\ s \in [1 .. Len(s) -> S]
  OBVIOUS

\* A function on 1 .. n is a sequence of length n.
LEMMA FunctionIsSeq ==
  ASSUME NEW S, NEW n \in Nat, NEW f \in [1 .. n -> S]
  PROVE  f \in Seq(S) /\ Len(f) = n
  OBVIOUS

\* Its elements.
LEMMA SeqElement ==
  ASSUME NEW S, NEW s \in Seq(S), NEW i \in 1 .. Len(s)
  PROVE  s[i] \in S
  OBVIOUS

\* Only the empty sequence has length 0.
LEMMA EmptySeqLen ==
  ASSUME NEW S
  PROVE  /\ << >> \in Seq(S) /\ Len(<< >>) = 0
         /\ \A s \in Seq(S) : s # << >> => Len(s) \in Nat \ {0}
  OBVIOUS

\* Sequences that agree at every place are the same.
LEMMA SameSeq ==
  ASSUME NEW S, NEW s \in Seq(S), NEW t \in Seq(S), Len(s) = Len(t),
         \A i \in 1 .. Len(s) : s[i] = t[i]
  PROVE  s = t
  OBVIOUS

\* Two sequences joined.
LEMMA Concatenation ==
  ASSUME NEW S, NEW s \in Seq(S), NEW t \in Seq(S)
  PROVE  /\ s \o t \in Seq(S) /\ Len(s \o t) = Len(s) + Len(t)
         /\ \A i \in 1 .. Len(s) + Len(t) :
              (s \o t)[i] = IF i <= Len(s) THEN s[i] ELSE t[i - Len(s)]
  OBVIOUS

\* A part of a sequence.
LEMMA SubSeqSlice ==
  ASSUME NEW S, NEW s \in Seq(S), NEW m \in 1 .. Len(s) + 1, NEW n \in m - 1 .. Len(s)
  PROVE  /\ SubSeq(s, m, n) \in Seq(S) /\ Len(SubSeq(s, m, n)) = n - m + 1
         /\ \A i \in 1 .. n - m + 1 : SubSeq(s, m, n)[i] = s[m + i - 1]
  OBVIOUS

(***************************************************************************)
(* What the bytes taken from the front and the bytes left over have to do  *)
(* with each other: split anywhere, a sequence is the two parts joined.    *)
(* peek_output and pop_output split the buffer at the same place.          *)
(***************************************************************************)
LEMMA SplitSeq ==
  ASSUME NEW S, NEW s \in Seq(S), NEW n \in 0 .. Len(s)
  PROVE  /\ SubSeq(s, 1, n) \in Seq(S)
         /\ SubSeq(s, n + 1, Len(s)) \in Seq(S)
         /\ Len(SubSeq(s, 1, n)) = n
         /\ Len(SubSeq(s, n + 1, Len(s))) = Len(s) - n
         /\ s = SubSeq(s, 1, n) \o SubSeq(s, n + 1, Len(s))
<1>. DEFINE p == SubSeq(s, 1, n)
            q == SubSeq(s, n + 1, Len(s))
<1>1. /\ Len(s) \in Nat
      /\ \A i \in 1 .. Len(s) : s[i] \in S
  BY SeqElement, LenOfSeq
<1>2. /\ p \in Seq(S)
      /\ Len(p) = n
      /\ \A i \in 1 .. n : p[i] = s[i]
  BY <1>1, SubSeqSlice
<1>3. /\ q \in Seq(S)
      /\ Len(q) = Len(s) - n
      /\ \A i \in 1 .. Len(s) - n : q[i] = s[n + i]
  BY <1>1, SubSeqSlice
<1>4. s = p \o q
  <2>1. /\ p \o q \in Seq(S) /\ Len(p \o q) = Len(p) + Len(q)
        /\ \A i \in 1 .. Len(p) + Len(q) :
             (p \o q)[i] = IF i <= Len(p) THEN p[i] ELSE q[i - Len(p)]
    BY <1>2, <1>3, Concatenation, Zenon
  <2>. HIDE DEF p, q
  <2>2. Len(p \o q) = Len(s)
    BY <1>1, <1>2, <1>3, <2>1
  <2>3. ASSUME NEW i \in 1 .. Len(s) PROVE (p \o q)[i] = s[i]
    BY <1>1, <1>2, <1>3, <2>1
  <2>. QED  BY <2>1, <2>2, <2>3, SameSeq, Zenon
<1>. QED  BY <1>2, <1>3, <1>4, Zenon

\* Joining sequences is associative.
LEMMA JoinSeqs ==
  ASSUME NEW S, NEW s \in Seq(S), NEW t \in Seq(S), NEW u \in Seq(S)
  PROVE  (s \o t) \o u = s \o (t \o u)
<1>1. s \o t \in Seq(S) /\ t \o u \in Seq(S)
  BY Zenon, Concatenation
<1>2. (s \o t) \o u \in Seq(S) /\ s \o (t \o u) \in Seq(S)
  BY <1>1, Zenon, Concatenation
<1>3. Len((s \o t) \o u) = Len(s \o (t \o u))
  BY SMTT(60)
<1>4. ASSUME NEW i \in 1 .. Len((s \o t) \o u)
      PROVE  ((s \o t) \o u)[i] = (s \o (t \o u))[i]
  BY SMTT(60)
<1>. QED  BY <1>2, <1>3, <1>4, SameSeq, Zenon

\* Joining runs of bytes is associative: what was read, then the buffer, then
\* what is written.
LEMMA JoinBytes == \A s, t, u \in Seq(Nat) : (s \o t) \o u = s \o (t \o u)
<1>. DEFINE B == Nat
<1>. HIDE DEF B
<1>1. \A s, t, u \in Seq(B) : (s \o t) \o u = s \o (t \o u)
  BY JoinSeqs, SMTT(30)
<1>. QED  BY <1>1, Zenon DEF B

(***************************************************************************)
(* The numbers a .. b - 1, in order: the bytes of a stream, in the models. *)
(***************************************************************************)
Run(a, b) == [k \in 1 .. b - a |-> a + k - 1]

\* They are as many as the range is long.
LEMMA RunType ==
  ASSUME NEW a \in Nat, NEW b \in Nat, a <= b
  PROVE  /\ Run(a, b) \in Seq(Nat)
         /\ Len(Run(a, b)) = b - a
         /\ \A k \in 1 .. b - a : Run(a, b)[k] = a + k - 1
<1>1. b - a \in Nat /\ \A k \in 1 .. b - a : a + k - 1 \in Nat
  OBVIOUS
<1>2. Run(a, b) \in [1 .. b - a -> Nat]
  BY <1>1 DEF Run
<1>3. Run(a, b) \in Seq(Nat)
  BY <1>1, <1>2, FunctionIsSeq
<1>4. Len(Run(a, b)) = b - a
  BY <1>1, <1>3, LenOfSeq DEF Run
<1>. QED  BY <1>3, <1>4 DEF Run

\* Only an empty range has none.
LEMMA RunEmpty ==
  ASSUME NEW a \in Nat, NEW b \in Nat, a <= b
  PROVE  Run(a, b) = << >> <=> a = b
<1>1. Run(a, b) \in Seq(Nat) /\ Len(Run(a, b)) = b - a
  BY RunType
<1>2. Run(a, b) = << >> <=> Len(Run(a, b)) = 0
  BY <1>1, EmptySeqLen
<1>. QED  BY <1>1, <1>2

(***************************************************************************)
(* A part of a run is a run, and runs that meet join.                      *)
(***************************************************************************)
LEMMA RunSub ==
  ASSUME NEW a \in Nat, NEW b \in Nat, a <= b,
         NEW m \in 0 .. b - a, NEW n \in m .. b - a
  PROVE  SubSeq(Run(a, b), m + 1, n) = Run(a + m, a + n)
<1>. DEFINE s == Run(a, b)
            t == SubSeq(s, m + 1, n)
            u == Run(a + m, a + n)
<1>1. /\ s \in Seq(Nat) /\ Len(s) = b - a
      /\ \A k \in 1 .. b - a : s[k] = a + k - 1
  BY RunType
<1>2. a + m \in Nat /\ a + n \in Nat /\ a + m <= a + n /\ (a + n) - (a + m) = n - m
  OBVIOUS
<1>3. /\ u \in Seq(Nat) /\ Len(u) = (a + n) - (a + m)
      /\ \A k \in 1 .. (a + n) - (a + m) : u[k] = (a + m) + k - 1
  BY <1>2, RunType, Zenon
<1>. HIDE DEF s, u
<1>4. m + 1 \in 1 .. Len(s) + 1 /\ n \in m .. Len(s)
  BY <1>1
<1>5. \A k \in 1 .. Len(s) : s[k] \in Nat
  BY <1>1, SeqElement
<1>6. /\ t \in Seq(Nat) /\ Len(t) = n - m
      /\ \A k \in 1 .. n - m : t[k] = s[m + k]
  <2>1. m + 1 \in 1 .. Len(s) + 1 /\ n \in (m + 1) - 1 .. Len(s) /\ n - (m + 1) + 1 = n - m
    BY <1>1
  <2>2. /\ t \in Seq(Nat) /\ Len(t) = n - (m + 1) + 1
        /\ \A k \in 1 .. n - (m + 1) + 1 : t[k] = s[(m + 1) + k - 1]
    BY <1>1, <2>1, SubSeqSlice, ZenonT(40)
  <2>3. \A k \in 1 .. n - m : (m + 1) + k - 1 = m + k
    BY <1>1
  <2>. QED  BY <2>1, <2>2, <2>3, Zenon
<1>7. \A k \in 1 .. n - m : t[k] = u[k]
  BY <1>1, <1>3, <1>6
<1>8. Len(t) = Len(u)
  BY <1>2, <1>3, <1>6
<1>. HIDE DEF t
<1>. QED  BY <1>3, <1>6, <1>7, <1>8, SameSeq DEF s, t, u

\* Runs that meet join.
LEMMA RunJoin ==
  ASSUME NEW a \in Nat, NEW b \in Nat, NEW c \in Nat, a <= b, b <= c
  PROVE  Run(a, b) \o Run(b, c) = Run(a, c)
<1>. DEFINE s == Run(a, b)
            t == Run(b, c)
            u == Run(a, c)
<1>1. s \in Seq(Nat) /\ Len(s) = b - a /\ \A k \in 1 .. b - a : s[k] = a + k - 1
  BY RunType
<1>2. t \in Seq(Nat) /\ Len(t) = c - b /\ \A k \in 1 .. c - b : t[k] = b + k - 1
  BY RunType
<1>3. u \in Seq(Nat) /\ Len(u) = c - a /\ \A k \in 1 .. c - a : u[k] = a + k - 1
  BY RunType
<1>. HIDE DEF s, t, u
<1>4. /\ s \o t \in Seq(Nat)
      /\ Len(s \o t) = Len(s) + Len(t)
      /\ \A k \in 1 .. Len(s) + Len(t) :
           (s \o t)[k] = IF k <= Len(s) THEN s[k] ELSE t[k - Len(s)]
  BY <1>1, <1>2, Concatenation, Zenon
<1>5. Len(s \o t) = c - a /\ Len(s) + Len(t) = c - a
  BY <1>1, <1>2, <1>4
<1>6. ASSUME NEW k \in 1 .. c - a PROVE (s \o t)[k] = u[k]
  <2>1. CASE k <= b - a
    <3>1. k \in 1 .. b - a
      BY <2>1
    <3>. QED  BY <1>1, <1>3, <1>4, <1>5, <2>1, <3>1
  <2>2. CASE ~(k <= b - a)
    <3>1. k - (b - a) \in 1 .. c - b
      BY <2>2
    <3>2. t[k - (b - a)] = b + (k - (b - a)) - 1
      BY <1>2, <3>1
    <3>3. (s \o t)[k] = t[k - (b - a)]
      BY <1>1, <1>4, <1>5, <2>2, SMTT(30)
    <3>. QED  BY <1>3, <3>2, <3>3
  <2>. QED  BY <2>1, <2>2, Zenon
<1>. QED  BY <1>3, <1>4, <1>5, <1>6, SameSeq, Zenon DEF s, t, u

-----------------------------------------------------------------------------

\* A set of numbers has a least element.
LEMMA LeastElement ==
  ASSUME NEW T \in SUBSET Nat, T # {}
  PROVE  \E m \in T : \A n \in T : m <= n
<1>. DEFINE R == OpToRel(<, Nat)
<1>1. \E x \in T : \A y \in T : ~ (<<y, x>> \in R)
  BY NatLessThanWellFounded, WFMin, Zenon
<1>2. PICK m \in T : \A y \in T : ~ (<<y, m>> \in R)
  BY <1>1, Zenon
<1>3. ASSUME NEW n \in T PROVE m <= n
  <2>1. m \in Nat /\ n \in Nat
    OBVIOUS
  <2>2. ~ (n < m)
    BY <1>2, <2>1, Zenon DEF OpToRel
  <2>. HIDE DEF R
  <2>. QED  BY <2>1, <2>2
<1>. QED  BY <1>2, <1>3, Zenon

\* Induction up to a bound, over a set: what holds at 0 and is passed on to
\* the next number holds at every number. The loops of the reassembler are
\* recursive functions; each is unrolled with this lemma.
LEMMA SetInduction ==
  ASSUME NEW T, NEW N \in Nat, 0 \in T,
         \A n \in 0 .. N - 1 : n \in T => n + 1 \in T
  PROVE  \A n \in 0 .. N : n \in T
<1>. DEFINE Missing == {n \in 0 .. N : n \notin T}
<1>1. SUFFICES ASSUME Missing # {} PROVE FALSE
  OBVIOUS
<1>2. Missing \in SUBSET Nat
  OBVIOUS
<1>3. PICK m \in Missing : \A n \in Missing : m <= n
  BY <1>1, <1>2, LeastElement, Zenon
<1>4. m \in 1 .. N /\ m \notin T
  BY <1>3
<1>5. m - 1 \in 0 .. N - 1 /\ m - 1 \in T
  BY <1>3, <1>4
<1>6. (m - 1) + 1 \in T
  BY <1>5
<1>. QED  BY <1>4, <1>6

\* Max picks the greatest element, as begin() of the descending map does.
LEMMA MaxOfNats ==
  ASSUME NEW N \in Nat, NEW S \in SUBSET (0 .. N), S # {}
  PROVE  Max(S) \in S /\ \A y \in S : Max(S) >= y
<1>. DEFINE T == {N - x : x \in S}
<1>1. T \in SUBSET Nat /\ T # {}
  <2>1. \A x \in S : x \in 0 .. N
    OBVIOUS
  <2>2. \A x \in 0 .. N : N - x \in Nat
    OBVIOUS
  <2>. QED  BY <2>1, <2>2, Zenon
<1>2. PICK m \in T : \A n \in T : m <= n
  BY <1>1, LeastElement, Zenon
<1>3. PICK x \in S : m = N - x
  BY <1>2
<1>4. ASSUME NEW y \in S PROVE x >= y
  <2>1. N - y \in T
    OBVIOUS
  <2>2. x \in 0 .. N /\ y \in 0 .. N
    OBVIOUS
  <2>3. N - x <= N - y
    BY <1>2, <1>3, <2>1, Zenon
  <2>. HIDE DEF T
  <2>. QED  BY <2>2, <2>3
<1>. QED  BY <1>3, <1>4, Zenon DEF Max

\* Arithmetic on size_t is exact while it stays within the range.
LEMMA SmallMod ==
  ASSUME NEW m \in Nat \ {0}, NEW x \in 0 .. m - 1
  PROVE  x % m = x
  OBVIOUS

\* A sequence with an element put in front.
LEMMA PushFront ==
  ASSUME NEW S, NEW s \in Seq(S), NEW x \in S
  PROVE  /\ <<x>> \o s \in Seq(S) /\ Len(<<x>> \o s) = Len(s) + 1
         /\ (<<x>> \o s)[1] = x
         /\ \A m \in 2 .. Len(s) + 1 : m - 1 \in 1 .. Len(s) /\ (<<x>> \o s)[m] = s[m - 1]
<1>1. <<x>> \in Seq(S) /\ Len(<<x>>) = 1 /\ <<x>>[1] = x
  OBVIOUS
<1>2. /\ <<x>> \o s \in Seq(S)
      /\ Len(<<x>> \o s) = Len(<<x>>) + Len(s)
      /\ \A m \in 1 .. Len(<<x>>) + Len(s) :
           (<<x>> \o s)[m] = IF m <= Len(<<x>>) THEN <<x>>[m] ELSE s[m - Len(<<x>>)]
  BY <1>1, Concatenation
<1>3. Len(s) \in Nat
  BY LenOfSeq
<1>. DEFINE t == <<x>> \o s
            u == <<x>>
<1>. HIDE DEF t, u
<1>4. Len(t) = Len(s) + 1
  BY <1>1, <1>2, <1>3 DEF t
<1>5. \A m \in 1 .. 1 + Len(s) : t[m] = IF m <= 1 THEN u[m] ELSE s[m - 1]
  BY <1>1, <1>2 DEF t, u
<1>6. t[1] = x
  BY <1>1, <1>3, <1>5 DEF u
<1>7. \A m \in 2 .. Len(s) + 1 : m - 1 \in 1 .. Len(s) /\ t[m] = s[m - 1]
  BY <1>3, <1>5
<1>. QED  BY <1>2, <1>4, <1>6, <1>7 DEF t

-----------------------------------------------------------------------------
(***************************************************************************)
(* Bytes a .. b - 1 of the stream are a sequence of that many numbers.     *)
(***************************************************************************)
LEMMA StreamBytesType ==
  ASSUME NEW a \in Nat, NEW b \in Nat, a <= b
  PROVE  /\ StreamBytes(a, b) \in Seq(Nat)
         /\ Len(StreamBytes(a, b)) = b - a
         /\ \A k \in 1 .. b - a : StreamBytes(a, b)[k] = a + k - 1
  BY RunType, Zenon DEF StreamBytes, Run

\* Only an empty range has no bytes.
LEMMA StreamBytesEmpty ==
  ASSUME NEW a \in Nat, NEW b \in Nat, a <= b
  PROVE  StreamBytes(a, b) = << >> <=> a = b
  BY RunEmpty, Zenon DEF StreamBytes, Run

(***************************************************************************)
(* A part of the stream's bytes is the stream's bytes of that part, and    *)
(* parts that meet join.                                                   *)
(***************************************************************************)
LEMMA StreamBytesSub ==
  ASSUME NEW a \in Nat, NEW b \in Nat, a <= b,
         NEW m \in 0 .. b - a, NEW n \in m .. b - a
  PROVE  SubSeq(StreamBytes(a, b), m + 1, n) = StreamBytes(a + m, a + n)
  BY RunSub, ZenonT(30) DEF StreamBytes, Run

\* Ranges of the stream that meet join.
LEMMA StreamBytesJoin ==
  ASSUME NEW a \in Nat, NEW b \in Nat, NEW c \in Nat, a <= b, b <= c
  PROVE  StreamBytes(a, b) \o StreamBytes(b, c) = StreamBytes(a, c)
  BY RunJoin, Zenon DEF StreamBytes, Run

\* substr(0, n) of bytes of the stream is bytes of the stream.
LEMMA LeadingBytes ==
  ASSUME NEW a \in Nat, NEW b \in Nat, a <= b, NEW n \in Nat
  PROVE  /\ a + Lesser(n, b - a) \in a .. b
         /\ Leading(StreamBytes(a, b), n) = StreamBytes(a, a + Lesser(n, b - a))
<1>1. Lesser(n, b - a) \in 0 .. b - a
  BY DEF Lesser
<1>2. Len(StreamBytes(a, b)) = b - a
  BY StreamBytesType
<1>. DEFINE m == Lesser(n, b - a)
<1>3. Leading(StreamBytes(a, b), n) = SubSeq(StreamBytes(a, b), 0 + 1, m)
  BY <1>2 DEF Leading
<1>. HIDE DEF m
<1>4. m \in 0 .. b - a
  BY <1>1 DEF m
<1>5. SubSeq(StreamBytes(a, b), 0 + 1, m) = StreamBytes(a + 0, a + m)
  <2>1. 0 \in 0 .. b - a
    OBVIOUS
  <2>. QED  BY <1>4, <2>1, StreamBytesSub, Zenon
<1>6. a + m \in a .. b /\ a + 0 = a
  BY <1>4
<1>. QED  BY <1>3, <1>5, <1>6 DEF m

\* substr(n) of bytes of the stream is bytes of the stream.
LEMMA FollowingBytes ==
  ASSUME NEW a \in Nat, NEW b \in Nat, a <= b, NEW n \in 0 .. b - a
  PROVE  Following(StreamBytes(a, b), n) = StreamBytes(a + n, b)
<1>1. Len(StreamBytes(a, b)) = b - a /\ b - a \in n .. b - a
  BY StreamBytesType
<1>2. SubSeq(StreamBytes(a, b), n + 1, b - a) = StreamBytes(a + n, a + (b - a))
  BY <1>1, StreamBytesSub, Zenon
<1>3. a + (b - a) = b
  OBVIOUS
<1>. QED  BY <1>1, <1>2, <1>3 DEF Following

-----------------------------------------------------------------------------
\* The index just past the last byte of the substring that waits at i.
EndAt(q, i) == i + Len(q.substrs[i].data)

\* What holds of a reassembler q and the bytes d the application has read,
\* whatever is pushed: the output is the beginning of the stream, and what
\* waits is later parts of the stream that do not overlap.
Sound(q, d) ==
  /\ {"output", "substrs", "size"} \subseteq DOMAIN q
  /\ {"capacity", "buffer", "written", "input_end", "error"} \subseteq DOMAIN q.output
  /\ q.output.capacity = Capacity
  /\ q.output.buffer \in Seq(Nat) /\ Len(q.output.buffer) <= Capacity
  /\ q.output.input_end \in BOOLEAN
  /\ q.output.written \in 0 .. StreamLen
  /\ d \in Seq(Nat) /\ d \o q.output.buffer = StreamBytes(0, q.output.written)
  /\ q.size \in 0 .. SizeMod - 1
  /\ DOMAIN q.substrs \subseteq 0 .. StreamLen
  /\ \A i \in DOMAIN q.substrs :
       /\ q.output.written <= i
       /\ EndAt(q, i) \in i .. StreamLen
       /\ q.substrs[i].data = StreamBytes(i, EndAt(q, i))
       /\ q.substrs[i].eof \in BOOLEAN
  /\ \A i, j \in DOMAIN q.substrs : i < j => EndAt(q, i) <= j

\* What was pushed into q were bytes below n of the stream, and eof marks only
\* if ended; the output has the end and the error of an old one.
Within(q, n, ended, old) ==
  /\ n \in Nat /\ q.output.written <= n
  /\ q.output.input_end => ended
  /\ old.input_end => q.output.input_end
  /\ old.error => q.output.error
  /\ \A i \in DOMAIN q.substrs : /\ i < EndAt(q, i) => EndAt(q, i) <= n
                                 /\ q.substrs[i].eof => ended

\* What write changes of a stream.
LEMMA WriteFields ==
  ASSUME NEW s, {"capacity", "buffer", "written", "input_end", "error"} \subseteq DOMAIN s, NEW data
  PROVE  /\ {"capacity", "buffer", "written", "input_end", "error"} \subseteq DOMAIN write(s, data)
         /\ write(s, data).capacity = s.capacity
         /\ write(s, data).input_end = s.input_end /\ write(s, data).error = s.error
         /\ write(s, data).buffer = s.buffer \o SubSeq(data, 1, accepted_size(s, data))
         /\ write(s, data).written = s.written + accepted_size(s, data)
  BY Zenon DEF write

\* What end_input changes of a stream.
LEMMA EndInputFields ==
  ASSUME NEW s, {"capacity", "buffer", "written", "input_end", "error"} \subseteq DOMAIN s
  PROVE  /\ {"capacity", "buffer", "written", "input_end", "error"} \subseteq DOMAIN end_input(s)
         /\ end_input(s).capacity = s.capacity
         /\ end_input(s).input_end = TRUE /\ end_input(s).error = s.error
         /\ end_input(s).buffer = s.buffer
         /\ end_input(s).written = s.written
  BY Zenon DEF end_input

\* q2 is q once the first n bytes of the substring that waits at w and ends
\* at e have gone to the output, and with the last of them its eof.
Moved(q, q2, w, e, n) ==
  /\ {"output", "substrs", "size"} \subseteq DOMAIN q2
  /\ {"capacity", "buffer", "written", "input_end", "error"} \subseteq DOMAIN q2.output
  /\ q2.output.capacity = q.output.capacity
  /\ q2.output.buffer = q.output.buffer \o StreamBytes(w, w + n)
  /\ q2.output.written = w + n /\ q2.output.error = q.output.error
  /\ q2.output.input_end = (q.output.input_end \/ (w + n = e /\ q.substrs[w].eof))
  /\ q2.size = (q.size - n) % SizeMod
  /\ DOMAIN q2.substrs = (DOMAIN q.substrs \ {w}) \cup {i \in {w + n} : i < e}
  /\ \A i \in DOMAIN q.substrs \ {w} : q2.substrs[i] = q.substrs[i]
  /\ w + n < e => /\ q2.substrs[w + n].data = StreamBytes(w + n, e)
                  /\ q2.substrs[w + n].eof = q.substrs[w].eof

\* One turn of the loop of push_substring that writes what has become
\* contiguous moves as many bytes as there is room for.
LEMMA DrainOneEffect ==
  ASSUME NEW q, NEW d, Sound(q, d), q.output.written \in DOMAIN q.substrs,
         remaining_capacity(q.output) > 0
  PROVE  LET w == q.output.written
             e == EndAt(q, w)
             n == Lesser(remaining_capacity(q.output), e - w)
         IN  n \in 0 .. e - w /\ Moved(q, DrainOne(q), w, e, n)
<1>. DEFINE w == q.output.written
            e == EndAt(q, w)
            seg == q.substrs[w]
            room == remaining_capacity(q.output)
            moved == Lesser(room, e - w)
            q2 == DrainOne(q)
            out == write(q.output, seg.data)
            others == Erase(q.substrs, w)
            rest == [data |-> Following(seg.data, moved), eof |-> seg.eof]
<1>1. /\ w \in Nat /\ e \in Nat /\ w <= e /\ e <= StreamLen /\ Capacity \in Nat /\ StreamLen \in Nat
      /\ seg.data = StreamBytes(w, e) /\ w \in DOMAIN q.substrs
      /\ seg.eof \in BOOLEAN /\ q.output.input_end \in BOOLEAN
  BY ReassemblyAssumption DEF Sound
<1>2. room \in Nat /\ room = Capacity - Len(q.output.buffer)
  BY <1>1, LenOfSeq DEF Sound, remaining_capacity
<1>. HIDE DEF e, w, seg, room
<1>3. Len(seg.data) = e - w
  BY <1>1, StreamBytesType, Zenon
<1>4. moved = Lesser(room, Len(seg.data)) /\ moved \in 0 .. e - w
  BY <1>1, <1>2, <1>3 DEF Lesser
<1>5. (room >= Len(seg.data)) = (w + moved = e) /\ (room < Len(seg.data)) = (w + moved < e)
  BY <1>1, <1>2, <1>3, <1>4, SMTT(30) DEF Lesser
<1>. HIDE DEF moved
<1>6. accepted_size(q.output, seg.data) = moved
  BY <1>4 DEF accepted_size, room
<1>7. /\ {"capacity", "buffer", "written", "input_end", "error"} \subseteq DOMAIN out
      /\ out.capacity = Capacity /\ out.input_end = q.output.input_end
      /\ out.buffer = q.output.buffer \o SubSeq(seg.data, 1, moved)
      /\ out.written = w + moved /\ out.error = q.output.error
  <2>1. {"capacity", "buffer", "written", "input_end", "error"} \subseteq DOMAIN q.output /\ q.output.capacity = Capacity
    BY DEF Sound
  <2>. QED  BY <1>6, <2>1, WriteFields, ZenonT(30) DEF w
<1>8. SubSeq(seg.data, 1, moved) = StreamBytes(w, w + moved)
  <2>1. 0 \in 0 .. e - w /\ moved \in 0 .. e - w /\ w + 0 = w /\ 0 + 1 = 1
    BY <1>1, <1>4
  <2>2. SubSeq(StreamBytes(w, e), 0 + 1, moved) = StreamBytes(w + 0, w + moved)
    BY <1>1, <2>1, StreamBytesSub, Zenon
  <2>. QED  BY <1>1, <2>1, <2>2, Zenon
<1>9. Following(seg.data, moved) = StreamBytes(w + moved, e)
  BY <1>1, <1>4, FollowingBytes
<1>. HIDE DEF out
<1>10. q2 = [output |-> IF room >= Len(seg.data) /\ seg.eof THEN end_input(out) ELSE out,
             substrs |-> IF room >= Len(seg.data) THEN others ELSE Assign(others, w + moved, rest),
             size |-> (q.size - moved) % SizeMod]
  BY <1>4, Zenon DEF DrainOne, out, w, seg, room
<1>. HIDE DEF q2, rest, others
<1>11. /\ q2.output = IF room >= Len(seg.data) /\ seg.eof THEN end_input(out) ELSE out
       /\ q2.substrs = IF room >= Len(seg.data) THEN others ELSE Assign(others, w + moved, rest)
       /\ q2.size = (q.size - moved) % SizeMod
       /\ {"output", "substrs", "size"} \subseteq DOMAIN q2
  BY <1>10
<1>12. /\ {"capacity", "buffer", "written", "input_end", "error"} \subseteq DOMAIN q2.output
       /\ q2.output.capacity = Capacity
       /\ q2.output.buffer = q.output.buffer \o StreamBytes(w, w + moved)
       /\ q2.output.written = w + moved /\ q2.output.error = q.output.error
  <2>1. CASE room >= Len(seg.data) /\ seg.eof
    BY <1>7, <1>8, <1>11, <2>1, EndInputFields, ZenonT(30)
  <2>2. CASE ~(room >= Len(seg.data) /\ seg.eof)
    BY <1>7, <1>8, <1>11, <2>2, Zenon
  <2>. QED  BY <2>1, <2>2, Zenon
<1>13. q2.output.input_end = (q.output.input_end \/ (w + moved = e /\ seg.eof))
  <2>1. q2.output.input_end = IF room >= Len(seg.data) /\ seg.eof THEN TRUE ELSE q.output.input_end
    BY <1>7, <1>11, EndInputFields, Zenon
  <2>2. q2.output.input_end = IF w + moved = e /\ seg.eof THEN TRUE ELSE q.output.input_end
    BY <1>5, <2>1, Zenon
  <2>. QED  BY <1>1, <2>2, Zenon
<1>14. DOMAIN others = DOMAIN q.substrs \ {w} /\ \A i \in DOMAIN q.substrs \ {w} : others[i] = q.substrs[i]
  BY DEF others, Erase, Restrict
<1>18. q.output.capacity = Capacity
  BY DEF Sound
<1>15. ASSUME w + moved = e PROVE Moved(q, q2, w, e, moved)
  <2>1. q2.substrs = others
    BY <1>5, <1>11, <1>15
  <2>2. ~(w + moved < e) /\ {i \in {w + moved} : i < e} = {}
    BY <1>1, <1>4, <1>15
  <2>. QED  BY <1>4, <1>11, <1>12, <1>13, <1>14, <1>18, <2>1, <2>2, Zenon DEF Moved, seg
<1>16. ASSUME w + moved < e PROVE Moved(q, q2, w, e, moved)
  <2>1. q2.substrs = Assign(others, w + moved, rest) /\ w + moved # e
    BY <1>1, <1>4, <1>5, <1>11, <1>16
  <2>2. w + moved \notin DOMAIN others
    <3>1. SUFFICES ASSUME w + moved \in DOMAIN others PROVE FALSE
      OBVIOUS
    <3>2. w + moved \in DOMAIN q.substrs /\ w + moved # w
      BY <1>14, <3>1
    <3>3. w < w + moved
      BY <1>1, <1>4, <3>2
    <3>4. e <= w + moved
      BY <1>1, <3>2, <3>3 DEF Sound, e
    <3>. QED  BY <1>1, <1>4, <1>16, <3>4
  <2>3. /\ DOMAIN q2.substrs = DOMAIN others \cup {w + moved}
        /\ \A i \in DOMAIN others : q2.substrs[i] = others[i]
        /\ q2.substrs[w + moved] = rest
    BY <2>1, <2>2, Zenon DEF Assign
  <2>4. {i \in {w + moved} : i < e} = {w + moved}
    BY <1>16
  <2>5. rest.data = StreamBytes(w + moved, e) /\ rest.eof = seg.eof
    BY <1>9, Zenon DEF rest
  <2>. QED  BY <1>4, <1>11, <1>12, <1>13, <1>14, <1>18, <2>3, <2>4, <2>5, ZenonT(40) DEF Moved, seg
<1>17. w + moved = e \/ w + moved < e
  BY <1>1, <1>4
<1>. QED  BY <1>4, <1>15, <1>16, <1>17, Zenon DEF w, e, room, moved, q2

\* The other substrings end where they did.
LEMMA MovedEnds ==
  ASSUME NEW q, NEW q2, NEW w \in Nat, NEW e \in Nat, w <= e, NEW n \in 0 .. e - w,
         Moved(q, q2, w, e, n)
  PROVE  /\ \A i \in DOMAIN q.substrs \ {w} : EndAt(q2, i) = EndAt(q, i)
         /\ w + n < e => EndAt(q2, w + n) = e
<1>1. \A i \in DOMAIN q.substrs \ {w} : q2.substrs[i] = q.substrs[i]
  BY DEF Moved
<1>2. ASSUME w + n < e PROVE EndAt(q2, w + n) = e
  <2>1. q2.substrs[w + n].data = StreamBytes(w + n, e)
    BY <1>2 DEF Moved
  <2>2. w + n \in Nat /\ w + n <= e
    BY <1>2
  <2>3. Len(q2.substrs[w + n].data) = e - (w + n)
    BY <2>1, <2>2, StreamBytesType, Zenon
  <2>4. (w + n) + (e - (w + n)) = e
    BY <2>2
  <2>. QED  BY <2>3, <2>4 DEF EndAt
<1>. QED  BY <1>1, <1>2, Zenon DEF EndAt

\* Moving bytes that fit to the output keeps Sound.
LEMMA MovedSound ==
  ASSUME NEW q, NEW q2, NEW d, Sound(q, d), q.output.written \in DOMAIN q.substrs,
         NEW n \in 0 .. EndAt(q, q.output.written) - q.output.written,
         n <= remaining_capacity(q.output),
         Moved(q, q2, q.output.written, EndAt(q, q.output.written), n)
  PROVE  Sound(q2, d)
<1>. DEFINE w == q.output.written
            e == EndAt(q, w)
            room == remaining_capacity(q.output)
<1>1. /\ w \in Nat /\ e \in Nat /\ w <= e /\ e <= StreamLen /\ w <= StreamLen
      /\ StreamLen \in Nat /\ Capacity \in Nat
      /\ q.substrs[w].eof \in BOOLEAN /\ q.output.input_end \in BOOLEAN
      /\ q.output.capacity = Capacity /\ w \in DOMAIN q.substrs
  BY ReassemblyAssumption DEF Sound
<1>2. /\ q.output.buffer \in Seq(Nat) /\ d \in Seq(Nat) /\ Len(q.output.buffer) \in Nat
      /\ room = Capacity - Len(q.output.buffer)
      /\ d \o q.output.buffer = StreamBytes(0, w)
  BY <1>1, LenOfSeq DEF Sound, remaining_capacity
<1>3. n \in 0 .. e - w /\ Moved(q, q2, w, e, n) /\ n <= room
  OBVIOUS
<1>4. \A i \in DOMAIN q.substrs \ {w} :
        /\ i \in 0 .. StreamLen /\ w <= i /\ e <= i
        /\ EndAt(q, i) \in i .. StreamLen
        /\ q.substrs[i].data = StreamBytes(i, EndAt(q, i))
        /\ q.substrs[i].eof \in BOOLEAN
  <2>1. \A i \in DOMAIN q.substrs : i \in Nat /\ w <= i
    BY <1>1 DEF Sound
  <2>2. \A i \in DOMAIN q.substrs \ {w} : w < i
    BY <1>1, <2>1
  <2>. QED  BY <1>1, <2>2 DEF Sound
<1>5. \A i, j \in DOMAIN q.substrs : i < j => EndAt(q, i) <= j
  BY DEF Sound
<1>. HIDE DEF w, e, room
<1>6. /\ \A i \in DOMAIN q.substrs \ {w} : EndAt(q2, i) = EndAt(q, i)
      /\ w + n < e => EndAt(q2, w + n) = e
  BY <1>1, <1>3, MovedEnds
<1>7. w + n \in Nat /\ w + n <= e /\ w + n <= StreamLen /\ w <= w + n
  BY <1>1, <1>3
<1>8. /\ StreamBytes(w, w + n) \in Seq(Nat) /\ Len(StreamBytes(w, w + n)) = n
      /\ StreamBytes(0, w) \o StreamBytes(w, w + n) = StreamBytes(0, w + n)
  <2>1. (w + n) - w = n /\ 0 \in Nat /\ 0 <= w
    BY <1>1, <1>3
  <2>. QED  BY <1>1, <1>7, <2>1, StreamBytesType, StreamBytesJoin, ZenonT(30)
<1>9. /\ q2.output.buffer \in Seq(Nat) /\ Len(q2.output.buffer) <= Capacity
      /\ d \o q2.output.buffer = StreamBytes(0, q2.output.written)
  <2>. DEFINE b == q.output.buffer
              more == StreamBytes(w, w + n)
  <2>1. q2.output.buffer = b \o more /\ q2.output.written = w + n
    BY <1>3, Zenon DEF Moved
  <2>. HIDE DEF more, b
  <2>2. more \in Seq(Nat) /\ Len(more) = n /\ StreamBytes(0, w) \o more = StreamBytes(0, w + n)
    BY <1>8 DEF more
  <2>0. b \in Seq(Nat) /\ Len(b) \in Nat /\ d \in Seq(Nat) /\ d \o b = StreamBytes(0, w)
    BY <1>2 DEF b
  <2>3. b \o more \in Seq(Nat) /\ Len(b \o more) = Len(b) + n
    BY <2>0, <2>2, Concatenation
  <2>4. (d \o b) \o more = d \o (b \o more)
    <3>1. b \in Seq(Nat) /\ d \in Seq(Nat) /\ more \in Seq(Nat)
      BY <2>0, <2>2
    <3>. QED  BY <3>1, JoinBytes, Zenon
  <2>5. d \o (b \o more) = StreamBytes(0, w + n)
    BY <2>0, <2>2, <2>4, ZenonT(40)
  <2>6. Len(b) + n <= Capacity
    BY <1>1, <1>2, <1>3 DEF b
  <2>. QED  BY <2>1, <2>3, <2>5, <2>6, Zenon
<1>10. q2.size \in 0 .. SizeMod - 1
  <2>1. q2.size = (q.size - n) % SizeMod /\ q.size \in Int
    BY <1>3 DEF Moved, Sound
  <2>2. q.size - n \in Int
    BY <1>3, <2>1, SMTT(30)
  <2>. QED  BY <2>1, <2>2, SizeModAssumption, SMTT(40)
<1>11. /\ q2.output.input_end \in BOOLEAN /\ q2.output.written \in 0 .. StreamLen
       /\ q2.output.capacity = Capacity
       /\ {"output", "substrs", "size"} \subseteq DOMAIN q2
       /\ {"capacity", "buffer", "written", "input_end", "error"} \subseteq DOMAIN q2.output
  BY <1>1, <1>3, <1>7, SMTT(30) DEF Moved
<1>12. \A i \in DOMAIN q2.substrs : i \in DOMAIN q.substrs \ {w} \/ (i = w + n /\ w + n < e)
  BY <1>3 DEF Moved
<1>13. DOMAIN q2.substrs \subseteq 0 .. StreamLen
  BY <1>1, <1>4, <1>7, <1>12, SMTT(40)
<1>14. ASSUME NEW i \in DOMAIN q2.substrs
       PROVE  /\ q2.output.written <= i
              /\ EndAt(q2, i) \in i .. StreamLen
              /\ q2.substrs[i].data = StreamBytes(i, EndAt(q2, i))
              /\ q2.substrs[i].eof \in BOOLEAN
  <2>1. CASE i \in DOMAIN q.substrs \ {w}
    <3>1. q2.substrs[i] = q.substrs[i] /\ EndAt(q2, i) = EndAt(q, i) /\ q2.output.written = w + n
      BY <1>3, <1>6, <2>1, SMTT(40) DEF Moved
    <3>2. w + n <= i
      BY <1>1, <1>4, <1>7, <2>1, SMTT(40)
    <3>. QED  BY <1>4, <2>1, <3>1, <3>2, ZenonT(30)
  <2>2. CASE i = w + n /\ w + n < e
    <3>1. /\ q2.output.written = w + n /\ EndAt(q2, i) = e
          /\ q2.substrs[i].data = StreamBytes(i, e) /\ q2.substrs[i].eof = q.substrs[w].eof
      BY <1>3, <1>6, <2>2, SMTT(40) DEF Moved
    <3>. QED  BY <1>1, <1>7, <2>2, <3>1, SMTT(30)
  <2>. QED  BY <1>12, <2>1, <2>2
<1>15. ASSUME NEW i \in DOMAIN q2.substrs, NEW j \in DOMAIN q2.substrs, i < j
       PROVE  EndAt(q2, i) <= j
  <2>1. CASE i \in DOMAIN q.substrs \ {w} /\ j \in DOMAIN q.substrs \ {w}
    BY <1>5, <1>6, <1>15, <2>1, SMTT(40)
  <2>2. CASE i = w + n /\ w + n < e /\ j \in DOMAIN q.substrs \ {w}
    BY <1>4, <1>6, <2>2, SMTT(30)
  <2>3. CASE j = w + n /\ w + n < e
    <3>1. i # w + n
      BY <1>7, <1>15, <2>3
    <3>2. i \in DOMAIN q.substrs \ {w}
      BY <1>12, <3>1
    <3>. QED  BY <1>1, <1>4, <1>7, <1>15, <2>3, <3>2, SMTT(40)
  <2>. QED  BY <1>12, <2>1, <2>2, <2>3, SMTT(40)
<1>. QED  BY <1>2, <1>9, <1>10, <1>11, <1>13, <1>14, <1>15, ZenonT(40) DEF Sound

\* Drain is the last of the states its turns go through.
LEMMA DrainLoop ==
  ASSUME NEW q, Cardinality(DOMAIN q.substrs) \in Nat
  PROVE  \E f : /\ \A k \in 0 .. Cardinality(DOMAIN q.substrs) :
                      f[k] = IF k = 0 THEN q ELSE DrainStep(f[k - 1])
                /\ Drain(q) = f[Cardinality(DOMAIN q.substrs)]
<1>. DEFINE N == Cardinality(DOMAIN q.substrs)
            T == {n \in 0 .. N : \E f : f = [k \in 0 .. n |-> IF k = 0 THEN q ELSE DrainStep(f[k - 1])]}
<1>1. 0 \in T
  <2>. DEFINE f == [k \in 0 .. 0 |-> q]
  <2>1. \A k \in 0 .. 0 : k = 0
    OBVIOUS
  <2>2. f = [k \in 0 .. 0 |-> IF k = 0 THEN q ELSE DrainStep(f[k - 1])]
    BY <2>1, Zenon
  <2>3. 0 \in 0 .. N
    OBVIOUS
  <2>. QED  BY <2>2, <2>3, Zenon
<1>2. ASSUME NEW n \in 0 .. N - 1, n \in T PROVE n + 1 \in T
  <2>1. PICK f : f = [k \in 0 .. n |-> IF k = 0 THEN q ELSE DrainStep(f[k - 1])]
    BY <1>2
  <2>. DEFINE g == [k \in 0 .. n + 1 |-> IF k = n + 1 THEN DrainStep(f[n]) ELSE f[k]]
  <2>2. g = [k \in 0 .. n + 1 |-> IF k = 0 THEN q ELSE DrainStep(g[k - 1])]
    <3>1. ASSUME NEW k \in 0 .. n + 1 PROVE g[k] = IF k = 0 THEN q ELSE DrainStep(g[k - 1])
      <4>1. CASE k = n + 1
        <5>1. k # 0 /\ k - 1 = n /\ n \in 0 .. n + 1 /\ n # n + 1
          BY <4>1
        <5>2. g[k] = DrainStep(f[n]) /\ g[n] = f[n]
          BY <4>1, <5>1
        <5>. QED  BY <5>1, <5>2
      <4>2. CASE k # n + 1 /\ k # 0
        <5>1. k \in 0 .. n /\ k - 1 \in 0 .. n /\ k - 1 \in 0 .. n + 1 /\ k - 1 # n + 1
          BY <4>2
        <5>2. g[k] = f[k] /\ g[k - 1] = f[k - 1]
          BY <4>2, <5>1
        <5>3. f[k] = DrainStep(f[k - 1])
          BY <2>1, <4>2, <5>1, SMTT(40)
        <5>. QED  BY <4>2, <5>2, <5>3
      <4>3. CASE k = 0
        <5>1. k \in 0 .. n /\ k # n + 1
          BY <4>3
        <5>2. g[k] = f[k] /\ f[k] = q
          BY <2>1, <4>3, <5>1
        <5>. QED  BY <4>3, <5>2
      <4>. QED  BY <4>1, <4>2, <4>3
    <3>. QED  BY <3>1
  <2>3. n + 1 \in 0 .. N
    OBVIOUS
  <2>. QED  BY <2>2, <2>3, Zenon
<1>3. N \in T
  <2>1. \A n \in 0 .. N : n \in T
    <3>. HIDE DEF T
    <3>. QED  BY <1>1, <1>2, SetInduction
  <2>. QED  BY <2>1
<1>. DEFINE d == CHOOSE f : f = [k \in 0 .. N |-> IF k = 0 THEN q ELSE DrainStep(f[k - 1])]
<1>4. d = [k \in 0 .. N |-> IF k = 0 THEN q ELSE DrainStep(d[k - 1])]
  BY <1>3
<1>5. Drain(q) = d[N]
  BY DEF Drain
<1>. HIDE DEF d
<1>6. \A k \in 0 .. N : d[k] = IF k = 0 THEN q ELSE DrainStep(d[k - 1])
  BY <1>4, SMTT(40)
<1>. QED  BY <1>5, <1>6

\* The index just past the last byte of a piece.
PEnd(p) == p.index + Len(p.data)

\* The piece p is bytes of the stream, none of them written or waiting.
Clear(q, p) ==
  /\ p.index \in Nat /\ PEnd(p) \in p.index .. StreamLen
  /\ p.data = StreamBytes(p.index, PEnd(p)) /\ p.eof \in BOOLEAN
  /\ q.output.written <= p.index
  /\ \A i \in DOMAIN q.substrs : EndAt(q, i) <= p.index \/ PEnd(p) <= i

\* A nonempty piece that is neither written nor waiting is neither once
\* waiting bytes have moved to the output.
LEMMA MovedClear ==
  ASSUME NEW q, NEW q2, NEW d, Sound(q, d), q.output.written \in DOMAIN q.substrs,
         NEW n \in 0 .. EndAt(q, q.output.written) - q.output.written,
         Moved(q, q2, q.output.written, EndAt(q, q.output.written), n),
         NEW p, Clear(q, p), p.index < PEnd(p)
  PROVE  Clear(q2, p)
<1>. DEFINE w == q.output.written
            e == EndAt(q, w)
<1>1. /\ w \in Nat /\ e \in Nat /\ w <= e /\ e <= StreamLen
      /\ StreamLen \in Nat /\ w \in DOMAIN q.substrs
  BY ReassemblyAssumption DEF Sound
<1>2. p.index \in Nat /\ PEnd(p) \in Nat /\ w <= p.index
  BY <1>1 DEF Clear
<1>3. e <= p.index
  BY <1>1, <1>2 DEF Clear
<1>4. n \in 0 .. e - w /\ Moved(q, q2, w, e, n)
  OBVIOUS
<1>. HIDE DEF w, e
<1>5. /\ \A i \in DOMAIN q.substrs \ {w} : EndAt(q2, i) = EndAt(q, i)
      /\ w + n < e => EndAt(q2, w + n) = e
  BY <1>1, <1>4, MovedEnds, SMTT(30)
<1>6. q2.output.written = w + n /\ w + n <= p.index
  BY <1>1, <1>2, <1>3, <1>4, SMTT(40) DEF Moved
<1>7. ASSUME NEW i \in DOMAIN q2.substrs PROVE EndAt(q2, i) <= p.index \/ PEnd(p) <= i
  <2>1. i \in DOMAIN q.substrs \ {w} \/ (i = w + n /\ w + n < e)
    BY <1>4, SMTT(40) DEF Moved
  <2>. QED  BY <1>3, <1>5, <2>1, SMTT(30) DEF Clear
<1>. QED  BY <1>6, <1>7 DEF Clear

\* Moving waiting bytes to the output keeps Within.
LEMMA MovedWithin ==
  ASSUME NEW q, NEW q2, NEW d, Sound(q, d), q.output.written \in DOMAIN q.substrs,
         NEW n \in 0 .. EndAt(q, q.output.written) - q.output.written,
         Moved(q, q2, q.output.written, EndAt(q, q.output.written), n),
         NEW m, NEW ended, NEW old, Within(q, m, ended, old)
  PROVE  Within(q2, m, ended, old)
<1>. DEFINE w == q.output.written
            e == EndAt(q, w)
<1>1. /\ w \in Nat /\ e \in Nat /\ w <= e /\ w \in DOMAIN q.substrs /\ StreamLen \in Nat
      /\ q.output.input_end \in BOOLEAN /\ q.substrs[w].eof \in BOOLEAN
  BY ReassemblyAssumption DEF Sound
<1>2. /\ m \in Nat /\ w <= m /\ (w < e => e <= m)
      /\ q.output.input_end => ended
      /\ old.input_end => q.output.input_end
      /\ old.error => q.output.error
      /\ q.substrs[w].eof => ended
      /\ \A i \in DOMAIN q.substrs : /\ i < EndAt(q, i) => EndAt(q, i) <= m
                                     /\ q.substrs[i].eof => ended
  BY <1>1, ZenonT(40) DEF Within
<1>3. n \in 0 .. e - w /\ Moved(q, q2, w, e, n)
  OBVIOUS
<1>. HIDE DEF w, e
<1>4. /\ \A i \in DOMAIN q.substrs \ {w} : EndAt(q2, i) = EndAt(q, i)
      /\ w + n < e => EndAt(q2, w + n) = e
  BY <1>1, <1>3, MovedEnds, SMTT(30)
<1>5. q2.output.written <= m
  BY <1>1, <1>2, <1>3, SMTT(40) DEF Moved
<1>6. /\ q2.output.input_end => ended
      /\ q.output.input_end => q2.output.input_end
      /\ q2.output.error = q.output.error
  BY <1>2, <1>3, ZenonT(40) DEF Moved
<1>7. ASSUME NEW i \in DOMAIN q2.substrs
      PROVE  (i < EndAt(q2, i) => EndAt(q2, i) <= m) /\ (q2.substrs[i].eof => ended)
  <2>1. CASE i \in DOMAIN q.substrs \ {w}
    <3>1. EndAt(q2, i) = EndAt(q, i) /\ q2.substrs[i] = q.substrs[i] /\ i \in DOMAIN q.substrs
      BY <1>3, <1>4, <2>1, ZenonT(40) DEF Moved
    <3>. QED  BY <1>2, <3>1, ZenonT(40)
  <2>2. CASE i = w + n /\ w + n < e
    <3>1. EndAt(q2, i) = e /\ w < e
      BY <1>1, <1>3, <1>4, <2>2, SMTT(40)
    <3>2. q2.substrs[i].eof = q.substrs[w].eof
      BY <1>3, <2>2, ZenonT(30) DEF Moved
    <3>. QED  BY <1>2, <3>1, <3>2, ZenonT(40)
  <2>3. i \in DOMAIN q.substrs \ {w} \/ (i = w + n /\ w + n < e)
    BY <1>3, SMTT(30) DEF Moved
  <2>. QED  BY <2>1, <2>2, <2>3, ZenonT(40)
<1>. QED  BY <1>2, <1>5, <1>6, <1>7, ZenonT(40) DEF Within

\* A turn of the writing loop keeps Sound and Within, and the pieces still to
\* be stored clear.
LEMMA DrainStepSound ==
  ASSUME NEW q, NEW d, Sound(q, d)
  PROVE  /\ Sound(DrainStep(q), d)
         /\ \A p : Clear(q, p) /\ p.index < PEnd(p) => Clear(DrainStep(q), p)
         /\ \A m, ended, old : Within(q, m, ended, old) => Within(DrainStep(q), m, ended, old)
<1>1. CASE q.output.written \in DOMAIN q.substrs /\ remaining_capacity(q.output) > 0
  <2>. DEFINE w == q.output.written
              e == EndAt(q, w)
              room == remaining_capacity(q.output)
              n == Lesser(room, e - w)
  <2>1. DrainStep(q) = DrainOne(q)
    BY <1>1 DEF DrainStep
  <2>2. n \in 0 .. e - w /\ Moved(q, DrainOne(q), w, e, n)
    BY <1>1, DrainOneEffect
  <2>3. n <= room
    <3>1. room \in Nat /\ e - w \in Nat
      BY <1>1, ReassemblyAssumption, LenOfSeq DEF Sound, remaining_capacity
    <3>. HIDE DEF room, e, w
    <3>. QED  BY <3>1 DEF Lesser
  <2>. HIDE DEF n
  <2>4. Sound(DrainOne(q), d)
    BY <1>1, <2>2, <2>3, MovedSound, Zenon
  <2>5. \A p : Clear(q, p) /\ p.index < PEnd(p) => Clear(DrainOne(q), p)
    BY <1>1, <2>2, MovedClear, Zenon
  <2>6. \A m, ended, old : Within(q, m, ended, old) => Within(DrainOne(q), m, ended, old)
    BY <1>1, <2>2, MovedWithin, Zenon
  <2>. QED  BY <2>1, <2>4, <2>5, <2>6, ZenonT(40)
<1>2. CASE ~(q.output.written \in DOMAIN q.substrs /\ remaining_capacity(q.output) > 0)
  <2>1. DrainStep(q) = q
    BY <1>2 DEF DrainStep
  <2>. QED  BY <2>1, Zenon
<1>. QED  BY <1>1, <1>2

-----------------------------------------------------------------------------
\* q2 is q with some waiting substrings gone and some cut off at their end.
Shrunk(q, q2) ==
  /\ {"output", "substrs", "size"} \subseteq DOMAIN q2
  /\ q2.output = q.output
  /\ q2.size \in 0 .. SizeMod - 1
  /\ DOMAIN q2.substrs \subseteq DOMAIN q.substrs
  /\ \A i \in DOMAIN q2.substrs :
       /\ EndAt(q2, i) \in i .. EndAt(q, i)
       /\ q2.substrs[i].data = StreamBytes(i, EndAt(q2, i))
       /\ q2.substrs[i].eof \in BOOLEAN
       /\ q2.substrs[i].eof => q.substrs[i].eof

\* Dropping and cutting substrings keeps Sound and Within, and pieces clear.
LEMMA ShrunkSound ==
  ASSUME NEW q, NEW q2, NEW d, Sound(q, d), Shrunk(q, q2)
  PROVE  /\ Sound(q2, d)
         /\ \A p : Clear(q, p) => Clear(q2, p)
         /\ \A n, ended, old : Within(q, n, ended, old) => Within(q2, n, ended, old)
<1>1. StreamLen \in Nat
  BY ReassemblyAssumption
<1>2. \A i \in DOMAIN q2.substrs :
         /\ i \in DOMAIN q.substrs /\ i \in Nat
         /\ EndAt(q2, i) \in Nat /\ EndAt(q, i) \in Nat
         /\ i <= EndAt(q2, i) /\ EndAt(q2, i) <= EndAt(q, i) /\ EndAt(q, i) <= StreamLen
         /\ q.output.written <= i
  BY <1>1 DEF Sound, Shrunk
<1>3. q2.output = q.output
  BY DEF Shrunk
<1>4. Sound(q2, d)
  <2>1. \A i \in DOMAIN q2.substrs :
         /\ q2.output.written <= i
         /\ EndAt(q2, i) \in i .. StreamLen
         /\ q2.substrs[i].data = StreamBytes(i, EndAt(q2, i))
         /\ q2.substrs[i].eof \in BOOLEAN
    <3>1. \A i \in DOMAIN q2.substrs : EndAt(q2, i) \in i .. StreamLen
      BY <1>1, <1>2, SMTT(40)
    <3>. QED  BY <1>2, <1>3, <3>1, ZenonT(40) DEF Shrunk
  <2>2. \A i, j \in DOMAIN q2.substrs : i < j => EndAt(q2, i) <= j
    <3>1. \A i, j \in DOMAIN q.substrs : i < j => EndAt(q, i) <= j
      BY DEF Sound
    <3>. QED  BY <1>2, <3>1
  <2>3. DOMAIN q2.substrs \subseteq 0 .. StreamLen
    BY DEF Sound, Shrunk
  <2>. QED  BY <1>3, <2>1, <2>2, <2>3, Zenon DEF Sound, Shrunk
<1>5. ASSUME NEW p, Clear(q, p) PROVE Clear(q2, p)
  <2>1. \A i \in DOMAIN q2.substrs : EndAt(q, i) <= p.index \/ PEnd(p) <= i
    BY <1>2, <1>5 DEF Clear
  <2>2. p.index \in Nat
    BY <1>5 DEF Clear
  <2>3. \A i \in DOMAIN q2.substrs : EndAt(q2, i) <= p.index \/ PEnd(p) <= i
    BY <1>2, <2>1, <2>2
  <2>. QED  BY <1>3, <1>5, <2>3, ZenonT(40) DEF Clear
<1>6. ASSUME NEW n, NEW ended, NEW old, Within(q, n, ended, old) PROVE Within(q2, n, ended, old)
  <2>1. n \in Nat /\ \A i \in DOMAIN q.substrs : i < EndAt(q, i) => EndAt(q, i) <= n
    BY <1>6 DEF Within
  <2>2. \A i \in DOMAIN q2.substrs : i < EndAt(q2, i) => EndAt(q2, i) <= n
    BY <1>2, <2>1, SMTT(40)
  <2>3. \A i \in DOMAIN q2.substrs : q2.substrs[i].eof => ended
    BY <1>2, <1>6, ZenonT(40) DEF Shrunk, Within
  <2>. QED  BY <1>3, <1>6, <2>1, <2>2, <2>3, ZenonT(40) DEF Within
<1>. QED  BY <1>4, <1>5, <1>6

\* The substring at begin() of the map is one of those that wait.
LEMMA LastFacts ==
  ASSUME NEW q, NEW d, Sound(q, d), ~empty(q)
  PROVE  /\ LastIndex(q) \in DOMAIN q.substrs /\ LastIndex(q) \in Nat
         /\ LastLen(q) \in Nat /\ EndAt(q, LastIndex(q)) = LastIndex(q) + LastLen(q)
         /\ LastIndex(q) + LastLen(q) <= StreamLen
         /\ q.substrs[LastIndex(q)].data = StreamBytes(LastIndex(q), LastIndex(q) + LastLen(q))
         /\ q.substrs[LastIndex(q)].eof \in BOOLEAN
<1>1. StreamLen \in Nat
  BY ReassemblyAssumption
<1>2. DOMAIN q.substrs \in SUBSET (0 .. StreamLen) /\ DOMAIN q.substrs # {}
  BY Zenon DEF Sound, empty
<1>3. LastIndex(q) \in DOMAIN q.substrs
  BY <1>1, <1>2, MaxOfNats, Zenon DEF LastIndex
<1>4. EndAt(q, LastIndex(q)) = LastIndex(q) + LastLen(q)
  BY DEF EndAt, LastLen
<1>5. LastIndex(q) \in Nat
  BY <1>2, <1>3
<1>6. EndAt(q, LastIndex(q)) \in LastIndex(q) .. StreamLen
  BY <1>3 DEF Sound
<1>7. LastLen(q) \in Nat /\ LastIndex(q) + LastLen(q) <= StreamLen
  <2>1. q.substrs[LastIndex(q)].data = StreamBytes(LastIndex(q), EndAt(q, LastIndex(q)))
    BY <1>3 DEF Sound
  <2>2. EndAt(q, LastIndex(q)) \in Nat /\ LastIndex(q) <= EndAt(q, LastIndex(q))
    BY <1>1, <1>5, <1>6
  <2>3. Len(StreamBytes(LastIndex(q), EndAt(q, LastIndex(q)))) = EndAt(q, LastIndex(q)) - LastIndex(q)
    BY <1>5, <2>2, StreamBytesType, ZenonT(40)
  <2>4. LastLen(q) = EndAt(q, LastIndex(q)) - LastIndex(q)
    BY <2>1, <2>3 DEF LastLen
  <2>. QED  BY <1>1, <1>4, <1>5, <1>6, <2>2, <2>4, SMTT(30)
<1>. QED  BY <1>3, <1>4, <1>5, <1>7, Zenon DEF Sound

\* empty_size never wraps: it is 0 when the recorded size exceeds the
\* capacity.
LEMMA EmptySizeType ==
  ASSUME NEW q, NEW d, Sound(q, d)
  PROVE  empty_size(q) \in Nat
<1>. DEFINE used == (q.size + buffer_size(q.output)) % SizeMod
<1>1. q.size \in Nat /\ Len(q.output.buffer) \in Nat /\ q.output.capacity = Capacity
  BY LenOfSeq, SizeModAssumption DEF Sound
<1>2. used \in Nat
  <2>1. q.size + buffer_size(q.output) \in Nat
    BY <1>1 DEF buffer_size
  <2>. QED  BY <2>1, SizeModAssumption
<1>3. empty_size(q) = IF Capacity >= used THEN Capacity - used ELSE 0
  BY <1>1 DEF empty_size
<1>. HIDE DEF used
<1>. QED  BY <1>2, <1>3, ReassemblyAssumption

\* Erasing the last substring drops it.
LEMMA EraseLastShrinks ==
  ASSUME NEW q, NEW d, Sound(q, d), ~empty(q)
  PROVE  Shrunk(q, EraseLast(q))
<1>. DEFINE l == LastIndex(q)
            q2 == EraseLast(q)
<1>1. {"output", "substrs", "size"} \subseteq DOMAIN q
  BY DEF Sound
<1>2. /\ {"output", "substrs", "size"} \subseteq DOMAIN q2
      /\ q2.output = q.output
      /\ q2.substrs = Erase(q.substrs, l)
      /\ q2.size = (q.size - LastLen(q)) % SizeMod
  BY <1>1, Zenon DEF EraseLast
<1>3. q2.size \in 0 .. SizeMod - 1
  <2>1. q.size \in Int
    BY DEF Sound
  <2>2. LastLen(q) \in Nat
    BY LastFacts, Zenon
  <2>3. q.size - LastLen(q) \in Int
    BY <2>1, <2>2
  <2>. QED  BY <1>2, <2>3, SizeModAssumption
<1>4. /\ DOMAIN q2.substrs = DOMAIN q.substrs \ {l}
      /\ \A i \in DOMAIN q2.substrs : q2.substrs[i] = q.substrs[i]
  BY <1>2, Zenon DEF Erase, Restrict
<1>. HIDE DEF q2, l
<1>5. \A i \in DOMAIN q2.substrs : EndAt(q2, i) = EndAt(q, i) /\ EndAt(q2, i) \in i .. EndAt(q, i)
  BY <1>4, SMTT(30) DEF EndAt, Sound
<1>6. \A i \in DOMAIN q2.substrs :
       /\ EndAt(q2, i) \in i .. EndAt(q, i)
       /\ q2.substrs[i].data = StreamBytes(i, EndAt(q2, i))
       /\ q2.substrs[i].eof \in BOOLEAN
       /\ q2.substrs[i].eof => q.substrs[i].eof
  BY <1>4, <1>5, Zenon DEF Sound
<1>. QED  BY <1>2, <1>3, <1>4, <1>6, Zenon DEF Shrunk, q2

\* Shortening the last substring so that n bytes fit cuts it off at its end.
LEMMA TruncateLastShrinks ==
  ASSUME NEW q, NEW d, Sound(q, d), ~empty(q), NEW n \in Nat,
         empty_size(q) < n, CanTruncateLast(q, n), NEW last_eof \in BOOLEAN,
         last_eof => q.substrs[LastIndex(q)].eof
  PROVE  Shrunk(q, TruncateLast(q, n, last_eof))
<1>. DEFINE l == LastIndex(q)
            q2 == TruncateLast(q, n, last_eof)
            keep == LastLen(q) + empty_size(q) - n
            cut == [data |-> Leading(q.substrs[l].data, keep), eof |-> last_eof]
<1>1. {"output", "substrs", "size"} \subseteq DOMAIN q /\ q.size \in Int
  BY DEF Sound
<1>2. /\ l \in DOMAIN q.substrs /\ l \in Nat /\ LastLen(q) \in Nat
      /\ EndAt(q, l) = l + LastLen(q) /\ l + LastLen(q) \in Nat /\ l <= l + LastLen(q)
      /\ (l + LastLen(q)) - l = LastLen(q)
      /\ q.substrs[l].data = StreamBytes(l, l + LastLen(q))
  BY LastFacts
<1>3. keep \in Nat /\ keep <= LastLen(q)
  BY <1>2, EmptySizeType DEF CanTruncateLast
<1>4. /\ {"output", "substrs", "size"} \subseteq DOMAIN q2
      /\ q2.output = q.output
      /\ q2.substrs = [q.substrs EXCEPT ![l] = cut]
      /\ q2.size = (q.size - n) % SizeMod
  BY <1>1, Zenon DEF TruncateLast
<1>. HIDE DEF q2, keep, l
<1>5. cut.data = StreamBytes(l, l + keep) /\ cut.eof = last_eof
  <2>1. Leading(StreamBytes(l, l + LastLen(q)), keep) =
           StreamBytes(l, l + Lesser(keep, (l + LastLen(q)) - l))
    BY <1>2, <1>3, LeadingBytes
  <2>2. Lesser(keep, LastLen(q)) = keep
    BY <1>3 DEF Lesser
  <2>. QED  BY <1>2, <2>1, <2>2, ZenonT(40)
<1>. HIDE DEF cut
<1>6. /\ DOMAIN q2.substrs = DOMAIN q.substrs
      /\ q2.substrs[l] = cut
      /\ \A i \in DOMAIN q.substrs \ {l} : q2.substrs[i] = q.substrs[i]
  BY <1>2, <1>4, Zenon
<1>7. q2.size \in 0 .. SizeMod - 1
  <2>1. q.size - n \in Int
    BY <1>1, SMTT(30)
  <2>. QED  BY <1>4, <2>1, SizeModAssumption
<1>8. ASSUME NEW i \in DOMAIN q2.substrs
      PROVE  /\ EndAt(q2, i) \in i .. EndAt(q, i)
             /\ q2.substrs[i].data = StreamBytes(i, EndAt(q2, i))
             /\ q2.substrs[i].eof \in BOOLEAN
             /\ q2.substrs[i].eof => q.substrs[i].eof
  <2>1. CASE i = l
    <3>1. q2.substrs[i].data = StreamBytes(l, l + keep) /\ q2.substrs[i].eof = last_eof
      BY <1>5, <1>6, <2>1, ZenonT(40)
    <3>2. l + keep \in Nat /\ l <= l + keep /\ (l + keep) - l = keep /\ l + keep \in l .. l + LastLen(q)
      BY <1>2, <1>3
    <3>3. Len(q2.substrs[i].data) = keep
      BY <1>2, <3>1, <3>2, StreamBytesType, Zenon
    <3>4. EndAt(q2, i) = l + keep
      BY <2>1, <3>3, Zenon DEF EndAt
    <3>5. last_eof => q.substrs[i].eof
      BY <2>1 DEF l
    <3>. QED  BY <1>2, <2>1, <3>1, <3>2, <3>4, <3>5, Zenon
  <2>2. CASE i # l
    <3>1. q2.substrs[i] = q.substrs[i] /\ i \in DOMAIN q.substrs
      BY <1>6, <2>2, Zenon
    <3>2. EndAt(q2, i) = EndAt(q, i)
      BY <3>1, ZenonT(40) DEF EndAt
    <3>3. EndAt(q, i) \in i .. EndAt(q, i)
      BY <3>1 DEF Sound
    <3>. QED  BY <3>1, <3>2, <3>3, Zenon DEF Sound
  <2>. QED  BY <2>1, <2>2
<1>. QED  BY <1>4, <1>6, <1>7, <1>8, Zenon DEF Shrunk, q2

\* A turn of the eviction loop keeps Sound, and pieces clear.
LEMMA EvictKeeps ==
  ASSUME NEW q, NEW d, Sound(q, d), NEW n \in Nat, NEW index
  PROVE  /\ Sound(Evict(q, n, index), d)
         /\ \A p : Clear(q, p) => Clear(Evict(q, n, index), p)
         /\ \A l, ended, old : Within(q, l, ended, old) => Within(Evict(q, n, index), l, ended, old)
<1>1. CASE empty_size(q) >= n \/ empty(q) \/ LastIndex(q) < index
  <2>1. Evict(q, n, index) = q
    BY <1>1 DEF Evict
  <2>. QED  BY <2>1, Zenon
<1>2. CASE ~(empty_size(q) >= n \/ empty(q) \/ LastIndex(q) < index) /\ CanTruncateLast(q, n)
  <2>1. Evict(q, n, index) = TruncateLast(q, n, q.substrs[LastIndex(q)].eof)
    BY <1>2 DEF Evict
  <2>2. q.substrs[LastIndex(q)].eof \in BOOLEAN
    BY <1>2, LastFacts, Zenon
  <2>3. empty_size(q) < n
    BY <1>2, EmptySizeType
  <2>4. Shrunk(q, Evict(q, n, index))
    BY <1>2, <2>1, <2>2, <2>3, TruncateLastShrinks, ZenonT(40)
  <2>. QED  BY <2>4, ShrunkSound, Zenon
<1>3. CASE ~(empty_size(q) >= n \/ empty(q) \/ LastIndex(q) < index) /\ ~CanTruncateLast(q, n)
  <2>1. Evict(q, n, index) = EraseLast(q)
    BY <1>3 DEF Evict
  <2>2. Shrunk(q, Evict(q, n, index))
    BY <1>3, <2>1, EraseLastShrinks, Zenon
  <2>. QED  BY <2>2, ShrunkSound, Zenon
<1>. QED  BY <1>1, <1>2, <1>3

\* When the first round of MakeRoom neither fits nor can shorten, its result
\* is the last of the states its turns go through.
LEMMA EvictLoop ==
  ASSUME NEW q, NEW data, NEW index, LastIndex(q) + LastLen(q) + 1 \in Nat,
         ~(empty_size(q) >= Len(data)), ~empty(q), ~CanTruncateLast(q, Len(data))
  PROVE  LET N == LastIndex(q) + LastLen(q) + 1 IN
         \E f : /\ \A k \in 0 .. N :
                      f[k] = IF k = 0 THEN EraseLast(q) ELSE Evict(f[k - 1], Len(data), index)
                /\ MakeRoom(q, data, index) =
                     [r |-> f[N], data |-> IF empty_size(f[N]) >= Len(data) THEN data
                                           ELSE Leading(data, empty_size(f[N]))]
<1>. DEFINE N == LastIndex(q) + LastLen(q) + 1
            n == Len(data)
            T == {m \in 0 .. N : \E f : f = [k \in 0 .. m |->
                   IF k = 0 THEN EraseLast(q) ELSE Evict(f[k - 1], n, index)]}
<1>1. 0 \in T
  <2>. DEFINE f == [k \in 0 .. 0 |-> EraseLast(q)]
  <2>1. \A k \in 0 .. 0 : k = 0
    OBVIOUS
  <2>2. f = [k \in 0 .. 0 |-> IF k = 0 THEN EraseLast(q) ELSE Evict(f[k - 1], n, index)]
    BY <2>1, Zenon
  <2>3. 0 \in 0 .. N
    OBVIOUS
  <2>. QED  BY <2>2, <2>3, Zenon
<1>2. ASSUME NEW m \in 0 .. N - 1, m \in T PROVE m + 1 \in T
  <2>1. PICK f : f = [k \in 0 .. m |->
                   IF k = 0 THEN EraseLast(q) ELSE Evict(f[k - 1], n, index)]
    BY <1>2
  <2>. DEFINE g == [k \in 0 .. m + 1 |-> IF k = m + 1 THEN Evict(f[m], n, index) ELSE f[k]]
  <2>2. ASSUME NEW k \in 0 .. m + 1
        PROVE  g[k] = IF k = 0 THEN EraseLast(q) ELSE Evict(g[k - 1], n, index)
    <3>1. CASE k = m + 1
      <4>1. k # 0 /\ k - 1 = m /\ m \in 0 .. m + 1 /\ m # m + 1
        BY <3>1
      <4>2. g[k] = Evict(f[m], n, index) /\ g[m] = f[m]
        BY <3>1, <4>1
      <4>. QED  BY <4>1, <4>2
    <3>2. CASE k # m + 1 /\ k # 0
      <4>1. k \in 0 .. m /\ k - 1 \in 0 .. m /\ k - 1 \in 0 .. m + 1 /\ k - 1 # m + 1
        BY <3>2
      <4>2. g[k] = f[k] /\ g[k - 1] = f[k - 1]
        BY <3>2, <4>1
      <4>3. f[k] = Evict(f[k - 1], n, index)
        BY <2>1, <3>2, <4>1, SMTT(40)
      <4>. QED  BY <3>2, <4>2, <4>3
    <3>3. CASE k = 0
      <4>1. k \in 0 .. m /\ k # m + 1
        BY <3>3
      <4>2. g[k] = f[k] /\ f[k] = EraseLast(q)
        BY <2>1, <3>3, <4>1, SMTT(40)
      <4>. QED  BY <3>3, <4>2
    <3>. QED  BY <3>1, <3>2, <3>3
  <2>3. g = [k \in 0 .. m + 1 |-> IF k = 0 THEN EraseLast(q) ELSE Evict(g[k - 1], n, index)]
    BY <2>2
  <2>4. m + 1 \in 0 .. N
    OBVIOUS
  <2>. QED  BY <2>3, <2>4, Zenon
<1>3. N \in T
  <2>1. \A m \in 0 .. N : m \in T
    <3>. HIDE DEF T
    <3>. QED  BY <1>1, <1>2, SetInduction, ZenonT(40)
  <2>. QED  BY <2>1
<1>. DEFINE d == CHOOSE f : f = [k \in 0 .. N |->
                   IF k = 0 THEN EraseLast(q) ELSE Evict(f[k - 1], n, index)]
<1>4. d = [k \in 0 .. N |-> IF k = 0 THEN EraseLast(q) ELSE Evict(d[k - 1], n, index)]
  BY <1>3, SMTT(30)
<1>5. MakeRoom(q, data, index) =
        [r |-> d[N], data |-> IF empty_size(d[N]) >= n THEN data
                              ELSE Leading(data, empty_size(d[N]))]
  BY Zenon DEF MakeRoom
<1>. HIDE DEF d
<1>6. \A k \in 0 .. N : d[k] = IF k = 0 THEN EraseLast(q) ELSE Evict(d[k - 1], n, index)
  BY <1>4, SMTT(30)
<1>. QED  BY <1>5, <1>6, Zenon

\* Making room for a piece keeps Sound and other pieces clear, and leaves the
\* beginning of the piece to be stored.
LEMMA MakeRoomKeeps ==
  ASSUME NEW q, NEW d, Sound(q, d), NEW p, Clear(q, p)
  PROVE  LET room == MakeRoom(q, p.data, p.index)
         IN  /\ Sound(room.r, d)
             /\ \A p2 : Clear(q, p2) => Clear(room.r, p2)
             /\ \A l, ended, old : Within(q, l, ended, old) => Within(room.r, l, ended, old)
             /\ \E m \in 0 .. PEnd(p) - p.index : room.data = StreamBytes(p.index, p.index + m)
<1>. DEFINE room == MakeRoom(q, p.data, p.index)
            n == Len(p.data)
<1>1. /\ p.index \in Nat /\ PEnd(p) \in Nat /\ p.index <= PEnd(p)
      /\ p.data = StreamBytes(p.index, PEnd(p))
  BY ReassemblyAssumption DEF Clear
<1>2. n = PEnd(p) - p.index /\ n \in Nat
  <2>1. Len(StreamBytes(p.index, PEnd(p))) = PEnd(p) - p.index
    BY <1>1, StreamBytesType, Zenon
  <2>. QED  BY <1>1, <2>1
<1>3. \A s \in Nat : \E m \in 0 .. PEnd(p) - p.index :
        Leading(p.data, s) = StreamBytes(p.index, p.index + m)
  <2>1. ASSUME NEW s \in Nat
        PROVE  \E m \in 0 .. PEnd(p) - p.index : Leading(p.data, s) = StreamBytes(p.index, p.index + m)
    <3>. DEFINE m == Lesser(s, PEnd(p) - p.index)
    <3>1. Leading(p.data, s) = StreamBytes(p.index, p.index + m)
      BY <1>1, LeadingBytes, Zenon
    <3>2. m \in 0 .. PEnd(p) - p.index
      BY <1>1 DEF Lesser
    <3>. HIDE DEF m
    <3>. QED  BY <3>1, <3>2, Zenon
  <2>. QED  BY <2>1, Zenon
<1>4. \E m \in 0 .. PEnd(p) - p.index : p.data = StreamBytes(p.index, p.index + m)
  <2>1. PEnd(p) - p.index \in 0 .. PEnd(p) - p.index /\ p.index + (PEnd(p) - p.index) = PEnd(p)
    BY <1>1
  <2>. QED  BY <1>1, <2>1, Zenon
<1>5. CASE empty_size(q) >= n
  <2>1. room = [r |-> q, data |-> p.data]
    BY <1>5, Zenon DEF MakeRoom
  <2>. HIDE DEF room
  <2>2. room.r = q /\ room.data = p.data
    BY <2>1, Zenon
  <2>. QED  BY <1>4, <2>2, Zenon DEF room
<1>6. CASE ~(empty_size(q) >= n) /\ empty(q)
  <2>1. room = [r |-> q, data |-> Leading(p.data, empty_size(q))]
    BY <1>6, Zenon DEF MakeRoom
  <2>. HIDE DEF room
  <2>2. room.r = q /\ room.data = Leading(p.data, empty_size(q)) /\ empty_size(q) \in Nat
    BY <2>1, EmptySizeType, Zenon
  <2>. QED  BY <1>3, <2>2, Zenon DEF room
<1>7. CASE ~(empty_size(q) >= n) /\ ~empty(q) /\ CanTruncateLast(q, n)
  <2>1. room = [r |-> TruncateLast(q, n, FALSE), data |-> p.data]
    BY <1>7, Zenon DEF MakeRoom
  <2>. HIDE DEF room
  <2>2. room.r = TruncateLast(q, n, FALSE) /\ room.data = p.data
    BY <2>1, Zenon
  <2>3. empty_size(q) < n
    BY <1>2, <1>7, EmptySizeType
  <2>4. Shrunk(q, room.r)
    <3>. HIDE DEF n, room
    <3>. QED  BY <1>2, <1>7, <2>2, <2>3, TruncateLastShrinks, ZenonT(40)
  <2>5. /\ Sound(room.r, d)
        /\ \A p2 : Clear(q, p2) => Clear(room.r, p2)
        /\ \A l, ended, old : Within(q, l, ended, old) => Within(room.r, l, ended, old)
    BY <2>4, ShrunkSound, Zenon
  <2>. QED  BY <1>4, <2>2, <2>5, ZenonT(40) DEF room
<1>8. CASE ~(empty_size(q) >= n) /\ ~empty(q) /\ ~CanTruncateLast(q, n)
  <2>. DEFINE N == LastIndex(q) + LastLen(q) + 1
  <2>1. N \in Nat
    BY <1>8, LastFacts, SMTT(40)
  <2>0. LastIndex(q) + LastLen(q) + 1 \in Nat /\ ~(empty_size(q) >= Len(p.data)) /\ ~empty(q) /\ ~CanTruncateLast(q, Len(p.data))
    BY <1>8, <2>1, SMTT(30)
  <2>2. PICK f : /\ \A k \in 0 .. N :
                      f[k] = IF k = 0 THEN EraseLast(q) ELSE Evict(f[k - 1], n, p.index)
                 /\ room = [r |-> f[N], data |-> IF empty_size(f[N]) >= n THEN p.data
                                                 ELSE Leading(p.data, empty_size(f[N]))]
    BY <2>0, EvictLoop, SMTT(30)
  <2>. HIDE DEF N, room, n
  <2>. DEFINE T == {k \in 0 .. N : /\ Sound(f[k], d)
                                   /\ \A p2 : Clear(q, p2) => Clear(f[k], p2)
                                   /\ \A l, ended, old : Within(q, l, ended, old) => Within(f[k], l, ended, old)}
  <2>3. 0 \in T
    <3>1. 0 \in 0 .. N /\ f[0] = EraseLast(q)
      BY <2>1, <2>2
    <3>2. Shrunk(q, f[0])
      BY <1>8, <3>1, EraseLastShrinks, Zenon
    <3>3. /\ Sound(f[0], d)
          /\ \A p2 : Clear(q, p2) => Clear(f[0], p2)
          /\ \A l, ended, old : Within(q, l, ended, old) => Within(f[0], l, ended, old)
      BY <3>2, ShrunkSound, Zenon
    <3>. QED  BY <3>1, <3>3, Zenon
  <2>4. ASSUME NEW k \in 0 .. N - 1, k \in T PROVE k + 1 \in T
    <3>1. k + 1 \in 0 .. N /\ k + 1 # 0 /\ (k + 1) - 1 = k
      BY <2>1
    <3>2. f[k + 1] = Evict(f[k], n, p.index)
      BY <2>2, <3>1
    <3>3. /\ Sound(f[k], d)
          /\ \A p2 : Clear(q, p2) => Clear(f[k], p2)
          /\ \A l, ended, old : Within(q, l, ended, old) => Within(f[k], l, ended, old)
      BY <2>4, Zenon
    <3>4. /\ Sound(f[k + 1], d)
          /\ \A p2 : Clear(f[k], p2) => Clear(f[k + 1], p2)
          /\ \A l, ended, old : Within(f[k], l, ended, old) => Within(f[k + 1], l, ended, old)
      BY <1>2, <3>2, <3>3, EvictKeeps, ZenonT(40)
    <3>. QED  BY <3>1, <3>3, <3>4, ZenonT(40)
  <2>5. N \in T
    <3>1. \A k \in 0 .. N : k \in T
      <4>. HIDE DEF T
      <4>. QED  BY <2>1, <2>3, <2>4, SetInduction
    <3>. QED  BY <2>1, <3>1
  <2>6. /\ Sound(f[N], d)
        /\ \A p2 : Clear(q, p2) => Clear(f[N], p2)
        /\ \A l, ended, old : Within(q, l, ended, old) => Within(f[N], l, ended, old)
    BY <2>5, Zenon
  <2>7. empty_size(f[N]) \in Nat
    BY <2>6, EmptySizeType, Zenon
  <2>8. room.r = f[N] /\ room.data = IF empty_size(f[N]) >= n THEN p.data
                                     ELSE Leading(p.data, empty_size(f[N]))
    BY <2>2, Zenon
  <2>. QED  BY <1>3, <1>4, <2>6, <2>7, <2>8, ZenonT(40) DEF room
<1>. QED  BY <1>5, <1>6, <1>7, <1>8, SMTT(30)

-----------------------------------------------------------------------------
\* q2 is q with the first m bytes of the piece p waiting, and the eof of p.
Added(q, q2, p, m) ==
  /\ {"output", "substrs", "size"} \subseteq DOMAIN q2
  /\ q2.output = q.output
  /\ q2.size = (q.size + m) % SizeMod
  /\ DOMAIN q2.substrs = DOMAIN q.substrs \cup {p.index}
  /\ \A i \in DOMAIN q.substrs \ {p.index} : q2.substrs[i] = q.substrs[i]
  /\ q2.substrs[p.index].data = StreamBytes(p.index, p.index + m)
  /\ q2.substrs[p.index].eof = p.eof

\* The bytes of p lie below n, and p has an eof mark only if ended.
Allowed(p, n, ended) == (p.index < PEnd(p) => PEnd(p) <= n) /\ (p.eof => ended)

\* Two pieces that do not overlap.
Apart(p, p2) == PEnd(p) <= p2.index \/ PEnd(p2) <= p.index

\* Where the substrings end once a piece is added.
LEMMA AddedEnds ==
  ASSUME NEW q, NEW q2, NEW p, p.index \in Nat, NEW m \in Nat, Added(q, q2, p, m)
  PROVE  /\ \A i \in DOMAIN q.substrs \ {p.index} : EndAt(q2, i) = EndAt(q, i)
         /\ EndAt(q2, p.index) = p.index + m
<1>1. \A i \in DOMAIN q.substrs \ {p.index} : EndAt(q2, i) = EndAt(q, i)
  BY Zenon DEF Added, EndAt
<1>2. q2.substrs[p.index].data = StreamBytes(p.index, p.index + m)
  BY DEF Added
<1>3. p.index + m \in Nat /\ p.index <= p.index + m /\ (p.index + m) - p.index = m
  OBVIOUS
<1>4. Len(StreamBytes(p.index, p.index + m)) = m
  BY <1>3, StreamBytesType, Zenon
<1>5. EndAt(q2, p.index) = p.index + m
  BY <1>2, <1>4, Zenon DEF EndAt
<1>. QED  BY <1>1, <1>5

\* Adding the beginning of a clear piece keeps Sound, and pieces apart from
\* it clear.
LEMMA AddedSound ==
  ASSUME NEW q, NEW q2, NEW d, Sound(q, d), NEW p, Clear(q, p),
         NEW m \in 0 .. PEnd(p) - p.index, Added(q, q2, p, m)
  PROVE  /\ Sound(q2, d)
         /\ \A p2 : Clear(q, p2) /\ Apart(p, p2) => Clear(q2, p2)
         /\ \A l, ended, old : Within(q, l, ended, old) /\ Allowed(p, l, ended) => Within(q2, l, ended, old)
<1>. DEFINE b == p.index
            e == PEnd(p)
<1>1. /\ b \in Nat /\ e \in Nat /\ b <= e /\ e <= StreamLen /\ StreamLen \in Nat
      /\ p.eof \in BOOLEAN /\ q.output.written <= b
      /\ \A i \in DOMAIN q.substrs : EndAt(q, i) <= b \/ e <= i
  BY ReassemblyAssumption, SMTT(40) DEF Clear
<1>2. m \in Nat /\ b + m <= e /\ b <= b + m /\ b + m \in Nat
  BY <1>1, SMTT(40)
<1>3. /\ \A i \in DOMAIN q.substrs \ {b} : EndAt(q2, i) = EndAt(q, i)
      /\ EndAt(q2, b) = b + m
  <2>1. p.index \in Nat /\ m \in Nat /\ Added(q, q2, p, m)
    BY <1>1, <1>2, SMTT(30)
  <2>2. /\ \A i \in DOMAIN q.substrs \ {p.index} : EndAt(q2, i) = EndAt(q, i)
        /\ EndAt(q2, p.index) = p.index + m
    BY <2>1, AddedEnds, SMTT(30)
  <2>. QED  BY <2>2, SMTT(40)
<1>4. \A i \in DOMAIN q.substrs : /\ i \in Nat /\ EndAt(q, i) \in Nat /\ i <= EndAt(q, i)
                                  /\ EndAt(q, i) <= StreamLen /\ q.output.written <= i
  BY <1>1, SMTT(40) DEF Sound
<1>5. q2.output = q.output /\ DOMAIN q2.substrs = DOMAIN q.substrs \cup {b}
  BY DEF Added
<1>. HIDE DEF b, e
<1>6. q2.size \in 0 .. SizeMod - 1
  <2>1. q2.size = (q.size + m) % SizeMod /\ q.size \in Int
    BY DEF Added, Sound
  <2>2. q.size + m \in Int
    BY <1>2, <2>1, SMTT(30)
  <2>. QED  BY <2>1, <2>2, SizeModAssumption, SMTT(30)
<1>7. ASSUME NEW i \in DOMAIN q2.substrs
      PROVE  /\ q2.output.written <= i
             /\ EndAt(q2, i) \in i .. StreamLen
             /\ q2.substrs[i].data = StreamBytes(i, EndAt(q2, i))
             /\ q2.substrs[i].eof \in BOOLEAN
  <2>1. CASE i = b
    <3>1. /\ q2.substrs[i].data = StreamBytes(b, b + m) /\ q2.substrs[i].eof = p.eof
      BY <2>1, Zenon DEF Added, b
    <3>2. b + m \in b .. StreamLen
      BY <1>1, <1>2
    <3>. QED  BY <1>1, <1>3, <1>5, <2>1, <3>1, <3>2, ZenonT(40)
  <2>2. CASE i # b
    <3>1. i \in DOMAIN q.substrs \ {b}
      BY <1>5, <2>2
    <3>2. q2.substrs[i] = q.substrs[i] /\ EndAt(q2, i) = EndAt(q, i)
      BY <1>3, <3>1, ZenonT(40) DEF Added, b
    <3>. QED  BY <1>5, <3>1, <3>2, ZenonT(40) DEF Sound
  <2>. QED  BY <2>1, <2>2
<1>8. ASSUME NEW i \in DOMAIN q2.substrs, NEW j \in DOMAIN q2.substrs, i < j
      PROVE  EndAt(q2, i) <= j
  <2>1. \A k, l \in DOMAIN q.substrs : k < l => EndAt(q, k) <= l
    BY SMTT(40) DEF Sound
  <2>2. CASE i # b /\ j # b
    BY <1>3, <1>5, <1>8, <2>1, <2>2, SMTT(30)
  <2>3. CASE i = b /\ j # b
    <3>1. j \in DOMAIN q.substrs /\ j \in Nat /\ EndAt(q, j) \in Nat /\ j <= EndAt(q, j)
      BY <1>4, <1>5, <2>3, SMTT(30)
    <3>2. EndAt(q, j) <= b \/ e <= j
      BY <1>1, <3>1, SMTT(30)
    <3>. QED  BY <1>1, <1>2, <1>3, <1>8, <2>3, <3>1, <3>2, SMTT(30)
  <2>4. CASE i # b /\ j = b
    <3>1. i \in DOMAIN q.substrs \ {b} /\ i \in Nat
      BY <1>4, <1>5, <2>4, SMTT(30)
    <3>2. EndAt(q, i) <= b \/ e <= i
      BY <1>1, <3>1, SMTT(40)
    <3>. QED  BY <1>1, <1>2, <1>3, <1>8, <2>4, <3>1, <3>2, SMTT(30)
  <2>5. ~(i = b /\ j = b)
    BY <1>1, <1>8, SMTT(30)
  <2>. QED  BY <2>2, <2>3, <2>4, <2>5, SMTT(30)
<1>9. DOMAIN q2.substrs \subseteq 0 .. StreamLen
  BY <1>1, <1>5 DEF Sound
<1>10. Sound(q2, d)
  BY <1>5, <1>6, <1>7, <1>8, <1>9, ZenonT(40) DEF Sound, Added
<1>11. ASSUME NEW p2, Clear(q, p2), Apart(p, p2) PROVE Clear(q2, p2)
  <2>1. p2.index \in Nat /\ PEnd(p2) \in Nat /\ (e <= p2.index \/ PEnd(p2) <= b)
    BY <1>1, <1>11, SMTT(30) DEF Clear, Apart, b, e
  <2>2. \A i \in DOMAIN q2.substrs : EndAt(q2, i) <= p2.index \/ PEnd(p2) <= i
    <3>1. ASSUME NEW i \in DOMAIN q2.substrs PROVE EndAt(q2, i) <= p2.index \/ PEnd(p2) <= i
      <4>1. CASE i = b
        BY <1>1, <1>2, <1>3, <2>1, <4>1, SMTT(30)
      <4>2. CASE i # b
        BY <1>3, <1>5, <1>11, <4>2 DEF Clear
      <4>. QED  BY <4>1, <4>2, SMTT(30)
    <3>. QED  BY <3>1, SMTT(40)
  <2>. QED  BY <1>5, <1>11, <2>2, ZenonT(40) DEF Clear
<1>12. ASSUME NEW l, NEW ended, NEW old, Within(q, l, ended, old), Allowed(p, l, ended) PROVE Within(q2, l, ended, old)
  <2>1. l \in Nat /\ (b < e => e <= l) /\ (p.eof => ended)
    BY <1>12, ZenonT(40) DEF Within, Allowed, b, e
  <2>2. ASSUME NEW i \in DOMAIN q2.substrs
        PROVE  (i < EndAt(q2, i) => EndAt(q2, i) <= l) /\ (q2.substrs[i].eof => ended)
    <3>1. CASE i = b
      <4>1. i < EndAt(q2, i) => EndAt(q2, i) <= l
        BY <1>1, <1>2, <1>3, <2>1, <3>1, SMTT(30)
      <4>2. q2.substrs[i].eof = p.eof
        BY <3>1, Zenon DEF Added, b
      <4>. QED  BY <2>1, <4>1, <4>2, ZenonT(40)
    <3>2. CASE i # b
      <4>1. i \in DOMAIN q.substrs \ {b}
        BY <1>5, <3>2
      <4>2. q2.substrs[i] = q.substrs[i] /\ EndAt(q2, i) = EndAt(q, i)
        BY <1>3, <4>1, ZenonT(40) DEF Added, b
      <4>. QED  BY <1>12, <4>1, <4>2, ZenonT(40) DEF Within
    <3>. QED  BY <3>1, <3>2
  <2>. QED  BY <1>5, <1>12, <2>2, ZenonT(40) DEF Within
<1>. QED  BY <1>10, <1>11, <1>12, SMTT(30)

\* The end of push_substring stores the piece and runs the writing loop.
LEMMA PutAdds ==
  ASSUME NEW room, NEW d, Sound(room.r, d), NEW p, NEW m \in Nat, p.index \in Nat,
         room.data = StreamBytes(p.index, p.index + m)
  PROVE  \E q2 : Added(room.r, q2, p, m) /\ Put(room, p) = Drain(q2)
<1>. DEFINE q == room.r
            s == [data |-> room.data, eof |-> p.eof]
            q2 == [q EXCEPT !.substrs = Assign(@, p.index, s),
                            !.size = (@ + Len(room.data)) % SizeMod]
<1>1. {"output", "substrs", "size"} \subseteq DOMAIN q
  BY DEF Sound
<1>2. /\ {"output", "substrs", "size"} \subseteq DOMAIN q2
      /\ q2.output = q.output
      /\ q2.substrs = Assign(q.substrs, p.index, s)
      /\ q2.size = (q.size + Len(room.data)) % SizeMod
  BY <1>1, Zenon
<1>3. Put(room, p) = Drain(q2)
  BY DEF Put
<1>4. s.data = StreamBytes(p.index, p.index + m) /\ s.eof = p.eof
  OBVIOUS
<1>5. Len(room.data) = m
  <2>1. p.index + m \in Nat /\ p.index <= p.index + m /\ (p.index + m) - p.index = m
    OBVIOUS
  <2>2. Len(StreamBytes(p.index, p.index + m)) = m
    BY <2>1, StreamBytesType, Zenon
  <2>. QED  BY <2>2, Zenon
<1>. HIDE DEF q2, s
<1>6. /\ DOMAIN q2.substrs = DOMAIN q.substrs \cup {p.index}
      /\ \A i \in DOMAIN q.substrs \ {p.index} : q2.substrs[i] = q.substrs[i]
      /\ q2.substrs[p.index] = s
  BY <1>2, Zenon DEF Assign
<1>7. Added(q, q2, p, m)
  BY <1>2, <1>4, <1>5, <1>6, Zenon DEF Added
<1>. QED  BY <1>3, <1>7, SMTT(30)

-----------------------------------------------------------------------------
\* The pieces the duplicate-removal loop works on.
Pieces == [index : Nat, data : Seq(Nat), eof : BOOLEAN]

\* p is a nonempty part of the piece P, with its eof if it reaches its end.
PartOf(P, p) ==
  /\ p \in Pieces
  /\ PEnd(p) \in Nat /\ P.index <= p.index /\ p.index < PEnd(p) /\ PEnd(p) <= PEnd(P)
  /\ p.data = StreamBytes(p.index, PEnd(p))
  /\ p.eof = (P.eof /\ PEnd(p) = PEnd(P))

\* p overlaps none of the substrings that wait at l or later.
ClearFrom(q, p, l) ==
  \A i \in DOMAIN q.substrs : i >= l => EndAt(q, i) <= p.index \/ PEnd(p) <= i

\* What the duplicate-removal loop has made of P once it has seen the
\* substrings that wait at l or later: acc.p overlaps none of them unless it
\* is covered, and the parts split off lie above acc.p, in ascending order,
\* and overlap no waiting substring.
Remaining(q, P, acc, l) ==
  /\ {"p", "pieces", "covered"} \subseteq DOMAIN acc /\ acc.covered \in BOOLEAN
  /\ PartOf(P, acc.p)
  /\ ~acc.covered => ClearFrom(q, acc.p, l)
  /\ acc.pieces \in Seq(Pieces)
  /\ \A m \in 1 .. Len(acc.pieces) :
       /\ PartOf(P, acc.pieces[m])
       /\ ClearFrom(q, acc.pieces[m], 0)
       /\ PEnd(acc.p) <= acc.pieces[m].index
  /\ \A m, n \in 1 .. Len(acc.pieces) :
       m < n => PEnd(acc.pieces[m]) <= acc.pieces[n].index

\* The part of p below a substring that begins inside p.
LEMMA PartBelowPart ==
  ASSUME NEW P, NEW p, PartOf(P, p), NEW c \in Nat, p.index < c, c < PEnd(p), PEnd(P) \in Nat
  PROVE  /\ PartOf(P, PartBelow(p, c))
         /\ PartBelow(p, c).index = p.index /\ PEnd(PartBelow(p, c)) = c
<1>. DEFINE x == PartBelow(p, c)
            b == p.index
            e == PEnd(p)
<1>1. /\ b \in Nat /\ e \in Nat /\ P.index <= b /\ e <= PEnd(P) /\ b < e
      /\ p.data = StreamBytes(b, e) /\ b < c /\ c < e
  BY DEF PartOf, Pieces
<1>2. x = [index |-> b, data |-> Leading(p.data, c - b), eof |-> FALSE]
  BY DEF PartBelow
<1>. HIDE DEF x, b, e
<1>3. x.index = b /\ x.data = Leading(p.data, c - b) /\ x.eof = FALSE
  BY <1>2, Zenon
<1>4. x.data = StreamBytes(b, c)
  <2>1. c - b \in Nat /\ b <= e /\ b + Lesser(c - b, e - b) = c
    BY <1>1 DEF Lesser
  <2>2. Leading(StreamBytes(b, e), c - b) = StreamBytes(b, b + Lesser(c - b, e - b))
    BY <1>1, <2>1, LeadingBytes, Zenon
  <2>. QED  BY <1>1, <1>3, <2>1, <2>2, Zenon
<1>5. StreamBytes(b, c) \in Seq(Nat) /\ Len(StreamBytes(b, c)) = c - b /\ b + (c - b) = c
  <2>1. b <= c /\ b + (c - b) = c
    BY <1>1
  <2>. QED  BY <1>1, <2>1, StreamBytesType, Zenon
<1>6. PEnd(x) = c
  BY <1>3, <1>4, <1>5, ZenonT(40) DEF PEnd
<1>7. x \in Pieces
  BY <1>1, <1>2, <1>3, <1>4, <1>5, SMTT(30) DEF Pieces
<1>8. PEnd(x) # PEnd(P) /\ PEnd(x) <= PEnd(P)
  BY <1>1, <1>6
<1>9. PartOf(P, x)
  BY <1>1, <1>3, <1>4, <1>6, <1>7, <1>8, ZenonT(40) DEF PartOf
<1>. QED  BY <1>3, <1>6, <1>9, SMTT(30) DEF x, b

\* The part of p above a substring that ends inside p.
LEMMA PartAbovePart ==
  ASSUME NEW P, NEW p, PartOf(P, p), NEW c \in Nat, p.index <= c, c < PEnd(p), PEnd(P) \in Nat, P.index \in Nat
  PROVE  /\ PartOf(P, PartAbove(p, c - 1))
         /\ PartAbove(p, c - 1).index = c /\ PEnd(PartAbove(p, c - 1)) = PEnd(p)
<1>. DEFINE x == PartAbove(p, c - 1)
            b == p.index
            e == PEnd(p)
<1>1. /\ b \in Nat /\ e \in Nat /\ P.index <= b /\ e <= PEnd(P) /\ b < e
      /\ p.data = StreamBytes(b, e) /\ b <= c /\ c < e /\ P.index <= c
      /\ p.eof = (P.eof /\ e = PEnd(P)) /\ p.eof \in BOOLEAN
  BY DEF PartOf, Pieces
<1>2. x = [index |-> (c - 1) + 1, data |-> Following(p.data, (c - 1) - b + 1), eof |-> p.eof]
  BY DEF PartAbove
<1>. HIDE DEF x, b, e
<1>3. x.index = c /\ x.data = Following(p.data, c - b) /\ x.eof = p.eof
  <2>1. (c - 1) + 1 = c /\ (c - 1) - b + 1 = c - b
    BY <1>1
  <2>. QED  BY <1>2, <2>1, ZenonT(40)
<1>4. x.data = StreamBytes(c, e)
  <2>1. c - b \in 0 .. e - b /\ b <= e /\ b + (c - b) = c
    BY <1>1
  <2>2. Following(StreamBytes(b, e), c - b) = StreamBytes(b + (c - b), e)
    BY <1>1, <2>1, FollowingBytes, Zenon
  <2>. QED  BY <1>1, <1>3, <2>1, <2>2, ZenonT(40)
<1>5. StreamBytes(c, e) \in Seq(Nat) /\ Len(StreamBytes(c, e)) = e - c /\ c + (e - c) = e
  <2>1. c <= e /\ c + (e - c) = e
    BY <1>1
  <2>. QED  BY <1>1, <2>1, StreamBytesType, ZenonT(40)
<1>6. PEnd(x) = e
  BY <1>3, <1>4, <1>5, ZenonT(40) DEF PEnd
<1>7. x \in Pieces
  <2>1. (c - 1) + 1 \in Nat /\ Following(p.data, (c - 1) - b + 1) = x.data
    BY <1>1, <1>2
  <2>. QED  BY <1>1, <1>2, <1>4, <1>5, <2>1, SMTT(30) DEF Pieces
<1>8. PartOf(P, x)
  BY <1>1, <1>3, <1>4, <1>6, <1>7, ZenonT(30) DEF PartOf
<1>. QED  BY <1>3, <1>6, <1>8, SMTT(30) DEF x, e

\* A turn of the duplicate-removal loop, in each of its cases [()], [(]),
\* ([)] and ([]), leaves what remains clear of one more substring.
LEMMA OverlapKeeps ==
  ASSUME NEW q, NEW d, Sound(q, d), NEW P, P.index \in Nat, PEnd(P) \in Nat,
         NEW acc, NEW i \in DOMAIN q.substrs, Remaining(q, P, acc, i + 1)
  PROVE  Remaining(q, P, Overlap(acc, i, EndAt(q, i) - 1), i)
<1>. DEFINE c == EndAt(q, i)
            p == acc.p
            b == p.index
            e == PEnd(p)
            left == PartBelow(p, i)
            right == PartAbove(p, c - 1)
            new == Overlap(acc, i, c - 1)
<1>1. /\ i \in Nat /\ c \in Nat /\ i <= c /\ StreamLen \in Nat
      /\ \A j \in DOMAIN q.substrs : /\ j \in Nat /\ EndAt(q, j) \in Nat /\ j <= EndAt(q, j)
                                     /\ j < i => EndAt(q, j) <= i
  BY ReassemblyAssumption, SMTT(30) DEF Sound
<1>2. /\ PartOf(P, p) /\ b \in Nat /\ e \in Nat /\ b < e /\ acc.covered \in BOOLEAN
      /\ {"p", "pieces", "covered"} \subseteq DOMAIN acc
      /\ acc.pieces \in Seq(Pieces) /\ Len(acc.pieces) \in Nat
  BY LenOfSeq, SMTT(40) DEF Remaining, PartOf, Pieces
<1>3. b + Len(p.data) - 1 = e - 1
  <2>1. p.data \in Seq(Nat)
    BY <1>2, SMTT(40) DEF PartOf, Pieces
  <2>2. Len(p.data) \in Nat
    BY <2>1, LenOfSeq
  <2>3. e = b + Len(p.data)
    BY ZenonT(40) DEF PEnd
  <2>. HIDE DEF b, e, p
  <2>. QED  BY <1>2, <2>2, <2>3, SMTT(30)
<1>4. /\ \A m \in 1 .. Len(acc.pieces) :
           /\ PartOf(P, acc.pieces[m])
           /\ ClearFrom(q, acc.pieces[m], 0)
           /\ e <= acc.pieces[m].index
      /\ \A m, n \in 1 .. Len(acc.pieces) :
           m < n => PEnd(acc.pieces[m]) <= acc.pieces[n].index
  BY DEF Remaining
<1>5. new = IF acc.covered \/ e - 1 < i \/ c - 1 < b THEN acc
            ELSE IF i <= b /\ e - 1 <= c - 1 THEN [acc EXCEPT !.covered = TRUE]
            ELSE IF i <= b THEN [acc EXCEPT !.p = right]
            ELSE IF e - 1 <= c - 1 THEN [acc EXCEPT !.p = left]
            ELSE [acc EXCEPT !.p = left, !.pieces = <<right>> \o @]
  BY <1>3, ZenonT(40) DEF Overlap
<1>6. ~acc.covered => \A j \in DOMAIN q.substrs : j > i => EndAt(q, j) <= b \/ e <= j
  BY <1>1 DEF Remaining, ClearFrom
<1>. HIDE DEF c, p, b, e, left, right, new
<1>7. CASE acc.covered \/ e - 1 < i \/ c - 1 < b
  <2>1. new = acc
    BY <1>5, <1>7, SMTT(30)
  <2>2. ~acc.covered => ClearFrom(q, p, i)
    <3>1. ASSUME ~acc.covered, NEW j \in DOMAIN q.substrs, j >= i
          PROVE  EndAt(q, j) <= p.index \/ PEnd(p) <= j
      <4>1. CASE j > i
        BY <1>6, <3>1, <4>1, SMTT(30) DEF b, e
      <4>2. CASE j = i
        <5>1. c <= b \/ e <= i
          BY <1>1, <1>2, <1>7, <3>1
        <5>. QED  BY <4>2, <5>1, SMTT(30) DEF b, e, c
      <4>. QED  BY <1>1, <3>1, <4>1, <4>2, SMTT(30)
    <3>. QED  BY <3>1, SMTT(30) DEF ClearFrom
  <2>. QED  BY <2>1, <2>2, Zenon DEF Remaining, new, c, p
<1>8. CASE ~(acc.covered \/ e - 1 < i \/ c - 1 < b) /\ i <= b /\ e - 1 <= c - 1
  <2>1. new = [acc EXCEPT !.covered = TRUE]
    BY <1>5, <1>8
  <2>2. /\ {"p", "pieces", "covered"} \subseteq DOMAIN new
        /\ new.p = p /\ new.pieces = acc.pieces /\ new.covered = TRUE
    BY <1>2, <2>1, Zenon DEF p
  <2>. QED  BY <1>2, <1>4, <2>2, Zenon DEF Remaining, new, c, p, e
<1>9. CASE ~(acc.covered \/ e - 1 < i \/ c - 1 < b) /\ i <= b /\ ~(e - 1 <= c - 1)
  <2>1. new = [acc EXCEPT !.p = right]
    BY <1>5, <1>9
  <2>2. /\ {"p", "pieces", "covered"} \subseteq DOMAIN new
        /\ new.p = right /\ new.pieces = acc.pieces /\ new.covered = acc.covered
    BY <1>2, <2>1, ZenonT(40)
  <2>3. b <= c /\ c < e
    BY <1>1, <1>2, <1>9, SMTT(30)
  <2>4. PartOf(P, right) /\ right.index = c /\ PEnd(right) = e
    BY <1>1, <1>2, <2>3, PartAbovePart, SMTT(30) DEF right, b, e
  <2>5. ASSUME NEW j \in DOMAIN q.substrs, j >= i
        PROVE  EndAt(q, j) <= right.index \/ PEnd(right) <= j
    <3>1. CASE j > i
      BY <1>1, <1>2, <1>6, <1>9, <2>3, <2>4, <3>1, SMTT(30)
    <3>2. CASE j = i
      BY <1>1, <2>4, <3>2, SMTT(30) DEF c
    <3>. QED  BY <1>1, <2>5, <3>1, <3>2, SMTT(30)
  <2>6. ClearFrom(q, right, i)
    BY <2>5, SMTT(30) DEF ClearFrom
  <2>. QED  BY <1>2, <1>4, <2>2, <2>4, <2>6, ZenonT(40) DEF Remaining, new, c
<1>10. CASE ~(acc.covered \/ e - 1 < i \/ c - 1 < b) /\ ~(i <= b)
  <2>1. b < i /\ i < e
    BY <1>1, <1>2, <1>10, SMTT(40)
  <2>2. PartOf(P, left) /\ left.index = b /\ PEnd(left) = i
    BY <1>1, <1>2, <2>1, PartBelowPart, ZenonT(30) DEF left, b, e
  <2>3. ASSUME NEW j \in DOMAIN q.substrs, j >= i
        PROVE  EndAt(q, j) <= left.index \/ PEnd(left) <= j
    BY <2>2, <2>3, SMTT(30)
  <2>4. ClearFrom(q, left, i)
    BY <2>3 DEF ClearFrom
  <2>5. \A m \in 1 .. Len(acc.pieces) : i <= acc.pieces[m].index
    <3>1. \A m \in 1 .. Len(acc.pieces) : acc.pieces[m].index \in Nat /\ e <= acc.pieces[m].index
      BY <1>4 DEF PartOf, Pieces
    <3>. QED  BY <1>1, <1>2, <2>1, <3>1, SMTT(30)
  <2>6. CASE e - 1 <= c - 1
    <3>1. new = [acc EXCEPT !.p = left]
      BY <1>5, <1>10, <2>6, SMTT(30)
    <3>2. /\ {"p", "pieces", "covered"} \subseteq DOMAIN new
          /\ new.p = left /\ new.pieces = acc.pieces /\ new.covered = acc.covered
      BY <1>2, <3>1, Zenon
    <3>. QED  BY <1>2, <1>4, <2>2, <2>4, <2>5, <3>2, ZenonT(40) DEF Remaining, new, c
  <2>7. CASE ~(e - 1 <= c - 1)
    <3>. DEFINE longer == <<right>> \o acc.pieces
                n == Len(acc.pieces)
    <3>1. new = [acc EXCEPT !.p = left, !.pieces = <<right>> \o @]
      BY <1>5, <1>10, <2>7
    <3>2. /\ {"p", "pieces", "covered"} \subseteq DOMAIN new
          /\ new.p = left /\ new.pieces = longer /\ new.covered = acc.covered
      BY <1>2, <3>1, ZenonT(40)
    <3>3. b <= c /\ c < e
      BY <1>1, <1>2, <2>1, <2>7, SMTT(30)
    <3>4. PartOf(P, right) /\ right.index = c /\ PEnd(right) = e
      BY <1>1, <1>2, <3>3, PartAbovePart DEF right, b, e
    <3>5. right \in Pieces
      BY <3>4, SMTT(40) DEF PartOf
    <3>6. /\ longer \in Seq(Pieces) /\ Len(longer) = n + 1
          /\ longer[1] = right
          /\ \A m \in 2 .. n + 1 : m - 1 \in 1 .. n /\ longer[m] = acc.pieces[m - 1]
      BY <1>2, <3>5, PushFront, SMTT(30)
    <3>7. ClearFrom(q, right, 0)
      <4>1. ASSUME NEW j \in DOMAIN q.substrs
            PROVE  EndAt(q, j) <= right.index \/ PEnd(right) <= j
        <5>1. CASE j > i
          BY <1>1, <1>2, <1>6, <1>10, <3>3, <3>4, <5>1, SMTT(30)
        <5>2. CASE j = i
          BY <1>1, <3>4, <5>2 DEF c
        <5>3. CASE j < i
          BY <1>1, <3>4, <5>3, SMTT(30)
        <5>. QED  BY <1>1, <5>1, <5>2, <5>3, SMTT(30)
      <4>. QED  BY <4>1, SMTT(30) DEF ClearFrom
    <3>. HIDE DEF longer, n
    <3>8. ASSUME NEW m \in 1 .. n + 1
          PROVE  /\ PartOf(P, longer[m])
                 /\ ClearFrom(q, longer[m], 0)
                 /\ PEnd(left) <= longer[m].index
      <4>1. CASE m = 1
        BY <1>1, <2>2, <3>4, <3>6, <3>7, <4>1, SMTT(30)
      <4>2. CASE m # 1
        <5>1. m - 1 \in 1 .. n /\ longer[m] = acc.pieces[m - 1]
          BY <1>2, <3>6, <4>2, SMTT(40) DEF n
        <5>. QED  BY <1>4, <2>2, <2>5, <5>1, ZenonT(40) DEF n
      <4>. QED  BY <4>1, <4>2, SMTT(30)
    <3>9. ASSUME NEW m \in 1 .. n + 1, NEW k \in 1 .. n + 1, m < k
          PROVE  PEnd(longer[m]) <= longer[k].index
      <4>1. k - 1 \in 1 .. n /\ longer[k] = acc.pieces[k - 1]
        BY <1>2, <3>6, <3>9, SMTT(40) DEF n
      <4>2. CASE m = 1
        BY <1>4, <3>4, <3>6, <4>1, <4>2, ZenonT(40) DEF n
      <4>3. CASE m # 1
        <5>1. m - 1 \in 1 .. n /\ longer[m] = acc.pieces[m - 1] /\ m - 1 < k - 1
          BY <1>2, <3>6, <3>9, <4>3, SMTT(30) DEF n
        <5>. QED  BY <1>4, <4>1, <5>1, ZenonT(40) DEF n
      <4>. QED  BY <4>2, <4>3, SMTT(40)
    <3>. QED  BY <1>2, <2>2, <2>4, <3>2, <3>6, <3>8, <3>9, ZenonT(30) DEF Remaining, new, c
  <2>. QED  BY <2>6, <2>7, SMTT(30)
<1>. QED  BY <1>7, <1>8, <1>9, <1>10, SMTT(30) DEF new, c

\* Byte k waits in one of the substrings at l or later.
Waits(q, k, l) == \E i \in DOMAIN q.substrs : l <= i /\ i <= k /\ k < EndAt(q, i)

\* The last byte of P is not lost: it waits already, or it ends what remains
\* of P or one of the parts split off.
EndKept(q, P, acc, l) ==
  \/ Waits(q, PEnd(P) - 1, l)
  \/ ~acc.covered /\ PEnd(acc.p) = PEnd(P)
  \/ \E m \in 1 .. Len(acc.pieces) : PEnd(acc.pieces[m]) = PEnd(P)

\* A turn of the duplicate-removal loop does not lose it: what covers the end
\* of acc.p holds it, and the part above a substring keeps the end.
LEMMA OverlapKeepsEnd ==
  ASSUME NEW q, NEW d, Sound(q, d), NEW P, P.index \in Nat, PEnd(P) \in Nat,
         NEW acc, NEW i \in DOMAIN q.substrs, Remaining(q, P, acc, i + 1), EndKept(q, P, acc, i + 1)
  PROVE  EndKept(q, P, Overlap(acc, i, EndAt(q, i) - 1), i)
<1>. DEFINE c == EndAt(q, i)
            p == acc.p
            b == p.index
            e == PEnd(p)
            N == PEnd(P)
            left == PartBelow(p, i)
            right == PartAbove(p, c - 1)
            new == Overlap(acc, i, c - 1)
<1>1. i \in Nat /\ c \in Nat /\ i <= c /\ \A j \in DOMAIN q.substrs : j \in Nat
  BY ReassemblyAssumption, SMTT(30) DEF Sound
<1>2. /\ PartOf(P, p) /\ b \in Nat /\ e \in Nat /\ b < e /\ e <= N /\ acc.covered \in BOOLEAN
      /\ {"p", "pieces", "covered"} \subseteq DOMAIN acc
      /\ acc.pieces \in Seq(Pieces) /\ Len(acc.pieces) \in Nat
  BY LenOfSeq, SMTT(40) DEF Remaining, PartOf, Pieces
<1>3. b + Len(p.data) - 1 = e - 1
  <2>1. p.data \in Seq(Nat)
    BY <1>2, SMTT(40) DEF PartOf, Pieces
  <2>2. Len(p.data) \in Nat
    BY <2>1, LenOfSeq
  <2>3. e = b + Len(p.data)
    BY ZenonT(40) DEF PEnd
  <2>. HIDE DEF b, e, p
  <2>. QED  BY <1>2, <2>2, <2>3, SMTT(30)
<1>4. new = IF acc.covered \/ e - 1 < i \/ c - 1 < b THEN acc
            ELSE IF i <= b /\ e - 1 <= c - 1 THEN [acc EXCEPT !.covered = TRUE]
            ELSE IF i <= b THEN [acc EXCEPT !.p = right]
            ELSE IF e - 1 <= c - 1 THEN [acc EXCEPT !.p = left]
            ELSE [acc EXCEPT !.p = left, !.pieces = <<right>> \o @]
  BY <1>3, ZenonT(40) DEF Overlap
<1>5. Waits(q, N - 1, i + 1) => Waits(q, N - 1, i)
  <2>1. \A j \in DOMAIN q.substrs : i + 1 <= j => i <= j
    BY <1>1, SMTT(30)
  <2>. QED  BY <2>1, ZenonT(30) DEF Waits
<1>. HIDE DEF c, p, b, e, N, left, right, new
<1>6. ASSUME b < e, i < e, e <= c, e = N PROVE Waits(q, N - 1, i)
  <2>1. i <= i /\ i <= N - 1 /\ N - 1 < c
    BY <1>1, <1>2, <1>6, SMTT(30)
  <2>. QED  BY <2>1, Zenon DEF Waits, c
<1>7. \/ Waits(q, N - 1, i)
      \/ ~acc.covered /\ e = N
      \/ \E m \in 1 .. Len(acc.pieces) : PEnd(acc.pieces[m]) = N
  BY <1>5, ZenonT(30) DEF EndKept, N, e, p
<1>8. SUFFICES \/ Waits(q, N - 1, i)
               \/ ~new.covered /\ PEnd(new.p) = N
               \/ \E m \in 1 .. Len(new.pieces) : PEnd(new.pieces[m]) = N
  BY ZenonT(30) DEF EndKept, N, new, c
<1>9. CASE acc.covered \/ e - 1 < i \/ c - 1 < b
  <2>1. new = acc
    BY <1>4, <1>9, SMTT(30)
  <2>. QED  BY <1>7, <2>1, Zenon DEF e, p
<1>10. CASE ~(acc.covered \/ e - 1 < i \/ c - 1 < b) /\ i <= b /\ e - 1 <= c - 1
  <2>1. new = [acc EXCEPT !.covered = TRUE]
    BY <1>4, <1>10
  <2>2. new.pieces = acc.pieces
    BY <1>2, <2>1, Zenon
  <2>3. i < e /\ e <= c
    BY <1>1, <1>2, <1>10, SMTT(30)
  <2>. QED  BY <1>2, <1>6, <1>7, <2>2, <2>3, Zenon
<1>11. CASE ~(acc.covered \/ e - 1 < i \/ c - 1 < b) /\ i <= b /\ ~(e - 1 <= c - 1)
  <2>1. new = [acc EXCEPT !.p = right]
    BY <1>4, <1>11
  <2>2. new.p = right /\ new.pieces = acc.pieces /\ new.covered = acc.covered
    BY <1>2, <2>1, ZenonT(40)
  <2>3. b <= c /\ c < e
    BY <1>1, <1>2, <1>11, SMTT(30)
  <2>4. PEnd(right) = e
    BY <1>1, <1>2, <2>3, PartAbovePart, SMTT(30) DEF right, b, e
  <2>. QED  BY <1>7, <2>2, <2>4, Zenon
<1>12. CASE ~(acc.covered \/ e - 1 < i \/ c - 1 < b) /\ ~(i <= b) /\ e - 1 <= c - 1
  <2>1. new = [acc EXCEPT !.p = left]
    BY <1>4, <1>12
  <2>2. new.pieces = acc.pieces
    BY <1>2, <2>1, Zenon
  <2>3. i < e /\ e <= c
    BY <1>1, <1>2, <1>12, SMTT(30)
  <2>. QED  BY <1>2, <1>6, <1>7, <2>2, <2>3, Zenon
<1>13. CASE ~(acc.covered \/ e - 1 < i \/ c - 1 < b) /\ ~(i <= b) /\ ~(e - 1 <= c - 1)
  <2>. DEFINE longer == <<right>> \o acc.pieces
              n == Len(acc.pieces)
  <2>1. new = [acc EXCEPT !.p = left, !.pieces = <<right>> \o @]
    BY <1>4, <1>13
  <2>2. new.pieces = longer
    BY <1>2, <2>1, ZenonT(40)
  <2>3. b <= c /\ c < e
    BY <1>1, <1>2, <1>13, SMTT(30)
  <2>4. PartOf(P, right) /\ PEnd(right) = e
    BY <1>1, <1>2, <2>3, PartAbovePart DEF right, b, e
  <2>5. right \in Pieces
    BY <2>4, SMTT(40) DEF PartOf
  <2>6. /\ Len(longer) = n + 1 /\ longer[1] = right
        /\ \A m \in 2 .. n + 1 : m - 1 \in 1 .. n /\ longer[m] = acc.pieces[m - 1]
    BY <1>2, <2>5, PushFront, SMTT(30)
  <2>. HIDE DEF longer, n
  <2>7. CASE e = N
    <3>1. 1 \in 1 .. n + 1
      BY <1>2, SMTT(30) DEF n
    <3>. QED  BY <2>2, <2>4, <2>6, <2>7, <3>1, ZenonT(30)
  <2>8. ASSUME NEW m \in 1 .. n, PEnd(acc.pieces[m]) = N
        PROVE  \E k \in 1 .. n + 1 : PEnd(longer[k]) = N
    <3>1. m + 1 \in 1 .. n + 1 /\ m + 1 \in 2 .. n + 1 /\ (m + 1) - 1 = m
      BY <1>2, SMTT(30) DEF n
    <3>2. longer[m + 1] = acc.pieces[m]
      BY <2>6, <3>1, SMTT(30)
    <3>. QED  BY <2>8, <3>1, <3>2, Zenon
  <2>. QED  BY <1>7, <2>2, <2>6, <2>7, <2>8, ZenonT(30) DEF n
<1>. QED  BY <1>9, <1>10, <1>11, <1>12, <1>13, SMTT(30)

-----------------------------------------------------------------------------
\* Where the duplicate-removal loop starts.
Whole(p) == [p |-> p, pieces |-> << >>, covered |-> FALSE]

\* What remains of the data below the parts split off is stored first.
StoreLowest(q, u) == IF u.covered THEN q ELSE Store(q, u.p)

\* Uncovered is the last of the states the turns of the duplicate-removal
\* loop go through.
LEMMA UncoveredLoop ==
  ASSUME NEW q, NEW p, PEnd(p) \in Nat
  PROVE  \E f : /\ \A k \in 0 .. PEnd(p) :
                      f[k] = IF k = 0 THEN Whole(p) ELSE OverlapAt(q, f[k - 1], PEnd(p) - k)
                /\ Uncovered(q, p) = f[PEnd(p)]
<1>. DEFINE N == PEnd(p)
            T == {m \in 0 .. N : \E f : f = [k \in 0 .. m |->
                   IF k = 0 THEN Whole(p) ELSE OverlapAt(q, f[k - 1], PEnd(p) - k)]}
<1>1. 0 \in T
  <2>. DEFINE f == [k \in 0 .. 0 |-> Whole(p)]
  <2>1. \A k \in 0 .. 0 : k = 0
    OBVIOUS
  <2>2. f = [k \in 0 .. 0 |-> IF k = 0 THEN Whole(p) ELSE OverlapAt(q, f[k - 1], PEnd(p) - k)]
    BY <2>1, Zenon
  <2>3. 0 \in 0 .. N
    OBVIOUS
  <2>. QED  BY <2>2, <2>3, Zenon
<1>2. ASSUME NEW m \in 0 .. N - 1, m \in T PROVE m + 1 \in T
  <2>1. PICK f : f = [k \in 0 .. m |->
                   IF k = 0 THEN Whole(p) ELSE OverlapAt(q, f[k - 1], PEnd(p) - k)]
    BY <1>2
  <2>. DEFINE g == [k \in 0 .. m + 1 |-> IF k = m + 1 THEN OverlapAt(q, f[m], PEnd(p) - (m + 1)) ELSE f[k]]
  <2>2. g = [k \in 0 .. m + 1 |-> IF k = 0 THEN Whole(p) ELSE OverlapAt(q, g[k - 1], PEnd(p) - k)]
    <3>1. ASSUME NEW k \in 0 .. m + 1
          PROVE  g[k] = IF k = 0 THEN Whole(p) ELSE OverlapAt(q, g[k - 1], PEnd(p) - k)
      <4>1. CASE k = m + 1
        <5>1. k # 0 /\ k - 1 = m /\ m \in 0 .. m + 1 /\ m # m + 1
          BY <4>1, SMTT(40)
        <5>2. g[k] = OverlapAt(q, f[m], PEnd(p) - k) /\ g[m] = f[m]
          BY <4>1, <5>1, SMTT(40)
        <5>. QED  BY <5>1, <5>2
      <4>2. CASE k # m + 1 /\ k # 0
        <5>1. k \in 0 .. m /\ k - 1 \in 0 .. m /\ k - 1 \in 0 .. m + 1 /\ k - 1 # m + 1
          BY <4>2
        <5>2. g[k] = f[k] /\ g[k - 1] = f[k - 1]
          BY <4>2, <5>1, SMTT(40)
        <5>3. f[k] = OverlapAt(q, f[k - 1], PEnd(p) - k)
          BY <2>1, <4>2, <5>1, SMTT(30)
        <5>. QED  BY <4>2, <5>2, <5>3, SMTT(40)
      <4>3. CASE k = 0
        <5>1. k \in 0 .. m /\ k # m + 1
          BY <4>3, SMTT(40)
        <5>2. g[k] = f[k] /\ f[k] = Whole(p)
          BY <2>1, <4>3, <5>1, SMTT(40)
        <5>. QED  BY <4>3, <5>2
      <4>. QED  BY <4>1, <4>2, <4>3, SMTT(30)
    <3>. QED  BY <3>1, SMTT(30)
  <2>3. m + 1 \in 0 .. N
    OBVIOUS
  <2>. QED  BY <2>2, <2>3, ZenonT(40)
<1>3. N \in T
  <2>1. \A m \in 0 .. N : m \in T
    <3>. HIDE DEF T
    <3>. QED  BY <1>1, <1>2, SetInduction, SMTT(40)
  <2>. QED  BY <2>1
<1>. DEFINE h == CHOOSE f : f = [k \in 0 .. N |->
                   IF k = 0 THEN Whole(p) ELSE OverlapAt(q, f[k - 1], PEnd(p) - k)]
<1>4. h = [k \in 0 .. N |-> IF k = 0 THEN Whole(p) ELSE OverlapAt(q, h[k - 1], PEnd(p) - k)]
  BY <1>3, SMTT(30)
<1>5. Uncovered(q, p) = h[N]
  BY DEF Uncovered, Whole, PEnd
<1>. HIDE DEF h
<1>6. \A k \in 0 .. N : h[k] = IF k = 0 THEN Whole(p) ELSE OverlapAt(q, h[k - 1], PEnd(p) - k)
  BY <1>4
<1>. QED  BY <1>5, <1>6

\* StorePieces is the last of the states that pushing the parts one by one
\* goes through.
LEMMA StorePiecesLoop ==
  ASSUME NEW q, NEW u, Len(u.pieces) \in Nat
  PROVE  \E f : /\ \A k \in 0 .. Len(u.pieces) :
                      f[k] = IF k = 0 THEN StoreLowest(q, u) ELSE PushPiece(f[k - 1], u.pieces[k])
                /\ StorePieces(q, u) = f[Len(u.pieces)]
<1>. DEFINE N == Len(u.pieces)
            T == {m \in 0 .. N : \E f : f = [k \in 0 .. m |->
                   IF k = 0 THEN StoreLowest(q, u) ELSE PushPiece(f[k - 1], u.pieces[k])]}
<1>1. 0 \in T
  <2>. DEFINE f == [k \in 0 .. 0 |-> StoreLowest(q, u)]
  <2>1. \A k \in 0 .. 0 : k = 0
    OBVIOUS
  <2>2. f = [k \in 0 .. 0 |-> IF k = 0 THEN StoreLowest(q, u) ELSE PushPiece(f[k - 1], u.pieces[k])]
    BY <2>1, Zenon
  <2>3. 0 \in 0 .. N
    BY SMTT(40)
  <2>. QED  BY <2>2, <2>3, Zenon
<1>2. ASSUME NEW m \in 0 .. N - 1, m \in T PROVE m + 1 \in T
  <2>1. PICK f : f = [k \in 0 .. m |->
                   IF k = 0 THEN StoreLowest(q, u) ELSE PushPiece(f[k - 1], u.pieces[k])]
    BY <1>2
  <2>. DEFINE g == [k \in 0 .. m + 1 |-> IF k = m + 1 THEN PushPiece(f[m], u.pieces[(m + 1)]) ELSE f[k]]
  <2>2. g = [k \in 0 .. m + 1 |-> IF k = 0 THEN StoreLowest(q, u) ELSE PushPiece(g[k - 1], u.pieces[k])]
    <3>1. ASSUME NEW k \in 0 .. m + 1
          PROVE  g[k] = IF k = 0 THEN StoreLowest(q, u) ELSE PushPiece(g[k - 1], u.pieces[k])
      <4>1. CASE k = m + 1
        <5>1. k # 0 /\ k - 1 = m /\ m \in 0 .. m + 1 /\ m # m + 1
          BY <4>1, SMTT(40)
        <5>2. g[k] = PushPiece(f[m], u.pieces[k]) /\ g[m] = f[m]
          BY <4>1, <5>1, SMTT(30)
        <5>. QED  BY <5>1, <5>2, SMTT(40)
      <4>2. CASE k # m + 1 /\ k # 0
        <5>1. k \in 0 .. m /\ k - 1 \in 0 .. m /\ k - 1 \in 0 .. m + 1 /\ k - 1 # m + 1
          BY <4>2, SMTT(40)
        <5>2. g[k] = f[k] /\ g[k - 1] = f[k - 1]
          BY <4>2, <5>1, SMTT(40)
        <5>3. f[k] = PushPiece(f[k - 1], u.pieces[k])
          BY <2>1, <4>2, <5>1, SMTT(40)
        <5>. QED  BY <4>2, <5>2, <5>3, SMTT(40)
      <4>3. CASE k = 0
        <5>1. k \in 0 .. m /\ k # m + 1
          BY <4>3, SMTT(40)
        <5>2. g[k] = f[k] /\ f[k] = StoreLowest(q, u)
          BY <2>1, <4>3, <5>1, SMTT(40)
        <5>. QED  BY <4>3, <5>2
      <4>. QED  BY <4>1, <4>2, <4>3
    <3>. QED  BY <3>1, SMTT(30)
  <2>3. m + 1 \in 0 .. N
    OBVIOUS
  <2>. QED  BY <2>2, <2>3, ZenonT(40)
<1>3. N \in T
  <2>1. \A m \in 0 .. N : m \in T
    <3>. HIDE DEF T
    <3>. QED  BY <1>1, <1>2, SetInduction, SMTT(30)
  <2>. QED  BY <2>1
<1>. DEFINE h == CHOOSE f : f = [k \in 0 .. N |->
                   IF k = 0 THEN StoreLowest(q, u) ELSE PushPiece(f[k - 1], u.pieces[k])]
<1>4. h = [k \in 0 .. N |-> IF k = 0 THEN StoreLowest(q, u) ELSE PushPiece(h[k - 1], u.pieces[k])]
  BY <1>3, SMTT(30)
<1>5. StorePieces(q, u) = h[N]
  BY DEF StorePieces, StoreLowest
<1>. HIDE DEF h
<1>6. \A k \in 0 .. N : h[k] = IF k = 0 THEN StoreLowest(q, u) ELSE PushPiece(h[k - 1], u.pieces[k])
  BY <1>4, Zenon
<1>. QED  BY <1>5, <1>6

\* The duplicate-removal loop leaves parts of P that overlap no waiting
\* substring, and loses the end of P only to one.
LEMMA UncoveredParts ==
  ASSUME NEW q, NEW d, Sound(q, d), NEW P \in Pieces, PEnd(P) \in Nat, P.index < PEnd(P),
         P.data = StreamBytes(P.index, PEnd(P))
  PROVE  Remaining(q, P, Uncovered(q, P), 0) /\ EndKept(q, P, Uncovered(q, P), 0)
<1>. DEFINE N == PEnd(P)
<1>1. PICK f : /\ \A k \in 0 .. N : f[k] = IF k = 0 THEN Whole(P) ELSE OverlapAt(q, f[k - 1], N - k)
               /\ Uncovered(q, P) = f[N]
  BY UncoveredLoop
<1>2. N \in Nat /\ P.index \in Nat /\ P.eof \in BOOLEAN
  BY SMTT(40) DEF Pieces
<1>3. \A i \in DOMAIN q.substrs : i \in Nat /\ EndAt(q, i) \in Nat /\ i <= EndAt(q, i)
  BY ReassemblyAssumption, SMTT(40) DEF Sound
<1>. DEFINE Left(acc, l) == Remaining(q, P, acc, l) /\ EndKept(q, P, acc, l)
            T == {k \in 0 .. N : Left(f[k], N - k)}
<1>4. 0 \in T
  <2>1. 0 \in 0 .. N /\ f[0] = Whole(P) /\ N - 0 = N
    BY <1>1, <1>2
  <2>2. /\ Whole(P).p = P /\ Whole(P).covered = FALSE /\ Whole(P).pieces = << >>
        /\ {"p", "pieces", "covered"} \subseteq DOMAIN Whole(P)
    BY Zenon DEF Whole
  <2>3. PartOf(P, P)
    BY <1>2, SMTT(40) DEF PartOf
  <2>4. ClearFrom(q, P, N)
    BY <1>2, <1>3, SMTT(30) DEF ClearFrom
  <2>5. Whole(P).pieces \in Seq(Pieces) /\ \A m \in 1 .. Len(Whole(P).pieces) : FALSE
    BY <2>2
  <2>6. Remaining(q, P, Whole(P), N)
    BY <2>2, <2>3, <2>4, <2>5, ZenonT(40) DEF Remaining
  <2>7. EndKept(q, P, Whole(P), N)
    BY <2>2, Zenon DEF EndKept
  <2>. QED  BY <2>1, <2>6, <2>7, Zenon
<1>5. ASSUME NEW k \in 0 .. N - 1, k \in T PROVE k + 1 \in T
  <2>. DEFINE i == N - (k + 1)
  <2>1. k + 1 \in 0 .. N /\ k + 1 # 0 /\ (k + 1) - 1 = k /\ i \in Nat /\ i + 1 = N - k
    BY <1>2, SMTT(40)
  <2>2. f[k + 1] = OverlapAt(q, f[k], i)
    BY <1>1, <2>1, SMTT(40)
  <2>3. Remaining(q, P, f[k], i + 1) /\ EndKept(q, P, f[k], i + 1)
    BY <1>5, <2>1
  <2>. HIDE DEF i
  <2>4. CASE i \in DOMAIN q.substrs
    <3>1. /\ Remaining(q, P, Overlap(f[k], i, EndAt(q, i) - 1), i)
          /\ EndKept(q, P, Overlap(f[k], i, EndAt(q, i) - 1), i)
      BY <1>2, <2>3, <2>4, OverlapKeeps, OverlapKeepsEnd, ZenonT(40)
    <3>2. i + Len(q.substrs[i].data) - 1 = EndAt(q, i) - 1
      <4>. DEFINE l == Len(q.substrs[i].data)
      <4>1. l \in Int
        <5>1. /\ q.substrs[i].data = StreamBytes(i, EndAt(q, i)) /\ i \in Nat /\ EndAt(q, i) \in Nat
              /\ i <= EndAt(q, i)
          BY <1>3, <2>4 DEF Sound
        <5>2. l = EndAt(q, i) - i
          BY <5>1, StreamBytesType, ZenonT(40)
        <5>. QED  BY <5>1, <5>2, SMTT(30)
      <4>. HIDE DEF l
      <4>2. EndAt(q, i) = i + l
        BY DEF EndAt, l
      <4>3. i + l - 1 = (i + l) - 1
        BY <2>1, <4>1
      <4>. QED  BY <4>2, <4>3, SMTT(30) DEF l
    <3>3. f[k + 1] = Overlap(f[k], i, EndAt(q, i) - 1)
      BY <2>2, <2>4, <3>2, ZenonT(40) DEF OverlapAt
    <3>. QED  BY <2>1, <3>1, <3>3, ZenonT(40) DEF i
  <2>5. CASE i \notin DOMAIN q.substrs
    <3>1. f[k + 1] = f[k]
      BY <2>2, <2>5, ZenonT(40) DEF OverlapAt
    <3>2. \A j \in DOMAIN q.substrs : j >= i => j >= i + 1
      BY <1>3, <2>1, <2>5
    <3>3. \A p : ClearFrom(q, p, i + 1) => ClearFrom(q, p, i)
      BY <3>2, Zenon DEF ClearFrom
    <3>4. Remaining(q, P, f[k], i)
      BY <2>3, <3>3, ZenonT(40) DEF Remaining
    <3>5. EndKept(q, P, f[k], i)
      <4>1. \A j \in DOMAIN q.substrs : i + 1 <= j => i <= j
        BY <1>3, <2>1, SMTT(30)
      <4>2. Waits(q, PEnd(P) - 1, i + 1) => Waits(q, PEnd(P) - 1, i)
        BY <4>1, ZenonT(30) DEF Waits
      <4>. QED  BY <2>3, <4>2, ZenonT(30) DEF EndKept
    <3>. QED  BY <2>1, <3>1, <3>4, <3>5, ZenonT(40) DEF i
  <2>. QED  BY <2>4, <2>5, SMTT(40)
<1>6. N \in T
  <2>1. \A k \in 0 .. N : k \in T
    <3>. HIDE DEF T, N
    <3>. QED  BY <1>2, <1>4, <1>5, SetInduction, SMTT(40)
  <2>. QED  BY <1>2, <2>1, SMTT(40)
<1>7. N - N = 0
  BY <1>2, SMTT(30)
<1>. QED  BY <1>1, <1>6, <1>7, Zenon

\* Such a part is clear.
LEMMA PartClear ==
  ASSUME NEW q, NEW P, NEW p, PartOf(P, p), ClearFrom(q, p, 0),
         NEW d, Sound(q, d), q.output.written <= P.index, P.index \in Nat,
         PEnd(P) \in Nat, PEnd(P) <= StreamLen
  PROVE  Clear(q, p)
<1>1. /\ p.index \in Nat /\ PEnd(p) \in Nat /\ P.index <= p.index /\ p.index < PEnd(p)
      /\ PEnd(p) <= PEnd(P) /\ p.data = StreamBytes(p.index, PEnd(p)) /\ p.eof \in BOOLEAN
  BY SMTT(40) DEF PartOf, Pieces
<1>2. \A i \in DOMAIN q.substrs : i \in Nat
  BY ReassemblyAssumption, SMTT(30) DEF Sound
<1>3. \A i \in DOMAIN q.substrs : EndAt(q, i) <= p.index \/ PEnd(p) <= i
  BY <1>2, SMTT(30) DEF ClearFrom
<1>4. q.output.written \in Nat /\ StreamLen \in Nat
  BY ReassemblyAssumption, SMTT(30) DEF Sound
<1>5. PEnd(p) \in p.index .. StreamLen /\ q.output.written <= p.index
  BY <1>1, <1>4, SMTT(30)
<1>. QED  BY <1>1, <1>3, <1>5, SMTT(30) DEF Clear

\* Dropping the bytes already written leaves the later bytes of the stream.
LEMMA UnwrittenPiece ==
  ASSUME NEW q, NEW d, Sound(q, d), NEW i \in Nat, NEW j \in Nat, i <= j, NEW is_eof \in BOOLEAN,
         ~(i < q.output.written /\ j <= q.output.written)
  PROVE  LET P == Unwritten(q, StreamBytes(i, j), i, is_eof)
         IN  /\ P \in Pieces /\ PEnd(P) = j /\ P.index <= j /\ P.eof = is_eof
             /\ P.data = StreamBytes(P.index, j)
             /\ q.output.written <= P.index /\ i <= P.index
             /\ P.index = j => i = j
<1>. DEFINE w == q.output.written
            first == Greater(i, w)
            P == Unwritten(q, StreamBytes(i, j), i, is_eof)
<1>1. w \in Nat
  BY ReassemblyAssumption, SMTT(30) DEF Sound
<1>2. /\ first \in Nat /\ first <= j /\ w <= first /\ i <= first
      /\ first - i \in 0 .. j - i /\ i + (first - i) = first
      /\ first = j => i = j
  BY <1>1 DEF Greater
<1>3. P = [index |-> first, data |-> Following(StreamBytes(i, j), first - i), eof |-> is_eof]
  BY Zenon DEF Unwritten
<1>. HIDE DEF first
<1>4. Following(StreamBytes(i, j), first - i) = StreamBytes(first, j)
  BY <1>2, FollowingBytes
<1>5. P = [index |-> first, data |-> StreamBytes(first, j), eof |-> is_eof]
  BY <1>3, <1>4, ZenonT(40)
<1>. HIDE DEF P
<1>6. P.index = first /\ P.data = StreamBytes(first, j) /\ P.eof = is_eof
  BY <1>5, SMTT(40)
<1>7. StreamBytes(first, j) \in Seq(Nat) /\ Len(StreamBytes(first, j)) = j - first
  BY <1>2, StreamBytesType, ZenonT(40)
<1>8. P \in Pieces
  BY <1>2, <1>5, <1>7, Zenon DEF Pieces
<1>9. PEnd(P) = j
  <2>1. PEnd(P) = first + (j - first)
    BY <1>6, <1>7, Zenon DEF PEnd
  <2>. QED  BY <1>2, <2>1
<1>10. /\ P \in Pieces /\ PEnd(P) = j /\ P.index <= j /\ P.eof = is_eof
       /\ P.data = StreamBytes(P.index, j)
       /\ w <= P.index /\ i <= P.index
       /\ P.index = j => i = j
  BY <1>2, <1>6, <1>8, <1>9, SMTT(30)
<1>. QED  BY <1>10, SMTT(30) DEF P, w

-----------------------------------------------------------------------------
\* The stream indices of the waiting bytes.
Bytes(q) == {x \in 0 .. StreamLen :
               \E i \in DOMAIN q.substrs : i <= x /\ x < EndAt(q, i)}

\* What holds besides as long as every push stays within the window: all that
\* waits fits in the window, the recorded size is exact, and eof marks only
\* the end of the stream.
Orderly(q) ==
  /\ \A i \in DOMAIN q.substrs :
       /\ EndAt(q, i) <= WindowEnd(q)
       /\ q.substrs[i].eof => EndAt(q, i) = StreamLen
  /\ q.size = Cardinality(Bytes(q))
  /\ q.output.input_end => q.output.written = StreamLen

\* The window in numbers.
LEMMA WindowFacts ==
  ASSUME NEW q, NEW d, Sound(q, d)
  PROVE  /\ WindowEnd(q) \in Nat /\ remaining_capacity(q.output) \in Nat
         /\ Len(q.output.buffer) \in Nat /\ q.output.written \in Nat
         /\ q.output.written <= StreamLen /\ StreamLen \in Nat /\ Capacity \in Nat
         /\ Len(q.output.buffer) <= Capacity
         /\ remaining_capacity(q.output) = Capacity - Len(q.output.buffer)
         /\ WindowEnd(q) = q.output.written + (Capacity - Len(q.output.buffer))
<1>1. /\ q.output.buffer \in Seq(Nat) /\ q.output.capacity = Capacity
      /\ Len(q.output.buffer) <= Capacity /\ q.output.written \in 0 .. StreamLen
      /\ StreamLen \in Nat /\ Capacity \in Nat
  BY ReassemblyAssumption, SMTT(40) DEF Sound
<1>2. Len(q.output.buffer) \in Nat
  BY <1>1, LenOfSeq, SMTT(40)
<1>3. remaining_capacity(q.output) = Capacity - Len(q.output.buffer)
  BY <1>1 DEF remaining_capacity
<1>4. WindowEnd(q) = q.output.written + (Capacity - Len(q.output.buffer))
  BY <1>3, SMTT(30) DEF WindowEnd
<1>. QED  BY <1>1, <1>2, <1>3, <1>4, SMTT(30)

\* The piece p lies within the window, carries eof only if it reaches the end
\* of the stream, and replaces no waiting byte and no eof but by another.
InWindow(q, p) ==
  /\ PEnd(p) <= WindowEnd(q)
  /\ p.eof => PEnd(p) = StreamLen
  /\ p.index \in DOMAIN q.substrs =>
       EndAt(q, p.index) <= p.index /\ (q.substrs[p.index].eof => p.eof)

\* A part of a piece within the window is within the window.
LEMMA PartInWindow ==
  ASSUME NEW q, NEW P, NEW p, PartOf(P, p), Clear(q, p), NEW d, Sound(q, d),
         Orderly(q), PEnd(P) \in Nat, PEnd(P) <= StreamLen, PEnd(P) <= WindowEnd(q),
         P.eof => PEnd(P) = StreamLen
  PROVE  InWindow(q, p)
<1>1. /\ p.index \in Nat /\ PEnd(p) \in Nat /\ p.index < PEnd(p)
      /\ PEnd(p) <= PEnd(P) /\ p.eof = (P.eof /\ PEnd(p) = PEnd(P))
      /\ p.eof \in BOOLEAN
  BY SMTT(30) DEF PartOf, Pieces
<1>2. WindowEnd(q) \in Nat /\ StreamLen \in Nat
  BY WindowFacts, SMTT(40)
<1>3. PEnd(p) <= WindowEnd(q)
  BY <1>1, <1>2
<1>4. p.eof => PEnd(p) = StreamLen
  BY <1>1, Zenon
<1>5. ASSUME p.index \in DOMAIN q.substrs
      PROVE  EndAt(q, p.index) <= p.index /\ ~q.substrs[p.index].eof
  <2>1. EndAt(q, p.index) <= p.index \/ PEnd(p) <= p.index
    BY <1>5, SMTT(30) DEF Clear
  <2>2. EndAt(q, p.index) <= p.index
    BY <1>1, <2>1, SMTT(30)
  <2>3. p.index < StreamLen
    BY <1>1, <1>2, SMTT(30)
  <2>4. EndAt(q, p.index) # StreamLen
    BY <1>1, <1>2, <2>2, <2>3, SMTT(30)
  <2>. QED  BY <1>5, <2>2, <2>4, Zenon DEF Orderly
<1>. QED  BY <1>3, <1>4, <1>5, SMTT(30) DEF InWindow

\* The condition of the writing loop.
More(q) == q.output.written \in DOMAIN q.substrs /\ remaining_capacity(q.output) > 0

\* The next byte of the stream is not among those that wait.
Unstuck(q) == q.output.written \in DOMAIN q.substrs => q.substrs[q.output.written].data = << >>

\* The end of the stream is known: the output has ended or an eof waits.
Marked(q) == q.output.input_end \/ \E i \in DOMAIN q.substrs : q.substrs[i].eof

\* Where the writing loop stops the next byte does not wait.
LEMMA NoMoreUnstuck ==
  ASSUME NEW q, NEW d, Sound(q, d), Orderly(q), ~More(q)
  PROVE  Unstuck(q)
<1>1. SUFFICES ASSUME q.output.written \in DOMAIN q.substrs
               PROVE  q.substrs[q.output.written].data = << >>
  BY SMTT(30) DEF Unstuck
<1>. DEFINE w == q.output.written
            room == remaining_capacity(q.output)
<1>2. room \in Nat /\ WindowEnd(q) = w + room /\ w \in Nat
  BY WindowFacts, SMTT(30) DEF WindowEnd
<1>3. ~(room > 0)
  BY <1>1, SMTT(30) DEF More
<1>4. EndAt(q, w) <= WindowEnd(q) /\ EndAt(q, w) \in w .. StreamLen
      /\ q.substrs[w].data = StreamBytes(w, EndAt(q, w))
  BY <1>1, SMTT(30) DEF Orderly, Sound
<1>. HIDE DEF w, room
<1>5. EndAt(q, w) = w
  BY <1>2, <1>3, <1>4, ReassemblyAssumption, SMTT(30)
<1>6. StreamBytes(w, w) = << >>
  BY <1>2, StreamBytesEmpty
<1>. QED  BY <1>4, <1>5, <1>6, SMTT(30) DEF w

-----------------------------------------------------------------------------
\* What pop_output changes of a stream.
LEMMA PopFields ==
  ASSUME NEW s, {"capacity", "buffer", "written", "input_end", "error"} \subseteq DOMAIN s, NEW len
  PROVE  /\ {"capacity", "buffer", "written", "input_end", "error"} \subseteq DOMAIN pop_output(s, len)
         /\ pop_output(s, len).capacity = s.capacity
         /\ pop_output(s, len).input_end = s.input_end
         /\ pop_output(s, len).written = s.written
         /\ pop_output(s, len).buffer =
              SubSeq(s.buffer, Lesser(len, Len(s.buffer)) + 1, Len(s.buffer))
  BY Zenon DEF pop_output

\* q2 is q once the application has read n bytes.
Taken(q, q2, n) ==
  /\ {"output", "substrs", "size"} \subseteq DOMAIN q2
  /\ q2.substrs = q.substrs /\ q2.size = q.size
  /\ {"capacity", "buffer", "written", "input_end", "error"} \subseteq DOMAIN q2.output
  /\ q2.output.capacity = q.output.capacity
  /\ q2.output.input_end = q.output.input_end
  /\ q2.output.written = q.output.written
  /\ q2.output.buffer = SubSeq(q.output.buffer, n + 1, Len(q.output.buffer))

\* Reading keeps Sound and, as it opens the window, what orderly pushes keep.
LEMMA TakenSound ==
  ASSUME NEW q, NEW q2, NEW d, Sound(q, d), NEW n \in 0 .. Len(q.output.buffer), Taken(q, q2, n)
  PROVE  /\ Sound(q2, d \o SubSeq(q.output.buffer, 1, n))
         /\ Orderly(q) => Orderly(q2)
         /\ Unstuck(q) => Unstuck(q2)
         /\ Marked(q2) <=> Marked(q)
<1>. DEFINE s == q.output.buffer
            h == SubSeq(s, 1, n)
            t == SubSeq(s, n + 1, Len(s))
<1>1. /\ s \in Seq(Nat) /\ Len(s) \in Nat /\ Len(s) <= Capacity /\ Capacity \in Nat
      /\ d \in Seq(Nat) /\ d \o s = StreamBytes(0, q.output.written)
  BY WindowFacts, ZenonT(40) DEF Sound
<1>2. /\ h \in Seq(Nat) /\ t \in Seq(Nat) /\ Len(t) = Len(s) - n /\ s = h \o t
  <2>1. s \in Seq(Nat) /\ n \in 0 .. Len(s)
    BY <1>1
  <2>. HIDE DEF s
  <2>. QED  BY <2>1, SplitSeq, ZenonT(30)
<1>3. q2.output.buffer = t /\ Len(t) <= Len(s) /\ Len(t) \in Nat
  BY <1>1, <1>2 DEF Taken
<1>4. d \o h \in Seq(Nat) /\ (d \o h) \o t = StreamBytes(0, q.output.written)
  <2>. HIDE DEF s, h, t
  <2>1. d \o h \in Seq(Nat)
    BY <1>1, <1>2, Concatenation, SMTT(40)
  <2>2. (d \o h) \o t = d \o (h \o t)
    <3>1. d \in Seq(Nat) /\ h \in Seq(Nat) /\ t \in Seq(Nat)
      BY <1>1, <1>2, SMTT(40)
    <3>. QED  BY <3>1, JoinBytes, ZenonT(40)
  <2>3. d \o (h \o t) = d \o s
    BY <1>2, Zenon
  <2>4. (d \o h) \o t = d \o s
    BY <2>2, <2>3, ZenonT(40)
  <2>. QED  BY <1>1, <2>1, <2>4, ZenonT(30)
<1>5. Len(t) <= Capacity
  BY <1>1, <1>2, <1>3, SMTT(40)
<1>6. \A i : EndAt(q2, i) = EndAt(q, i)
  BY Zenon DEF Taken, EndAt
<1>. HIDE DEF h, t, s
<1>7. Sound(q2, d \o h)
  <2>1. /\ {"output", "substrs", "size"} \subseteq DOMAIN q2
        /\ {"capacity", "buffer", "written", "input_end", "error"} \subseteq DOMAIN q2.output
        /\ q2.substrs = q.substrs /\ q2.size = q.size
        /\ q2.output.capacity = q.output.capacity /\ q2.output.input_end = q.output.input_end
        /\ q2.output.written = q.output.written
    BY Zenon DEF Taken
  <2>2. /\ q.output.capacity = Capacity /\ q.output.input_end \in BOOLEAN
        /\ q.output.written \in 0 .. StreamLen /\ q.size \in 0 .. SizeMod - 1
        /\ DOMAIN q.substrs \subseteq 0 .. StreamLen
        /\ \A i \in DOMAIN q.substrs :
             /\ q.output.written <= i
             /\ EndAt(q, i) \in i .. StreamLen
             /\ q.substrs[i].data = StreamBytes(i, EndAt(q, i))
             /\ q.substrs[i].eof \in BOOLEAN
        /\ \A i, j \in DOMAIN q.substrs : i < j => EndAt(q, i) <= j
    BY Zenon DEF Sound
  <2>3. \A i, j \in DOMAIN q2.substrs : i < j => EndAt(q2, i) <= j
    BY <1>6, <2>1, <2>2, ZenonT(40)
  <2>4. \A i \in DOMAIN q2.substrs :
             /\ q2.output.written <= i
             /\ EndAt(q2, i) \in i .. StreamLen
             /\ q2.substrs[i].data = StreamBytes(i, EndAt(q2, i))
             /\ q2.substrs[i].eof \in BOOLEAN
    BY <1>6, <2>1, <2>2, ZenonT(40)
  <2>5. q2.output.buffer \in Seq(Nat) /\ Len(q2.output.buffer) <= Capacity
        /\ (d \o h) \o q2.output.buffer = StreamBytes(0, q2.output.written)
    BY <1>2, <1>3, <1>4, <1>5, <2>1, ZenonT(30)
  <2>. QED  BY <1>4, <2>1, <2>2, <2>3, <2>4, <2>5, ZenonT(40) DEF Sound
<1>8. ASSUME Orderly(q) PROVE Orderly(q2)
  <2>1. WindowEnd(q) \in Nat /\ WindowEnd(q2) \in Nat /\ WindowEnd(q) <= WindowEnd(q2)
    <3>1. /\ WindowEnd(q) = q.output.written + (Capacity - Len(s)) /\ WindowEnd(q) \in Nat
          /\ q.output.written \in Nat
      BY WindowFacts DEF s
    <3>2. WindowEnd(q2) = q.output.written + (Capacity - Len(t)) /\ WindowEnd(q2) \in Nat
      <4>1. WindowEnd(q2) = q2.output.written + (Capacity - Len(q2.output.buffer)) /\ WindowEnd(q2) \in Nat
        BY <1>7, WindowFacts, ZenonT(40)
      <4>2. q2.output.written = q.output.written
        BY DEF Taken
      <4>. QED  BY <1>3, <4>1, <4>2, ZenonT(40)
    <3>. QED  BY <1>1, <1>3, <3>1, <3>2, SMTT(30)
  <2>2. /\ q2.substrs = q.substrs /\ q2.size = q.size
        /\ q2.output.written = q.output.written /\ q2.output.input_end = q.output.input_end
    BY ZenonT(40) DEF Taken
  <2>3. Bytes(q2) = Bytes(q)
    BY <1>6, <2>2, SMTT(30) DEF Bytes
  <2>4. \A i \in DOMAIN q.substrs : EndAt(q, i) \in Nat
    BY ReassemblyAssumption DEF Sound
  <2>5. \A i \in DOMAIN q2.substrs :
          /\ EndAt(q2, i) <= WindowEnd(q2)
          /\ q2.substrs[i].eof => EndAt(q2, i) = StreamLen
    <3>1. \A i \in DOMAIN q.substrs :
            /\ EndAt(q, i) <= WindowEnd(q)
            /\ q.substrs[i].eof => EndAt(q, i) = StreamLen
      BY <1>8, SMTT(40) DEF Orderly
    <3>2. \A i \in DOMAIN q.substrs : EndAt(q, i) <= WindowEnd(q2)
      BY <2>1, <2>4, <3>1, SMTT(30)
    <3>. QED  BY <1>6, <2>2, <3>1, <3>2, ZenonT(30)
  <2>6. /\ q2.size = Cardinality(Bytes(q2))
        /\ q2.output.input_end => q2.output.written = StreamLen
    BY <1>8, <2>2, <2>3, ZenonT(40) DEF Orderly
  <2>. QED  BY <2>5, <2>6, SMTT(30) DEF Orderly
<1>9. Unstuck(q) => Unstuck(q2)
  BY Zenon DEF Unstuck, Taken
<1>10. Marked(q2) <=> Marked(q)
  BY Zenon DEF Marked, Taken
<1>. QED  BY <1>7, <1>8, <1>9, <1>10, SMTT(30) DEF h, s
=============================================================================
