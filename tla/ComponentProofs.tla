--------------------------- MODULE ComponentProofs --------------------------
(***************************************************************************)
(* Proofs about three components by themselves: what wrap() and unwrap()   *)
(* recover of a position in a stream (SequenceTracking), what the network  *)
(* interface keeps of its maps, its cache and the pace of its requests     *)
(* (ARPProcess), and where the router sends a datagram (Router).           *)
(***************************************************************************)
EXTENDS SequenceTracking, ARPProcess, Router, Integers, TLAPS, WellFoundedInduction

(***************************************************************************)
(* Facts about sequences.  The elementary ones are known to the SMT        *)
(* backend; they are stated here to be cited where Zenon does the rest.    *)
(***************************************************************************)


\* A sequence is a function on 1 .. its length.
LEMMA LenOfSeq ==
  ASSUME NEW S, NEW s \in Seq(S)
  PROVE  Len(s) \in Nat /\ DOMAIN s = 1 .. Len(s) /\ s \in [1 .. Len(s) -> S]
  OBVIOUS

\* Only the empty sequence has length 0.
LEMMA EmptySeqLen ==
  ASSUME NEW S
  PROVE  /\ << >> \in Seq(S) /\ Len(<< >>) = 0
         /\ \A s \in Seq(S) : s # << >> => Len(s) \in Nat \ {0}
  OBVIOUS

\* An element appended.
LEMMA Appended ==
  ASSUME NEW S, NEW s \in Seq(S), NEW e \in S
  PROVE  /\ Append(s, e) \in Seq(S) /\ Append(s, e) # << >>
         /\ Len(Append(s, e)) = Len(s) + 1
         /\ \A i \in 1 .. Len(s) : Append(s, e)[i] = s[i]
         /\ Append(s, e)[Len(s) + 1] = e
         /\ Append(s, e) = s \o <<e>>
  OBVIOUS

\* The first element and the others.
LEMMA HeadAndTail ==
  ASSUME NEW S, NEW s \in Seq(S), s # << >>
  PROVE  /\ Head(s) \in S /\ Tail(s) \in Seq(S) /\ Len(Tail(s)) = Len(s) - 1
         /\ \A i \in 1 .. Len(Tail(s)) : Tail(s)[i] = s[i + 1]
  OBVIOUS

-----------------------------------------------------------------------------

-----------------------------------------------------------------------------
(***************************************************************************)
(* Positions in a stream (SequenceTracking): unwrap() finds the closest    *)
(* candidate, and no epoch is ever lost, for every size of the number      *)
(* space (libsponge/wrapping_integers.cc).                                 *)
(***************************************************************************)
(* How far n is ahead of isn: every candidate is this plus k epochs. *)
Offset(n, isn0) == IF n >= isn0 THEN n - isn0 ELSE SeqnoMod + n - isn0

LEMMA OffsetType ==
  ASSUME NEW n \in WrappingInt32, NEW i \in WrappingInt32
  PROVE  Offset(n, i) \in Nat /\ Offset(n, i) < SeqnoMod
BY SeqnoModAssumption DEF WrappingInt32, Offset

(* The k-th candidate. *)
LEMMA CandidateIs ==
  ASSUME NEW n \in WrappingInt32, NEW i \in WrappingInt32, NEW k \in Nat
  PROVE  /\ curr_val(n, i, k) = k * SeqnoMod + Offset(n, i)
         /\ k * SeqnoMod \in Nat
BY SeqnoModAssumption, SMT DEF WrappingInt32, Offset, curr_val

(* Multiples of the number space are at least one of it apart. *)
LEMMA MultiplesApart ==
  ASSUME NEW M \in Nat \ {0}, NEW j \in Int, NEW k \in Int, j < k
  PROVE  j * M + M <= k * M
<1>1. (k - j - 1) * M >= 0
  BY SMT
<1>2. (k - j - 1) * M = k * M - j * M - M
  BY SMT
<1> QED
  BY <1>1, <1>2, SMT

(* The remainder is determined by the division. *)
LEMMA RemainderIs ==
  ASSUME NEW M \in Nat \ {0}, NEW k \in Int, NEW r \in Nat, r < M
  PROVE  (k * M + r) % M = r
<1> DEFINE x == k * M + r
<1>1. x \in Int /\ x = M * (x \div M) + (x % M) /\ x % M \in 0 .. M - 1 /\ x \div M \in Int
  BY SMT
<1> DEFINE q == x \div M
<1>2. q * M = M * q
  BY <1>1, SMT
<1>3. ~(q < k)
  BY <1>1, <1>2, MultiplesApart, SMTT(30)
<1>4. ~(k < q)
  BY <1>1, <1>2, MultiplesApart, SMTT(30)
<1> QED
  BY <1>1, <1>2, <1>3, <1>4, SMT

(* Where the scan starts: no later than one epoch before the checkpoint's. *)
LEMMA ScanStart ==
  ASSUME NEW c \in Nat
  PROVE  /\ init_k(c) \in Nat
         /\ c < (init_k(c) + 2) * SeqnoMod
         /\ init_k(c) > 0 => (init_k(c) + 1) * SeqnoMod <= c
<1> DEFINE q == c \div SeqnoMod
<1>1. /\ q \in Nat
      /\ c = SeqnoMod * q + (c % SeqnoMod)
      /\ c % SeqnoMod \in 0 .. SeqnoMod - 1
  BY SeqnoModAssumption, SMT
<1>2. q * SeqnoMod <= c /\ c < q * SeqnoMod + SeqnoMod
  BY <1>1, SeqnoModAssumption, SMT
<1> HIDE DEF q
<1>3. CASE q > 0
  <2>1. init_k(c) = q - 1
    BY <1>3 DEF init_k, q
  <2>2. (q + 1) * SeqnoMod = q * SeqnoMod + SeqnoMod
    BY <1>1, SeqnoModAssumption, SMT
  <2> QED
    BY <1>1, <1>2, <1>3, <2>1, <2>2, SeqnoModAssumption, SMTT(30)
<1>4. CASE ~(q > 0)
  <2>1. init_k(c) = 0
    BY <1>4 DEF init_k, q
  <2>2. q = 0
    BY <1>1, <1>4
  <2> QED
    BY <1>2, <2>1, <2>2, SeqnoModAssumption, SMTT(30)
<1> QED
  BY <1>3, <1>4

(* One epoch on is no closer exactly when the checkpoint is behind the *)
(* middle between the two candidates.                                  *)
LEMMA NoCloser ==
  ASSUME NEW x \in Int, NEW c \in Int, NEW M \in Nat \ {0}
  PROVE  Distance(x + M, c) >= Distance(x, c) <=> 2 * x + M >= 2 * c
BY DEF Distance

(* The scan's result is a candidate, and no candidate is closer. *)
LEMMA ScanIsClosest ==
  ASSUME NEW n \in WrappingInt32, NEW i \in WrappingInt32, NEW c \in Nat
  PROVE  /\ \E k \in Nat : unwrap(n, i, c) = k * SeqnoMod + Offset(n, i)
         /\ \A j \in Nat : Distance(unwrap(n, i, c), c)
                             <= Distance(j * SeqnoMod + Offset(n, i), c)
<1> DEFINE M == SeqnoMod
           f == init_k(c)
           o == Offset(n, i)
           cand(k) == k * M + o
           diff(k) == Distance(curr_val(n, i, k), c)
           Stop(k) == /\ diff(k) >= diff(k - 1)
                      /\ \A j \in f + 1 .. k - 1 : diff(j) < diff(j - 1)
           last == CHOOSE k \in f + 1 .. f + 3 : Stop(k)
<1>1. M \in Nat \ {0} /\ f \in Nat /\ o \in Nat /\ o < M
  BY SeqnoModAssumption, OffsetType, ScanStart
<1>2. c < (f + 2) * M /\ (f > 0 => (f + 1) * M <= c)
  BY ScanStart
<1>3. ASSUME NEW k \in Nat PROVE curr_val(n, i, k) = cand(k) /\ cand(k) \in Nat
  <2>1. curr_val(n, i, k) = k * M + o /\ k * M \in Nat
    BY CandidateIs
  <2> QED
    BY <1>1, <2>1
<1>4. ASSUME NEW k \in Nat \ {0} PROVE cand(k) = cand(k - 1) + M
  BY <1>1, SMT
<1>5. unwrap(n, i, c) = curr_val(n, i, last) - M
  BY DEF unwrap
<1>6. ASSUME NEW k \in Nat \ {0}
      PROVE  diff(k) >= diff(k - 1) <=> 2 * cand(k - 1) + M >= 2 * c
  <2>1. curr_val(n, i, k) = cand(k - 1) + M /\ curr_val(n, i, k - 1) = cand(k - 1)
    BY <1>3, <1>4
  <2>2. cand(k - 1) \in Int
    BY <1>3
  <2> HIDE DEF cand, M
  <2> QED
    BY <2>1, <2>2, <1>1, NoCloser, SMTT(30)
<1>7. ASSUME NEW k \in Nat PROVE diff(k) \in Nat
  BY <1>3 DEF Distance
<1> HIDE DEF diff, cand, M, f, o
<1>8. 2 * cand(f + 2) + M >= 2 * c
  <2>1. cand(f + 2) = (f + 2) * M + o
    BY DEF cand
  <2>2. (f + 2) * M \in Nat
    BY <1>1, SMTT(30)
  <2> QED
    BY <1>1, <1>2, <2>1, <2>2, SMTT(30)
<1>9. \E k \in f + 1 .. f + 3 : Stop(k)
  <2>1. diff(f + 3) >= diff(f + 2)
    BY <1>6, <1>8, <1>1
  <2>2. CASE diff(f + 1) >= diff(f)
    BY <1>1, <2>2
  <2>3. CASE diff(f + 1) < diff(f) /\ diff(f + 2) >= diff(f + 1)
    <3>1. \A j \in f + 1 .. (f + 2) - 1 : j = f + 1
      BY <1>1
    <3> QED
      BY <1>1, <2>3, <3>1
  <2>4. CASE diff(f + 1) < diff(f) /\ diff(f + 2) < diff(f + 1)
    <3>1. \A j \in f + 1 .. (f + 3) - 1 : j = f + 1 \/ j = f + 2
      BY <1>1
    <3> QED
      BY <1>1, <2>1, <2>4, <3>1
  <2> QED
    BY <1>1, <1>7, <2>2, <2>3, <2>4, SMTT(30)
<1>10. last \in f + 1 .. f + 3 /\ Stop(last)
  BY <1>9
<1> HIDE DEF last
<1> DEFINE u == cand(last - 1)
<1>11. /\ unwrap(n, i, c) = u
       /\ u \in Nat
       /\ 2 * u + M >= 2 * c
  BY <1>1, <1>3, <1>4, <1>5, <1>6, <1>10, SMTT(30)
<1>12. last > f + 1 => 2 * u < 2 * c + M
  <2>1. SUFFICES ASSUME last > f + 1 PROVE 2 * u < 2 * c + M
    OBVIOUS
  <2>2. PICK p \in Nat \ {0} : p = last - 1 /\ p \in f + 1 .. last - 1
    BY <1>1, <1>10, <2>1
  <2>3. diff(p) < diff(p - 1)
    BY <1>10, <2>2
  <2>4. ~(2 * cand(p - 1) + M >= 2 * c)
    <3>1. diff(p) \in Nat /\ diff(p - 1) \in Nat
      BY <1>7
    <3>2. diff(p) >= diff(p - 1) <=> 2 * cand(p - 1) + M >= 2 * c
      BY <1>6
    <3> QED
      BY <2>3, <3>1, <3>2
  <2>5. u = cand(p - 1) + M
    BY <1>4, <2>2, ZenonT(30)
  <2>6. cand(p - 1) \in Nat
    BY <1>3
  <2> QED
    BY <1>1, <2>4, <2>5, <2>6, SMTT(30)
<1>13. ASSUME NEW j \in Nat PROVE Distance(u, c) <= Distance(cand(j), c)
  <2>1. cand(j) \in Nat /\ last - 1 \in Nat
    BY <1>1, <1>3, <1>10
  <2>2. CASE j = last - 1
    BY <1>11, <2>1, <2>2, SMTT(30) DEF Distance
  <2>3. CASE last - 1 < j
    <3>1. u + M <= cand(j)
      BY <2>1, <2>3, <1>1, MultiplesApart, SMTT(30) DEF cand
    <3> QED
      BY <1>1, <1>11, <2>1, <3>1, SMTT(30) DEF Distance
  <2>4. CASE j < last - 1
    <3>1. cand(j) + M <= u
      BY <2>1, <2>4, <1>1, MultiplesApart, SMTT(30) DEF cand
    <3>2. CASE last > f + 1
      BY <1>1, <1>11, <1>12, <2>1, <3>1, <3>2, SMTT(30) DEF Distance
    <3>3. CASE last = f + 1
      <4>1. f > 0 /\ u = f * M + o
        BY <1>1, <2>4, <3>3 DEF cand
      <4>2. (f + 1) * M = f * M + M /\ f * M \in Nat
        BY <1>1, SMT
      <4>3. u <= c
        BY <1>1, <1>2, <4>1, <4>2, SMTT(30)
      <4> QED
        BY <1>1, <1>11, <2>1, <3>1, <4>3, SMTT(30) DEF Distance
    <3> QED
      BY <1>1, <1>10, <3>2, <3>3, SMTT(30)
  <2> QED
    BY <2>1, <2>2, <2>3, <2>4
<1>14. last - 1 \in Nat
  BY <1>1, <1>10
<1> QED
  BY <1>11, <1>13, <1>14 DEF cand, M, o

(* Adding the initial sequence number to an offset gives n back. *)
LEMMA OffsetBack ==
  ASSUME NEW n \in WrappingInt32, NEW i \in WrappingInt32
  PROVE  i + Offset(n, i) = n \/ i + Offset(n, i) = SeqnoMod + n
BY SeqnoModAssumption DEF WrappingInt32, Offset

(* Every candidate wraps to n ... *)
LEMMA CandidateWraps ==
  ASSUME NEW n \in WrappingInt32, NEW i \in WrappingInt32, NEW k \in Nat
  PROVE  wrap(k * SeqnoMod + Offset(n, i), i) = n
<1>1. n \in Nat /\ n < SeqnoMod /\ i \in Nat
  BY SeqnoModAssumption DEF WrappingInt32
<1>2. k * SeqnoMod \in Nat /\ (k + 1) * SeqnoMod = k * SeqnoMod + SeqnoMod
  BY SeqnoModAssumption, SMT
<1>3. (k * SeqnoMod + n) % SeqnoMod = n /\ ((k + 1) * SeqnoMod + n) % SeqnoMod = n
  BY <1>1, RemainderIs, SeqnoModAssumption
<1>4. \/ i + (k * SeqnoMod + Offset(n, i)) = k * SeqnoMod + n
      \/ i + (k * SeqnoMod + Offset(n, i)) = (k + 1) * SeqnoMod + n
  <2> HIDE DEF Offset
  <2> QED
    BY <1>1, <1>2, OffsetBack, OffsetType, SeqnoModAssumption, SMTT(30)
<1> QED
  BY <1>3, <1>4 DEF wrap

(* ... and every number that wraps to n is a candidate. *)
LEMMA WrapsIsCandidate ==
  ASSUME NEW v \in Nat, NEW i \in WrappingInt32
  PROVE  /\ wrap(v, i) \in WrappingInt32
         /\ \E j \in Nat : v = j * SeqnoMod + Offset(wrap(v, i), i)
<1> DEFINE M == SeqnoMod
           n == wrap(v, i)
           q == (i + v) \div M
<1>1. /\ i \in Nat /\ i < M /\ M \in Nat \ {0}
      /\ q \in Int /\ i + v = M * q + n
      /\ n \in 0 .. M - 1
  BY SeqnoModAssumption, SMT DEF WrappingInt32, wrap
<1>2. n \in WrappingInt32
  BY <1>1 DEF WrappingInt32
<1> HIDE DEF n, q
<1>3. PICK j \in Int : v = j * M + Offset(n, i)
  <2>1. M * q = q * M /\ (q - 1) * M = q * M - M /\ q * M \in Int
    BY <1>1, SMT
  <2>2. v = q * M + (n - i) /\ n \in Int
    BY <1>1, <2>1
  <2>3. CASE n >= i
    <3>1. v = q * M + Offset(n, i)
      BY <2>2, <2>3 DEF Offset
    <3> QED
      BY <1>1, <3>1
  <2>4. CASE ~(n >= i)
    <3>1. v = (q - 1) * M + Offset(n, i)
      BY <1>1, <2>1, <2>2, <2>4 DEF Offset
    <3>2. q - 1 \in Int
      BY <1>1
    <3> QED
      BY <3>1, <3>2
  <2> QED
    BY <2>3, <2>4
<1>4. Offset(n, i) \in Nat /\ Offset(n, i) < M
  BY <1>2, OffsetType
<1>5. ~(j < 0)
  <2>1. SUFFICES ASSUME j < 0 PROVE FALSE
    OBVIOUS
  <2>2. j * M + M <= 0 * M
    BY <1>1, <2>1, MultiplesApart
  <2>3. j * M \in Int /\ 0 * M = 0
    BY <1>1, SMT
  <2> QED
    BY <1>1, <1>3, <1>4, <2>2, <2>3
<1> QED
  BY <1>2, <1>3, <1>5 DEF n
-----------------------------------------------------------------------------
(* A number less than half the number space from the checkpoint is recovered. *)
LEMMA UnwrapInverts ==
  ASSUME NEW i \in WrappingInt32, NEW c \in Nat, NEW p \in Nat,
         2 * Distance(p, c) < SeqnoMod
  PROVE  unwrap(wrap(p, i), i, c) = p
<1> DEFINE M == SeqnoMod
           n == wrap(p, i)
           u == unwrap(n, i, c)
           o == Offset(n, i)
<1>1. n \in WrappingInt32
  BY WrapsIsCandidate
<1>2. PICK j \in Nat : p = j * M + o
  BY WrapsIsCandidate
<1>3. PICK k \in Nat : u = k * M + o
  BY <1>1, ScanIsClosest
<1>4. Distance(u, c) <= Distance(p, c)
  BY <1>1, <1>2, ScanIsClosest
<1>5. M \in Nat \ {0} /\ o \in Nat /\ j * M \in Nat /\ k * M \in Nat
  BY <1>1, OffsetType, SeqnoModAssumption, SMT
<1>6. 2 * Distance(p, c) < M
  OBVIOUS
<1> HIDE DEF u, o, n, M
<1>7. u - p < M /\ p - u < M
  BY <1>2, <1>3, <1>4, <1>5, <1>6 DEF Distance
<1>8. ~(j < k) /\ ~(k < j)
  BY <1>2, <1>3, <1>5, <1>7, MultiplesApart
<1> QED
  BY <1>2, <1>3, <1>8 DEF u, n

(***************************************************************************)
(* What an endpoint that follows a stream knows: the position it recovered *)
(* is the one that was meant.                                              *)
(***************************************************************************)
Tracks ==
  /\ isn \in WrappingInt32
  /\ position \in 0 .. MaxAbs
  /\ NeverLosesTrack

LEMMA TracksInvariant == TrackSpec => []Tracks
<1>1. TrackInit => Tracks
  BY MaxAbsAssumption DEF TrackInit, Tracks, NeverLosesTrack
<1>2. Tracks /\ [TrackNext]_TrackVars => Tracks'
  <2>1. SUFFICES ASSUME Tracks, [TrackNext]_TrackVars PROVE Tracks'
    OBVIOUS
  <2>2. CASE UNCHANGED TrackVars
    BY <2>1, <2>2 DEF TrackVars, Tracks, NeverLosesTrack
  <2>3. CASE TrackNext
    <3>1. PICK p \in 0 .. MaxAbs : Hear(p)
      BY <2>3 DEF TrackNext
    <3>2. p \in Nat /\ checkpoint \in Nat /\ isn \in WrappingInt32
      BY <2>1, MaxAbsAssumption DEF Tracks, NeverLosesTrack
    <3>3. checkpoint' = p
      BY <3>1, <3>2, UnwrapInverts, SMTT(30) DEF Hear
    <3> QED
      BY <3>1, <3>2, <3>3 DEF Hear, Tracks, NeverLosesTrack
  <2> QED
    BY <2>1, <2>2, <2>3
<1> QED
  BY <1>1, <1>2, PTL DEF TrackSpec

(***************************************************************************)
(* For every size of the number space: an endpoint that unwraps each       *)
(* number around the previous result (tcp_receiver.cc, tcp_sender.cc)      *)
(* never loses or gains an epoch, however often the number wraps.          *)
(***************************************************************************)
THEOREM TrackingIsExact == TrackSpec => []NeverLosesTrack
<1>1. Tracks => NeverLosesTrack
  BY SMTT(30) DEF Tracks
<1> QED
  BY <1>1, TracksInvariant, PTL

(***************************************************************************)
(* For every size of the number space and every checkpoint an endpoint can *)
(* have: unwrap (wrapping_integers.cc) returns a natural number that wraps *)
(* to n, and no such number is closer to the checkpoint.                   *)
(***************************************************************************)
THEOREM UnwrapFindsClosest == TrackSpec => []UnwrapIsClosest
<1>1. Tracks => UnwrapIsClosest
  <2>1. SUFFICES ASSUME Tracks, NEW n \in WrappingInt32
                 PROVE  LET u == unwrap(n, isn, checkpoint)
                        IN  /\ u \in Nat
                            /\ wrap(u, isn) = n
                            /\ \A v \in 0 .. MaxAbs + 2 * SeqnoMod :
                                 wrap(v, isn) = n =>
                                   Distance(u, checkpoint) <= Distance(v, checkpoint)
    BY DEF UnwrapIsClosest
  <2> DEFINE u == unwrap(n, isn, checkpoint)
  <2>2. isn \in WrappingInt32 /\ checkpoint \in Nat
    BY <2>1, MaxAbsAssumption DEF Tracks, NeverLosesTrack
  <2>3. PICK k \in Nat : u = k * SeqnoMod + Offset(n, isn)
    BY <2>2, ScanIsClosest
  <2>4. u \in Nat
    <3>1. k * SeqnoMod \in Nat
      BY SeqnoModAssumption, SMT
    <3> QED
      BY <2>2, <2>3, <3>1, OffsetType
  <2>5. wrap(u, isn) = n
    BY <2>2, <2>3, CandidateWraps
  <2>6. ASSUME NEW v \in 0 .. MaxAbs + 2 * SeqnoMod, wrap(v, isn) = n
        PROVE  Distance(u, checkpoint) <= Distance(v, checkpoint)
    <3>1. v \in Nat
      BY MaxAbsAssumption, SeqnoModAssumption
    <3>2. PICK j \in Nat : v = j * SeqnoMod + Offset(n, isn)
      BY <2>2, <2>6, <3>1, WrapsIsCandidate
    <3> QED
      BY <2>2, <3>2, ScanIsClosest
  <2> QED
    BY <2>4, <2>5, <2>6, SMTT(30)
<1> QED
  BY <1>1, TracksInvariant, PTL

-----------------------------------------------------------------------------
(***************************************************************************)
(* The network interface (ARPProcess), for every set of addresses and      *)
(* datagrams, all timer values and all tick lengths.                       *)
(***************************************************************************)
\* Erasure of several elements of a std::map.
LEMMA RestrictMap ==
  ASSUME NEW S, NEW f, IsMap(f, S), NEW D \in SUBSET DOMAIN f
  PROVE  /\ IsMap(Restrict(f, D), S)
         /\ DOMAIN Restrict(f, D) = D
         /\ \A x \in D : Restrict(f, D)[x] = f[x]
  BY DEF Restrict, IsMap

\* What is appended to the queue of frames can be told from the result.
LEMMA PushFacts ==
  ASSUME NEW S, NEW q \in Seq(S), NEW f \in S
  PROVE  /\ Append(q, f) \in Seq(S)
         /\ q # Append(q, f)
         /\ \A g \in S : Append(q, f) = Append(q, g) => f = g
<1>1. /\ Append(q, f) \in Seq(S) /\ Len(Append(q, f)) = Len(q) + 1 /\ Len(q) \in Nat
      /\ Append(q, f)[Len(q) + 1] = f
  BY Appended, LenOfSeq
<1>2. \A g \in S : Append(q, g)[Len(q) + 1] = g
  BY Appended
<1>. QED  BY <1>1, <1>2

\* A sum reduced modulo the age's range is no larger than the sum.
LEMMA ModAtMost ==
  ASSUME NEW a \in Nat, NEW m \in Nat \ {0}
  PROVE  a % m \in Nat /\ a % m <= a
<1>1. a % m \in 0 .. m - 1 /\ a = m * (a \div m) + (a % m) /\ a \div m \in Int
  OBVIOUS
<1>2. m * (a \div m) \in Int
  BY <1>1
<1>3. a < m => a % m = a
  OBVIOUS
<1>. QED  BY <1>1, <1>3

\* The frames an interface sends can be told apart: requests for different
\* addresses, requests and replies, requests and datagrams.
LEMMA FrameFacts ==
  ASSUME ArpTypeOK, NEW ip \in Ip
  PROVE  /\ RequestFrame(ni, ip) \in AnyFrame
         /\ \A jp \in Ip : RequestFrame(ni, ip) = RequestFrame(ni, jp) => ip = jp
         /\ \A dst \in Mac, dgram \in Datagram :
              /\ DatagramFrame(ni, dst, dgram) \in AnyFrame
              /\ DatagramFrame(ni, dst, dgram) # RequestFrame(ni, ip)
         /\ \A dst \in Mac, msg \in Message :
              /\ ReplyFrame(ni, dst, msg) \in AnyFrame
              /\ ReplyFrame(ni, dst, msg) # RequestFrame(ni, ip)
<1>1. ni.mac = OwnMac /\ ni.ip = OwnIp
  BY DEF ArpTypeOK, IsInterface
<1>2. RequestFrame(ni, ip) \in AnyFrame
  BY <1>1, ProcessAssumption DEF RequestFrame, Frame, AnyFrame, Message
<1>3. ASSUME NEW jp \in Ip, RequestFrame(ni, ip) = RequestFrame(ni, jp) PROVE ip = jp
  <2>1. RequestFrame(ni, ip).payload.target_ip = RequestFrame(ni, jp).payload.target_ip
    BY <1>3
  <2>. QED  BY <2>1 DEF RequestFrame, Frame
<1>4. ASSUME NEW dst \in Mac, NEW dgram \in Datagram
      PROVE  /\ DatagramFrame(ni, dst, dgram) \in AnyFrame
             /\ DatagramFrame(ni, dst, dgram) # RequestFrame(ni, ip)
  <2>1. DatagramFrame(ni, dst, dgram).type # RequestFrame(ni, ip).type
    BY DEF DatagramFrame, RequestFrame, Frame
  <2>. QED  BY <1>1, <2>1, ProcessAssumption DEF DatagramFrame, Frame, AnyFrame
<1>5. ASSUME NEW dst \in Mac, NEW msg \in Message
      PROVE  /\ ReplyFrame(ni, dst, msg) \in AnyFrame
             /\ ReplyFrame(ni, dst, msg) # RequestFrame(ni, ip)
  <2>1. ReplyFrame(ni, dst, msg).payload.opcode # RequestFrame(ni, ip).payload.opcode
    BY DEF ReplyFrame, RequestFrame, Frame
  <2>. QED  BY <1>1, <2>1, ProcessAssumption DEF ReplyFrame, Frame, AnyFrame, Message
<1>. QED  BY <1>2, <1>3, <1>4, <1>5, SMTT(30)

\* The inductive invariant.
InterfaceInv == ArpTypeOK /\ MapsAgree /\ CacheFresh /\ RequestRemembered

\* A step asks for an address only if MAX_REQ_TIME has passed.
NoHaste == \A ip \in Ip : Asks(ni', ip) => quiet[ip] >= MaxReqTime

\* A new interface knows nothing and has asked for nothing.
LEMMA InitInterfaceInv == ArpInit => InterfaceInv
<1>. SUFFICES ASSUME ArpInit PROVE InterfaceInv
  OBVIOUS
<1>1. << >> \in Seq(AnyFrame) /\ DOMAIN << >> = {}
  BY EmptySeqLen
<1>2. \A S : IsMap(<< >>, S)
  BY <1>1 DEF IsMap
<1>3. ni.frames_out = << >> /\ ni.cache = << >> /\ ni.cache_age = << >>
      /\ ni.waiting = << >> /\ ni.req_age = << >> /\ ni.reqs = << >>
  BY DEF ArpInit, NewInterface
<1>4. ArpTypeOK
  BY <1>1, <1>2, <1>3, InterfaceAssumption, SMTT(30) DEF ArpInit, NewInterface, ArpTypeOK, IsInterface
<1>5. MapsAgree /\ CacheFresh /\ RequestRemembered
  BY <1>1, <1>3 DEF ArpInit, MapsAgree, CacheFresh, RequestRemembered
<1>. QED  BY <1>4, <1>5 DEF InterfaceInv

\* The fields a step leaves alone, and the ones it changes, give InterfaceInv'.
SameMaps == /\ ni'.cache = ni.cache /\ ni'.cache_age = ni.cache_age
            /\ ni'.waiting = ni.waiting /\ ni'.req_age = ni.req_age
            /\ ni'.reqs = ni.reqs

\* An interface written out field by field.
Fields(m, i, f, c, a, wt, q, r) ==
  [mac |-> m, ip |-> i, frames_out |-> f, cache |-> c, cache_age |-> a,
   waiting |-> wt, req_age |-> q, reqs |-> r]

\* Its fields are what was written.
LEMMA FieldsOf ==
  ASSUME NEW m, NEW i, NEW f, NEW c, NEW a, NEW wt, NEW q, NEW r,
         NEW n, n = Fields(m, i, f, c, a, wt, q, r)
  PROVE  /\ m = OwnMac /\ i = OwnIp => IsInterface(n)
         /\ n.mac = m /\ n.ip = i
         /\ n.frames_out = f /\ n.cache = c /\ n.cache_age = a
         /\ n.waiting = wt /\ n.req_age = q /\ n.reqs = r
  BY DEF Fields, IsInterface

\* The updates the operations make: a frame is queued or taken,
SetFrames(n, f) ==
  [n EXCEPT !.frames_out = f]

\* The fields after it.
LEMMA SetFramesFields ==
  ASSUME NEW n, IsInterface(n), NEW f
  PROVE  LET t == SetFrames(n, f)
         IN  /\ IsInterface(t)
             /\ t.frames_out = f /\ t.cache = n.cache
             /\ t.cache_age = n.cache_age /\ t.waiting = n.waiting
             /\ t.req_age = n.req_age /\ t.reqs = n.reqs
<1>1. ASSUME NEW t, t = [n EXCEPT !.frames_out = f]
      PROVE  t = Fields(n.mac, n.ip, f, n.cache, n.cache_age, n.waiting, n.req_age, n.reqs)
  BY <1>1, Zenon DEF IsInterface, Fields
<1>2. SetFrames(n, f) = Fields(n.mac, n.ip, f, n.cache, n.cache_age, n.waiting, n.req_age, n.reqs)
  BY <1>1, Zenon DEF SetFrames
<1>. QED  BY <1>2, FieldsOf DEF IsInterface

\* an address is asked for, for the first time,
SetFirstRequest(n, wt, f, q, r) ==
  [n EXCEPT !.waiting = wt, !.frames_out = f, !.req_age = q, !.reqs = r]

\* The fields after it.
LEMMA SetFirstRequestFields ==
  ASSUME NEW n, IsInterface(n), NEW wt, NEW f, NEW q, NEW r
  PROVE  LET t == SetFirstRequest(n, wt, f, q, r)
         IN  /\ IsInterface(t)
             /\ t.frames_out = f /\ t.cache = n.cache
             /\ t.cache_age = n.cache_age /\ t.waiting = wt
             /\ t.req_age = q /\ t.reqs = r
<1>1. ASSUME NEW t, t = [n EXCEPT !.waiting = wt, !.frames_out = f, !.req_age = q, !.reqs = r]
      PROVE  t = Fields(n.mac, n.ip, f, n.cache, n.cache_age, wt, q, r)
  BY <1>1, Zenon DEF IsInterface, Fields
<1>2. SetFirstRequest(n, wt, f, q, r) = Fields(n.mac, n.ip, f, n.cache, n.cache_age, wt, q, r)
  BY <1>1, Zenon DEF SetFirstRequest
<1>. QED  BY <1>2, FieldsOf DEF IsInterface

\* and again,
SetRequest(n, q, f) ==
  [n EXCEPT !.req_age = q, !.frames_out = f]

\* The fields after it.
LEMMA SetRequestFields ==
  ASSUME NEW n, IsInterface(n), NEW q, NEW f
  PROVE  LET t == SetRequest(n, q, f)
         IN  /\ IsInterface(t)
             /\ t.frames_out = f /\ t.cache = n.cache
             /\ t.cache_age = n.cache_age /\ t.waiting = n.waiting
             /\ t.req_age = q /\ t.reqs = n.reqs
<1>1. ASSUME NEW t, t = [n EXCEPT !.req_age = q, !.frames_out = f]
      PROVE  t = Fields(n.mac, n.ip, f, n.cache, n.cache_age, n.waiting, q, n.reqs)
  BY <1>1, Zenon DEF IsInterface, Fields
<1>2. SetRequest(n, q, f) = Fields(n.mac, n.ip, f, n.cache, n.cache_age, n.waiting, q, n.reqs)
  BY <1>1, Zenon DEF SetRequest
<1>. QED  BY <1>2, FieldsOf DEF IsInterface

\* a mapping is learned,
SetCache(n, c, a) ==
  [n EXCEPT !.cache = c, !.cache_age = a]

\* The fields after it.
LEMMA SetCacheFields ==
  ASSUME NEW n, IsInterface(n), NEW c, NEW a
  PROVE  LET t == SetCache(n, c, a)
         IN  /\ IsInterface(t)
             /\ t.frames_out = n.frames_out /\ t.cache = c
             /\ t.cache_age = a /\ t.waiting = n.waiting
             /\ t.req_age = n.req_age /\ t.reqs = n.reqs
<1>1. ASSUME NEW t, t = [n EXCEPT !.cache = c, !.cache_age = a]
      PROVE  t = Fields(n.mac, n.ip, n.frames_out, c, a, n.waiting, n.req_age, n.reqs)
  BY <1>1, Zenon DEF IsInterface, Fields
<1>2. SetCache(n, c, a) = Fields(n.mac, n.ip, n.frames_out, c, a, n.waiting, n.req_age, n.reqs)
  BY <1>1, Zenon DEF SetCache
<1>. QED  BY <1>2, FieldsOf DEF IsInterface

\* a reply releases the waiting datagram,
SetAnswered(n, wt, q, r, f) ==
  [n EXCEPT !.waiting = wt, !.req_age = q, !.reqs = r, !.frames_out = f]

\* The fields after it.
LEMMA SetAnsweredFields ==
  ASSUME NEW n, IsInterface(n), NEW wt, NEW q, NEW r, NEW f
  PROVE  LET t == SetAnswered(n, wt, q, r, f)
         IN  /\ IsInterface(t)
             /\ t.frames_out = f /\ t.cache = n.cache
             /\ t.cache_age = n.cache_age /\ t.waiting = wt
             /\ t.req_age = q /\ t.reqs = r
<1>1. ASSUME NEW t, t = [n EXCEPT !.waiting = wt, !.req_age = q, !.reqs = r, !.frames_out = f]
      PROVE  t = Fields(n.mac, n.ip, f, n.cache, n.cache_age, wt, q, r)
  BY <1>1, Zenon DEF IsInterface, Fields
<1>2. SetAnswered(n, wt, q, r, f) = Fields(n.mac, n.ip, f, n.cache, n.cache_age, wt, q, r)
  BY <1>1, Zenon DEF SetAnswered
<1>. QED  BY <1>2, FieldsOf DEF IsInterface

\* and time passes.
SetAges(n, q, c, a) ==
  [n EXCEPT !.req_age = q, !.cache = c, !.cache_age = a]

\* The fields after it.
LEMMA SetAgesFields ==
  ASSUME NEW n, IsInterface(n), NEW q, NEW c, NEW a
  PROVE  LET t == SetAges(n, q, c, a)
         IN  /\ IsInterface(t)
             /\ t.frames_out = n.frames_out /\ t.cache = c
             /\ t.cache_age = a /\ t.waiting = n.waiting
             /\ t.req_age = q /\ t.reqs = n.reqs
<1>1. ASSUME NEW t, t = [n EXCEPT !.req_age = q, !.cache = c, !.cache_age = a]
      PROVE  t = Fields(n.mac, n.ip, n.frames_out, c, a, n.waiting, q, n.reqs)
  BY <1>1, Zenon DEF IsInterface, Fields
<1>2. SetAges(n, q, c, a) = Fields(n.mac, n.ip, n.frames_out, c, a, n.waiting, q, n.reqs)
  BY <1>1, Zenon DEF SetAges
<1>. QED  BY <1>2, FieldsOf DEF IsInterface

\* Requests in MapsAgree depend only on the interface's own addresses.
LEMMA RequestSame ==
  ASSUME ArpTypeOK, IsInterface(ni')
  PROVE  \A ip : RequestFrame(ni', ip) = RequestFrame(ni, ip)
  BY DEF ArpTypeOK, IsInterface, RequestFrame

\* A step that changes only the queue of frames.
LEMMA SameMapsIInv ==
  ASSUME InterfaceInv, IsInterface(ni'), SameMaps, ni'.frames_out \in Seq(AnyFrame), quiet' = quiet
  PROVE  InterfaceInv'
<1>1. ArpTypeOK'
  BY DEF InterfaceInv, ArpTypeOK, IsInterface, SameMaps
<1>2. MapsAgree'
  BY RequestSame, Zenon DEF InterfaceInv, MapsAgree, SameMaps
<1>3. CacheFresh' /\ RequestRemembered'
  BY DEF InterfaceInv, CacheFresh, RequestRemembered, SameMaps
<1>. QED  BY <1>1, <1>2, <1>3, SMTT(30) DEF InterfaceInv

\* send_datagram to a known address: the datagram goes out, nothing is asked.
LEMMA SendKnown ==
  ASSUME InterfaceInv, NEW dgram \in Datagram, NEW next_hop \in Ip, Send(dgram, next_hop),
         next_hop \in DOMAIN ni.cache
  PROVE  InterfaceInv' /\ NoHaste
<1>. DEFINE frame == DatagramFrame(ni, ni.cache[next_hop], dgram)
<1>1. ni.cache[next_hop] \in Mac /\ ni.frames_out \in Seq(AnyFrame)
  BY DEF InterfaceInv, ArpTypeOK, IsMap
<1>2. frame \in AnyFrame /\ \A ip \in Ip : frame # RequestFrame(ni, ip)
  BY <1>1, FrameFacts DEF InterfaceInv
<1>3. ni' = SetFrames(ni, Append(ni.frames_out, frame))
  BY Zenon DEF Send, send_datagram, Push, SetFrames
<1>. HIDE DEF frame
<1>4. IsInterface(ni') /\ SameMaps /\ ni'.frames_out = Append(ni.frames_out, frame)
  <2>. DEFINE f == Append(ni.frames_out, frame)
  <2>. HIDE DEF f
  <2>1. ni' = SetFrames(ni, f)
    BY <1>3, Zenon DEF f
  <2>2. IsInterface(ni') /\ SameMaps /\ ni'.frames_out = f
    BY <2>1, SetFramesFields DEF SameMaps, InterfaceInv, ArpTypeOK
  <2>. QED  BY <2>2, Zenon DEF f
<1>5. \A ip \in Ip : RequestFrame(ni, ip) \in AnyFrame
  BY FrameFacts DEF InterfaceInv
<1>6. \A ip \in Ip : ~Asks(ni', ip)
  BY <1>1, <1>2, <1>4, <1>5, PushFacts, SMTT(30) DEF Asks, Push
<1>7. quiet' = quiet
  BY <1>6 DEF Send, InterfaceInv, ArpTypeOK
<1>8. ni'.frames_out \in Seq(AnyFrame)
  BY <1>1, <1>2, <1>4, PushFacts, SMTT(30)
<1>. QED  BY <1>4, <1>6, <1>7, <1>8, SameMapsIInv, SMTT(30) DEF NoHaste

\* send_datagram to an unknown address: a request, the datagram waits.
LEMMA SendFirst ==
  ASSUME InterfaceInv, NEW dgram \in Datagram, NEW next_hop \in Ip, Send(dgram, next_hop),
         next_hop \notin DOMAIN ni.cache, next_hop \notin DOMAIN ni.waiting
  PROVE  InterfaceInv' /\ NoHaste
<1>. DEFINE frame == RequestFrame(ni, next_hop)
<1>1. /\ ni.frames_out \in Seq(AnyFrame) /\ IsInterface(ni)
      /\ IsMap(ni.cache, Mac) /\ IsMap(ni.cache_age, Nat) /\ IsMap(ni.waiting, Datagram)
      /\ IsMap(ni.req_age, Nat) /\ IsMap(ni.reqs, AnyFrame)
      /\ quiet \in [Ip -> 0 .. MaxReqTime]
  BY DEF InterfaceInv, ArpTypeOK
<1>2. /\ \A ip \in Ip : RequestFrame(ni, ip) \in AnyFrame
      /\ \A ip \in Ip : RequestFrame(ni, next_hop) = RequestFrame(ni, ip) => ip = next_hop
  BY FrameFacts DEF InterfaceInv
<1>3. ni' = SetFirstRequest(ni, Put(ni.waiting, next_hop, dgram), Append(ni.frames_out, frame),
                            Put(ni.req_age, next_hop, 0), Put(ni.reqs, next_hop, frame))
  BY Zenon DEF Send, send_datagram, Push, SetFirstRequest
<1>4. frame \in AnyFrame /\ \A ip \in Ip : RequestFrame(ni, ip) = frame <=> ip = next_hop
  BY <1>2
<1>5. \A ip \in Ip : Asks(ni', ip) <=> ni'.frames_out = Append(ni.frames_out, RequestFrame(ni, ip))
  BY DEF Asks, Push
<1>. HIDE DEF frame
<1>6. /\ IsInterface(ni') /\ ni'.frames_out = Append(ni.frames_out, frame)
      /\ ni'.cache = ni.cache /\ ni'.cache_age = ni.cache_age
      /\ ni'.waiting = Put(ni.waiting, next_hop, dgram)
      /\ ni'.req_age = Put(ni.req_age, next_hop, 0)
      /\ ni'.reqs = Put(ni.reqs, next_hop, frame)
  <2>. DEFINE wt == Put(ni.waiting, next_hop, dgram)
              f == Append(ni.frames_out, frame)
              q == Put(ni.req_age, next_hop, 0)
              r == Put(ni.reqs, next_hop, frame)
  <2>. HIDE DEF wt, f, q, r
  <2>1. ni' = SetFirstRequest(ni, wt, f, q, r)
    BY <1>3, Zenon DEF wt, f, q, r
  <2>2. /\ IsInterface(ni') /\ ni'.frames_out = f
        /\ ni'.cache = ni.cache /\ ni'.cache_age = ni.cache_age
        /\ ni'.waiting = wt /\ ni'.req_age = q /\ ni'.reqs = r
    BY <1>1, <2>1, SetFirstRequestFields, SMTT(30)
  <2>. QED  BY <2>2, Zenon DEF wt, f, q, r
<1>7. \A ip \in Ip : Asks(ni', ip) <=> ip = next_hop
  BY <1>1, <1>2, <1>4, <1>5, <1>6, PushFacts, SMTT(30)
<1>8. quiet' = [ip \in Ip |-> IF ip = next_hop THEN 0 ELSE quiet[ip]]
  BY <1>7, SMTT(30) DEF Send
<1>9. ArpTypeOK'
  <2>1. ni'.frames_out \in Seq(AnyFrame)
    BY <1>1, <1>4, <1>6, PushFacts, SMTT(30)
  <2>2. IsMap(ni'.waiting, Datagram) /\ IsMap(ni'.req_age, Nat) /\ IsMap(ni'.reqs, AnyFrame)
    BY <1>1, <1>4, <1>6, SMTT(30) DEF Put, IsMap
  <2>3. quiet' \in [Ip -> 0 .. MaxReqTime]
    BY <1>1, <1>8, InterfaceAssumption, SMTT(30)
  <2>. QED  BY <1>1, <1>6, <2>1, <2>2, <2>3, SMTT(30) DEF ArpTypeOK
<1>10. /\ DOMAIN ni'.waiting = DOMAIN ni.waiting \cup {next_hop}
       /\ DOMAIN ni'.req_age = DOMAIN ni.req_age \cup {next_hop}
       /\ DOMAIN ni'.reqs = DOMAIN ni.reqs \cup {next_hop}
       /\ ni'.req_age[next_hop] = 0 /\ ni'.reqs[next_hop] = frame
       /\ \A ip \in DOMAIN ni.req_age : ip # next_hop => ni'.req_age[ip] = ni.req_age[ip]
       /\ \A ip \in DOMAIN ni.reqs : ip # next_hop => ni'.reqs[ip] = ni.reqs[ip]
  BY <1>1, <1>4, <1>6, SMTT(30) DEF Put, IsMap
<1>11. MapsAgree'
  <2>1. \A ip : RequestFrame(ni', ip) = RequestFrame(ni, ip)
    BY <1>6, RequestSame, SMTT(30) DEF InterfaceInv
  <2>. QED  BY <1>4, <1>6, <1>10, <2>1, SMTT(30) DEF InterfaceInv, MapsAgree
<1>12. CacheFresh'
  BY <1>6, SMTT(30) DEF InterfaceInv, CacheFresh
<1>13. RequestRemembered'
  BY <1>6, <1>8, <1>10, SMTT(30) DEF InterfaceInv, RequestRemembered, MapsAgree
<1>14. quiet[next_hop] >= MaxReqTime
  BY InterfaceAssumption, SMTT(30) DEF InterfaceInv, RequestRemembered, MapsAgree
<1>. QED  BY <1>7, <1>9, <1>11, <1>12, <1>13, <1>14, SMTT(30) DEF InterfaceInv, NoHaste

\* send_datagram to an address asked for at least MAX_REQ_TIME ago.
LEMMA SendAgain ==
  ASSUME InterfaceInv, NEW dgram \in Datagram, NEW next_hop \in Ip, Send(dgram, next_hop),
         next_hop \notin DOMAIN ni.cache, next_hop \in DOMAIN ni.waiting,
         ni.req_age[next_hop] >= MaxReqTime
  PROVE  InterfaceInv' /\ NoHaste
<1>1. /\ ni.frames_out \in Seq(AnyFrame) /\ IsInterface(ni)
      /\ IsMap(ni.cache, Mac) /\ IsMap(ni.cache_age, Nat) /\ IsMap(ni.waiting, Datagram)
      /\ IsMap(ni.req_age, Nat) /\ IsMap(ni.reqs, AnyFrame)
      /\ quiet \in [Ip -> 0 .. MaxReqTime]
  BY DEF InterfaceInv, ArpTypeOK
<1>2. ni.reqs[next_hop] = RequestFrame(ni, next_hop)
  BY DEF InterfaceInv, MapsAgree
<1>3. /\ \A ip \in Ip : RequestFrame(ni, ip) \in AnyFrame
      /\ \A ip \in Ip : RequestFrame(ni, next_hop) = RequestFrame(ni, ip) => ip = next_hop
  BY FrameFacts DEF InterfaceInv
<1>4. ni' = SetRequest(ni, Put(ni.req_age, next_hop, 0), Append(ni.frames_out, ni.reqs[next_hop]))
  BY Zenon DEF Send, send_datagram, AskAgain, Push, SetRequest
<1>5. /\ IsInterface(ni') /\ ni'.frames_out = Append(ni.frames_out, RequestFrame(ni, next_hop))
      /\ ni'.cache = ni.cache /\ ni'.cache_age = ni.cache_age
      /\ ni'.waiting = ni.waiting /\ ni'.reqs = ni.reqs
      /\ ni'.req_age = Put(ni.req_age, next_hop, 0)
  <2>. DEFINE q == Put(ni.req_age, next_hop, 0)
              f == Append(ni.frames_out, RequestFrame(ni, next_hop))
  <2>. HIDE DEF q, f
  <2>1. ni' = SetRequest(ni, q, f)
    BY <1>2, <1>4, Zenon DEF q, f
  <2>2. /\ IsInterface(ni') /\ ni'.frames_out = f
        /\ ni'.cache = ni.cache /\ ni'.cache_age = ni.cache_age
        /\ ni'.waiting = ni.waiting /\ ni'.reqs = ni.reqs /\ ni'.req_age = q
    BY <1>1, <2>1, SetRequestFields, SMTT(30)
  <2>. QED  BY <2>2, Zenon DEF q, f
<1>6. \A ip \in Ip : Asks(ni', ip) <=> ip = next_hop
  BY <1>1, <1>3, <1>5, PushFacts, SMTT(30) DEF Asks, Push
<1>7. quiet' = [ip \in Ip |-> IF ip = next_hop THEN 0 ELSE quiet[ip]]
  BY <1>6, SMTT(30) DEF Send
<1>8. /\ DOMAIN ni'.req_age = DOMAIN ni.req_age \cup {next_hop}
      /\ ni'.req_age[next_hop] = 0 /\ IsMap(ni'.req_age, Nat)
      /\ \A ip \in DOMAIN ni.req_age : ip # next_hop => ni'.req_age[ip] = ni.req_age[ip]
  BY <1>1, <1>5, SMTT(30) DEF Put, IsMap
<1>9. ArpTypeOK'
  <2>1. ni'.frames_out \in Seq(AnyFrame)
    BY <1>1, <1>3, <1>5, PushFacts, SMTT(30)
  <2>2. quiet' \in [Ip -> 0 .. MaxReqTime]
    BY <1>1, <1>7, InterfaceAssumption, SMTT(30)
  <2>. QED  BY <1>1, <1>5, <1>8, <2>1, <2>2, SMTT(30) DEF ArpTypeOK
<1>10. MapsAgree'
  <2>1. \A ip : RequestFrame(ni', ip) = RequestFrame(ni, ip)
    BY <1>5, RequestSame DEF InterfaceInv
  <2>. QED  BY <1>5, <1>8, <2>1, Zenon DEF InterfaceInv, MapsAgree
<1>11. CacheFresh'
  BY <1>5, SMTT(30) DEF InterfaceInv, CacheFresh
<1>12. RequestRemembered'
  BY <1>5, <1>7, <1>8, SMTT(30) DEF InterfaceInv, RequestRemembered, MapsAgree
<1>13. quiet[next_hop] >= MaxReqTime
  BY <1>1, InterfaceAssumption, SMTT(30) DEF InterfaceInv, RequestRemembered, MapsAgree, IsMap
<1>. QED  BY <1>6, <1>9, <1>10, <1>11, <1>12, <1>13, SMTT(30) DEF InterfaceInv, NoHaste

\* send_datagram to an address asked for a moment ago: the datagram is dropped.
LEMMA SendNothing ==
  ASSUME InterfaceInv, NEW dgram \in Datagram, NEW next_hop \in Ip, Send(dgram, next_hop),
         next_hop \notin DOMAIN ni.cache, next_hop \in DOMAIN ni.waiting,
         ~(ni.req_age[next_hop] >= MaxReqTime)
  PROVE  InterfaceInv' /\ NoHaste
<1>1. ni' = ni
  BY Zenon DEF Send, send_datagram
<1>2. /\ ni.frames_out \in Seq(AnyFrame) /\ IsInterface(ni) /\ quiet \in [Ip -> 0 .. MaxReqTime]
      /\ \A ip \in Ip : RequestFrame(ni, ip) \in AnyFrame
  BY FrameFacts DEF InterfaceInv, ArpTypeOK
<1>3. \A ip \in Ip : ~Asks(ni', ip)
  BY <1>1, <1>2, PushFacts, SMTT(30) DEF Asks, Push
<1>4. quiet' = quiet
  BY <1>2, <1>3, SMTT(30) DEF Send
<1>. QED  BY <1>1, <1>2, <1>3, <1>4, SameMapsIInv, SMTT(30) DEF NoHaste, SameMaps

\* An ARP message teaches its sender's address: the datagram that waited for
\* it, if any, stays or leaves with its request.
LEMMA Learned ==
  ASSUME InterfaceInv, NEW ip \in Ip, NEW mac \in Mac, IsInterface(ni'),
         ni'.frames_out \in Seq(AnyFrame), quiet' = quiet,
         ni'.cache = Put(ni.cache, ip, mac), ni'.cache_age = Put(ni.cache_age, ip, 0),
         \/ ni'.waiting = ni.waiting /\ ni'.req_age = ni.req_age /\ ni'.reqs = ni.reqs
         \/ /\ ni'.waiting = Erase(ni.waiting, ip) /\ ni'.req_age = Erase(ni.req_age, ip)
            /\ ni'.reqs = Erase(ni.reqs, ip)
  PROVE  InterfaceInv'
<1>1. /\ IsMap(ni.cache, Mac) /\ IsMap(ni.cache_age, Nat) /\ IsMap(ni.waiting, Datagram)
      /\ IsMap(ni.req_age, Nat) /\ IsMap(ni.reqs, AnyFrame)
      /\ quiet \in [Ip -> 0 .. MaxReqTime]
  BY DEF InterfaceInv, ArpTypeOK
<1>2. /\ DOMAIN ni.cache = DOMAIN ni.cache_age /\ DOMAIN ni.waiting = DOMAIN ni.req_age
      /\ DOMAIN ni.waiting = DOMAIN ni.reqs
      /\ \A x \in DOMAIN ni.reqs : ni.reqs[x] = RequestFrame(ni, x)
  BY SMTT(30) DEF InterfaceInv, MapsAgree
<1>3. /\ IsMap(ni'.cache, Mac) /\ DOMAIN ni'.cache = DOMAIN ni.cache \cup {ip}
  BY <1>1, SMTT(30) DEF Put, IsMap
<1>4. /\ IsMap(ni'.cache_age, Nat) /\ DOMAIN ni'.cache_age = DOMAIN ni.cache_age \cup {ip}
      /\ ni'.cache_age[ip] = 0
      /\ \A x \in DOMAIN ni.cache_age : x # ip => ni'.cache_age[x] = ni.cache_age[x]
  BY <1>1, SMTT(30) DEF Put, IsMap
<1>5. PICK gone \in {{}, {ip}} :
         /\ IsMap(ni'.waiting, Datagram) /\ IsMap(ni'.req_age, Nat) /\ IsMap(ni'.reqs, AnyFrame)
         /\ DOMAIN ni'.waiting = DOMAIN ni.waiting \ gone
         /\ DOMAIN ni'.req_age = DOMAIN ni.req_age \ gone
         /\ DOMAIN ni'.reqs = DOMAIN ni.reqs \ gone
         /\ \A x \in DOMAIN ni'.req_age : ni'.req_age[x] = ni.req_age[x]
         /\ \A x \in DOMAIN ni'.reqs : ni'.reqs[x] = ni.reqs[x]
  <2>1. CASE ni'.waiting = ni.waiting /\ ni'.req_age = ni.req_age /\ ni'.reqs = ni.reqs
    BY <1>1, <2>1, SMTT(30)
  <2>2. CASE /\ ni'.waiting = Erase(ni.waiting, ip) /\ ni'.req_age = Erase(ni.req_age, ip)
             /\ ni'.reqs = Erase(ni.reqs, ip)
    <3>1. IsMap(ni'.waiting, Datagram) /\ DOMAIN ni'.waiting = DOMAIN ni.waiting \ {ip}
      BY <1>1, <2>2, SMTT(30) DEF Erase, Restrict, IsMap
    <3>2. /\ IsMap(ni'.req_age, Nat) /\ DOMAIN ni'.req_age = DOMAIN ni.req_age \ {ip}
          /\ \A x \in DOMAIN ni'.req_age : ni'.req_age[x] = ni.req_age[x]
      BY <1>1, <2>2, SMTT(30) DEF Erase, Restrict, IsMap
    <3>3. /\ IsMap(ni'.reqs, AnyFrame) /\ DOMAIN ni'.reqs = DOMAIN ni.reqs \ {ip}
          /\ \A x \in DOMAIN ni'.reqs : ni'.reqs[x] = ni.reqs[x]
      BY <1>1, <2>2, SMTT(30) DEF Erase, Restrict, IsMap
    <3>. QED  BY <3>1, <3>2, <3>3, SMTT(30)
  <2>. QED  BY <2>1, <2>2, SMTT(30)
<1>6. ArpTypeOK'
  BY <1>1, <1>3, <1>4, <1>5, SMTT(30) DEF ArpTypeOK
<1>7. MapsAgree'
  <2>1. \A x : RequestFrame(ni', x) = RequestFrame(ni, x)
    BY RequestSame, SMTT(30) DEF InterfaceInv
  <2>. QED  BY <1>2, <1>3, <1>4, <1>5, <2>1, ZenonT(30) DEF MapsAgree
<1>8. CacheFresh'
  BY <1>4, InterfaceAssumption, SMTT(30) DEF InterfaceInv, CacheFresh
<1>9. RequestRemembered'
  <2>. SUFFICES ASSUME NEW x \in Ip
                PROVE  \/ quiet[x] = MaxReqTime
                       \/ x \in DOMAIN ni'.waiting /\ ni'.req_age[x] <= quiet[x]
                       \/ x \notin DOMAIN ni'.waiting /\ x \in DOMAIN ni'.cache_age
                            /\ ni'.cache_age[x] <= quiet[x]
    BY DEF RequestRemembered
  <2>1. \/ quiet[x] = MaxReqTime
        \/ x \in DOMAIN ni.waiting /\ ni.req_age[x] <= quiet[x]
        \/ x \notin DOMAIN ni.waiting /\ x \in DOMAIN ni.cache_age
             /\ ni.cache_age[x] <= quiet[x]
    BY SMTT(30) DEF InterfaceInv, RequestRemembered
  <2>2. CASE x = ip
    <3>1. quiet[x] \in Nat
      BY <1>1, InterfaceAssumption, SMTT(30)
    <3>2. CASE x \in DOMAIN ni'.waiting
      BY <1>2, <1>5, <2>1, <3>2, ZenonT(30)
    <3>3. CASE x \notin DOMAIN ni'.waiting
      BY <1>4, <2>2, <3>1, <3>3, SMTT(30)
    <3>. QED  BY <3>2, <3>3, SMTT(30)
  <2>3. CASE x # ip
    BY <1>2, <1>4, <1>5, <2>1, <2>3, ZenonT(30)
  <2>. QED  BY <2>2, <2>3, SMTT(30)
<1>. QED  BY <1>6, <1>7, <1>8, <1>9, SMTT(30) DEF InterfaceInv

\* recv_frame: an address is learned, a datagram or a reply may go out, and no
\* request does.
LEMMA ReceiveStep ==
  ASSUME InterfaceInv, NEW frame \in ArpFrame, Receive(frame)
  PROVE  InterfaceInv' /\ NoHaste
<1>. DEFINE msg == frame.payload
<1>1. /\ ni.frames_out \in Seq(AnyFrame) /\ IsInterface(ni) /\ IsMap(ni.waiting, Datagram)
      /\ \A ip \in Ip : RequestFrame(ni, ip) \in AnyFrame
  BY FrameFacts DEF InterfaceInv, ArpTypeOK
<1>2. quiet' = quiet /\ ni' = recv_frame(ni, frame)
  BY DEF Receive
<1>3. CASE ni' = ni
  <2>1. NoHaste
    BY <1>1, <1>3, PushFacts, SMTT(30) DEF NoHaste, Asks, Push
  <2>. QED  BY <1>1, <1>2, <1>3, <2>1, SameMapsIInv, SMTT(30) DEF SameMaps
<1>4. CASE ni' # ni
  <2>1. frame.payload # Garbage /\ frame.type = "ARP"
    BY <1>2, <1>4, Zenon DEF recv_frame, accepts
  <2>2. msg \in Message /\ msg.sender_ip \in Ip /\ msg.sender_mac \in Mac /\ frame.src \in Mac
    BY <2>1 DEF ArpFrame, Message
  <2>. DEFINE answered == DatagramFrame(ni, msg.sender_mac, ni.waiting[msg.sender_ip])
              reply == ReplyFrame(ni, frame.src, msg)
              mid1 == SetAnswered(ni, Erase(ni.waiting, msg.sender_ip),
                                  Erase(ni.req_age, msg.sender_ip),
                                  Erase(ni.reqs, msg.sender_ip),
                                  Append(ni.frames_out, answered))
              mid2 == SetFrames(ni, Append(ni.frames_out, reply))
  <2>3. \/ ni' = Learn(ni, msg)
        \/ msg.sender_ip \in DOMAIN ni.waiting /\ ni' = Learn(mid1, msg)
        \/ ni' = Learn(mid2, msg)
    BY <1>2, <1>4, Zenon DEF recv_frame, recv_reply, recv_request, SetAnswered, SetFrames, Push
  <2>4. PICK mid : /\ ni' = Learn(mid, msg)
                   /\ \/ mid = ni
                      \/ msg.sender_ip \in DOMAIN ni.waiting /\ mid = mid1
                      \/ mid = mid2
    BY <2>3, Zenon
  <2>. HIDE DEF mid1, mid2
  <2>5. /\ IsInterface(mid) /\ mid.cache = ni.cache /\ mid.cache_age = ni.cache_age
        /\ \/ mid.waiting = ni.waiting /\ mid.req_age = ni.req_age /\ mid.reqs = ni.reqs
           \/ /\ mid.waiting = Erase(ni.waiting, msg.sender_ip)
              /\ mid.req_age = Erase(ni.req_age, msg.sender_ip)
              /\ mid.reqs = Erase(ni.reqs, msg.sender_ip)
        /\ \/ mid.frames_out = ni.frames_out
           \/ msg.sender_ip \in DOMAIN ni.waiting /\ mid.frames_out = Append(ni.frames_out, answered)
           \/ mid.frames_out = Append(ni.frames_out, reply)
    <3>. HIDE DEF msg, answered, reply
    <3>1. CASE mid = ni
      BY <1>1, <3>1, SMTT(30)
    <3>2. CASE msg.sender_ip \in DOMAIN ni.waiting /\ mid = mid1
      <4>. DEFINE wt == Erase(ni.waiting, msg.sender_ip)
                  q == Erase(ni.req_age, msg.sender_ip)
                  r == Erase(ni.reqs, msg.sender_ip)
                  f == Append(ni.frames_out, answered)
      <4>. HIDE DEF wt, q, r, f
      <4>1. mid = SetAnswered(ni, wt, q, r, f)
        BY <3>2, Zenon DEF mid1, wt, q, r, f
      <4>2. /\ IsInterface(mid) /\ mid.frames_out = f
            /\ mid.cache = ni.cache /\ mid.cache_age = ni.cache_age
            /\ mid.waiting = wt /\ mid.req_age = q /\ mid.reqs = r
        BY <1>1, <4>1, SetAnsweredFields, SMTT(30)
      <4>. QED  BY <3>2, <4>2, Zenon DEF wt, q, r, f
    <3>3. CASE mid = mid2
      <4>. DEFINE f == Append(ni.frames_out, reply)
      <4>. HIDE DEF f
      <4>1. mid = SetFrames(ni, f)
        BY <3>3, Zenon DEF mid2, f
      <4>2. /\ IsInterface(mid) /\ mid.frames_out = f
            /\ mid.cache = ni.cache /\ mid.cache_age = ni.cache_age
            /\ mid.waiting = ni.waiting /\ mid.req_age = ni.req_age /\ mid.reqs = ni.reqs
        BY <1>1, <4>1, SetFramesFields, SMTT(30)
      <4>. QED  BY <4>2, Zenon DEF f
    <3>. QED  BY <2>4, <3>1, <3>2, <3>3, ZenonT(30)
  <2>6. /\ IsInterface(ni') /\ ni'.frames_out = mid.frames_out
        /\ ni'.cache = Put(ni.cache, msg.sender_ip, msg.sender_mac)
        /\ ni'.cache_age = Put(ni.cache_age, msg.sender_ip, 0)
        /\ ni'.waiting = mid.waiting /\ ni'.req_age = mid.req_age /\ ni'.reqs = mid.reqs
    <3>. DEFINE c == Put(mid.cache, msg.sender_ip, msg.sender_mac)
                a == Put(mid.cache_age, msg.sender_ip, 0)
    <3>1. ni' = SetCache(mid, c, a)
      BY <2>4, ZenonT(30) DEF Learn, SetCache
    <3>. HIDE DEF c, a
    <3>2. /\ IsInterface(ni') /\ ni'.frames_out = mid.frames_out
          /\ ni'.cache = c /\ ni'.cache_age = a
          /\ ni'.waiting = mid.waiting /\ ni'.req_age = mid.req_age /\ ni'.reqs = mid.reqs
      BY <2>5, <3>1, SetCacheFields, SMTT(30)
    <3>3. c = Put(ni.cache, msg.sender_ip, msg.sender_mac) /\ a = Put(ni.cache_age, msg.sender_ip, 0)
      BY <2>5, ZenonT(30) DEF c, a
    <3>. QED  BY <3>2, <3>3, Zenon
  <2>7. /\ msg.sender_ip \in DOMAIN ni.waiting =>
             answered \in AnyFrame /\ \A ip \in Ip : answered # RequestFrame(ni, ip)
        /\ reply \in AnyFrame /\ \A ip \in Ip : reply # RequestFrame(ni, ip)
    <3>1. msg.sender_ip \in DOMAIN ni.waiting => ni.waiting[msg.sender_ip] \in Datagram
      BY <1>1, SMTT(30) DEF IsMap
    <3>. QED  BY <2>2, <3>1, FrameFacts, ProcessAssumption, SMTT(30) DEF InterfaceInv
  <2>. HIDE DEF answered, reply
  <2>8. ni'.frames_out \in Seq(AnyFrame) /\ \A ip \in Ip : ~Asks(ni', ip)
    BY <1>1, <2>5, <2>6, <2>7, PushFacts, SMTT(30) DEF Asks, Push
  <2>9. InterfaceInv'
    <3>. DEFINE ip == msg.sender_ip
                mac == msg.sender_mac
    <3>1. /\ ip \in Ip /\ mac \in Mac /\ IsInterface(ni') /\ ni'.frames_out \in Seq(AnyFrame)
          /\ quiet' = quiet /\ ni'.cache = Put(ni.cache, ip, mac)
          /\ ni'.cache_age = Put(ni.cache_age, ip, 0)
      BY <1>2, <2>2, <2>6, <2>8, SMTT(30)
    <3>2. \/ ni'.waiting = ni.waiting /\ ni'.req_age = ni.req_age /\ ni'.reqs = ni.reqs
          \/ /\ ni'.waiting = Erase(ni.waiting, ip) /\ ni'.req_age = Erase(ni.req_age, ip)
             /\ ni'.reqs = Erase(ni.reqs, ip)
      BY <2>5, <2>6, SMTT(30)
    <3>. HIDE DEF ip, mac
    <3>. QED  BY <3>1, <3>2, Learned, ZenonT(30)
  <2>. QED  BY <2>8, <2>9 DEF NoHaste
<1>. QED  BY <1>3, <1>4, SMTT(30)

\* tick: a forgotten answer is old enough for a new request.
LEMMA TickStep ==
  ASSUME InterfaceInv, NEW ms \in TickMs, Tick(ms)
  PROVE  InterfaceInv' /\ NoHaste
<1>. DEFINE kept == {ip \in DOMAIN ni.cache_age : ~Expires(ni, ip, ms)}
            ages == [ip \in DOMAIN ni.req_age |-> (ni.req_age[ip] + ms) % AgeMod]
            left == Restrict(ni.cache, DOMAIN ni.cache \ (DOMAIN ni.cache_age \ kept))
            times == [ip \in kept |-> ni.cache_age[ip] + ms]
<1>1. /\ ni.frames_out \in Seq(AnyFrame) /\ IsInterface(ni) /\ ms \in Nat
      /\ IsMap(ni.cache, Mac) /\ IsMap(ni.cache_age, Nat) /\ IsMap(ni.waiting, Datagram)
      /\ IsMap(ni.req_age, Nat) /\ IsMap(ni.reqs, AnyFrame)
      /\ quiet \in [Ip -> 0 .. MaxReqTime]
  BY ProcessAssumption DEF InterfaceInv, ArpTypeOK
<1>2. /\ DOMAIN ni.cache = DOMAIN ni.cache_age /\ DOMAIN ni.waiting = DOMAIN ni.req_age
      /\ DOMAIN ni.waiting = DOMAIN ni.reqs
      /\ \A x \in DOMAIN ni.reqs : ni.reqs[x] = RequestFrame(ni, x)
  BY DEF InterfaceInv, MapsAgree
<1>3. ni' = SetAges(ni, ages, left, times)
  BY Zenon DEF Tick, tick, SetAges
<1>4. \A ip \in kept : ip \in DOMAIN ni.cache_age /\ ni.cache_age[ip] + ms < MaxCacheTime
  BY <1>1, InterfaceAssumption, SMTT(30) DEF Expires, IsMap
<1>5. \A ip \in DOMAIN ni.cache_age \ kept : ni.cache_age[ip] + ms >= MaxCacheTime
  BY <1>1, InterfaceAssumption, SMTT(30) DEF Expires, IsMap
<1>6. /\ DOMAIN ages = DOMAIN ni.req_age /\ IsMap(ages, Nat)
      /\ \A ip \in DOMAIN ages : ages[ip] <= ni.req_age[ip] + ms
  <2>1. AgeMod \in Nat \ {0}
    BY InterfaceAssumption, SMTT(30)
  <2>2. \A ip \in DOMAIN ni.req_age : ni.req_age[ip] + ms \in Nat
    BY <1>1, SMTT(30) DEF IsMap
  <2>3. \A ip \in DOMAIN ni.req_age :
          /\ (ni.req_age[ip] + ms) % AgeMod \in Nat
          /\ (ni.req_age[ip] + ms) % AgeMod <= ni.req_age[ip] + ms
    BY <2>1, <2>2, ModAtMost, SMTT(30)
  <2>. QED  BY <1>1, <2>3, SMTT(30) DEF IsMap
<1>7. /\ DOMAIN times = kept /\ IsMap(times, Nat)
      /\ \A ip \in kept : times[ip] = ni.cache_age[ip] + ms
  BY <1>1, <1>4, SMTT(30) DEF IsMap
<1>8. DOMAIN left = kept /\ IsMap(left, Mac)
  <2>1. DOMAIN ni.cache \ (DOMAIN ni.cache_age \ kept) = kept
    BY <1>2, SMTT(30)
  <2>2. left = Restrict(ni.cache, kept) /\ kept \in SUBSET DOMAIN ni.cache
    BY <1>2, <2>1, SMTT(30)
  <2>. HIDE DEF kept
  <2>. QED  BY <1>1, <2>2, RestrictMap, SMTT(30)
<1>. HIDE DEF kept, ages, left, times
<1>9. /\ IsInterface(ni') /\ ni'.frames_out = ni.frames_out
      /\ ni'.cache = left /\ ni'.cache_age = times
      /\ ni'.waiting = ni.waiting /\ ni'.req_age = ages /\ ni'.reqs = ni.reqs
  BY <1>1, <1>3, SetAgesFields, SMTT(30)
<1>10. quiet' = [ip \in Ip |-> IF quiet[ip] + ms < MaxReqTime THEN quiet[ip] + ms
                               ELSE MaxReqTime]
  BY SMTT(30) DEF Tick
<1>11. NoHaste
  <2>1. \A ip \in Ip : RequestFrame(ni, ip) \in AnyFrame
    BY FrameFacts, SMTT(30) DEF InterfaceInv
  <2>. QED  BY <1>1, <1>9, <2>1, PushFacts, SMTT(30) DEF NoHaste, Asks, Push
<1>12. ArpTypeOK'
  <2>1. quiet' \in [Ip -> 0 .. MaxReqTime]
    BY <1>1, <1>10, InterfaceAssumption, SMTT(30)
  <2>. QED  BY <1>1, <1>6, <1>7, <1>8, <1>9, <2>1, SMTT(30) DEF ArpTypeOK
<1>13. MapsAgree'
  <2>1. \A x : RequestFrame(ni', x) = RequestFrame(ni, x)
    BY <1>9, RequestSame, SMTT(30) DEF InterfaceInv
  <2>. QED  BY <1>2, <1>6, <1>7, <1>8, <1>9, <2>1, SMTT(30) DEF MapsAgree
<1>14. CacheFresh'
  BY <1>4, <1>7, <1>9, SMTT(30) DEF CacheFresh
<1>15. RequestRemembered'
  <2>. SUFFICES ASSUME NEW x \in Ip
                PROVE  \/ quiet'[x] = MaxReqTime
                       \/ x \in DOMAIN ni'.waiting /\ ni'.req_age[x] <= quiet'[x]
                       \/ x \notin DOMAIN ni'.waiting /\ x \in DOMAIN ni'.cache_age
                            /\ ni'.cache_age[x] <= quiet'[x]
    BY DEF RequestRemembered
  <2>1. /\ quiet[x] \in Nat /\ quiet[x] <= MaxReqTime
        /\ quiet'[x] = IF quiet[x] + ms < MaxReqTime THEN quiet[x] + ms ELSE MaxReqTime
    BY <1>1, <1>10, InterfaceAssumption, SMTT(30)
  <2>2. CASE quiet[x] = MaxReqTime
    BY <1>1, <2>1, <2>2, InterfaceAssumption, SMTT(30)
  <2>3. CASE x \in DOMAIN ni.waiting /\ ni.req_age[x] <= quiet[x]
    <3>1. ni.req_age[x] \in Nat /\ ages[x] \in Nat /\ ages[x] <= ni.req_age[x] + ms
      BY <1>1, <1>2, <1>6, <2>3, SMTT(30) DEF IsMap
    <3>. QED  BY <1>1, <1>9, <2>1, <2>3, <3>1, SMTT(30)
  <2>4. CASE x \notin DOMAIN ni.waiting /\ x \in DOMAIN ni.cache_age
               /\ ni.cache_age[x] <= quiet[x]
    <3>1. ni.cache_age[x] \in Nat
      BY <1>1, <2>4, SMTT(30) DEF IsMap
    <3>2. CASE x \in kept
      BY <1>1, <1>7, <1>9, <2>1, <2>4, <3>1, <3>2, SMTT(30)
    <3>3. CASE x \notin kept
      BY <1>1, <1>5, <2>1, <2>4, <3>1, <3>3, InterfaceAssumption, SMTT(30)
    <3>. QED  BY <3>2, <3>3, SMTT(30)
  <2>. QED  BY <2>2, <2>3, <2>4, SMTT(30) DEF InterfaceInv, RequestRemembered
<1>. QED  BY <1>11, <1>12, <1>13, <1>14, <1>15, SMTT(30) DEF InterfaceInv

\* A frame leaves the queue.
LEMMA TransmitStep ==
  ASSUME InterfaceInv, Transmit
  PROVE  InterfaceInv' /\ NoHaste
<1>. DEFINE f == Tail(ni.frames_out)
<1>1. /\ ni.frames_out \in Seq(AnyFrame) /\ ni.frames_out # << >> /\ IsInterface(ni)
      /\ \A ip \in Ip : RequestFrame(ni, ip) \in AnyFrame
  BY FrameFacts DEF InterfaceInv, ArpTypeOK, Transmit
<1>2. f \in Seq(AnyFrame) /\ Len(f) = Len(ni.frames_out) - 1 /\ Len(ni.frames_out) \in Nat
  BY <1>1, HeadAndTail, LenOfSeq, SMTT(30)
<1>3. \A g \in AnyFrame : Len(Append(ni.frames_out, g)) = Len(ni.frames_out) + 1
  BY <1>1, Appended
<1>4. \A g \in AnyFrame : f # Append(ni.frames_out, g)
  BY <1>2, <1>3
<1>5. ni' = SetFrames(ni, f) /\ quiet' = quiet
  BY Zenon DEF Transmit, SetFrames
<1>. HIDE DEF f
<1>6. IsInterface(ni') /\ SameMaps /\ ni'.frames_out = f
  BY <1>1, <1>5, SetFramesFields, SMTT(30) DEF SameMaps
<1>7. NoHaste
  BY <1>1, <1>4, <1>6 DEF NoHaste, Asks, Push
<1>. QED  BY <1>2, <1>5, <1>6, <1>7, SameMapsIInv, SMTT(30)

\* Every step keeps the invariant and asks for no address too soon.
LEMMA NextInterfaceInv ==
  ASSUME InterfaceInv, [ArpNext]_ArpVars
  PROVE  InterfaceInv' /\ (ArpNext => NoHaste)
<1>1. ASSUME NEW dgram \in Datagram, NEW next_hop \in Ip, Send(dgram, next_hop)
      PROVE  InterfaceInv' /\ NoHaste
  BY <1>1, SendKnown, SendFirst, SendAgain, SendNothing, SMTT(30)
<1>2. CASE UNCHANGED ArpVars
  <2>1. ni' = ni /\ quiet' = quiet
    BY <1>2, SMTT(30) DEF ArpVars
  <2>2. InterfaceInv'
    BY <2>1, SameMapsIInv, SMTT(30) DEF InterfaceInv, ArpTypeOK, SameMaps
  <2>3. NoHaste
    <3>1. \A ip \in Ip : RequestFrame(ni, ip) \in AnyFrame
      BY FrameFacts DEF InterfaceInv
    <3>. QED  BY <2>1, <3>1, PushFacts, SMTT(30) DEF NoHaste, Asks, Push, InterfaceInv, ArpTypeOK
  <2>. QED  BY <2>2, <2>3
<1>3. CASE ArpNext
  BY <1>1, <1>3, ReceiveStep, TickStep, TransmitStep, SMTT(30) DEF ArpNext
<1>. QED  BY <1>2, <1>3, SMTT(30)

(***************************************************************************)
(* network_interface.cc: the five maps of an interface always agree, no    *)
(* cached address is older than MAX_CACHE_TIME, and a request is           *)
(* remembered for as long as it holds back the next, whatever datagrams,   *)
(* ARP messages and ticks come and in whatever order.                      *)
(***************************************************************************)
THEOREM InterfaceInvariant == ArpSpec => [](ArpTypeOK /\ MapsAgree /\ CacheFresh /\ RequestRemembered)
<1>1. InterfaceInv /\ [ArpNext]_ArpVars => InterfaceInv'
  BY NextInterfaceInv, SMTT(30)
<1>2. ArpSpec => []InterfaceInv
  BY InitInterfaceInv, <1>1, PTL DEF ArpSpec
<1>. QED  BY <1>2, PTL DEF InterfaceInv

(***************************************************************************)
(* network_interface.cc:45: two requests for an address are at least       *)
(* MAX_REQ_TIME apart, through waiting, answers and their expiry.          *)
(***************************************************************************)
THEOREM NoRequestTooSoon == ArpSpec => RequestsSpaced
<1>1. InterfaceInv /\ [ArpNext]_ArpVars => InterfaceInv'
  BY NextInterfaceInv
<1>2. ArpSpec => []InterfaceInv
  BY InitInterfaceInv, <1>1, PTL DEF ArpSpec
<1>3. InterfaceInv /\ [ArpNext]_ArpVars => [NoHaste]_ArpVars
  BY NextInterfaceInv
<1>4. ArpSpec => [][NoHaste]_ArpVars
  BY <1>2, <1>3, PTL DEF ArpSpec
<1>. QED  BY <1>4, PTL DEF RequestsSpaced, NoHaste

(***************************************************************************)
(* network_interface.cc:177: no cached address is used at or beyond        *)
(* MAX_CACHE_TIME, whatever the lengths of the ticks.                      *)
(***************************************************************************)
THEOREM CacheExpires == ArpSpec => []CacheFresh
<1>. QED  BY InterfaceInvariant, PTL

-----------------------------------------------------------------------------
(***************************************************************************)
(* The router's choice of an entry (Router).                               *)
(***************************************************************************)

\* A set of numbers has a least element.
LEMMA LeastElement ==
  ASSUME NEW T \in SUBSET Nat, T # {}
  PROVE  \E m \in T : \A n \in T : m <= n
<1>. DEFINE R == OpToRel(<, Nat)
<1>1. \E x \in T : \A y \in T : ~ (<<y, x>> \in R)
  BY NatLessThanWellFounded, WFMin, Zenon
<1>2. PICK m \in T : \A y \in T : ~ (<<y, m>> \in R)
  BY <1>1, Zenon
<1>3. ASSUME NEW n \in T PROVE m <= n
  <2>1. m \in Nat /\ n \in Nat
    OBVIOUS
  <2>2. ~ (n < m)
    BY <1>2, <2>1, Zenon DEF OpToRel
  <2>. HIDE DEF R
  <2>. QED  BY <2>1, <2>2
<1>. QED  BY <1>2, <1>3, Zenon

\* Induction up to a bound, over a set: what holds at 0 and is passed on to
\* the next number holds at every number. The loop over the routing table is
\* a recursive function, which this lemma unrolls.
LEMMA SetInduction ==
  ASSUME NEW T, NEW N \in Nat, 0 \in T,
         \A n \in 0 .. N - 1 : n \in T => n + 1 \in T
  PROVE  \A n \in 0 .. N : n \in T
<1>. DEFINE Missing == {n \in 0 .. N : n \notin T}
<1>1. SUFFICES ASSUME Missing # {} PROVE FALSE
  OBVIOUS
<1>2. Missing \in SUBSET Nat
  OBVIOUS
<1>3. PICK m \in Missing : \A n \in Missing : m <= n
  BY <1>1, <1>2, LeastElement, Zenon
<1>4. m \in 1 .. N /\ m \notin T
  BY <1>3
<1>5. m - 1 \in 0 .. N - 1 /\ m - 1 \in T
  BY <1>3, <1>4
<1>6. (m - 1) + 1 \in T
  BY <1>5
<1>. QED  BY <1>4, <1>6

\* f[i] is what the loop of route_one_datagram has found after i rounds, for
\* the first n of them.
IsScan(f, table, dst, n) ==
  f = [i \in 0 .. n |-> IF i = 0 THEN NoEntry ELSE Better(f[i - 1], table[i], dst)]

\* There is such a function, whatever the table: every round can be taken.
LEMMA ScanExists ==
  ASSUME NEW table, NEW dst, NEW N \in Nat
  PROVE  \E f : IsScan(f, table, dst, N)
<1>. DEFINE T == {n \in 0 .. N : \E f : IsScan(f, table, dst, n)}
<1>1. 0 \in T
  <2>1. IsScan([i \in 0 .. 0 |-> NoEntry], table, dst, 0)
    BY DEF IsScan
  <2>. QED  BY <2>1
<1>2. ASSUME NEW n \in 0 .. N - 1, n \in T PROVE n + 1 \in T
  <2>1. PICK f : IsScan(f, table, dst, n)
    BY <1>2, SMTT(30)
  <2>. DEFINE g == [i \in 0 .. n + 1 |-> IF i <= n THEN f[i] ELSE Better(f[n], table[n + 1], dst)]
              h == [i \in 0 .. n + 1 |-> IF i = 0 THEN NoEntry ELSE Better(g[i - 1], table[i], dst)]
  <2>2. ASSUME NEW i \in 0 .. n + 1 PROVE g[i] = h[i]
    <3>1. CASE i = 0
      BY <2>1, <3>1, SMTT(30) DEF IsScan
    <3>2. CASE i \in 1 .. n
      <4>1. g[i] = f[i] /\ g[i - 1] = f[i - 1] /\ f[i] = Better(f[i - 1], table[i], dst)
        BY <2>1, <3>2, SMTT(30) DEF IsScan
      <4>. QED  BY <3>2, <4>1, SMTT(30)
    <3>3. CASE i = n + 1
      <4>1. g[i - 1] = f[n]
        BY <3>3
      <4>2. g[i] = Better(f[n], table[n + 1], dst)
        BY <3>3
      <4>. QED  BY <3>3, <4>1, <4>2, SMTT(30)
    <3>. QED  BY <3>1, <3>2, <3>3, SMTT(30)
  <2>3. g = h
    BY <2>2, SMTT(30)
  <2>4. IsScan(g, table, dst, n + 1)
    BY <2>3 DEF IsScan
  <2>. HIDE DEF g, h
  <2>. QED  BY <2>4
<1>3. \A n \in 0 .. N : n \in T
  <2>. HIDE DEF T
  <2>. QED  BY <1>1, <1>2, SetInduction, Zenon
<1>. QED  BY <1>3

\* What longest_match returns is what the last round of the loop has found.
LEMMA ScanOfTable ==
  ASSUME NEW table, NEW dst, Len(table) \in Nat
  PROVE  \E f : IsScan(f, table, dst, Len(table)) /\ longest_match(table, dst) = f[Len(table)]
<1>. DEFINE F == CHOOSE f : IsScan(f, table, dst, Len(table))
<1>1. IsScan(F, table, dst, Len(table))
  BY ScanExists
<1>2. longest_match(table, dst) = F[Len(table)]
  BY Zenon DEF longest_match, IsScan
<1>. QED  BY <1>1, <1>2, Zenon

\* The entries among the first n that match, and which of them is right: none
\* is longer and none as long comes earlier.
Matching(table, dst, n) == {i \in 1 .. n : match(dst, table[i])}

Preferred(table, dst, n, i) ==
  /\ i \in Matching(table, dst, n)
  /\ \A j \in Matching(table, dst, n) :
       \/ table[j].length < table[i].length
       \/ table[j].length = table[i].length /\ i <= j

\* What the loop ought to hold after n rounds.
Found(entry, table, dst, n) ==
  IF Matching(table, dst, n) = {} THEN entry = NoEntry
  ELSE \E i \in Matching(table, dst, n) : Preferred(table, dst, n, i) /\ entry = table[i]

\* A round of the loop: "if (!found)" and the comparison of the lengths keep
\* the first of the longest entries seen so far.
LEMMA BetterKeeps ==
  ASSUME NEW table, NEW dst, NEW n \in Nat, NEW entry,
         \A i \in 1 .. n + 1 : "length" \in DOMAIN table[i] /\ table[i].length \in Nat,
         Found(entry, table, dst, n)
  PROVE  Found(Better(entry, table[n + 1], dst), table, dst, n + 1)
<1>. DEFINE M == Matching(table, dst, n)
            K == Matching(table, dst, n + 1)
            e == table[n + 1]
<1>1. M \subseteq 1 .. n /\ K \subseteq 1 .. n + 1
  BY Zenon DEF Matching
<1>2. \A i \in 1 .. n + 1 : table[i] # NoEntry
  BY DEF NoEntry
<1>3. 1 .. n + 1 = (1 .. n) \cup {n + 1}
  OBVIOUS
<1>4. K = IF match(dst, e) THEN M \cup {n + 1} ELSE M
  <2>1. K \subseteq M \cup {n + 1}
    BY <1>3, Zenon DEF Matching
  <2>2. M \subseteq K
    BY <1>3, Zenon DEF Matching
  <2>3. n + 1 \in K <=> match(dst, e)
    BY <1>3, Zenon DEF Matching
  <2>. HIDE DEF K, M, e
  <2>4. CASE match(dst, e)
    BY <2>1, <2>2, <2>3, <2>4, SMTT(30)
  <2>5. CASE ~ match(dst, e)
    <3>1. n + 1 \notin K
      BY <2>3, <2>5, Zenon
    <3>2. K = M
      BY <2>1, <2>2, <3>1, SMTT(30)
    <3>. QED  BY <2>5, <3>2, Zenon
  <2>. QED  BY <2>4, <2>5, Zenon
<1>5. CASE ~ match(dst, e)
  <2>1. K = M
    BY <1>4, <1>5, SMTT(30)
  <2>2. Better(entry, e, dst) = entry
    BY <1>5, SMTT(30) DEF Better
  <2>. QED  BY <2>1, <2>2, ZenonT(30) DEF Found, Preferred
<1>6. CASE match(dst, e)
  <2>1. K = M \cup {n + 1}
    BY <1>4, <1>6, SMTT(30)
  <2>2. CASE M = {}
    <3>1. Better(entry, e, dst) = e
      BY <1>6, <2>2, SMTT(30) DEF Better, Found
    <3>2. K = {n + 1}
      BY <2>1, <2>2, SMTT(30)
    <3>3. Preferred(table, dst, n + 1, n + 1)
      BY <3>2, SMTT(30) DEF Preferred
    <3>. QED  BY <3>1, <3>2, <3>3, SMTT(30) DEF Found
  <2>3. CASE M # {}
    <3>1. PICK i \in M : Preferred(table, dst, n, i) /\ entry = table[i]
      BY <2>3, SMTT(30) DEF Found
    <3>2. entry # NoEntry /\ i \in 1 .. n
      BY <1>1, <1>2, <3>1, SMTT(30)
    <3>3. \A j \in M : \/ table[j].length < table[i].length
                       \/ table[j].length = table[i].length /\ i <= j
      BY <3>1, SMTT(30) DEF Preferred
    <3>4. table[i].length \in Nat /\ e.length \in Nat
      BY <3>2, SMTT(30)
    <3>5. CASE table[i].length < e.length
      <4>1. Better(entry, e, dst) = e
        BY <1>6, <3>1, <3>5, SMTT(30) DEF Better
      <4>2. \A j \in M : table[j].length \in Nat
        BY <1>1, SMTT(30)
      <4>3. \A j \in M : table[j].length < e.length
        BY <3>3, <3>4, <3>5, <4>2, SMTT(30)
      <4>4. Preferred(table, dst, n + 1, n + 1)
        BY <2>1, <4>3, SMTT(30) DEF Preferred
      <4>. QED  BY <2>1, <4>1, <4>4, SMTT(30) DEF Found
    <3>6. CASE ~ (table[i].length < e.length)
      <4>1. Better(entry, e, dst) = entry
        BY <3>1, <3>2, <3>6, ZenonT(30) DEF Better
      <4>2. e.length < table[i].length \/ (e.length = table[i].length /\ i <= n + 1)
        BY <3>2, <3>4, <3>6, SMTT(30)
      <4>3. Preferred(table, dst, n + 1, i)
        BY <2>1, <3>1, <3>3, <4>2, SMTT(30) DEF Preferred
      <4>. QED  BY <2>1, <3>1, <4>1, <4>3, ZenonT(30) DEF Found
    <3>. QED  BY <3>5, <3>6, SMTT(30)
  <2>. QED  BY <2>2, <2>3, SMTT(30)
<1>. QED  BY <1>5, <1>6, Zenon

\* The whole loop leaves the first of the longest entries that match, or none.
LEMMA LongestMatch ==
  ASSUME NEW table, NEW dst, Len(table) \in Nat,
         \A i \in 1 .. Len(table) : "length" \in DOMAIN table[i] /\ table[i].length \in Nat
  PROVE  Found(longest_match(table, dst), table, dst, Len(table))
<1>1. PICK f : IsScan(f, table, dst, Len(table)) /\ longest_match(table, dst) = f[Len(table)]
  BY ScanOfTable
<1>. DEFINE N == Len(table)
            T == {n \in 0 .. N : Found(f[n], table, dst, n)}
<1>2. N \in Nat
  BY SMTT(30)
<1>3. 0 \in T
  <2>1. f[0] = NoEntry
    BY <1>1, SMTT(30) DEF IsScan
  <2>2. Matching(table, dst, 0) = {}
    BY SMTT(30) DEF Matching
  <2>. QED  BY <1>2, <2>1, <2>2, SMTT(30) DEF Found
<1>4. ASSUME NEW n \in 0 .. N - 1, n \in T PROVE n + 1 \in T
  <2>1. f[n + 1] = Better(f[n], table[n + 1], dst)
    BY <1>1 DEF IsScan
  <2>2. n \in Nat /\ 1 .. n + 1 \subseteq 1 .. Len(table)
    BY SMTT(30)
  <2>3. Found(Better(f[n], table[n + 1], dst), table, dst, n + 1)
    BY <1>4, <2>2, BetterKeeps, SMTT(30)
  <2>4. n + 1 \in 0 .. N
    OBVIOUS
  <2>. QED  BY <2>1, <2>3, <2>4, SMTT(30)
<1>5. \A n \in 0 .. N : n \in T
  <2>. HIDE DEF T, N
  <2>. QED  BY <1>2, <1>3, <1>4, SetInduction, ZenonT(30)
<1>6. N \in T
  BY <1>2, <1>5, SMTT(30)
<1>. QED  BY <1>1, <1>6, SMTT(30)

(***************************************************************************)
(* route_one_datagram, for any table and datagram: a datagram that is      *)
(* about to expire or that no entry matches is dropped; every other one    *)
(* goes, with its time to live counted down, to the interface of the entry *)
(* with the longest prefix among those that match, and of several as long  *)
(* to that of the one added first.                                         *)
(***************************************************************************)
THEOREM RouterPicksLongest ==
  ASSUME NEW Entries, \A e \in Entries : "length" \in DOMAIN e /\ e.length \in Nat,
         NEW r, r.table \in Seq(Entries), NEW dgram
  PROVE  LET matching == {i \in 1 .. Len(r.table) : match(dgram.dst, r.table[i])}
         IN  IF Expired(dgram) \/ matching = {}
             THEN route_one_datagram(r, dgram) = r
             ELSE \E i \in matching :
                    /\ \A j \in matching : \/ r.table[j].length < r.table[i].length
                                           \/ r.table[j].length = r.table[i].length /\ i <= j
                    /\ route_one_datagram(r, dgram)
                         = Forward(r, [dgram EXCEPT !.ttl = @ - 1], r.table[i])
<1>. DEFINE table == r.table
            M == Matching(table, dgram.dst, Len(table))
            best == longest_match(table, dgram.dst)
<1>1. /\ Len(table) \in Nat
      /\ \A i \in 1 .. Len(table) : "length" \in DOMAIN table[i] /\ table[i].length \in Nat
  <2>. HIDE DEF table
  <2>1. table \in Seq(Entries)
    BY DEF table
  <2>. QED  BY <2>1, LenOfSeq, SMTT(30)
<1>2. Found(best, table, dgram.dst, Len(table))
  BY <1>1, LongestMatch, Zenon
<1>3. CASE Expired(dgram)
  BY <1>3 DEF route_one_datagram
<1>4. CASE ~ Expired(dgram) /\ M = {}
  BY <1>2, <1>4, SMTT(30) DEF route_one_datagram, route_found, Found, Matching
<1>5. CASE ~ Expired(dgram) /\ M # {}
  <2>1. PICK i \in M : Preferred(table, dgram.dst, Len(table), i) /\ best = table[i]
    BY <1>2, <1>5, SMTT(30) DEF Found
  <2>2. i \in 1 .. Len(table)
    BY <2>1, SMTT(30) DEF Matching
  <2>3. best # NoEntry
    BY <1>1, <2>1, <2>2, SMTT(30) DEF NoEntry
  <2>4. route_one_datagram(r, dgram) = Forward(r, [dgram EXCEPT !.ttl = @ - 1], table[i])
    BY <1>5, <2>1, <2>3, SMTT(30) DEF route_one_datagram, route_found
  <2>. QED  BY <1>5, <2>1, <2>4, ZenonT(30) DEF Preferred, Matching
<1>. QED  BY <1>3, <1>4, <1>5, ZenonT(30)
=============================================================================
