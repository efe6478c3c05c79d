-------------------------- MODULE ReassemblyProofs --------------------------
(***************************************************************************)
(* For every capacity and every stream: what the reassembler promises      *)
(* (Reassembly). Sound, from ReassemblyLemmas, holds whatever is pushed;   *)
(* Orderly as long as pushes stay within the window, which is when no byte *)
(* is evicted or cut off.                                                  *)
(***************************************************************************)
EXTENDS ReassemblyLemmas, FiniteSetTheorems

\* An interval has as many elements as it is long.
LEMMA CountInterval ==
  ASSUME NEW a \in Nat, NEW b \in Nat, a <= b
  PROVE  IsFiniteSet(a .. b - 1) /\ Cardinality(a .. b - 1) = b - a
<1>1. a \in Int /\ b - 1 \in Int
  OBVIOUS
<1>2. /\ IsFiniteSet(a .. b - 1)
      /\ Cardinality(a .. b - 1) = IF a > b - 1 THEN 0 ELSE (b - 1) - a + 1
  BY <1>1, FS_Interval
<1>. QED  BY <1>2

\* Disjoint sets add up.
LEMMA CountDisjoint ==
  ASSUME NEW S, NEW T, IsFiniteSet(S), IsFiniteSet(T), S \cap T = {}
  PROVE  IsFiniteSet(S \cup T) /\ Cardinality(S \cup T) = Cardinality(S) + Cardinality(T)
<1>1. /\ IsFiniteSet(S \cup T)
      /\ Cardinality(S \cup T) = Cardinality(S) + Cardinality(T) - Cardinality(S \cap T)
  BY FS_Union
<1>2. Cardinality(S \cap T) = 0 /\ Cardinality(S) \in Nat /\ Cardinality(T) \in Nat
  BY FS_EmptySet, FS_CardinalityType, SMTT(30)
<1>. QED  BY <1>1, <1>2

\* Finitely many substrings wait.
LEMMA FiniteWaiting ==
  ASSUME NEW q, NEW d, Sound(q, d)
  PROVE  IsFiniteSet(DOMAIN q.substrs) /\ Cardinality(DOMAIN q.substrs) \in Nat
<1>1. DOMAIN q.substrs \subseteq 0 .. StreamLen /\ 0 \in Int /\ StreamLen \in Int
  BY ReassemblyAssumption DEF Sound
<1>2. IsFiniteSet(0 .. StreamLen)
  BY <1>1, FS_Interval, Zenon
<1>3. IsFiniteSet(DOMAIN q.substrs)
  BY <1>1, <1>2, FS_Subset, ZenonT(40)
<1>. QED  BY <1>3, FS_CardinalityType, Zenon

\* Finitely many bytes wait.
LEMMA FiniteBytes ==
  ASSUME NEW q
  PROVE  IsFiniteSet(Bytes(q)) /\ Cardinality(Bytes(q)) \in Nat
<1>1. 0 \in Int /\ StreamLen \in Int
  BY ReassemblyAssumption
<1>2. IsFiniteSet(0 .. StreamLen) /\ Bytes(q) \in SUBSET (0 .. StreamLen)
  BY <1>1, FS_Interval, SMTT(40) DEF Bytes
<1>3. IsFiniteSet(Bytes(q))
  BY <1>2, FS_Subset, ZenonT(40)
<1>. QED  BY <1>3, FS_CardinalityType, ZenonT(40)

\* Moving a whole waiting substring to the output keeps Orderly, the end of
\* the window and the eof.
LEMMA MovedOrderly ==
  ASSUME NEW q, NEW q2, NEW d, Sound(q, d), Orderly(q), q.output.written \in DOMAIN q.substrs,
         Moved(q, q2, q.output.written, EndAt(q, q.output.written),
               EndAt(q, q.output.written) - q.output.written)
  PROVE  /\ Orderly(q2) /\ WindowEnd(q2) = WindowEnd(q)
         /\ DOMAIN q2.substrs = DOMAIN q.substrs \ {q.output.written}
         /\ Marked(q2) <=> Marked(q)
<1>. DEFINE w == q.output.written
            e == EndAt(q, w)
            n == e - w
<1>1. /\ w \in Nat /\ e \in Nat /\ w <= e /\ e <= StreamLen /\ w \in DOMAIN q.substrs
      /\ StreamLen \in Nat /\ n \in Nat /\ w + n = e /\ n \in 0 .. e - w
      /\ q.output.buffer \in Seq(Nat) /\ Len(q.output.buffer) \in Nat
      /\ q.output.input_end \in BOOLEAN /\ q.substrs[w].eof \in BOOLEAN
  BY ReassemblyAssumption, LenOfSeq DEF Sound
<1>2. Moved(q, q2, w, e, n)
  OBVIOUS
<1>3. /\ q.size = Cardinality(Bytes(q))
      /\ q.output.input_end => w = StreamLen
      /\ q.substrs[w].eof => e = StreamLen
      /\ \A i \in DOMAIN q.substrs :
           /\ EndAt(q, i) <= WindowEnd(q)
           /\ q.substrs[i].eof => EndAt(q, i) = StreamLen
  BY <1>1 DEF Orderly
<1>4. \A i \in DOMAIN q.substrs \ {w} : i \in Nat /\ e <= i /\ EndAt(q, i) \in Nat /\ i <= EndAt(q, i)
  <2>1. \A i \in DOMAIN q.substrs : i \in Nat /\ w <= i /\ EndAt(q, i) \in Nat /\ i <= EndAt(q, i)
    BY <1>1, SMTT(40) DEF Sound
  <2>2. \A i \in DOMAIN q.substrs \ {w} : w < i
    BY <1>1, <2>1, SMTT(40)
  <2>. QED  BY <1>1, <2>1, <2>2, SMTT(30) DEF Sound
<1>5. q.output.capacity = Capacity /\ Capacity \in Nat /\ q.size \in 0 .. SizeMod - 1
  BY ReassemblyAssumption DEF Sound
<1>. HIDE DEF w, e, n
<1>6. \A i \in DOMAIN q.substrs \ {w} : EndAt(q2, i) = EndAt(q, i)
  BY <1>1, <1>2, MovedEnds, SMTT(40)
<1>7. DOMAIN q2.substrs = DOMAIN q.substrs \ {w}
  <2>1. DOMAIN q2.substrs = (DOMAIN q.substrs \ {w}) \cup {i \in {w + n} : i < e}
    BY <1>2 DEF Moved
  <2>2. {i \in {w + n} : i < e} = {}
    BY <1>1, SMTT(30)
  <2>. QED  BY <2>1, <2>2, SMTT(30)
<1>8. q2.output.written = e /\ WindowEnd(q2) = WindowEnd(q)
  <2>. DEFINE more == StreamBytes(w, w + n)
  <2>1. /\ q2.output.written = w + n /\ q2.output.buffer = q.output.buffer \o more
        /\ q2.output.capacity = Capacity
    BY <1>2, <1>5, ZenonT(40) DEF Moved
  <2>2. more \in Seq(Nat) /\ Len(more) = n
    <3>1. w + n \in Nat /\ w <= w + n /\ (w + n) - w = n
      BY <1>1, SMTT(40)
    <3>. QED  BY <1>1, <3>1, StreamBytesType, ZenonT(40)
  <2>. HIDE DEF more
  <2>3. Len(q2.output.buffer) = Len(q.output.buffer) + n
    BY <1>1, <2>1, <2>2, Concatenation, ZenonT(40)
  <2>. QED  BY <1>1, <1>5, <2>1, <2>3, SMTT(30) DEF WindowEnd, remaining_capacity, w
<1>9. q2.size = Cardinality(Bytes(q2))
  <2>. DEFINE S == Bytes(q2)
              I == w .. e - 1
  <2>1. Bytes(q) = S \cup I /\ S \cap I = {}
    <3>1. \A x \in S : x \in Bytes(q) /\ x >= e
      BY <1>1, <1>4, <1>6, <1>7, SMTT(30) DEF Bytes
    <3>2. \A x \in I : x \in Bytes(q) /\ x < e
      BY <1>1 DEF Bytes, e
    <3>3. \A x \in Bytes(q) : x \in S \/ x \in I
      <4>1. ASSUME NEW x \in Bytes(q) PROVE x \in S \/ x \in I
        <5>1. PICK i \in DOMAIN q.substrs : i <= x /\ x < EndAt(q, i)
          BY DEF Bytes
        <5>2. x \in 0 .. StreamLen
          BY DEF Bytes
        <5>3. CASE i = w
          BY <1>1, <5>1, <5>2, <5>3, SMTT(30) DEF e
        <5>4. CASE i # w
          BY <1>6, <1>7, <5>1, <5>2, <5>4, SMTT(30) DEF Bytes
        <5>. QED  BY <5>3, <5>4
      <4>. QED  BY <4>1
    <3>4. \A x \in I : x \in Nat /\ x < e
      BY <1>1
    <3>5. \A x \in S : x \in Nat
      BY <1>1 DEF Bytes
    <3>. HIDE DEF S, I
    <3>6. S \cap I = {}
      BY <1>1, <3>1, <3>4, <3>5, SMTT(30)
    <3>. QED  BY <3>1, <3>2, <3>3, <3>6, Zenon
  <2>2. IsFiniteSet(S) /\ Cardinality(S) \in Nat
    BY FiniteBytes
  <2>3. IsFiniteSet(I) /\ Cardinality(I) = n
    BY <1>1, CountInterval, SMTT(40) DEF n
  <2>. HIDE DEF S, I
  <2>4. Cardinality(Bytes(q)) = Cardinality(S) + n
    BY <2>1, <2>2, <2>3, CountDisjoint, ZenonT(30)
  <2>5. q2.size = (q.size - n) % SizeMod
    BY <1>2 DEF Moved
  <2>6. q.size - n = Cardinality(S) /\ Cardinality(S) \in 0 .. SizeMod - 1
    BY <1>1, <1>3, <1>5, <2>2, <2>4, SizeModAssumption, SMTT(30)
  <2>7. Cardinality(S) % SizeMod = Cardinality(S)
    BY <2>6, SmallMod, SizeModAssumption, SMTT(30)
  <2>. QED  BY <2>5, <2>6, <2>7 DEF S
<1>10. q2.output.input_end = (q.output.input_end \/ (w + n = e /\ q.substrs[w].eof))
  BY <1>2, SMTT(30) DEF Moved
<1>11. q2.output.input_end => q2.output.written = StreamLen
  <2>1. e = StreamLen \/ ~q.output.input_end
    BY <1>1, <1>3, SMTT(30)
  <2>2. q2.output.written = e
    BY <1>1, <1>8, SMTT(30)
  <2>. QED  BY <1>3, <1>10, <2>1, <2>2, ZenonT(30)
<1>12. \A i \in DOMAIN q2.substrs :
         /\ EndAt(q2, i) <= WindowEnd(q2)
         /\ q2.substrs[i].eof => EndAt(q2, i) = StreamLen
  <2>1. \A i \in DOMAIN q2.substrs : q2.substrs[i] = q.substrs[i] /\ EndAt(q2, i) = EndAt(q, i)
    BY <1>2, <1>6, <1>7, SMTT(30) DEF Moved
  <2>. QED  BY <1>3, <1>7, <1>8, <2>1, SMTT(30)
<1>13. Marked(q2) <=> Marked(q)
  <2>1. \A i \in DOMAIN q.substrs \ {w} : q2.substrs[i] = q.substrs[i]
    BY <1>2, Zenon DEF Moved
  <2>. QED  BY <1>1, <1>7, <1>10, <2>1, ZenonT(30) DEF Marked
<1>. QED  BY <1>7, <1>8, <1>9, <1>11, <1>12, <1>13, SMTT(30) DEF Orderly, w

\* A clear piece within the window adds its bytes to those that wait, and all
\* of them fit in the capacity together with the buffered ones.
LEMMA BytesWithPiece ==
  ASSUME NEW q, NEW d, Sound(q, d), Orderly(q), NEW p, Clear(q, p), InWindow(q, p)
  PROVE  LET m == PEnd(p) - p.index
             I == p.index .. PEnd(p) - 1
         IN  /\ m \in Nat /\ Bytes(q) \cap I = {}
             /\ Cardinality(Bytes(q) \cup I) = q.size + m
             /\ q.size \in Nat /\ q.size + m <= Capacity - Len(q.output.buffer)
<1>. DEFINE b == p.index
            e == PEnd(p)
            I == b .. e - 1
            w == q.output.written
            room == Capacity - Len(q.output.buffer)
            S == Bytes(q)
<1>1. /\ b \in Nat /\ e \in Nat /\ b <= e /\ e <= StreamLen /\ StreamLen \in Nat
      /\ w <= b /\ e <= WindowEnd(q)
      /\ \A i \in DOMAIN q.substrs : EndAt(q, i) <= b \/ e <= i
  BY ReassemblyAssumption, SMTT(40) DEF Clear, InWindow
<1>2. /\ w \in Nat /\ WindowEnd(q) = w + room /\ WindowEnd(q) \in Nat /\ room \in Nat
  BY WindowFacts, SMTT(40)
<1>3. \A i \in DOMAIN q.substrs : /\ i \in Nat /\ EndAt(q, i) \in Nat /\ i <= EndAt(q, i)
                                  /\ w <= i /\ EndAt(q, i) <= WindowEnd(q)
  BY <1>1 DEF Sound, Orderly
<1>4. q.size = Cardinality(S) /\ IsFiniteSet(S) /\ Cardinality(S) \in Nat
  BY FiniteBytes DEF Orderly
<1>5. \A x \in S : /\ x \in Nat
                   /\ \E i \in DOMAIN q.substrs : i <= x /\ x < EndAt(q, i)
  BY <1>1, SMTT(40) DEF Bytes
<1>. HIDE DEF b, e, w, room, S
<1>6. S \cap I = {}
  <2>1. SUFFICES ASSUME NEW x \in S, x \in I PROVE FALSE
    OBVIOUS
  <2>2. PICK i \in DOMAIN q.substrs : i <= x /\ x < EndAt(q, i)
    BY <1>5
  <2>3. x \in Nat /\ b <= x /\ x < e
    BY <1>1, <2>1, SMTT(30)
  <2>. QED  BY <1>1, <1>3, <2>2, <2>3, SMTT(30)
<1>7. IsFiniteSet(I) /\ Cardinality(I) = e - b /\ e - b \in Nat
  BY <1>1, CountInterval, SMTT(30)
<1>8. \A x \in S \cup I : x \in w .. (w + room) - 1
  <2>1. ASSUME NEW x \in S PROVE x \in w .. (w + room) - 1
    <3>1. PICK i \in DOMAIN q.substrs : i <= x /\ x < EndAt(q, i)
      BY <1>5
    <3>. QED  BY <1>2, <1>3, <1>5, <3>1, SMTT(30)
  <2>2. ASSUME NEW x \in I PROVE x \in w .. (w + room) - 1
    BY <1>1, <1>2, SMTT(40)
  <2>. QED  BY <2>1, <2>2, SMTT(40)
<1>9. /\ IsFiniteSet(w .. (w + room) - 1) /\ Cardinality(w .. (w + room) - 1) = (w + room) - w
  <2>1. w + room \in Nat /\ w <= w + room
    BY <1>2
  <2>. QED  BY <1>2, <2>1, CountInterval, ZenonT(40)
<1>. HIDE DEF I
<1>10. S \cup I \in SUBSET (w .. (w + room) - 1)
  BY <1>8, SMTT(40)
<1>11. Cardinality(S \cup I) <= (w + room) - w
  BY <1>9, <1>10, FS_Subset, Zenon
<1>12. Cardinality(S \cup I) = Cardinality(S) + (e - b)
  BY <1>4, <1>6, <1>7, CountDisjoint, ZenonT(30)
<1>13. q.size + (e - b) <= room
  BY <1>2, <1>4, <1>7, <1>11, <1>12, SMTT(40)
<1>. QED  BY <1>4, <1>6, <1>7, <1>12, <1>13, SMTT(30) DEF b, e, I, S, room

\* Adding such a piece keeps Orderly, and an eof is known afterwards if it
\* was known before or came with the piece.
LEMMA AddedOrderly ==
  ASSUME NEW q, NEW q2, NEW d, Sound(q, d), Orderly(q), NEW p, Clear(q, p), InWindow(q, p),
         Added(q, q2, p, PEnd(p) - p.index)
  PROVE  Orderly(q2) /\ WindowEnd(q2) = WindowEnd(q) /\ (Marked(q2) <=> Marked(q) \/ p.eof)
<1>. DEFINE b == p.index
            e == PEnd(p)
            I == b .. e - 1
            S == Bytes(q)
<1>1. /\ b \in Nat /\ e \in Nat /\ b <= e /\ e <= StreamLen /\ StreamLen \in Nat
      /\ e <= WindowEnd(q) /\ p.eof \in BOOLEAN
  BY ReassemblyAssumption, SMTT(40) DEF Clear, InWindow
<1>2. /\ p.eof => e = StreamLen
      /\ b \in DOMAIN q.substrs => EndAt(q, b) <= b /\ (q.substrs[b].eof => p.eof)
  BY Zenon DEF InWindow
<1>3. /\ e - b \in Nat /\ Cardinality(S \cup I) = q.size + (e - b)
      /\ q.size \in Nat /\ q.size + (e - b) <= Capacity - Len(q.output.buffer)
  BY BytesWithPiece, SMTT(30)
<1>4. /\ Len(q.output.buffer) \in Nat /\ Capacity \in Nat /\ Capacity < SizeMod /\ SizeMod \in Nat \ {0}
  BY WindowFacts, ReassemblyAssumption, SizeModAssumption, SMTT(40)
<1>5. \A i \in DOMAIN q.substrs : i \in Nat /\ EndAt(q, i) \in Nat
  BY <1>1, SMTT(40) DEF Sound
<1>6. /\ q2.output = q.output
      /\ q2.size = (q.size + (e - b)) % SizeMod
      /\ DOMAIN q2.substrs = DOMAIN q.substrs \cup {b}
      /\ \A i \in DOMAIN q.substrs \ {b} : q2.substrs[i] = q.substrs[i]
      /\ q2.substrs[b].eof = p.eof
  BY SMTT(40) DEF Added
<1>7. /\ \A i \in DOMAIN q.substrs \ {b} : EndAt(q2, i) = EndAt(q, i)
      /\ EndAt(q2, b) = b + (e - b)
  BY <1>1, <1>3, AddedEnds, SMTT(30)
<1>8. EndAt(q2, b) = e
  BY <1>1, <1>7, SMTT(40)
<1>. HIDE DEF b, e
<1>9. WindowEnd(q2) = WindowEnd(q)
  BY <1>6, ZenonT(40) DEF WindowEnd
<1>10. \A i \in DOMAIN q2.substrs :
         /\ EndAt(q2, i) <= WindowEnd(q2)
         /\ q2.substrs[i].eof => EndAt(q2, i) = StreamLen
  <2>1. ASSUME NEW i \in DOMAIN q2.substrs
        PROVE  /\ EndAt(q2, i) <= WindowEnd(q2)
               /\ q2.substrs[i].eof => EndAt(q2, i) = StreamLen
    <3>1. CASE i = b
      BY <1>1, <1>2, <1>6, <1>8, <1>9, <3>1, SMTT(30)
    <3>2. CASE i # b
      <4>1. i \in DOMAIN q.substrs \ {b}
        BY <1>6, <3>2, SMTT(30)
      <4>2. /\ EndAt(q, i) <= WindowEnd(q)
            /\ q.substrs[i].eof => EndAt(q, i) = StreamLen
        BY <4>1, SMTT(40) DEF Orderly
      <4>. QED  BY <1>6, <1>7, <1>9, <4>1, <4>2, SMTT(30)
    <3>. QED  BY <3>1, <3>2, SMTT(30)
  <2>. QED  BY <2>1, SMTT(40)
<1>11. Bytes(q2) = S \cup I
  <2>1. ASSUME NEW x \in Bytes(q2) PROVE x \in S \cup I
    <3>1. PICK i \in DOMAIN q2.substrs : i <= x /\ x < EndAt(q2, i)
      BY DEF Bytes
    <3>2. x \in 0 .. StreamLen
      BY DEF Bytes
    <3>3. CASE i = b
      BY <1>1, <1>8, <3>1, <3>2, <3>3, SMTT(30)
    <3>4. CASE i # b
      BY <1>6, <1>7, <3>1, <3>2, <3>4, SMTT(30) DEF Bytes
    <3>. QED  BY <3>3, <3>4, SMTT(40)
  <2>2. ASSUME NEW x \in S PROVE x \in Bytes(q2)
    <3>1. PICK i \in DOMAIN q.substrs : i <= x /\ x < EndAt(q, i)
      BY DEF Bytes
    <3>2. x \in 0 .. StreamLen
      BY SMTT(40) DEF Bytes
    <3>3. i # b
      BY <1>1, <1>2, <1>5, <3>1, <3>2, SMTT(30)
    <3>. QED  BY <1>6, <1>7, <3>1, <3>2, <3>3, SMTT(30) DEF Bytes
  <2>3. ASSUME NEW x \in I PROVE x \in Bytes(q2)
    <3>1. b \in DOMAIN q2.substrs /\ b <= x /\ x < EndAt(q2, b) /\ x \in 0 .. StreamLen
      BY <1>1, <1>6, <1>8, SMTT(30)
    <3>. QED  BY <3>1, SMTT(30) DEF Bytes
  <2>. HIDE DEF S, I
  <2>. QED  BY <2>1, <2>2, <2>3, SMTT(30)
<1>12. q2.size = Cardinality(Bytes(q2))
  <2>1. q.size + (e - b) \in 0 .. SizeMod - 1
    BY <1>3, <1>4, SMTT(30)
  <2>2. (q.size + (e - b)) % SizeMod = q.size + (e - b)
    BY <1>4, <2>1, SmallMod, SMTT(30)
  <2>. QED  BY <1>3, <1>6, <1>11, <2>2, ZenonT(40)
<1>13. q2.output.input_end => q2.output.written = StreamLen
  BY <1>6, SMTT(30) DEF Orderly
<1>14. Marked(q2) <=> Marked(q) \/ p.eof
  BY <1>2, <1>6, ZenonT(30) DEF Marked
<1>. QED  BY <1>9, <1>10, <1>12, <1>13, <1>14, SMTT(30) DEF Orderly

-----------------------------------------------------------------------------
\* As the waiting substrings do not overlap, counting byte by byte in each
\* substring counts stream indices.
LEMMA WaitingCount ==
  ASSUME NEW d, Sound(r, d)
  PROVE  Cardinality(WaitingBytes) = Cardinality(Bytes(r))
<1>. DEFINE W == WaitingBytes
            B == Bytes(r)
            f == [x \in W |-> x[1] + x[2]]
<1>1. \A i \in DOMAIN r.substrs : /\ i \in Nat /\ EndAt(r, i) \in Nat /\ i <= EndAt(r, i)
                                  /\ EndAt(r, i) <= StreamLen
                                  /\ Len(r.substrs[i].data) = EndAt(r, i) - i
  <2>1. ASSUME NEW i \in DOMAIN r.substrs
        PROVE  /\ i \in Nat /\ EndAt(r, i) \in Nat /\ i <= EndAt(r, i)
               /\ EndAt(r, i) <= StreamLen
               /\ Len(r.substrs[i].data) = EndAt(r, i) - i
    <3>1. /\ i \in Nat /\ EndAt(r, i) \in Nat /\ i <= EndAt(r, i) /\ EndAt(r, i) <= StreamLen
          /\ r.substrs[i].data = StreamBytes(i, EndAt(r, i))
      BY ReassemblyAssumption DEF Sound
    <3>2. Len(StreamBytes(i, EndAt(r, i))) = EndAt(r, i) - i
      BY <3>1, StreamBytesType, ZenonT(40)
    <3>. QED  BY <3>1, <3>2, ZenonT(40)
  <2>. QED  BY <2>1, SMTT(40)
<1>2. \A i, j \in DOMAIN r.substrs : i < j => EndAt(r, i) <= j
  BY DEF Sound
<1>3. ASSUME NEW x \in W
      PROVE  \E i \in DOMAIN r.substrs : \E k \in 0 .. EndAt(r, i) - i - 1 : x = <<i, k>>
  <2>1. PICK i \in DOMAIN r.substrs : x \in {i} \X (0 .. Len(r.substrs[i].data) - 1)
    BY DEF WaitingBytes
  <2>2. x = <<x[1], x[2]>> /\ x[1] = i /\ x[2] \in 0 .. Len(r.substrs[i].data) - 1
    BY <2>1, SMTT(40)
  <2>3. x[2] \in 0 .. EndAt(r, i) - i - 1
    BY <1>1, <2>2, SMTT(40)
  <2>. QED  BY <2>2, <2>3, SMTT(40)
<1>4. ASSUME NEW i \in DOMAIN r.substrs, NEW k \in 0 .. EndAt(r, i) - i - 1
      PROVE  <<i, k>> \in W
  <2>1. k \in 0 .. Len(r.substrs[i].data) - 1
    BY <1>1, SMTT(40)
  <2>2. <<i, k>> \in {i} \X (0 .. Len(r.substrs[i].data) - 1)
    BY <2>1, SMTT(40)
  <2>. QED  BY <2>2, SMTT(40) DEF WaitingBytes
<1>. HIDE DEF W
<1>5. ASSUME NEW i \in DOMAIN r.substrs, NEW k \in 0 .. EndAt(r, i) - i - 1
      PROVE  f[<<i, k>>] = i + k /\ i + k \in B
  <2>1. f[<<i, k>>] = i + k
    BY <1>4, SMTT(40)
  <2>2. i + k \in 0 .. StreamLen /\ i <= i + k /\ i + k < EndAt(r, i)
    BY <1>1, ReassemblyAssumption, SMTT(40)
  <2>. QED  BY <2>1, <2>2, SMTT(40) DEF Bytes
<1>6. f \in [W -> B]
  <2>1. ASSUME NEW x \in W PROVE f[x] \in B
    <3>1. PICK i \in DOMAIN r.substrs : \E k \in 0 .. EndAt(r, i) - i - 1 : x = <<i, k>>
      BY <1>3, SMTT(40)
    <3>2. PICK k \in 0 .. EndAt(r, i) - i - 1 : x = <<i, k>>
      BY <3>1, SMTT(40)
    <3>3. f[<<i, k>>] \in B
      BY <1>5, SMTT(40)
    <3>. QED  BY <3>2, <3>3, ZenonT(40)
  <2>. QED  BY <2>1
<1>7. IsInjective(f)
  <2>1. SUFFICES ASSUME NEW x \in W, NEW y \in W, f[x] = f[y] PROVE x = y
    BY DEF IsInjective
  <2>2. PICK i \in DOMAIN r.substrs : \E k \in 0 .. EndAt(r, i) - i - 1 : x = <<i, k>>
    BY <1>3
  <2>3. PICK k \in 0 .. EndAt(r, i) - i - 1 : x = <<i, k>>
    BY <2>2, SMTT(40)
  <2>4. PICK j \in DOMAIN r.substrs : \E l \in 0 .. EndAt(r, j) - j - 1 : y = <<j, l>>
    BY <1>3, SMTT(40)
  <2>5. PICK l \in 0 .. EndAt(r, j) - j - 1 : y = <<j, l>>
    BY <2>4, SMTT(40)
  <2>6. f[x] = i + k /\ f[y] = j + l
    BY <1>5, <2>3, <2>5, ZenonT(40)
  <2>7. i + k = j + l
    BY <2>1, <2>6, ZenonT(40)
  <2>8. ~(i < j) /\ ~(j < i)
    BY <1>1, <1>2, <2>7, SMTT(30)
  <2>9. i = j /\ k = l
    BY <1>1, <2>7, <2>8, SMTT(30)
  <2>. QED  BY <2>3, <2>5, <2>9, ZenonT(40)
<1>8. \A z \in B : \E x \in W : f[x] = z
  <2>1. ASSUME NEW z \in B PROVE \E x \in W : f[x] = z
    <3>1. PICK i \in DOMAIN r.substrs : i <= z /\ z < EndAt(r, i)
      BY DEF Bytes
    <3>2. z \in Nat
      BY ReassemblyAssumption, SMTT(40) DEF Bytes
    <3>3. z - i \in 0 .. EndAt(r, i) - i - 1 /\ i + (z - i) = z
      BY <1>1, <3>1, <3>2, SMTT(30)
    <3>4. <<i, z - i>> \in W /\ f[<<i, z - i>>] = i + (z - i)
      BY <1>4, <1>5, <3>3, SMTT(30)
    <3>. QED  BY <3>3, <3>4, ZenonT(40)
  <2>. QED  BY <2>1
<1>. HIDE DEF f, B
<1>9. f \in Injection(W, B) /\ f \in Surjection(W, B)
  BY <1>6, <1>7, <1>8, ZenonT(40) DEF Injection, Surjection
<1>10. IsFiniteSet(B)
  BY FiniteBytes, SMTT(40) DEF B
<1>11. Cardinality(W) = Cardinality(B)
  BY <1>9, <1>10, FS_Injection, ZenonT(40)
<1>. QED  BY <1>11, SMTT(40) DEF W, B

\* What waits fits in the window.
LEMMA WaitingFits ==
  ASSUME NEW q, NEW d, Sound(q, d), Orderly(q)
  PROVE  Cardinality(Bytes(q)) + buffer_size(q.output) <= Capacity
<1>. DEFINE w == q.output.written
            l == Len(q.output.buffer)
            S == Bytes(q)
            I == w .. WindowEnd(q) - 1
<1>1. /\ w \in Nat /\ WindowEnd(q) \in Nat /\ l \in Nat /\ Capacity \in Nat /\ l <= Capacity
      /\ WindowEnd(q) = w + (Capacity - l)
  BY WindowFacts, SMTT(40)
<1>2. \A i \in DOMAIN q.substrs : /\ i \in Nat /\ EndAt(q, i) \in Nat
                                  /\ w <= i /\ EndAt(q, i) <= WindowEnd(q)
  BY ReassemblyAssumption, SMTT(40) DEF Sound, Orderly
<1>3. \A x \in S : /\ x \in Nat
                   /\ \E i \in DOMAIN q.substrs : i <= x /\ x < EndAt(q, i)
  BY ReassemblyAssumption, SMTT(40) DEF Bytes
<1>4. Cardinality(S) \in Nat
  BY FiniteBytes, SMTT(40)
<1>. HIDE DEF w, l, S
<1>5. \A x \in S : x \in I
  <2>1. ASSUME NEW x \in S PROVE x \in I
    <3>1. PICK i \in DOMAIN q.substrs : i <= x /\ x < EndAt(q, i)
      BY <1>3
    <3>. QED  BY <1>1, <1>2, <1>3, <3>1, SMTT(30)
  <2>. QED  BY <2>1, SMTT(40)
<1>6. IsFiniteSet(I) /\ Cardinality(I) = WindowEnd(q) - w
  <2>1. w <= WindowEnd(q)
    BY <1>1
  <2>. QED  BY <1>1, <2>1, CountInterval, ZenonT(40)
<1>. HIDE DEF I
<1>7. S \in SUBSET I
  BY <1>5
<1>8. Cardinality(S) <= Cardinality(I)
  BY <1>6, <1>7, FS_Subset, SMTT(30)
<1>9. Cardinality(S) + l <= Capacity
  BY <1>1, <1>4, <1>6, <1>8, SMTT(30)
<1>. QED  BY <1>9, SMTT(30) DEF S, l, buffer_size

-----------------------------------------------------------------------------
\* So does the whole loop.
LEMMA DrainSound ==
  ASSUME NEW q, NEW d, Sound(q, d)
  PROVE  /\ Sound(Drain(q), d)
         /\ \A p : Clear(q, p) /\ p.index < PEnd(p) => Clear(Drain(q), p)
         /\ \A m, ended, old : Within(q, m, ended, old) => Within(Drain(q), m, ended, old)
<1>. DEFINE N == Cardinality(DOMAIN q.substrs)
<1>1. N \in Nat
  BY FiniteWaiting, ZenonT(40)
<1>2. PICK f : /\ \A k \in 0 .. N : f[k] = IF k = 0 THEN q ELSE DrainStep(f[k - 1])
               /\ Drain(q) = f[N]
  BY <1>1, DrainLoop, ZenonT(40)
<1>. HIDE DEF N
<1>. DEFINE T == {k \in 0 .. N : /\ Sound(f[k], d)
                                 /\ \A p : Clear(q, p) /\ p.index < PEnd(p) => Clear(f[k], p)
                                 /\ \A m, ended, old : Within(q, m, ended, old) => Within(f[k], m, ended, old)}
<1>3. 0 \in T
  <2>1. 0 \in 0 .. N /\ f[0] = q
    BY <1>1, <1>2, SMTT(40)
  <2>. QED  BY <2>1, ZenonT(40)
<1>4. ASSUME NEW k \in 0 .. N - 1, k \in T PROVE k + 1 \in T
  <2>1. /\ k + 1 \in 0 .. N /\ k + 1 # 0 /\ (k + 1) - 1 = k
    BY <1>1, SMTT(40)
  <2>2. f[k + 1] = DrainStep(f[k])
    BY <1>2, <2>1, SMTT(40)
  <2>3. /\ Sound(f[k], d)
        /\ \A p : Clear(q, p) /\ p.index < PEnd(p) => Clear(f[k], p)
        /\ \A m, ended, old : Within(q, m, ended, old) => Within(f[k], m, ended, old)
    BY <1>4, ZenonT(40)
  <2>4. /\ Sound(DrainStep(f[k]), d)
        /\ \A p : Clear(f[k], p) /\ p.index < PEnd(p) => Clear(DrainStep(f[k]), p)
        /\ \A m, ended, old : Within(f[k], m, ended, old) => Within(DrainStep(f[k]), m, ended, old)
    BY <2>3, DrainStepSound, ZenonT(40)
  <2>. QED  BY <2>1, <2>2, <2>3, <2>4, ZenonT(40)
<1>5. N \in T
  <2>1. \A k \in 0 .. N : k \in T
    <3>. HIDE DEF T
    <3>. QED  BY <1>1, <1>3, <1>4, SetInduction, SMTT(30)
  <2>. QED  BY <1>1, <2>1, SMTT(30)
<1>. QED  BY <1>2, <1>5, ZenonT(40)

\* Storing a clear piece, with the eviction before and the writing loop
\* after, keeps Sound and the pieces apart from it clear.
LEMMA StoreSound ==
  ASSUME NEW q, NEW d, Sound(q, d), NEW p, Clear(q, p)
  PROVE  /\ Sound(Store(q, p), d)
         /\ \A p2 : Clear(q, p2) /\ Apart(p, p2) /\ p2.index < PEnd(p2) => Clear(Store(q, p), p2)
         /\ \A l, ended, old : Within(q, l, ended, old) /\ Allowed(p, l, ended) => Within(Store(q, p), l, ended, old)
<1>1. CASE Len(p.data) > empty_size(q) /\ ~empty(q) /\ LastIndex(q) < p.index
  <2>1. Store(q, p) = q
    BY <1>1 DEF Store
  <2>. QED  BY <2>1, ZenonT(40)
<1>2. CASE ~(Len(p.data) > empty_size(q) /\ ~empty(q) /\ LastIndex(q) < p.index)
  <2>. DEFINE room == MakeRoom(q, p.data, p.index)
  <2>1. Store(q, p) = Put(room, p)
    BY <1>2, Zenon DEF Store
  <2>2. /\ Sound(room.r, d)
        /\ \A p2 : Clear(q, p2) => Clear(room.r, p2)
        /\ \A l, ended, old : Within(q, l, ended, old) => Within(room.r, l, ended, old)
        /\ \E m \in 0 .. PEnd(p) - p.index : room.data = StreamBytes(p.index, p.index + m)
    BY MakeRoomKeeps, ZenonT(40)
  <2>. HIDE DEF room
  <2>3. PICK m \in 0 .. PEnd(p) - p.index : room.data = StreamBytes(p.index, p.index + m)
    BY <2>2, SMTT(30)
  <2>4. p.index \in Nat /\ m \in Nat
    BY ReassemblyAssumption DEF Clear
  <2>5. PICK q2 : Added(room.r, q2, p, m) /\ Put(room, p) = Drain(q2)
    BY <2>2, <2>3, <2>4, PutAdds, ZenonT(40)
  <2>6. /\ Sound(q2, d)
        /\ \A p2 : Clear(room.r, p2) /\ Apart(p, p2) => Clear(q2, p2)
        /\ \A l, ended, old : Within(room.r, l, ended, old) /\ Allowed(p, l, ended) => Within(q2, l, ended, old)
    BY <2>2, <2>5, AddedSound, ZenonT(40)
  <2>7. /\ Sound(Drain(q2), d)
        /\ \A p2 : Clear(q2, p2) /\ p2.index < PEnd(p2) => Clear(Drain(q2), p2)
        /\ \A l, ended, old : Within(q2, l, ended, old) => Within(Drain(q2), l, ended, old)
    BY <2>6, DrainSound, ZenonT(40)
  <2>. QED  BY <2>1, <2>2, <2>5, <2>6, <2>7, ZenonT(40)
<1>. QED  BY <1>1, <1>2, SMTT(30)

\* A turn of the writing loop writes a whole substring if the pushes were
\* orderly, and keeps Orderly.
LEMMA DrainStepOrderly ==
  ASSUME NEW q, NEW d, Sound(q, d), Orderly(q)
  PROVE  /\ Orderly(DrainStep(q)) /\ WindowEnd(DrainStep(q)) = WindowEnd(q)
         /\ Marked(DrainStep(q)) <=> Marked(q)
         /\ More(q) => DOMAIN DrainStep(q).substrs = DOMAIN q.substrs \ {q.output.written}
         /\ ~More(q) => DrainStep(q) = q
<1>1. CASE More(q)
  <2>. DEFINE w == q.output.written
              e == EndAt(q, w)
              room == remaining_capacity(q.output)
              n == Lesser(room, e - w)
  <2>1. DrainStep(q) = DrainOne(q)
    BY <1>1, SMTT(30) DEF DrainStep, More
  <2>2. n \in 0 .. e - w /\ Moved(q, DrainOne(q), w, e, n)
    BY <1>1, DrainOneEffect, SMTT(30) DEF More
  <2>3. /\ w \in DOMAIN q.substrs /\ w \in Nat /\ e \in Nat /\ w <= e /\ e <= StreamLen
        /\ e <= WindowEnd(q)
    BY <1>1, ReassemblyAssumption, SMTT(30) DEF More, Sound, Orderly
  <2>4. room \in Nat /\ WindowEnd(q) = w + room
    BY WindowFacts, SMTT(40) DEF WindowEnd
  <2>. HIDE DEF w, e, room
  <2>5. n = e - w
    BY <2>3, <2>4, SMTT(30) DEF Lesser
  <2>. HIDE DEF n
  <2>6. w \in DOMAIN q.substrs /\ Moved(q, DrainOne(q), w, e, e - w)
    BY <2>2, <2>3, <2>5, SMTT(30)
  <2>7. /\ Orderly(DrainOne(q)) /\ WindowEnd(DrainOne(q)) = WindowEnd(q)
        /\ DOMAIN DrainOne(q).substrs = DOMAIN q.substrs \ {w}
        /\ Marked(DrainOne(q)) <=> Marked(q)
    BY <2>6, MovedOrderly, ZenonT(40) DEF w, e
  <2>. QED  BY <1>1, <2>1, <2>7, ZenonT(30) DEF w
<1>2. CASE ~More(q)
  <2>1. DrainStep(q) = q
    BY <1>2, SMTT(40) DEF DrainStep, More
  <2>. QED  BY <1>2, <2>1, ZenonT(40)
<1>. QED  BY <1>1, <1>2, SMTT(30)

\* The writing loop keeps Orderly and stops only when nothing more can be
\* written: every turn but the last takes a substring out of the map.
LEMMA DrainOrderly ==
  ASSUME NEW q, NEW d, Sound(q, d), Orderly(q)
  PROVE  /\ Orderly(Drain(q)) /\ WindowEnd(Drain(q)) = WindowEnd(q)
         /\ Marked(Drain(q)) <=> Marked(q)
         /\ ~More(Drain(q))
<1>. DEFINE N == Cardinality(DOMAIN q.substrs)
<1>1. N \in Nat
  BY FiniteWaiting, ZenonT(40)
<1>2. PICK f : /\ \A k \in 0 .. N : f[k] = IF k = 0 THEN q ELSE DrainStep(f[k - 1])
               /\ Drain(q) = f[N]
  BY <1>1, DrainLoop, ZenonT(40)
<1>. HIDE DEF N
<1>. DEFINE Good(k) == /\ Sound(f[k], d) /\ Orderly(f[k]) /\ WindowEnd(f[k]) = WindowEnd(q)
                       /\ Marked(f[k]) <=> Marked(q)
            Left(k) == ~More(f[k]) \/ Cardinality(DOMAIN f[k].substrs) + k <= N
            T == {k \in 0 .. N : Good(k) /\ Left(k)}
<1>3. 0 \in T
  <2>1. 0 \in 0 .. N /\ f[0] = q
    BY <1>1, <1>2, SMTT(40)
  <2>2. Good(0)
    BY <2>1, ZenonT(40)
  <2>3. Left(0)
    <3>1. Cardinality(DOMAIN f[0].substrs) + 0 <= N
      BY <1>1, <2>1, SMTT(40) DEF N
    <3>. QED  BY <3>1, SMTT(40)
  <2>. QED  BY <2>1, <2>2, <2>3, ZenonT(40)
<1>4. ASSUME NEW k \in 0 .. N - 1, k \in T PROVE k + 1 \in T
  <2>1. k + 1 \in 0 .. N /\ k + 1 # 0 /\ (k + 1) - 1 = k /\ k \in Nat
    BY <1>1, SMTT(30)
  <2>2. f[k + 1] = DrainStep(f[k])
    BY <1>2, <2>1, SMTT(30)
  <2>3. Good(k) /\ Left(k)
    BY <1>4, ZenonT(40)
  <2>4. /\ Orderly(f[k + 1]) /\ WindowEnd(f[k + 1]) = WindowEnd(f[k])
        /\ Marked(f[k + 1]) <=> Marked(f[k])
        /\ More(f[k]) => DOMAIN f[k + 1].substrs = DOMAIN f[k].substrs \ {f[k].output.written}
        /\ ~More(f[k]) => f[k + 1] = f[k]
    BY <2>2, <2>3, DrainStepOrderly, ZenonT(40)
  <2>5. Sound(f[k + 1], d)
    BY <2>2, <2>3, DrainStepSound, ZenonT(40)
  <2>6. Good(k + 1)
    BY <2>3, <2>4, <2>5, ZenonT(40)
  <2>7. Left(k + 1)
    <3>1. CASE ~More(f[k])
      BY <2>4, <3>1, ZenonT(40)
    <3>2. CASE More(f[k])
      <4>. DEFINE S == DOMAIN f[k].substrs
                  x == f[k].output.written
      <4>1. IsFiniteSet(S) /\ Cardinality(S) \in Nat /\ x \in S
        BY <2>3, <3>2, FiniteWaiting, ZenonT(40) DEF More
      <4>. HIDE DEF S
      <4>2. Cardinality(S \ {x}) = Cardinality(S) - 1
        BY <4>1, FS_RemoveElement, ZenonT(40)
      <4>3. Cardinality(S) + k <= N
        BY <2>3, <3>2, ZenonT(40) DEF S
      <4>4. Cardinality(DOMAIN f[k + 1].substrs) = Cardinality(S) - 1
        BY <2>4, <3>2, <4>2, ZenonT(40) DEF S
      <4>5. (Cardinality(S) - 1) + (k + 1) <= N
        BY <1>1, <2>1, <4>1, <4>3, SMTT(30)
      <4>. QED  BY <4>4, <4>5, ZenonT(40)
    <3>. QED  BY <3>1, <3>2, SMTT(30)
  <2>. QED  BY <2>1, <2>6, <2>7, ZenonT(40)
<1>5. N \in T
  <2>1. \A k \in 0 .. N : k \in T
    <3>. HIDE DEF T
    <3>. QED  BY <1>1, <1>3, <1>4, SetInduction, SMTT(30)
  <2>. QED  BY <1>1, <2>1, SMTT(30)
<1>6. Good(N) /\ Left(N)
  BY <1>5, ZenonT(40)
<1>7. ~More(f[N])
  <2>1. SUFFICES ASSUME More(f[N]) PROVE FALSE
    OBVIOUS
  <2>. DEFINE S == DOMAIN f[N].substrs
  <2>2. IsFiniteSet(S) /\ Cardinality(S) \in Nat /\ S # {}
    BY <1>6, <2>1, FiniteWaiting, ZenonT(40) DEF More
  <2>3. Cardinality(S) + N <= N
    BY <1>6, <2>1, ZenonT(40)
  <2>. HIDE DEF S
  <2>4. Cardinality(S) # 0
    BY <2>2, FS_EmptySet, ZenonT(40)
  <2>. QED  BY <1>1, <2>2, <2>3, <2>4, SMTT(30)
<1>. QED  BY <1>2, <1>6, <1>7, ZenonT(40)

\* Such a piece is stored without eviction: the recorded size leaves room for
\* it, so nothing is cut or dropped, and the next byte is written.
LEMMA StoreOrderly ==
  ASSUME NEW q, NEW d, Sound(q, d), Orderly(q), NEW p, Clear(q, p), InWindow(q, p)
  PROVE  /\ Orderly(Store(q, p)) /\ WindowEnd(Store(q, p)) = WindowEnd(q)
         /\ Unstuck(Store(q, p))
         /\ Marked(Store(q, p)) <=> Marked(q) \/ p.eof
<1>. DEFINE n == PEnd(p) - p.index
            room == [r |-> q, data |-> p.data]
<1>1. /\ n \in Nat /\ q.size \in Nat /\ q.size + n <= Capacity - Len(q.output.buffer)
  BY BytesWithPiece, Zenon
<1>2. /\ Len(q.output.buffer) \in Nat /\ Capacity \in Nat /\ Capacity < SizeMod /\ SizeMod \in Nat \ {0}
      /\ q.output.capacity = Capacity
  BY WindowFacts, ReassemblyAssumption, SizeModAssumption, SMTT(30) DEF Sound
<1>3. /\ p.index \in Nat /\ PEnd(p) \in Nat /\ p.index <= PEnd(p)
      /\ p.data = StreamBytes(p.index, PEnd(p))
  BY ReassemblyAssumption DEF Clear
<1>4. Len(p.data) = n /\ p.index + n = PEnd(p)
  <2>1. Len(StreamBytes(p.index, PEnd(p))) = n
    BY <1>3, StreamBytesType, ZenonT(40)
  <2>2. p.index + n = PEnd(p)
    BY <1>3, SMTT(40)
  <2>. QED  BY <1>3, <2>1, <2>2, ZenonT(40)
<1>. HIDE DEF n
<1>5. empty_size(q) >= n
  <2>. DEFINE l == Len(q.output.buffer)
              s == q.size + l
  <2>0. l \in Nat /\ q.size + n <= Capacity - l
    BY <1>1, <1>2, SMTT(30)
  <2>. HIDE DEF l
  <2>1. s \in 0 .. SizeMod - 1 /\ n <= Capacity - s /\ Capacity >= s
    BY <1>1, <1>2, <2>0, SMTT(30)
  <2>. HIDE DEF s
  <2>2. s % SizeMod = s
    BY <1>2, <2>1, SmallMod, SMTT(30)
  <2>3. empty_size(q) = Capacity - s
    BY <1>2, <2>1, <2>2, SMTT(30) DEF empty_size, buffer_size, s, l
  <2>. QED  BY <1>1, <1>2, <2>1, <2>3, SMTT(30)
<1>6. empty_size(q) \in Nat
  BY EmptySizeType, SMTT(30)
<1>7. Store(q, p) = Put(MakeRoom(q, p.data, p.index), p)
  <2>1. ~(n > empty_size(q))
    BY <1>1, <1>5, <1>6, SMTT(30)
  <2>. QED  BY <1>4, <2>1, SMTT(30) DEF Store
<1>8. MakeRoom(q, p.data, p.index) = room
  BY <1>4, <1>5, SMTT(30) DEF MakeRoom
<1>9. room.r = q /\ room.data = StreamBytes(p.index, p.index + n)
  BY <1>3, <1>4, SMTT(30)
<1>. HIDE DEF room
<1>10. PICK q2 : Added(room.r, q2, p, n) /\ Put(room, p) = Drain(q2)
  BY <1>1, <1>3, <1>9, PutAdds, ZenonT(30)
<1>11. Added(q, q2, p, n) /\ Store(q, p) = Drain(q2)
  BY <1>7, <1>8, <1>9, <1>10, ZenonT(30)
<1>12. Sound(q2, d)
  <2>1. n \in 0 .. PEnd(p) - p.index
    BY <1>1, SMTT(40) DEF n
  <2>. QED  BY <1>11, <2>1, AddedSound, ZenonT(40)
<1>13. Orderly(q2) /\ WindowEnd(q2) = WindowEnd(q) /\ (Marked(q2) <=> Marked(q) \/ p.eof)
  BY <1>11, AddedOrderly, ZenonT(40) DEF n
<1>14. /\ Orderly(Drain(q2)) /\ WindowEnd(Drain(q2)) = WindowEnd(q2) /\ ~More(Drain(q2))
       /\ Marked(Drain(q2)) <=> Marked(q2)
  BY <1>12, <1>13, DrainOrderly, ZenonT(40)
<1>15. Unstuck(Drain(q2))
  BY <1>12, <1>14, DrainSound, NoMoreUnstuck, ZenonT(30)
<1>. QED  BY <1>11, <1>13, <1>14, <1>15, ZenonT(30)

-----------------------------------------------------------------------------
\* The last byte of P does not wait if a part of P that overlaps no waiting
\* substring ends with it.
LEMMA EndNew ==
  ASSUME NEW q, NEW d, Sound(q, d), NEW P, PEnd(P) \in Nat, NEW p, PartOf(P, p), ClearFrom(q, p, 0),
         PEnd(p) = PEnd(P)
  PROVE  ~Waits(q, PEnd(P) - 1, 0)
<1>. DEFINE e == PEnd(P)
<1>1. SUFFICES ASSUME NEW i \in DOMAIN q.substrs, i <= e - 1, e - 1 < EndAt(q, i)
               PROVE  FALSE
  BY ZenonT(30) DEF Waits
<1>2. i \in Nat /\ EndAt(q, i) \in Nat
  BY <1>1, ReassemblyAssumption, SMTT(30) DEF Sound
<1>3. i >= 0
  BY <1>2, SMTT(30)
<1>4. EndAt(q, i) <= p.index \/ e <= i
  BY <1>1, <1>3, ZenonT(30) DEF ClearFrom
<1>5. p.index \in Nat /\ p.index < e
  BY SMTT(30) DEF PartOf, Pieces
<1>. HIDE DEF e
<1>. QED  BY <1>1, <1>2, <1>4, <1>5, SMTT(30) DEF e

\* Storing the parts, lowest first, keeps Sound, and what an orderly push
\* keeps; the eof comes with the last byte of P unless that waits already.
LEMMA StorePiecesSound ==
  ASSUME NEW q, NEW d, Sound(q, d), NEW P, NEW u, Remaining(q, P, u, 0), EndKept(q, P, u, 0),
         P.index \in Nat, q.output.written <= P.index, PEnd(P) \in Nat, PEnd(P) <= StreamLen
  PROVE  /\ Sound(StorePieces(q, u), d)
         /\ \A l, ended, old : Within(q, l, ended, old) /\ PEnd(P) <= l /\ (P.eof => ended)
              => Within(StorePieces(q, u), l, ended, old)
         /\ Orderly(q) /\ Unstuck(q) /\ PEnd(P) <= WindowEnd(q) /\ (P.eof => PEnd(P) = StreamLen)
              => /\ Orderly(StorePieces(q, u)) /\ Unstuck(StorePieces(q, u))
                 /\ Marked(StorePieces(q, u)) <=> Marked(q) \/ (P.eof /\ ~Waits(q, PEnd(P) - 1, 0))
<1>. DEFINE n == Len(u.pieces)
            Spans(l, ended, old) == Within(q, l, ended, old) /\ PEnd(P) <= l /\ (P.eof => ended)
            Fine == Orderly(q) /\ Unstuck(q) /\ PEnd(P) <= WindowEnd(q) /\ (P.eof => PEnd(P) = StreamLen)
            Ends(k) == (~u.covered /\ u.p.eof) \/ \E m \in 1 .. k : u.pieces[m].eof
<1>1. /\ u.covered \in BOOLEAN /\ PartOf(P, u.p)
      /\ ~u.covered => ClearFrom(q, u.p, 0)
      /\ u.pieces \in Seq(Pieces)
      /\ \A m \in 1 .. n : /\ PartOf(P, u.pieces[m])
                           /\ ClearFrom(q, u.pieces[m], 0)
                           /\ PEnd(u.p) <= u.pieces[m].index
      /\ \A m, l \in 1 .. n : m < l => PEnd(u.pieces[m]) <= u.pieces[l].index
  BY ZenonT(40) DEF Remaining
<1>2. n \in Nat
  BY <1>1, LenOfSeq, SMTT(30)
<1>3. PICK f : /\ \A k \in 0 .. n : f[k] = IF k = 0 THEN StoreLowest(q, u)
                                           ELSE PushPiece(f[k - 1], u.pieces[k])
               /\ StorePieces(q, u) = f[n]
  BY <1>2, StorePiecesLoop, ZenonT(40)
<1>. HIDE DEF n
<1>4. \A m \in 1 .. n : Clear(q, u.pieces[m]) /\ u.pieces[m].index < PEnd(u.pieces[m])
  <2>1. \A m \in 1 .. n : Clear(q, u.pieces[m])
    BY <1>1, PartClear, ZenonT(40)
  <2>. QED  BY <1>1, <2>1, ZenonT(40) DEF PartOf
<1>. DEFINE Good(k) == /\ Sound(f[k], d)
                       /\ \A m \in k + 1 .. n : Clear(f[k], u.pieces[m])
                       /\ \A l, ended, old : Spans(l, ended, old) => Within(f[k], l, ended, old)
                       /\ Fine => /\ Orderly(f[k]) /\ Unstuck(f[k]) /\ WindowEnd(f[k]) = WindowEnd(q)
                                  /\ Marked(f[k]) <=> Marked(q) \/ Ends(k)
            T == {k \in 0 .. n : Good(k)}
<1>0. ASSUME NEW l, NEW ended, NEW old, Spans(l, ended, old), NEW p, PartOf(P, p) PROVE Allowed(p, l, ended)
  <2>1. l \in Nat /\ PEnd(P) <= l /\ PEnd(p) \in Nat /\ PEnd(p) <= PEnd(P)
    BY <1>0, ZenonT(40) DEF Within, PartOf
  <2>2. PEnd(p) <= l
    BY <2>1, SMTT(40)
  <2>3. p.eof => P.eof
    BY <1>0, ZenonT(30) DEF PartOf
  <2>. QED  BY <1>0, <2>2, <2>3, ZenonT(40) DEF Allowed
<1>5. 0 \in T
  <2>1. 0 \in 0 .. n /\ f[0] = StoreLowest(q, u) /\ \A m \in 0 + 1 .. n : m \in 1 .. n
    BY <1>2, <1>3, SMTT(40)
  <2>0. Ends(0) <=> ~u.covered /\ u.p.eof
    <3>1. \A m \in 1 .. 0 : FALSE
      BY SMTT(30)
    <3>. QED  BY <3>1, ZenonT(30)
  <2>. HIDE DEF Ends
  <2>2. CASE u.covered
    <3>1. f[0] = q
      BY <2>1, <2>2, SMTT(30) DEF StoreLowest
    <3>. QED  BY <1>4, <2>0, <2>1, <2>2, <3>1, ZenonT(30)
  <2>3. CASE ~u.covered
    <3>1. f[0] = Store(q, u.p)
      BY <2>1, <2>3, SMTT(40) DEF StoreLowest
    <3>2. Clear(q, u.p)
      BY <1>1, <2>3, PartClear, ZenonT(40)
    <3>3. \A m \in 1 .. n : Apart(u.p, u.pieces[m])
      BY <1>1, ZenonT(40) DEF Apart
    <3>4. Sound(f[0], d) /\ \A m \in 1 .. n : Clear(f[0], u.pieces[m])
      BY <1>4, <3>1, <3>2, <3>3, StoreSound, ZenonT(30)
    <3>5. ASSUME Fine
          PROVE  /\ Orderly(f[0]) /\ Unstuck(f[0]) /\ WindowEnd(f[0]) = WindowEnd(q)
                 /\ Marked(f[0]) <=> Marked(q) \/ Ends(0)
      <4>1. InWindow(q, u.p)
        BY <1>1, <3>2, <3>5, PartInWindow, ZenonT(30)
      <4>. QED  BY <2>0, <2>3, <3>1, <3>2, <3>5, <4>1, StoreOrderly, ZenonT(30)
    <3>6. \A l, ended, old : Spans(l, ended, old) => Within(f[0], l, ended, old)
      BY <1>0, <1>1, <3>1, <3>2, StoreSound, ZenonT(30)
    <3>. QED  BY <2>1, <3>4, <3>5, <3>6, ZenonT(40)
  <2>. QED  BY <1>1, <2>2, <2>3, ZenonT(40)
<1>6. ASSUME NEW k \in 0 .. n - 1, k \in T PROVE k + 1 \in T
  <2>. DEFINE p == u.pieces[k + 1]
  <2>1. /\ k + 1 \in 0 .. n /\ k + 1 # 0 /\ (k + 1) - 1 = k /\ k + 1 \in 1 .. n /\ k + 1 \in k + 1 .. n
        /\ \A m \in (k + 1) + 1 .. n : m \in k + 1 .. n /\ m \in 1 .. n /\ k + 1 < m
    BY <1>2, SMTT(30)
  <2>2. f[k + 1] = PushPiece(f[k], p)
    BY <1>3, <2>1, SMTT(30)
  <2>3. Good(k)
    BY <1>6, ZenonT(40)
  <2>4. Clear(f[k], p) /\ PartOf(P, p)
    BY <1>1, <2>1, <2>3, ZenonT(40)
  <2>5. \A m \in (k + 1) + 1 .. n : Clear(f[k], u.pieces[m]) /\ Apart(p, u.pieces[m])
                                    /\ u.pieces[m].index < PEnd(u.pieces[m])
    BY <1>1, <1>4, <2>1, <2>3, ZenonT(30) DEF Apart
  <2>0. Ends(k + 1) <=> Ends(k) \/ p.eof
    <3>1. \A m \in 1 .. k + 1 : m \in 1 .. k \/ m = k + 1
      BY <1>2, SMTT(30)
    <3>2. \A m \in 1 .. k : m \in 1 .. k + 1
      BY <1>2, SMTT(30)
    <3>3. k + 1 \in 1 .. k + 1
      BY <1>2, SMTT(30)
    <3>. QED  BY <3>1, <3>2, <3>3, ZenonT(30)
  <2>. HIDE DEF p, Ends
  <2>6. CASE p.index >= WindowEnd(f[k])
    <3>1. f[k + 1] = f[k]
      BY <2>2, <2>6, SMTT(30) DEF PushPiece
    <3>2. ASSUME Fine PROVE FALSE
      <4>1. /\ WindowEnd(f[k]) = WindowEnd(q) /\ PEnd(P) <= WindowEnd(q)
            /\ PEnd(p) \in Nat /\ p.index \in Nat /\ p.index < PEnd(p) /\ PEnd(p) <= PEnd(P)
        BY <2>3, <2>4, <3>2, ZenonT(30) DEF PartOf, Pieces
      <4>2. WindowEnd(q) \in Nat
        BY WindowFacts, ZenonT(30)
      <4>. QED  BY <2>6, <4>1, <4>2, SMTT(30)
    <3>. QED  BY <2>1, <2>3, <2>5, <3>1, <3>2, ZenonT(30)
  <2>7. CASE ~(p.index >= WindowEnd(f[k]))
    <3>1. f[k + 1] = Store(f[k], p)
      BY <2>2, <2>7, SMTT(30) DEF PushPiece
    <3>2. Sound(f[k + 1], d) /\ \A m \in (k + 1) + 1 .. n : Clear(f[k + 1], u.pieces[m])
      BY <2>3, <2>4, <2>5, <3>1, StoreSound, ZenonT(30)
    <3>3. ASSUME Fine
          PROVE  /\ Orderly(f[k + 1]) /\ Unstuck(f[k + 1]) /\ WindowEnd(f[k + 1]) = WindowEnd(q)
                 /\ Marked(f[k + 1]) <=> Marked(q) \/ Ends(k + 1)
      <4>1. /\ Orderly(f[k]) /\ WindowEnd(f[k]) = WindowEnd(q) /\ Sound(f[k], d)
            /\ Marked(f[k]) <=> Marked(q) \/ Ends(k)
        BY <2>3, <3>3, ZenonT(40)
      <4>2. InWindow(f[k], p)
        BY <2>4, <3>3, <4>1, PartInWindow, ZenonT(30)
      <4>3. /\ Orderly(f[k + 1]) /\ Unstuck(f[k + 1]) /\ WindowEnd(f[k + 1]) = WindowEnd(f[k])
            /\ Marked(f[k + 1]) <=> Marked(f[k]) \/ p.eof
        BY <2>4, <3>1, <4>1, <4>2, StoreOrderly, ZenonT(30)
      <4>. QED  BY <2>0, <4>1, <4>3, ZenonT(30)
    <3>4. \A l, ended, old : Spans(l, ended, old) => Within(f[k + 1], l, ended, old)
      BY <1>0, <2>3, <2>4, <3>1, StoreSound, ZenonT(30)
    <3>. QED  BY <2>1, <3>2, <3>3, <3>4, ZenonT(30)
  <2>. QED  BY <2>6, <2>7, SMTT(30)
<1>7. n \in T
  <2>1. \A k \in 0 .. n : k \in T
    <3>. HIDE DEF T
    <3>. QED  BY <1>2, <1>5, <1>6, SetInduction, SMTT(30)
  <2>. QED  BY <1>2, <2>1, SMTT(30)
<1>8. Ends(n) <=> P.eof /\ ~Waits(q, PEnd(P) - 1, 0)
  <2>1. ASSUME ~u.covered, u.p.eof PROVE P.eof /\ ~Waits(q, PEnd(P) - 1, 0)
    <3>1. P.eof /\ PEnd(u.p) = PEnd(P)
      BY <1>1, <2>1, ZenonT(30) DEF PartOf
    <3>. QED  BY <1>1, <2>1, <3>1, EndNew, ZenonT(30)
  <2>2. ASSUME NEW m \in 1 .. n, u.pieces[m].eof PROVE P.eof /\ ~Waits(q, PEnd(P) - 1, 0)
    <3>1. P.eof /\ PEnd(u.pieces[m]) = PEnd(P)
      BY <1>1, <2>2, ZenonT(30) DEF PartOf
    <3>. QED  BY <1>1, <3>1, EndNew, ZenonT(30)
  <2>3. ASSUME P.eof, ~Waits(q, PEnd(P) - 1, 0) PROVE Ends(n)
    <3>1. (~u.covered /\ PEnd(u.p) = PEnd(P)) \/ \E m \in 1 .. n : PEnd(u.pieces[m]) = PEnd(P)
      BY <2>3, ZenonT(30) DEF EndKept, n
    <3>. QED  BY <1>1, <2>3, <3>1, ZenonT(30) DEF PartOf
  <2>. QED  BY <2>1, <2>2, <2>3, ZenonT(30)
<1>. HIDE DEF Ends
<1>. QED  BY <1>3, <1>7, <1>8, ZenonT(40)

\* Storing them keeps Sound, and what an orderly push keeps; an eof without
\* data is always kept.
LEMMA StoreUnwrittenSound ==
  ASSUME NEW q, NEW d, Sound(q, d), NEW P \in Pieces, PEnd(P) \in Nat, P.index <= PEnd(P),
         PEnd(P) <= StreamLen, P.data = StreamBytes(P.index, PEnd(P)), q.output.written <= P.index,
         P.data = << >> /\ ~P.eof => empty(q),
         P.data = << >> /\ P.eof =>
           \A i \in DOMAIN q.substrs : EndAt(q, i) <= P.index \/ P.index <= i
  PROVE  /\ Sound(StoreUnwritten(q, P), d)
         /\ \A l, ended, old : Within(q, l, ended, old) /\ Allowed(P, l, ended)
              => Within(StoreUnwritten(q, P), l, ended, old)
         /\ Orderly(q) /\ Unstuck(q) /\ PEnd(P) <= WindowEnd(q) /\ (P.eof => PEnd(P) = StreamLen)
              => /\ Orderly(StoreUnwritten(q, P)) /\ Unstuck(StoreUnwritten(q, P))
                 /\ Marked(StoreUnwritten(q, P))
                      <=> Marked(q) \/ (P.eof /\ (P.data = << >> \/ ~Waits(q, PEnd(P) - 1, 0)))
<1>. DEFINE q2 == StoreUnwritten(q, P)
            Fine == Orderly(q) /\ Unstuck(q) /\ PEnd(P) <= WindowEnd(q) /\ (P.eof => PEnd(P) = StreamLen)
            New == P.eof /\ (P.data = << >> \/ ~Waits(q, PEnd(P) - 1, 0))
<1>1. P.index \in Nat /\ P.eof \in BOOLEAN /\ StreamLen \in Nat
  BY ReassemblyAssumption, SMTT(30) DEF Pieces
<1>2. P.data = << >> <=> P.index = PEnd(P)
  BY <1>1, StreamBytesEmpty, SMTT(30)
<1>3. CASE P.data = << >>
  <2>1. q2 = Store(q, P)
    BY <1>3, SMTT(30) DEF StoreUnwritten
  <2>2. \A i \in DOMAIN q.substrs : EndAt(q, i) <= P.index \/ PEnd(P) <= i
    <3>1. CASE P.eof
      BY <1>2, <1>3, <3>1, SMTT(30)
    <3>2. CASE ~P.eof
      BY <1>3, <3>2, SMTT(30) DEF empty
    <3>. QED  BY <1>1, <3>1, <3>2, SMTT(30)
  <2>3. PEnd(P) \in P.index .. StreamLen
    BY <1>1, SMTT(40)
  <2>4. Clear(q, P)
    BY <1>1, <2>2, <2>3, ZenonT(40) DEF Clear
  <2>5. Sound(q2, d)
    BY <2>1, <2>4, StoreSound, ZenonT(40)
  <2>6. ASSUME Fine PROVE Orderly(q2) /\ Unstuck(q2) /\ (Marked(q2) <=> Marked(q) \/ New)
    <3>1. P.index \in DOMAIN q.substrs =>
            EndAt(q, P.index) <= P.index /\ (q.substrs[P.index].eof => P.eof)
      <4>1. CASE P.eof
        <5>1. P.index = StreamLen
          BY <1>2, <1>3, <2>6, <4>1, SMTT(30)
        <5>2. P.index \in DOMAIN q.substrs => EndAt(q, P.index) <= P.index
          BY <1>1, <5>1, SMTT(30) DEF Sound
        <5>. QED  BY <4>1, <5>2, ZenonT(30)
      <4>2. CASE ~P.eof
        BY <1>3, <4>2, SMTT(30) DEF empty
      <4>. QED  BY <1>1, <4>1, <4>2, SMTT(30)
    <3>2. InWindow(q, P)
      BY <1>1, <2>6, <3>1, SMTT(40) DEF InWindow
    <3>3. New <=> P.eof
      BY <1>3, ZenonT(30)
    <3>. HIDE DEF New
    <3>. QED  BY <2>1, <2>4, <2>6, <3>2, <3>3, StoreOrderly, ZenonT(40)
  <2>7. \A l, ended, old : Within(q, l, ended, old) /\ Allowed(P, l, ended) => Within(q2, l, ended, old)
    BY <2>1, <2>4, StoreSound, ZenonT(40)
  <2>. QED  BY <2>5, <2>6, <2>7, ZenonT(40)
<1>4. CASE P.data # << >>
  <2>. DEFINE u == Uncovered(q, P)
  <2>1. P.index < PEnd(P) /\ StreamLen # 0
    BY <1>1, <1>2, <1>4, SMTT(30)
  <2>2. Remaining(q, P, u, 0) /\ EndKept(q, P, u, 0)
    BY <2>1, UncoveredParts, ZenonT(40)
  <2>3. q2 = IF u.pieces # << >> /\ P.index >= WindowEnd(q) THEN q ELSE StorePieces(q, u)
    BY <1>4, ZenonT(40) DEF StoreUnwritten
  <2>. HIDE DEF u
  <2>4. /\ Sound(StorePieces(q, u), d)
        /\ \A l, ended, old : Within(q, l, ended, old) /\ PEnd(P) <= l /\ (P.eof => ended)
             => Within(StorePieces(q, u), l, ended, old)
        /\ Orderly(q) /\ Unstuck(q) /\ PEnd(P) <= WindowEnd(q) /\ (P.eof => PEnd(P) = StreamLen)
             => /\ Orderly(StorePieces(q, u)) /\ Unstuck(StorePieces(q, u))
                /\ Marked(StorePieces(q, u)) <=> Marked(q) \/ (P.eof /\ ~Waits(q, PEnd(P) - 1, 0))
    BY <1>1, <2>2, StorePiecesSound, ZenonT(40)
  <2>5. ASSUME Fine PROVE Orderly(q2) /\ Unstuck(q2) /\ (Marked(q2) <=> Marked(q) \/ New)
    <3>1. ~(P.index >= WindowEnd(q))
      <4>1. WindowEnd(q) \in Nat /\ PEnd(P) <= WindowEnd(q)
        BY <2>5, WindowFacts, ZenonT(30)
      <4>. QED  BY <1>1, <2>1, <4>1, SMTT(30)
    <3>2. q2 = StorePieces(q, u)
      BY <2>3, <3>1, ZenonT(30)
    <3>. QED  BY <1>4, <2>4, <2>5, <3>2, ZenonT(30)
  <2>6. \A l, ended, old : Within(q, l, ended, old) /\ Allowed(P, l, ended) => Within(q2, l, ended, old)
    BY <2>1, <2>3, <2>4, ZenonT(40) DEF Allowed
  <2>. QED  BY <2>3, <2>4, <2>5, <2>6, ZenonT(40)
<1>. QED  BY <1>3, <1>4, ZenonT(40)

\* push_substring as a whole keeps Sound and Within, and what an orderly push
\* keeps, if an eof mark without data does not come inside a waiting substring;
\* the eof is kept if it comes without data or with a last byte that is new.
LEMMA PushSound ==
  ASSUME NEW q, NEW d, Sound(q, d), NEW i \in 0 .. StreamLen, NEW j \in i .. StreamLen,
         NEW is_eof \in BOOLEAN,
         i = j /\ is_eof => \A k \in DOMAIN q.substrs : EndAt(q, k) <= i \/ i <= k
  PROVE  LET q2 == push_substring(q, StreamBytes(i, j), i, is_eof)
         IN  /\ Sound(q2, d)
             /\ \A l, ended, old : Within(q, l, ended, old) /\ (i < j => j <= l) /\ (is_eof => ended)
                  => Within(q2, l, ended, old)
             /\ Orderly(q) /\ Unstuck(q) /\ j <= WindowEnd(q) /\ (is_eof => j = StreamLen)
                  => /\ Orderly(q2) /\ Unstuck(q2)
                     /\ Marked(q2) <=> \/ Marked(q)
                                       \/ is_eof /\ i < WindowEnd(q) /\ (i = j \/ ~Held(q, j - 1))
<1>. DEFINE data == StreamBytes(i, j)
            q2 == push_substring(q, data, i, is_eof)
            w == q.output.written
            Fine == Orderly(q) /\ Unstuck(q) /\ j <= WindowEnd(q) /\ (is_eof => j = StreamLen)
            New == is_eof /\ i < WindowEnd(q) /\ (i = j \/ ~Held(q, j - 1))
<1>0. SUFFICES /\ Sound(q2, d)
               /\ \A l, ended, old : Within(q, l, ended, old) /\ (i < j => j <= l) /\ (is_eof => ended)
                    => Within(q2, l, ended, old)
               /\ Fine => Orderly(q2) /\ Unstuck(q2) /\ (Marked(q2) <=> Marked(q) \/ New)
  OBVIOUS
<1>1. i \in Nat /\ j \in Nat /\ i <= j /\ j <= StreamLen /\ StreamLen \in Nat
  BY ReassemblyAssumption, SMTT(40)
<1>2. Len(data) = j - i /\ i + Len(data) = j /\ (data = << >> <=> i = j)
  <2>1. Len(data) = j - i /\ (data = << >> <=> i = j)
    BY <1>1, StreamBytesType, StreamBytesEmpty, ZenonT(30)
  <2>2. i + (j - i) = j
    BY <1>1, SMTT(40)
  <2>. QED  BY <2>1, <2>2, ZenonT(40)
<1>3. w \in Nat /\ WindowEnd(q) \in Nat
  BY WindowFacts, SMTT(40)
<1>. DEFINE Ignored == \/ i >= WindowEnd(q)
                       \/ i < w /\ j <= w
                       \/ data = << >> /\ ~is_eof /\ ~empty(q)
<1>4. q2 = IF Ignored THEN q ELSE StoreUnwritten(q, Unwritten(q, data, i, is_eof))
  BY <1>2, ZenonT(40) DEF push_substring
<1>5. CASE Ignored
  <2>1. q2 = q
    BY <1>4, <1>5, SMTT(40)
  <2>2. ASSUME Fine, New PROVE FALSE
    <3>1. i < w /\ j <= w
      BY <1>3, <1>5, <2>2, SMTT(30)
    <3>2. w <= StreamLen /\ j = StreamLen
      BY <2>2, WindowFacts, ZenonT(30)
    <3>3. i # j /\ j - 1 < q.output.written
      BY <1>1, <1>3, <3>1, <3>2, SMTT(30)
    <3>. QED  BY <2>2, <3>3, ZenonT(30) DEF Held
  <2>. HIDE DEF New, w
  <2>. QED  BY <2>1, <2>2, ZenonT(40)
<1>6. CASE ~Ignored
  <2>. DEFINE P == Unwritten(q, data, i, is_eof)
  <2>1. q2 = StoreUnwritten(q, P)
    BY <1>4, <1>6, SMTT(30)
  <2>2. /\ P \in Pieces /\ PEnd(P) = j /\ P.index <= j /\ P.eof = is_eof
        /\ P.data = StreamBytes(P.index, j)
        /\ w <= P.index /\ i <= P.index
        /\ P.index = j => i = j
    <3>1. ~(i < q.output.written /\ j <= q.output.written)
      BY <1>6, SMTT(40)
    <3>. QED  BY <1>1, <3>1, UnwrittenPiece, SMTT(30)
  <2>. DEFINE NewPart == P.eof /\ (P.data = << >> \/ ~Waits(q, PEnd(P) - 1, 0))
  <2>. HIDE DEF P
  <2>3. P.data = << >> => P.index = j
    <3>1. P.index \in Nat
      BY <2>2, SMTT(40) DEF Pieces
    <3>2. StreamBytes(P.index, j) = << >> <=> P.index = j
      BY <1>1, <2>2, <3>1, StreamBytesEmpty, ZenonT(40)
    <3>. QED  BY <2>2, <3>2, ZenonT(40)
  <2>4. P.data = << >> /\ ~P.eof => empty(q)
    BY <1>2, <1>6, <2>2, <2>3, ZenonT(40)
  <2>5. P.data = << >> /\ P.eof => \A k \in DOMAIN q.substrs : EndAt(q, k) <= P.index \/ P.index <= k
    BY <2>2, <2>3, ZenonT(40)
  <2>6. /\ Sound(q2, d)
        /\ \A l, ended, old : Within(q, l, ended, old) /\ Allowed(P, l, ended) => Within(q2, l, ended, old)
        /\ Fine => /\ Orderly(q2) /\ Unstuck(q2)
                   /\ Marked(q2) <=> Marked(q) \/ NewPart
    <3>1. /\ PEnd(P) \in Nat /\ P.index <= PEnd(P) /\ PEnd(P) <= StreamLen
          /\ P.data = StreamBytes(P.index, PEnd(P)) /\ q.output.written <= P.index /\ P \in Pieces
      BY <1>1, <2>2, ZenonT(30)
    <3>2. Fine => Orderly(q) /\ Unstuck(q) /\ PEnd(P) <= WindowEnd(q) /\ (P.eof => PEnd(P) = StreamLen)
      BY <2>2, ZenonT(30)
    <3>. HIDE DEF Fine
    <3>. QED  BY <2>1, <2>4, <2>5, <3>1, <3>2, StoreUnwrittenSound, ZenonT(30)
  <2>7. P.index < PEnd(P) => i < j
    BY <1>1, <2>2, SMTT(30) DEF Pieces
  <2>8. \A l, ended, old : Within(q, l, ended, old) /\ (i < j => j <= l) /\ (is_eof => ended)
                        => Within(q2, l, ended, old)
    BY <2>2, <2>6, <2>7, ZenonT(40) DEF Allowed
  <2>9. New <=> NewPart
    <3>1. i < WindowEnd(q) /\ P.index \in Nat
      BY <1>1, <1>3, <1>6, <2>2, SMTT(30) DEF Pieces
    <3>2. P.data = << >> <=> i = j
      <4>1. i = j => P.index = j
        BY <1>1, <2>2, <3>1, SMTT(30)
      <4>2. StreamBytes(j, j) = << >>
        BY <1>1, StreamBytesEmpty, SMTT(30)
      <4>. QED  BY <2>2, <2>3, <4>1, <4>2, ZenonT(30)
    <3>3. ASSUME i # j PROVE Held(q, j - 1) <=> Waits(q, j - 1, 0)
      <4>1. ~(j - 1 < q.output.written)
        BY <1>1, <1>3, <2>2, <3>1, <3>3, SMTT(30)
      <4>2. \A k \in DOMAIN q.substrs : 0 <= k
        BY ReassemblyAssumption, SMTT(30) DEF Sound
      <4>. QED  BY <4>1, <4>2, ZenonT(30) DEF Held, Waits, EndAt
    <3>. QED  BY <2>2, <3>1, <3>2, <3>3, ZenonT(30)
  <2>. HIDE DEF New, NewPart, Fine
  <2>. QED  BY <2>6, <2>8, <2>9, ZenonT(40)
<1>. QED  BY <1>5, <1>6, ZenonT(40)

-----------------------------------------------------------------------------
\* The inductive invariant.
IInv ==
  /\ Sound(r, delivered)
  /\ orderly \in BOOLEAN /\ marked \in BOOLEAN
  /\ orderly => Orderly(r) /\ Unstuck(r) /\ (marked <=> Marked(r))

\* It holds of a new reassembler.
LEMMA InitIInv == Init => IInv
<1>1. SUFFICES ASSUME Init PROVE IInv
  OBVIOUS
<1>. DEFINE out == [capacity |-> Capacity, buffer |-> << >>, written |-> 0, read |-> 0,
                    input_end |-> FALSE, error |-> FALSE]
<1>2. r = [output |-> out, substrs |-> << >>, size |-> 0] /\ delivered = << >>
  BY <1>1 DEF Init, NewReassembler, NewByteStream
<1>3. r.output = out /\ r.substrs = << >> /\ r.size = 0
  BY <1>2
<1>4. {"output", "substrs", "size"} \subseteq DOMAIN r
  BY <1>2, SMTT(40)
<1>5. /\ {"capacity", "buffer", "written", "input_end", "error"} \subseteq DOMAIN out
      /\ out.capacity = Capacity /\ out.buffer = << >> /\ out.input_end = FALSE /\ out.written = 0
  OBVIOUS
<1>. HIDE DEF out
<1>6. DOMAIN r.substrs = {}
  BY <1>3, SMTT(30)
<1>7. /\ << >> \in Seq(Nat) /\ Len(<< >>) = 0 /\ << >> \o << >> = << >>
      /\ StreamBytes(0, 0) = << >>
  <2>1. StreamBytes(0, 0) = << >>
    BY StreamBytesEmpty, SMTT(40)
  <2>. QED  BY <2>1, SMTT(40)
<1>8. /\ 0 \in 0 .. SizeMod - 1 /\ 0 \in 0 .. StreamLen /\ 0 <= Capacity /\ StreamLen \in Nat
  BY ReassemblyAssumption, SizeModAssumption, SMTT(30)
<1>9. Sound(r, delivered)
  BY <1>2, <1>3, <1>4, <1>5, <1>6, <1>7, <1>8, ZenonT(30) DEF Sound
<1>10. Orderly(r)
  <2>1. Bytes(r) = {}
    BY <1>6, SMTT(40) DEF Bytes
  <2>2. Cardinality(Bytes(r)) = 0
    BY <2>1, FS_EmptySet, ZenonT(40)
  <2>. QED  BY <1>3, <1>5, <1>6, <2>2, ZenonT(40) DEF Orderly
<1>11. Unstuck(r)
  BY <1>6, SMTT(30) DEF Unstuck
<1>12. ~Marked(r) /\ marked = FALSE /\ orderly = TRUE
  BY <1>1, <1>3, <1>5, <1>6, ZenonT(30) DEF Marked, Init
<1>. QED  BY <1>9, <1>10, <1>11, <1>12, ZenonT(30) DEF IInv

\* A push keeps it.
LEMMA PushIInv ==
  ASSUME IInv, NEW i \in 0 .. StreamLen, NEW j \in i .. StreamLen, NEW is_eof \in BOOLEAN,
         Push(i, j, is_eof)
  PROVE  IInv'
<1>. DEFINE New == is_eof /\ i < WindowEnd(r) /\ (i = j \/ ~Held(r, j - 1))
<1>1. /\ is_eof => j = StreamLen
      /\ r' = push_substring(r, StreamBytes(i, j), i, is_eof)
      /\ marked' = (marked \/ New)
      /\ orderly' = (orderly /\ j <= WindowEnd(r))
      /\ delivered' = delivered
  BY DEF Push
<1>2. Sound(r, delivered) /\ orderly \in BOOLEAN /\ marked \in BOOLEAN
  BY DEF IInv
<1>3. /\ Sound(r', delivered)
      /\ Orderly(r) /\ Unstuck(r) /\ j <= WindowEnd(r)
           => Orderly(r') /\ Unstuck(r') /\ (Marked(r') <=> Marked(r) \/ New)
  <2>1. i = j /\ is_eof => \A k \in DOMAIN r.substrs : EndAt(r, k) <= i \/ i <= k
    BY <1>1, <1>2, ReassemblyAssumption, SMTT(30) DEF Sound
  <2>. QED  BY <1>1, <1>2, <2>1, PushSound, ZenonT(30)
<1>. HIDE DEF New
<1>4. Sound(r, delivered)'
  BY <1>1, <1>3, Zenon DEF Sound, EndAt, StreamBytes
<1>5. orderly' \in BOOLEAN /\ marked' \in BOOLEAN
  BY <1>1
<1>6. ASSUME orderly' PROVE Orderly(r)' /\ Unstuck(r)' /\ (marked' <=> Marked(r)')
  <2>1. /\ orderly /\ Orderly(r) /\ Unstuck(r) /\ j <= WindowEnd(r)
        /\ marked <=> Marked(r)
    BY <1>1, <1>6, ZenonT(40) DEF IInv
  <2>2. Orderly(r') /\ Unstuck(r') /\ (Marked(r') <=> Marked(r) \/ New)
    BY <1>3, <2>1, ZenonT(40)
  <2>. QED  BY <1>1, <2>1, <2>2, Zenon
<1>. QED  BY <1>4, <1>5, <1>6, SMTT(30) DEF IInv

\* A read keeps it.
LEMMA ReadIInv ==
  ASSUME IInv, NEW len \in 1 .. Capacity, Read(len)
  PROVE  IInv'
<1>. DEFINE n == Lesser(len, Len(r.output.buffer))
<1>1. /\ r' = [r EXCEPT !.output = pop_output(@, len)]
      /\ delivered' = delivered \o SubSeq(r.output.buffer, 1, n)
      /\ orderly' = orderly /\ marked' = marked
  BY DEF Read, peek_output
<1>2. Sound(r, delivered) /\ orderly \in BOOLEAN /\ marked \in BOOLEAN
  BY DEF IInv
<1>3. n \in 0 .. Len(r.output.buffer)
  <2>1. Len(r.output.buffer) \in Nat /\ len \in Nat
    BY <1>2, WindowFacts, SMTT(30)
  <2>. QED  BY <2>1, SMTT(30) DEF Lesser
<1>4. /\ {"output", "substrs", "size"} \subseteq DOMAIN r
      /\ {"capacity", "buffer", "written", "input_end", "error"} \subseteq DOMAIN r.output
  BY <1>2, SMTT(30) DEF Sound
<1>5. /\ {"output", "substrs", "size"} \subseteq DOMAIN r'
      /\ r'.substrs = r.substrs /\ r'.size = r.size /\ r'.output = pop_output(r.output, len)
  BY <1>1, <1>4, ZenonT(40)
<1>6. Taken(r, r', n)
  <2>. DEFINE out == pop_output(r.output, len)
  <2>1. /\ {"capacity", "buffer", "written", "input_end", "error"} \subseteq DOMAIN out
        /\ out.capacity = r.output.capacity /\ out.input_end = r.output.input_end
        /\ out.written = r.output.written
        /\ out.buffer = SubSeq(r.output.buffer, n + 1, Len(r.output.buffer))
    BY <1>4, PopFields, ZenonT(40)
  <2>. HIDE DEF out, n
  <2>2. r'.output = out
    BY <1>5, SMTT(30) DEF out
  <2>. QED  BY <1>5, <2>1, <2>2, SMTT(30) DEF Taken
<1>. HIDE DEF n
<1>7. /\ Sound(r', delivered')
      /\ Orderly(r) => Orderly(r')
      /\ Unstuck(r) => Unstuck(r')
      /\ Marked(r') <=> Marked(r)
  BY <1>1, <1>2, <1>3, <1>6, TakenSound, ZenonT(30)
<1>. QED  BY <1>1, <1>2, <1>7, ZenonT(40) DEF IInv

\* Every step keeps it.
LEMMA NextIInv == IInv /\ [Next]_vars => IInv'
<1>1. SUFFICES ASSUME IInv, [Next]_vars PROVE IInv'
  OBVIOUS
<1>2. ASSUME NEW i \in 0 .. StreamLen, NEW j \in i .. Lesser(i + MaxPush, StreamLen),
             NEW is_eof \in BOOLEAN, Push(i, j, is_eof)
      PROVE  IInv'
  <2>1. j \in i .. StreamLen
    BY ReassemblyAssumption, SMTT(30) DEF Lesser
  <2>. QED  BY <1>1, <1>2, <2>1, PushIInv, SMTT(30)
<1>3. ASSUME NEW len \in 1 .. Capacity, Read(len) PROVE IInv'
  BY <1>1, <1>3, ReadIInv, SMTT(30)
<1>4. CASE UNCHANGED vars
  BY <1>1, <1>4, ZenonT(40) DEF vars, IInv
<1>. QED  BY <1>1, <1>2, <1>3, <1>4, SMTT(30) DEF Next

-----------------------------------------------------------------------------
(***************************************************************************)
(* For every capacity, stream length and cut of the stream, the inductive  *)
(* invariant holds of the reassembler under all pushes and reads.          *)
(***************************************************************************)
THEOREM Inductive == Spec => []IInv
<1>. QED  BY InitIInv, NextIInv, PTL DEF Spec

(***************************************************************************)
(* What push_substring writes is exactly the beginning of the stream, for  *)
(* every capacity and every stream cut, repeated, reordered, evicted and   *)
(* truncated in any way.                                                   *)
(***************************************************************************)
THEOREM ReassemblerDeliversPrefix == Spec => []DeliversPrefix
<1>1. IInv => DeliversPrefix
  <2>1. SUFFICES ASSUME IInv PROVE DeliversPrefix
    OBVIOUS
  <2>2. Sound(r, delivered)
    BY <2>1, ZenonT(30) DEF IInv
  <2>. QED  BY <2>2, SMTT(30) DEF Sound, DeliversPrefix
<1>. QED  BY <1>1, Inductive, PTL

(***************************************************************************)
(* The substrings that wait hold the right bytes, lie beyond what is       *)
(* written and do not overlap: push_substring's duplicate removal, split   *)
(* and eviction store no byte twice, whatever is pushed.                   *)
(***************************************************************************)
THEOREM ReassemblerStoresOnce == Spec => []WaitingDisjoint
<1>1. IInv => WaitingDisjoint
  <2>1. SUFFICES ASSUME IInv PROVE WaitingDisjoint
    OBVIOUS
  <2>2. Sound(r, delivered)
    BY <2>1, Zenon DEF IInv
  <2>3. \A i \in DOMAIN r.substrs : i \in Nat /\ r.output.written \in Nat
    BY <2>2, ReassemblyAssumption, SMTT(30) DEF Sound
  <2>4. \A i \in DOMAIN r.substrs : i >= r.output.written
    BY <2>2, <2>3, SMTT(30) DEF Sound
  <2>. QED  BY <2>2, <2>4, ZenonT(30) DEF Sound, WaitingDisjoint, EndAt
<1>. QED  BY <1>1, Inductive, PTL

(***************************************************************************)
(* While pushes stay within the window, _substrs_size is exactly the       *)
(* number of waiting bytes, and these and the buffered ones fit in the     *)
(* capacity (stream_reassembler.hh:34-35).                                 *)
(***************************************************************************)
THEOREM ReassemblerMemory == Spec => []MemoryAccountedInWindow
<1>1. IInv => MemoryAccountedInWindow
  <2>1. SUFFICES ASSUME IInv, orderly
                 PROVE  /\ unassembled_bytes(r) = Cardinality(WaitingBytes)
                        /\ Cardinality(WaitingBytes) + buffer_size(r.output) <= Capacity
    BY DEF MemoryAccountedInWindow
  <2>2. Sound(r, delivered) /\ Orderly(r)
    BY <2>1, SMTT(30) DEF IInv
  <2>3. r.size = Cardinality(Bytes(r))
    BY <2>2, SMTT(30) DEF Orderly
  <2>4. Cardinality(WaitingBytes) = Cardinality(Bytes(r))
    BY <2>2, WaitingCount, ZenonT(40)
  <2>5. Cardinality(Bytes(r)) + buffer_size(r.output) <= Capacity
    BY <2>2, WaitingFits, ZenonT(30)
  <2>. QED  BY <2>3, <2>4, <2>5, ZenonT(40) DEF unassembled_bytes
<1>. QED  BY <1>1, Inductive, PTL

(***************************************************************************)
(* While pushes stay within the window, push_substring does not end the    *)
(* output before the last byte of the stream is written.                   *)
(***************************************************************************)
THEOREM ReassemblerEof == Spec => []NoPrematureEof
<1>1. IInv => NoPrematureEof
  <2>1. SUFFICES ASSUME IInv PROVE NoPrematureEof
    OBVIOUS
  <2>2. orderly => (r.output.input_end => r.output.written = StreamLen)
    BY <2>1, ZenonT(30) DEF IInv, Orderly
  <2>. QED  BY <2>2, Zenon DEF NoPrematureEof
<1>. QED  BY <1>1, Inductive, PTL

(***************************************************************************)
(* While pushes stay within the window, push_substring has ended the       *)
(* output once all of the stream is written and nothing waits if and only  *)
(* if an eof came with a last byte that was new, or with no byte: the      *)
(* duplicate removal, the waiting and the draining lose no other mark and  *)
(* make none up.                                                           *)
(***************************************************************************)
THEOREM ReassemblerEndsIffMarked == Spec => []EndsIffMarked
<1>1. IInv => EndsIffMarked
  <2>1. SUFFICES ASSUME IInv, orderly, empty(r) PROVE r.output.input_end <=> marked
    BY ZenonT(30) DEF EndsIffMarked
  <2>2. marked <=> Marked(r)
    BY <2>1, ZenonT(30) DEF IInv
  <2>3. DOMAIN r.substrs = {}
    BY <2>1, ZenonT(30) DEF empty
  <2>. QED  BY <2>2, <2>3, ZenonT(30) DEF Marked
<1>. QED  BY <1>1, Inductive, PTL

(***************************************************************************)
(* While pushes stay within the window, push_substring never leaves the    *)
(* next byte waiting when there is room for it.                            *)
(***************************************************************************)
THEOREM ReassemblerNothingStuck == Spec => []NothingStuck
<1>1. IInv => NothingStuck
  BY Zenon DEF IInv, Unstuck, NothingStuck
<1>. QED  BY <1>1, Inductive, PTL
=============================================================================
