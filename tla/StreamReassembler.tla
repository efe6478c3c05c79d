-------------------------- MODULE StreamReassembler -------------------------
(***************************************************************************)
(* libsponge/stream_reassembler.{hh,cc} as operators on a record:          *)
(*   output    the ByteStream it writes to (_output)                       *)
(*   substrs   the substrings waiting for a gap to be filled, by the index *)
(*             of their first byte (_substrs)                              *)
(*   size      _substrs_size, the recorded number of waiting bytes, a      *)
(*             size_t: arithmetic on it is modulo SizeMod                  *)
(* The capacity is the output's.  A substring is [data, eof].              *)
(***************************************************************************)
EXTENDS ByteStream, Integers, FiniteSetsExt, Functions

CONSTANT SizeMod    \* stands for 2^64, the range of size_t

ASSUME SizeModAssumption == SizeMod \in Nat \ {0}

NewReassembler(cap) ==
  [output |-> NewByteStream(cap), substrs |-> << >>, size |-> 0]

Greater(a, b) == IF a >= b THEN a ELSE b

\* std::string::substr(0, n) and substr(n)
Leading(data, n) == SubSeq(data, 1, Lesser(n, Len(data)))
Following(data, n) == SubSeq(data, n + 1, Len(data))

\* std::map's operator[] = and erase
Assign(map, key, value) ==
  [k \in DOMAIN map \cup {key} |-> IF k = key THEN value ELSE map[k]]
Erase(map, key) == Restrict(map, DOMAIN map \ {key})

empty_size(r) ==
  LET used == (r.size + buffer_size(r.output)) % SizeMod
  IN  IF r.output.capacity >= used THEN r.output.capacity - used ELSE 0

\* The stream index just past the last byte there is room for.
WindowEnd(r) == r.output.written + remaining_capacity(r.output)

empty(r) == DOMAIN r.substrs = {}

\* _substrs is sorted by descending index: begin() is the last substring.
LastIndex(r) == Max(DOMAIN r.substrs)
LastLen(r) == Len(r.substrs[LastIndex(r)].data)

EraseLast(r) ==
  [r EXCEPT !.substrs = Erase(r.substrs, LastIndex(r)),
            !.size = (r.size - LastLen(r)) % SizeMod]

\* Shorten the last substring so that n bytes fit.  What is subtracted from
\* the recorded size is n, not the number of bytes cut off.
TruncateLast(r, n, last_eof) ==
  LET keep == LastLen(r) + empty_size(r) - n
  IN  [r EXCEPT !.substrs[LastIndex(r)] =
                   [data |-> Leading(@.data, keep), eof |-> last_eof],
                !.size = (r.size - n) % SizeMod]

CanTruncateLast(r, n) == LastLen(r) + empty_size(r) > n

\* One turn of the eviction loop, for n bytes at index: nothing once they fit
\* or must themselves be cut, else the last substring is shortened or erased.
Evict(r, n, index) ==
  IF empty_size(r) >= n \/ empty(r) \/ LastIndex(r) < index THEN r
  ELSE IF CanTruncateLast(r, n)
       THEN TruncateLast(r, n, r.substrs[LastIndex(r)].eof)
  ELSE EraseLast(r)

\* Room for data at index: substrings are evicted, last ones first, until the
\* data fits, can be made to fit by shortening one, or must itself be cut.
\* The first round clears the eof of the substring it shortens, later rounds
\* do not; cutting data leaves its eof flag to the caller.
MakeRoom(r, data, index) ==
  LET n == Len(data)
      fits(q) == empty_size(q) >= n
      bound == LastIndex(r) + LastLen(r) + 1
      evicted[k \in 0 .. bound] ==
        IF k = 0 THEN EraseLast(r) ELSE Evict(evicted[k - 1], n, index)
  IN  IF fits(r) THEN [r |-> r, data |-> data]
      ELSE IF empty(r) THEN [r |-> r, data |-> Leading(data, empty_size(r))]
      ELSE IF CanTruncateLast(r, n)
           THEN [r |-> TruncateLast(r, n, FALSE), data |-> data]
      ELSE [r |-> evicted[bound],
            data |-> IF fits(evicted[bound]) THEN data
                     ELSE Leading(data, empty_size(evicted[bound]))]

\* Mutant: what is moved out stays in the recorded size.
DrainOne_keeps_size(r) ==
  LET w == r.output.written
      out == write(r.output, r.substrs[w].data)
  IN  [r EXCEPT !.output = IF r.substrs[w].eof THEN end_input(out) ELSE out,
                !.substrs = Erase(@, w)]

\* Move one waiting substring that starts at the next byte to the output.
DrainOne(r) ==
  LET w == r.output.written
      seg == r.substrs[w]
      room == remaining_capacity(r.output)
      others == Erase(r.substrs, w)
      out == write(r.output, seg.data)
      moved == Lesser(room, Len(seg.data))
      rest == [data |-> Following(seg.data, moved), eof |-> seg.eof]
  IN  [output |-> IF room >= Len(seg.data) /\ seg.eof THEN end_input(out) ELSE out,
       substrs |-> IF room >= Len(seg.data) THEN others
                   ELSE Assign(others, w + moved, rest),
       size |-> (r.size - moved) % SizeMod]

\* One turn of the loop that writes what has become contiguous.
DrainStep(r) ==
  IF r.output.written \in DOMAIN r.substrs /\ remaining_capacity(r.output) > 0
  THEN DrainOne(r) ELSE r

\* Mutant: only one substring is written.
Drain_once(r) == DrainStep(r)

\* Every turn but the last takes a substring out: that many turns are enough.
Drain(r) ==
  LET bound == Cardinality(DOMAIN r.substrs)
      drained[k \in 0 .. bound] == IF k = 0 THEN r ELSE DrainStep(drained[k - 1])
  IN  drained[bound]

\* Mutant: an eof ends the output at once, not when its last byte is written.
Put_ends_at_once(room, p) ==
  Drain([room.r EXCEPT
           !.output = IF p.eof THEN end_input(@) ELSE @,
           !.substrs = Assign(@, p.index, [data |-> room.data, eof |-> FALSE]),
           !.size = (@ + Len(room.data)) % SizeMod])

\* Store a piece [index, data, eof], none of whose bytes is written or
\* waiting, and drain.
Put(room, p) ==
  Drain([room.r EXCEPT
           !.substrs = Assign(@, p.index, [data |-> room.data, eof |-> p.eof]),
           !.size = (@ + Len(room.data)) % SizeMod])

Store(r, p) ==
  IF Len(p.data) > empty_size(r) /\ ~empty(r) /\ LastIndex(r) < p.index THEN r
  ELSE Put(MakeRoom(r, p.data, p.index), p)

\* Mutants: the part above loses the eof, and the part below is not cut off
\* where the waiting substring begins.
PartAbove_loses_eof(p, c_end) ==
  [index |-> c_end + 1, data |-> Following(p.data, c_end - p.index + 1), eof |-> FALSE]
PartBelow_uncut(p, c_begin) == [p EXCEPT !.eof = FALSE]

\* The parts of p below and above a waiting substring c_begin .. c_end.
PartBelow(p, c_begin) ==
  [index |-> p.index, data |-> Leading(p.data, c_begin - p.index), eof |-> FALSE]
PartAbove(p, c_end) ==
  [index |-> c_end + 1, data |-> Following(p.data, c_end - p.index + 1), eof |-> p.eof]

\* One turn of the duplicate-removal loop: p is what remains of the new data
\* below the substrings seen so far, pieces what the ([]) case split off
\* above them, covered whether nothing is left of p.
Overlap(acc, c_begin, c_end) ==
  LET b == acc.p.index
      e == acc.p.index + Len(acc.p.data) - 1
      left == PartBelow(acc.p, c_begin)
      right == PartAbove(acc.p, c_end)
  IN  IF acc.covered \/ e < c_begin \/ c_end < b THEN acc
      ELSE IF c_begin <= b /\ e <= c_end THEN [acc EXCEPT !.covered = TRUE]  \* [()]
      ELSE IF c_begin <= b THEN [acc EXCEPT !.p = right]                     \* [(])
      ELSE IF e <= c_end THEN [acc EXCEPT !.p = left]                        \* ([)]
      ELSE [acc EXCEPT !.p = left, !.pieces = <<right>> \o @]               \* ([])

\* The turn for the substring at index i, if one is waiting there.
OverlapAt(r, acc, i) ==
  IF i \in DOMAIN r.substrs THEN Overlap(acc, i, i + Len(r.substrs[i].data) - 1) ELSE acc

\* The pieces of p that are not waiting yet.  The loop runs from the last
\* substring to the first; one that begins at or after the end of p has no
\* effect.  The code recurses on the two parts of a ([]) split, the lower one
\* first; the lower part meets only the substrings the loop has not seen, so
\* the loop goes on with it instead.
Uncovered(r, p) ==
  LET top == p.index + Len(p.data)
      seen[k \in 0 .. top] ==
        IF k = 0 THEN [p |-> p, pieces |-> << >>, covered |-> FALSE]
        ELSE OverlapAt(r, seen[k - 1], top - k)
  IN  seen[top]

\* What is left of the new data once the bytes already written are dropped.
Unwritten_untrimmed(r, data, index, is_eof) ==    \* mutant: only the index moves
  [index |-> Greater(index, r.output.written), data |-> data, eof |-> is_eof]

Unwritten(r, data, index, is_eof) ==
  LET first == Greater(index, r.output.written)
  IN  [index |-> first, data |-> Following(data, first - index), eof |-> is_eof]

\* A part that was split off is pushed again.
PushPiece(r, piece) == IF piece.index >= WindowEnd(r) THEN r ELSE Store(r, piece)

\* The lowest part is stored, then the others, from low to high.
StorePieces(r, u) ==
  LET stored[k \in 0 .. Len(u.pieces)] ==
        IF k = 0 THEN IF u.covered THEN r ELSE Store(r, u.p)
        ELSE PushPiece(stored[k - 1], u.pieces[k])
  IN  stored[Len(u.pieces)]

\* The parts of a split are pushed again, and ignored if the window is closed
\* (p begins at the first unwritten byte then); data in one part is stored
\* even so.
StoreUnwritten(r, p) ==
  LET u == Uncovered(r, p)
  IN  IF p.data = << >> THEN Store(r, p)
      ELSE IF u.pieces # << >> /\ p.index >= WindowEnd(r) THEN r
      ELSE StorePieces(r, u)

push_substring(r, data, index, is_eof) ==
  IF \/ index >= WindowEnd(r)
     \/ index < r.output.written /\ index + Len(data) <= r.output.written
     \/ data = << >> /\ ~is_eof /\ ~empty(r)
  THEN r
  ELSE StoreUnwritten(r, Unwritten(r, data, index, is_eof))

unassembled_bytes(r) == r.size
=============================================================================
