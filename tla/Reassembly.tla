----------------------------- MODULE Reassembly -----------------------------
(***************************************************************************)
(* A StreamReassembler that is handed pieces of one logical stream, cut    *)
(* anywhere, in any order and any number of times, while the application   *)
(* reads at its own pace.  The byte at stream index i is the number i, so  *)
(* a byte delivered at the wrong place is visible.                         *)
(***************************************************************************)
EXTENDS StreamReassembler

CONSTANTS Capacity,     \* the constructor's capacity, a size_t
          StreamLen,    \* length of the logical stream
          MaxPush       \* bound: bytes in one substring

ASSUME ReassemblyAssumption ==
  Capacity \in Nat /\ Capacity < SizeMod /\ StreamLen \in Nat /\ MaxPush \in Nat

VARIABLES r,            \* the reassembler
          delivered,    \* history: bytes the application has read
          marked,       \* history: eof came with a last byte that was new, or
                        \* with no byte at all
          orderly       \* history: every push so far stayed within the window

vars == <<r, delivered, marked, orderly>>

\* Bytes from .. to - 1 of the logical stream.
StreamBytes(from, to) == [k \in 1 .. to - from |-> from + k - 1]

Init ==
  /\ r = NewReassembler(Capacity)
  /\ delivered = << >>
  /\ marked = FALSE
  /\ orderly = TRUE

\* Byte k is written or waiting.
Held(q, k) ==
  k < q.output.written \/ \E i \in DOMAIN q.substrs : i <= k /\ k < i + Len(q.substrs[i].data)

\* Bytes i .. j - 1 arrive.
Push(i, j, is_eof) ==
  /\ is_eof => j = StreamLen
  /\ r' = push_substring(r, StreamBytes(i, j), i, is_eof)
  /\ marked' = (marked \/ (is_eof /\ i < WindowEnd(r) /\ (i = j \/ ~Held(r, j - 1))))
  /\ orderly' = (orderly /\ j <= WindowEnd(r))
  /\ UNCHANGED delivered

Read(len) ==
  /\ ~buffer_empty(r.output)
  /\ r' = [r EXCEPT !.output = pop_output(@, len)]
  /\ delivered' = delivered \o peek_output(r.output, len)
  /\ UNCHANGED <<marked, orderly>>

Next ==
  \/ \E i \in 0 .. StreamLen : \E j \in i .. Lesser(i + MaxPush, StreamLen) :
       \E is_eof \in BOOLEAN : Push(i, j, is_eof)
  \/ \E len \in 1 .. Capacity : Read(len)

Spec == Init /\ [][Next]_vars
-----------------------------------------------------------------------------
\* The waiting bytes, a byte that waits in two substrings counted twice.
WaitingBytes ==
  UNION {{i} \X (0 .. Len(r.substrs[i].data) - 1) : i \in DOMAIN r.substrs}

(***************************************************************************)
(* However the stream is cut, repeated, reordered, evicted and truncated,  *)
(* what push_substring writes is exactly the beginning of the stream.      *)
(***************************************************************************)
DeliversPrefix == delivered \o r.output.buffer = StreamBytes(0, r.output.written)

(***************************************************************************)
(* Waiting substrings hold the right bytes, lie beyond what is written and *)
(* do not overlap: the duplicate-removal loop, the ([]) split and the      *)
(* eviction loop leave no byte stored twice.                               *)
(***************************************************************************)
WaitingDisjoint ==
  /\ \A i \in DOMAIN r.substrs :
       /\ i >= r.output.written
       /\ r.substrs[i].data = StreamBytes(i, i + Len(r.substrs[i].data))
  /\ \A i, j \in DOMAIN r.substrs : i < j => i + Len(r.substrs[i].data) <= j

(***************************************************************************)
(* stream_reassembler.hh:34-35,54: the recorded size counts the waiting    *)
(* bytes exactly, and they fit in the capacity together with the buffered  *)
(* ones, as long as pushes stay within the window, which is what a sender  *)
(* that respects the receiver's window does.                               *)
(***************************************************************************)
MemoryAccountedInWindow ==
  orderly => /\ unassembled_bytes(r) = Cardinality(WaitingBytes)
             /\ Cardinality(WaitingBytes) + buffer_size(r.output) <= Capacity

(***************************************************************************)
(* As long as pushes stay within the window, the output does not end       *)
(* before the last byte of the stream is written (stream_reassembler.hh:45 *)
(* "the last byte of `data` will be the last byte in the entire stream").  *)
(***************************************************************************)
NoPrematureEof == orderly /\ r.output.input_end => r.output.written = StreamLen

(***************************************************************************)
(* As long as pushes stay within the window, and once every byte is        *)
(* written and nothing waits, the output has ended exactly if a push that  *)
(* was not ignored brought eof together with a last byte that was new, or  *)
(* with no byte.  No overlap, split or order of arrival loses such a mark. *)
(* A mark is lost only if its last byte had come before without it, as a   *)
(* duplicate of written (stream_reassembler.cc:42-44) or of waiting bytes  *)
(* (:75-78, :84-88); the mark alone, behind the last byte, makes up for it *)
(* later (fsm_stream_reassembler_holes.cc:129-132).                        *)
(***************************************************************************)
EndsIffMarked ==
  orderly /\ r.output.written = StreamLen /\ empty(r) => (r.output.input_end <=> marked)

(***************************************************************************)
(* As long as pushes stay within the window, the next byte is never left   *)
(* waiting while there is room for it.  (A retransmission of a waiting     *)
(* substring is dropped as a duplicate without draining, so such a byte    *)
(* would be stuck.)                                                        *)
(***************************************************************************)
NothingStuck ==
  orderly /\ r.output.written \in DOMAIN r.substrs /\ remaining_capacity(r.output) > 0
    => r.substrs[r.output.written].data = << >>
=============================================================================
