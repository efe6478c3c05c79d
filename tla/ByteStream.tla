----------------------------- MODULE ByteStream -----------------------------
(***************************************************************************)
(* The in-memory byte stream of libsponge/byte_stream.{hh,cc}, as          *)
(* operators on a record, so that the reassembler, the sender and the      *)
(* connection can each own one.  A byte is any value; a string of bytes is *)
(* a sequence.                                                             *)
(***************************************************************************)
EXTENDS Naturals, Sequences

\* std::min, as the stream and the sender use it.
Lesser(a, b) == IF a <= b THEN a ELSE b

\* A freshly constructed stream with room for cap bytes.
NewByteStream(cap) ==
  [capacity |-> cap, buffer |-> << >>, written |-> 0, read |-> 0,
   input_end |-> FALSE, error |-> FALSE]

buffer_size(s) == Len(s.buffer)

buffer_empty(s) == Len(s.buffer) = 0

\* Mutant: the end is reported while bytes are still buffered.
eof_before_drained(s) == s.input_end

eof(s) == s.input_end /\ buffer_empty(s)

remaining_capacity(s) == s.capacity - Len(s.buffer)

\* How many bytes of data a write accepts.
accepted_size(s, data) == Lesser(remaining_capacity(s), Len(data))

\* Mutant: the whole of the data goes in, whether it fits or not.
write_beyond_capacity(s, data) ==
  [s EXCEPT !.buffer = s.buffer \o data, !.written = s.written + Len(data)]

\* write: whatever fits goes in.  The end of the input is not looked at.
write(s, data) ==
  [s EXCEPT !.buffer = s.buffer \o SubSeq(data, 1, accepted_size(s, data)),
            !.written = s.written + accepted_size(s, data)]

peek_output(s, len) == SubSeq(s.buffer, 1, Lesser(len, Len(s.buffer)))

pop_output(s, len) ==
  LET n == Lesser(len, Len(s.buffer))
  IN  [s EXCEPT !.buffer = SubSeq(s.buffer, n + 1, Len(s.buffer)),
                !.read = s.read + n]

end_input(s) == [s EXCEPT !.input_end = TRUE]

set_error(s) == [s EXCEPT !.error = TRUE]
=============================================================================
