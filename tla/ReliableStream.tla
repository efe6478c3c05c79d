--------------------------- MODULE ReliableStream ---------------------------
(***************************************************************************)
(* What every stream of this program promises its two users: the reader    *)
(* sees the bytes the writer handed over, in order, each once, and is told *)
(* "end of stream" only when the writer has ended the stream and every     *)
(* byte of it has been read; what it has been told stays true.  This is    *)
(* the abstract specification of a single ByteStream and of one direction  *)
(* of a whole TCP connection.                                              *)
(***************************************************************************)
EXTENDS Naturals, Sequences

VARIABLES sent,       \* the bytes the writer has handed over
          finished,   \* the writer has ended the stream
          received,   \* the bytes the reader has taken
          at_end      \* the reader is told that the stream is over

vars == <<sent, finished, received, at_end>>

Init ==
  /\ sent = << >>
  /\ finished = FALSE
  /\ received = << >>
  /\ at_end = FALSE

\* Any step may be the one that lets the reader see the end.
EndIsReal ==
  /\ at_end => at_end'
  /\ at_end' => finished' /\ received' = sent'

\* The writer adds bytes, until it has ended the stream.
Send ==
  /\ ~finished
  /\ sent' = sent \o SubSeq(sent', Len(sent) + 1, Len(sent'))
  /\ UNCHANGED <<finished, received>>
  /\ EndIsReal

Finish ==
  /\ finished' = TRUE
  /\ UNCHANGED <<sent, received>>
  /\ EndIsReal

\* The reader moves on to a longer prefix of what was sent.
Receive ==
  /\ \E n \in Len(received) .. Len(sent) : received' = SubSeq(sent, 1, n)
  /\ UNCHANGED <<sent, finished>>
  /\ EndIsReal

Next == Send \/ Finish \/ Receive

Spec == Init /\ [][Next]_vars
=============================================================================
