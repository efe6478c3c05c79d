-------------------------- MODULE ByteStreamProcess -------------------------
(***************************************************************************)
(* One ByteStream (libsponge/byte_stream.cc) between a writer and a reader *)
(* that call its methods in any order.  Two history variables record what  *)
(* the stream accepted and what it handed out.                             *)
(***************************************************************************)
EXTENDS ByteStream

CONSTANTS Byte,            \* the values a byte may have
          Capacity,        \* the constructor's capacity
          WriteAfterEnd,   \* do the callers write after end_input?
          MaxData,         \* bound: bytes passed to one call
          MaxWritten       \* bound: bytes written altogether

ASSUME StreamAssumption ==
  /\ Capacity \in Nat
  /\ WriteAfterEnd \in BOOLEAN
  /\ MaxData \in Nat
  /\ MaxWritten \in Nat

VARIABLES stream,      \* the ByteStream
          accepted,    \* history: bytes that writes accepted
          delivered    \* history: bytes that reads returned

StreamVars == <<stream, accepted, delivered>>

Data == UNION {[1 .. n -> Byte] : n \in 0 .. MaxData}

StreamInit ==
  /\ stream = NewByteStream(Capacity)
  /\ accepted = << >>
  /\ delivered = << >>

Write(data) ==
  /\ stream.input_end => WriteAfterEnd
  /\ stream.written + Len(data) <= MaxWritten
  /\ stream' = write(stream, data)
  /\ accepted' = accepted \o SubSeq(data, 1, accepted_size(stream, data))
  /\ UNCHANGED delivered

\* read: peek_output, then pop_output.
Read(len) ==
  /\ stream' = pop_output(stream, len)
  /\ delivered' = delivered \o peek_output(stream, len)
  /\ UNCHANGED accepted

EndInput ==
  /\ stream' = end_input(stream)
  /\ UNCHANGED <<accepted, delivered>>

SetError ==
  /\ stream' = set_error(stream)
  /\ UNCHANGED <<accepted, delivered>>

StreamNext ==
  \/ \E data \in Data : Write(data)
  \/ \E len \in 0 .. MaxData : Read(len)
  \/ EndInput
  \/ SetError

StreamSpec == StreamInit /\ [][StreamNext]_StreamVars
-----------------------------------------------------------------------------
(***************************************************************************)
(* The shape of the stream's fields.                                       *)
(***************************************************************************)
StreamTypeOK ==
  /\ stream \in [capacity : {Capacity}, buffer : Seq(Byte), written : Nat,
                 read : Nat, input_end : BOOLEAN, error : BOOLEAN]
  /\ accepted \in Seq(Byte)
  /\ delivered \in Seq(Byte)

(***************************************************************************)
(* Whatever the order of calls to write, read and pop_output: nothing the  *)
(* stream accepted is lost, repeated or reordered, the two counters the    *)
(* TCP code derives sequence numbers from (bytes_written, bytes_read)      *)
(* count exactly those bytes, and the buffer never outgrows the capacity   *)
(* (so remaining_capacity, an unsigned subtraction, cannot wrap).          *)
(***************************************************************************)
Conservation ==
  /\ accepted = delivered \o stream.buffer
  /\ stream.written = Len(accepted)
  /\ stream.read = Len(delivered)
  /\ Len(stream.buffer) <= Capacity

Abstract == INSTANCE ReliableStream
  WITH sent <- accepted, finished <- stream.input_end,
       received <- delivered, at_end <- eof(stream)

(***************************************************************************)
(* As long as callers stop writing once they have ended the input, the     *)
(* ByteStream is a reliable stream; in particular eof() never goes back to *)
(* false and is never reported before the last byte is read.               *)
(***************************************************************************)
ImplementsReliableStream == Abstract!Spec
=============================================================================
