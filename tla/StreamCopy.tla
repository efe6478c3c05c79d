----------------------------- MODULE StreamCopy -----------------------------
(***************************************************************************)
(* apps/bidirectional_stream_copy.cc, which every TCP application of the   *)
(* program runs: standard input to a socket and the socket to standard     *)
(* output, through two ByteStreams and the four rules of an EventLoop,     *)
(* over non-blocking descriptors.  Around it are the kernel's buffers, a   *)
(* user who types and reads, and whoever is at the other end of the socket *)
(* (external).                                                             *)
(***************************************************************************)
EXTENDS ByteStream

CONSTANTS BufferSize, MaxCopyLength,   \* buffer_size, max_copy_length
          KernelSize,                  \* room in the socket and in stdout
          MaxTyped, MaxSent            \* bound: bytes typed, sent by the other end

ASSUME StreamCopyAssumption ==
  /\ BufferSize \in Nat \ {0}
  /\ MaxCopyLength \in Nat \ {0}
  /\ KernelSize \in Nat \ {0}
  /\ {MaxTyped, MaxSent} \subseteq Nat

VARIABLES w,          \* the copying process and its descriptors
          returned,   \* bidirectional_stream_copy has returned
          typed, shown,           \* what the user has typed, has been shown
          peer_sent, peer_got     \* what the other end has sent, has read

vars == <<w, returned, typed, shown, peer_sent, peer_got>>

-----------------------------------------------------------------------------
(* The descriptors.  stdin, rx: bytes to be read; tx, out: bytes written   *)
(* and not yet taken; *_ended: no more will come; tx_shut: the socket's    *)
(* write side is shut; reset: both of its sides were shut from outside, as *)
(* the TCP thread does when its connection is over; sock_error: this was a *)
(* kernel's TCP socket, and it is in error; out_gone: nobody reads what is *)
(* written to stdout any more.                                             *)

OutOfInput(v, f) ==
  IF f = "stdin" THEN v.stdin_ended ELSE v.rx_ended \/ v.reset

fd(r) == CASE r = 1 -> "stdin" [] r \in {2, 3} -> "socket" [] r = 4 -> "stdout"

direction(r) == IF r \in {1, 3} THEN "In" ELSE "Out"

ready(r, v) ==
  CASE r = 1 -> v.stdin # << >> \/ OutOfInput(v, "stdin")
    [] r = 2 -> Len(v.tx) < KernelSize
    [] r = 3 -> v.rx # << >> \/ OutOfInput(v, "socket")
    [] r = 4 -> Len(v.out) < KernelSize

\* A socket hangs up when both of its directions are shut.
hangup(r, v) ==
  r \in {2, 3} /\ (v.reset \/ (v.tx_shut /\ v.rx_ended))

\* POLLERR: a reset kernel's socket, a pipe without a reader; POLLNVAL.
poll_error(r, v) ==
  \/ r \in {2, 3} /\ v.sock_error
  \/ r = 4 /\ v.out_gone
  \/ fd(r) \in v.closed

\* How much of the size bytes offered the kernel takes.
Taken(queue, size) == Lesser(KernelSize - Len(queue), size)

-----------------------------------------------------------------------------
(* The rules.                                                              *)

\* Mutant: there is nothing more to do for a side without bytes.
interest_bytes_only(r, v) ==
  CASE r = 1 -> remaining_capacity(v.outbound) > 0
    [] r = 2 -> ~buffer_empty(v.outbound)
    [] r = 3 -> remaining_capacity(v.inbound) > 0
    [] r = 4 -> ~buffer_empty(v.inbound)

interest(r, v) ==
  CASE r = 1 -> ~v.outbound.error /\ remaining_capacity(v.outbound) > 0 /\ ~v.inbound.error
    [] r = 2 -> ~buffer_empty(v.outbound) \/ (eof(v.outbound) /\ ~v.outbound_shutdown)
    [] r = 3 -> ~v.inbound.error /\ remaining_capacity(v.inbound) > 0 /\ ~v.outbound.error
    [] r = 4 -> ~buffer_empty(v.inbound) \/ (eof(v.inbound) /\ ~v.inbound_shutdown)

cancel(r, v) ==
  IF r \in {1, 2} THEN [v EXCEPT !.outbound = end_input(@)]
  ELSE [v EXCEPT !.inbound = end_input(@)]

\* An exception out of a system call: a read with nothing there (EAGAIN), a
\* write to a socket whose write side is shut or to a pipe without a reader
\* (EPIPE, or the signal SIGPIPE, which ends the process as well), any use of
\* a socket in error but to read what it still holds.
throw(v) == [v EXCEPT !.thrown = TRUE]

Fd == INSTANCE EventLoop WITH callback <- LAMBDA r, v : v

\* FileDescriptor::read of what is there, up to limit bytes.
CanRead(queue, limit) == SubSeq(queue, 1, Lesser(limit, Len(queue)))

Rest(queue, n) == SubSeq(queue, n + 1, Len(queue))

EndIf(ended, s) == IF ended THEN end_input(s) ELSE s

\* rule 1: read from stdin into outbound byte stream
read_input(v, limit) ==
  IF v.stdin = << >> /\ ~OutOfInput(v, "stdin") THEN throw(v)
  ELSE [Fd!note_read(v, "stdin", limit, Len(v.stdin)) EXCEPT
          !.stdin = Rest(@, Lesser(limit, Len(@))),
          !.outbound = EndIf(Len(v.stdin) = 0, write(@, CanRead(v.stdin, limit)))]

\* rule 3: read from socket into inbound byte stream
read_socket(v, limit) ==
  IF v.rx = << >> /\ (v.sock_error \/ ~OutOfInput(v, "socket")) THEN throw(v)
  ELSE [Fd!note_read(v, "socket", limit, Len(v.rx)) EXCEPT
          !.rx = Rest(@, Lesser(limit, Len(@))),
          !.inbound = EndIf(Len(v.rx) = 0, write(@, CanRead(v.rx, limit)))]

\* Mutant: the socket is shut once stdin has ended, whatever is buffered.
shut_socket_early(v) ==
  IF v.outbound.input_end
    THEN [v EXCEPT !.tx_shut = TRUE, !.outbound_shutdown = TRUE] ELSE v

shut_socket(v) ==
  IF eof(v.outbound)
    THEN [v EXCEPT !.tx_shut = TRUE, !.outbound_shutdown = TRUE] ELSE v

\* rule 2: read from outbound byte stream into socket
write_socket(v, n) ==
  IF v.sock_error \/ (buffer_size(v.outbound) > 0 /\ (v.tx_shut \/ v.reset)) THEN throw(v)
  ELSE shut_socket([Fd!register_write(v, "socket") EXCEPT
         !.tx = @ \o peek_output(v.outbound, n), !.outbound = pop_output(@, n)])

close_output(v) ==
  IF eof(v.inbound)
    THEN [Fd!close(v, "stdout") EXCEPT !.inbound_shutdown = TRUE] ELSE v

\* rule 4: read from inbound byte stream into stdout
write_output(v, n) ==
  IF v.out_gone /\ buffer_size(v.inbound) > 0 THEN throw(v)
  ELSE close_output([Fd!register_write(v, "stdout") EXCEPT
         !.out = @ \o peek_output(v.inbound, n), !.inbound = pop_output(@, n)])

bytes_to_write(s) == Lesser(MaxCopyLength, buffer_size(s))

read_limit_whole(s) == s.capacity    \* mutant: what is buffered is not counted

read_limit(s) == remaining_capacity(s)

callback(r, v) ==
  CASE r = 1 -> read_input(v, read_limit(v.outbound))
    [] r = 2 -> write_socket(v, Taken(v.tx, bytes_to_write(v.outbound)))
    [] r = 3 -> read_socket(v, read_limit(v.inbound))
    [] r = 4 -> write_output(v, Taken(v.out, bytes_to_write(v.inbound)))

Loop == INSTANCE EventLoop

-----------------------------------------------------------------------------
NewCopy ==
  [rules |-> 1 .. 4, asked |-> {}, due |-> {}, eof |-> {}, closed |-> {},
   serviced |-> {}, thrown |-> FALSE,
   outbound |-> NewByteStream(BufferSize), inbound |-> NewByteStream(BufferSize),
   outbound_shutdown |-> FALSE, inbound_shutdown |-> FALSE,
   stdin |-> << >>, stdin_ended |-> FALSE, tx |-> << >>, tx_shut |-> FALSE,
   rx |-> << >>, rx_ended |-> FALSE, out |-> << >>, reset |-> FALSE,
   sock_error |-> FALSE, out_gone |-> FALSE]

Init ==
  /\ w = NewCopy
  /\ returned = FALSE
  /\ typed = << >> /\ shown = << >> /\ peer_sent = << >> /\ peer_got = << >>

Copying == ~returned /\ ~w.thrown

\* wait_next_event(-1), up to the return of poll.  What the rules look at
\* before poll only the process itself can change, so that it is one step.
WaitNextEvent ==
  /\ Copying /\ w.due = {}
  /\ LET v == Loop!SetUp(w)
     IN  \/ /\ ~Loop!something_to_poll(v)
            /\ w' = v
            /\ returned' = TRUE
         \/ /\ Loop!something_to_poll(v)
            /\ Loop!Reported(v) # {}
            /\ w' = Loop!poll(v)    \* nothing due: a placeholder hung up
            /\ UNCHANGED returned
  /\ UNCHANGED <<typed, shown, peer_sent, peer_got>>

\* One poll result after the other.
ServeNext ==
  /\ Copying /\ w.due # {}
  /\ w' = Loop!Serve(w)
  /\ UNCHANGED <<returned, typed, shown, peer_sent, peer_got>>

-----------------------------------------------------------------------------
(* The user and the other end (external).                                  *)

Type ==
  /\ ~w.stdin_ended /\ Len(typed) < MaxTyped
  /\ typed' = Append(typed, Len(typed) + 1)
  /\ w' = [w EXCEPT !.stdin = Append(@, Len(typed) + 1)]
  /\ UNCHANGED <<returned, shown, peer_sent, peer_got>>

EndStdin ==
  /\ ~w.stdin_ended
  /\ w' = [w EXCEPT !.stdin_ended = TRUE]
  /\ UNCHANGED <<returned, typed, shown, peer_sent, peer_got>>

Show ==
  /\ w.out # << >> /\ ~w.out_gone
  /\ shown' = Append(shown, Head(w.out))
  /\ w' = [w EXCEPT !.out = Tail(@)]
  /\ UNCHANGED <<returned, typed, peer_sent, peer_got>>

\* Whoever reads stdout goes away.
ReaderLeaves ==
  /\ ~w.out_gone
  /\ w' = [w EXCEPT !.out_gone = TRUE]
  /\ UNCHANGED <<returned, typed, shown, peer_sent, peer_got>>

PeerSend ==
  /\ ~w.rx_ended /\ ~w.reset /\ Len(peer_sent) < MaxSent
  /\ peer_sent' = Append(peer_sent, Len(peer_sent) + 1)
  /\ w' = [w EXCEPT !.rx = Append(@, Len(peer_sent) + 1)]
  /\ UNCHANGED <<returned, typed, shown, peer_got>>

PeerEnd ==
  /\ ~w.rx_ended
  /\ w' = [w EXCEPT !.rx_ended = TRUE]
  /\ UNCHANGED <<returned, typed, shown, peer_sent, peer_got>>

PeerRead ==
  /\ w.tx # << >>
  /\ peer_got' = Append(peer_got, Head(w.tx))
  /\ w' = [w EXCEPT !.tx = Tail(@)]
  /\ UNCHANGED <<returned, typed, shown, peer_sent>>

Reset ==
  /\ ~w.reset
  /\ \E in_error \in BOOLEAN : w' = [w EXCEPT !.reset = TRUE, !.sock_error = in_error]
  /\ UNCHANGED <<returned, typed, shown, peer_sent, peer_got>>

Next ==
  \/ WaitNextEvent \/ ServeNext
  \/ Type \/ EndStdin \/ Show \/ ReaderLeaves
  \/ PeerSend \/ PeerEnd \/ PeerRead \/ Reset

Spec == Init /\ [][Next]_vars

\* The loop has something to do: it is not just polling again.
CanRun ==
  /\ Copying
  /\ w.due = {} => LET v == Loop!SetUp(w)
                   IN  \/ ~Loop!something_to_poll(v)
                       \/ Loop!Reported(v) # {} /\ Loop!poll(v) # w

\* Weak fairness, written with the guards.  The process is scheduled; what
\* is written to the socket is read in the end, and what is written to stdout
\* unless its reader leaves.
FairSpec ==
  /\ Spec
  /\ []<>~CanRun \/ []<><<WaitNextEvent \/ ServeNext>>_vars
  /\ []<>(w.out = << >> \/ w.out_gone) \/ []<><<Show>>_vars
  /\ []<>(w.tx = << >>) \/ []<><<PeerRead>>_vars

-----------------------------------------------------------------------------
\* Every byte is in exactly one place, and in order: at each moment what was
\* typed is what the peer has read, then what is in the socket, then what is
\* buffered, then what is still to be read; the other way likewise.  (A read
\* asks for no more than the stream it fills can take, a write pops exactly
\* what the kernel took: bidirectional_stream_copy.cc:33, :46-48, :62, :75-77.)
CopyConserves ==
  /\ typed = peer_got \o w.tx \o w.outbound.buffer \o w.stdin
  /\ peer_sent = shown \o w.out \o w.inbound.buffer \o w.rx

\* The ends are passed on only behind the last byte: the socket's write side
\* is shut only when stdin is over and all of it written, stdout closed only
\* when the socket is at its end and all of it written (:49-52, :79-82).
EndsBehindData ==
  /\ w.tx_shut => w.stdin_ended /\ w.stdin = << >> /\ w.outbound.buffer = << >>
  /\ "stdout" \in w.closed =>
       OutOfInput(w, "socket") /\ w.rx = << >> /\ w.inbound.buffer = << >>

\* The function returns only when both directions are finished (:87-92): no
\* moment in which no rule happens to be interested is taken for the end.
\* (A reset takes the socket's rules away, and then what is buffered for it is
\* dropped: eventloop.cc:120-127.)
ReturnsWhenDone ==
  returned => /\ "stdout" \in w.closed
              /\ w.tx_shut \/ w.reset

\* The connection or the reader of stdout was taken away.
CutOff(v) == v.reset \/ v.out_gone

\* No exception leaves the loop unless the connection or the reader of stdout
\* was taken away: no rule is served without acting on its descriptor
\* (eventloop.cc:135), no descriptor is polled after it was closed (:76-80,
\* :112), nothing is read when there is nothing or written after the end.
ThrowsOnlyWhenCutOff == w.thrown => CutOff(w)

\* When both sides have ended their streams, the copying ends.
CopyEnds ==
  []((w.stdin_ended /\ OutOfInput(w, "socket")) => <>(returned \/ w.thrown))
=============================================================================
