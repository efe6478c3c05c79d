---------------------------- MODULE SocketProcess ---------------------------
(***************************************************************************)
(* A TCPSpongeSocket in use: its TCP thread, its owner, and at the other   *)
(* end of a network that may lose datagrams another TCPConnection with its *)
(* application.  The owner's thread and the TCP thread interleave between  *)
(* any two callbacks.  The byte at index i of either stream is i.          *)
(***************************************************************************)
EXTENDS SpongeSocket

CONSTANTS MaxBytes,      \* bound: bytes each side writes
          MaxTrouble,    \* bound: datagrams lost, resets, destructions
          MaxEvents,     \* bound: all of these together
          PeerIsn,
          PeerCapacity,  \* of the other end's outbound stream
          TickMs         \* time that passes while nothing happens

ASSUME SocketAssumption ==
  /\ {SendCapacity, PeerCapacity, RecvCapacity, ThreadRoom, OwnerRoom, MaxCopyLength, TickMs}
       \subseteq Nat \ {0}
  /\ {MaxBytes, MaxTrouble, MaxEvents} \subseteq Nat
  /\ {Isn, PeerIsn} \subseteq 0 .. SeqnoMod - 1

VARIABLES w,        \* the socket, as its TCP thread sees it
          owner,    \* mode; sent, finished; got, eof: what it has done and seen
          peer,     \* the other end's TCPConnection; what it sends is in wire_in
          peer_got, \* the bytes the other end's application has read
          trouble   \* how much of it there has been

vars == <<w, owner, peer, peer_got, trouble>>

Bytes(n) == [i \in 1 .. n |-> i - 1]

\* The other end does something: what it queues goes on the wire.
PeerDoes(p, v) ==
  /\ peer' = [p EXCEPT !.segments_out = << >>]
  /\ w' = [v EXCEPT !.wire_in = @ \o p.segments_out]

\* There may be n more events of those that are bounded.
More(n) == owner.sent + peer.sender.stream.written + trouble + n <= MaxEvents

\* One more thing goes wrong.
Trouble == More(1) /\ trouble < MaxTrouble /\ trouble' = trouble + 1

PeerTCP == NewConnection(PeerCapacity, RecvCapacity, PeerIsn)

Init ==
  /\ \/ w = Connecting /\ peer = PeerTCP
     \/ /\ peer = [connect(PeerTCP) EXCEPT !.segments_out = << >>]
        /\ w = [Listening EXCEPT !.wire_in = connect(PeerTCP).segments_out]
  /\ owner = [mode |-> "using", sent |-> 0, finished |-> FALSE, got |-> << >>, eof |-> FALSE]
  /\ peer_got = << >>
  /\ trouble = 0

-----------------------------------------------------------------------------
(* The TCP thread (before it is started, the owner in connect or listen).  *)

LoopRuns == w.phase # "ended" /\ ~w.thrown

\* Timers outlast whatever is on its way.
Quiet(v) == v.wire_in = << >> /\ v.wire_out = << >> /\ v.tcp.segments_out = << >>

\* A turn of the loop ends; ms have passed since the last one did.
TurnEnds(v, ms) == PeerDoes(IF ms > 0 THEN tick(peer, ms) ELSE peer, EndTurn(v, ms))

\* When nothing is due any more, the turn is over.
Polled(v) ==
  \/ /\ v.due # {} \/ v.thrown
     /\ w' = v
     /\ UNCHANGED peer
  \/ /\ v.due = {} /\ ~v.thrown
     /\ \/ TurnEnds(v, 0)
        \/ Quiet(v) /\ TurnEnds(v, TickMs)

\* wait_next_event, up to the return of poll.
WaitNextEvent ==
  /\ LoopRuns /\ w.due = {}
  /\ LET v == Loop!SetUp(w)
     IN  \/ /\ ~Loop!something_to_poll(v)
            /\ w' = LeaveLoop(v)
            /\ UNCHANGED peer
         \/ /\ Loop!something_to_poll(v)
            /\ Loop!Reported(v) # {}
            /\ Polled(Loop!poll(v))
         \/ /\ Loop!something_to_poll(v)
            /\ Loop!Reported(v) = {}
            /\ \/ Quiet(v) /\ TurnEnds(v, TickMs)
               \/ v.abort /\ TurnEnds(v, 0)
  /\ UNCHANGED <<owner, peer_got, trouble>>

\* The next poll result.
ServeNext ==
  /\ LoopRuns /\ w.due # {}
  /\ Polled(Loop!Serve(w))
  /\ UNCHANGED <<owner, peer_got, trouble>>

-----------------------------------------------------------------------------
(* The owner, once connect() or listen_and_accept() has returned.          *)

Using == owner.mode = "using" /\ w.phase \in {"main", "ended"} /\ ~w.thrown

OwnerWrite ==
  /\ Using /\ ~w.owner_wr
  /\ More(1) /\ owner.sent < MaxBytes /\ Len(w.to_thread) < ThreadRoom
  /\ owner' = [owner EXCEPT !.sent = @ + 1]
  /\ w' = [w EXCEPT !.to_thread = Append(@, owner.sent)]
  /\ UNCHANGED <<peer, peer_got, trouble>>

\* shutdown(SHUT_WR)
OwnerFinish ==
  /\ Using /\ ~owner.finished
  /\ owner' = [owner EXCEPT !.finished = TRUE]
  /\ w' = [w EXCEPT !.owner_wr = TRUE]
  /\ UNCHANGED <<peer, peer_got, trouble>>

OwnerRead ==
  /\ Using /\ w.to_owner # << >>
  /\ owner' = [owner EXCEPT !.got = Append(@, Head(w.to_owner))]
  /\ w' = [w EXCEPT !.to_owner = Tail(@)]
  /\ UNCHANGED <<peer, peer_got, trouble>>

OwnerSeesEnd ==
  /\ Using /\ ~owner.eof
  /\ w.to_owner = << >> /\ (w.thread_wr \/ w.owner_rd)
  /\ owner' = [owner EXCEPT !.eof = TRUE]
  /\ UNCHANGED <<w, peer, peer_got, trouble>>

\* wait_until_closed, where it is advisable: at the end of the stream.
OwnerWaits ==
  /\ Using /\ owner.eof
  /\ owner' = [owner EXCEPT !.mode = "waiting", !.finished = TRUE]
  /\ w' = [w EXCEPT !.owner_wr = TRUE, !.owner_rd = TRUE]
  /\ UNCHANGED <<peer, peer_got, trouble>>

\* ~TCPSpongeSocket of a socket that was not waited for.
OwnerDestroys ==
  /\ Using /\ Trouble
  /\ owner' = [owner EXCEPT !.mode = "destroying"]
  /\ w' = [w EXCEPT !.abort = TRUE]
  /\ UNCHANGED <<peer, peer_got>>

\* The join of either returns.
CanJoin == owner.mode \in {"waiting", "destroying"} /\ w.phase = "ended"

OwnerJoins ==
  /\ CanJoin
  /\ owner' = [owner EXCEPT !.mode = "done"]
  /\ UNCHANGED <<w, peer, peer_got, trouble>>

-----------------------------------------------------------------------------
(* The other end (external) and the network.  The loop hears of them only  *)
(* at its next poll, so that they act between two turns of the loop.       *)

BetweenTurns == w.due = {}

PeerReceives ==
  /\ BetweenTurns /\ w.wire_out # << >>
  /\ PeerDoes(segment_received(peer, Head(w.wire_out)), [w EXCEPT !.wire_out = Tail(@)])
  /\ UNCHANGED <<owner, peer_got, trouble>>

PeerWrites ==
  /\ BetweenTurns /\ active(peer) /\ ~peer.sender.stream.input_end
  /\ \E n \in 1 .. remaining_outbound_capacity(peer) :
       LET written == peer.sender.stream.written
       IN  /\ More(n) /\ written + n <= MaxBytes
           /\ PeerDoes(write(peer, [i \in 1 .. n |-> written + i - 1]), w)
  /\ UNCHANGED <<owner, peer_got, trouble>>

PeerEnds ==
  /\ BetweenTurns /\ active(peer) /\ ~peer.sender.stream.input_end /\ peer.sender.next_seqno > 0
  /\ PeerDoes(end_input_stream(peer), w)
  /\ UNCHANGED <<owner, peer_got, trouble>>

PeerReads ==
  /\ BetweenTurns /\ ~Stream!buffer_empty(inbound_stream(peer))
  /\ peer_got' = peer_got \o inbound_stream(peer).buffer
  /\ peer' = [peer EXCEPT !.receiver.reassembler.output =
                Stream!pop_output(@, Stream!buffer_size(@))]
  /\ UNCHANGED <<w, owner, trouble>>

PeerResets ==
  /\ BetweenTurns /\ active(peer) /\ Trouble
  /\ PeerDoes(destroy(peer), w)
  /\ UNCHANGED <<owner, peer_got>>

Lose ==
  /\ BetweenTurns /\ Trouble
  /\ \/ w.wire_out # << >> /\ w' = [w EXCEPT !.wire_out = Tail(@)]
     \/ w.wire_in # << >> /\ w' = [w EXCEPT !.wire_in = Tail(@)]
  /\ UNCHANGED <<owner, peer, peer_got>>

Next ==
  \/ WaitNextEvent \/ ServeNext
  \/ OwnerWrite \/ OwnerFinish \/ OwnerRead \/ OwnerSeesEnd
  \/ OwnerWaits \/ OwnerDestroys \/ OwnerJoins
  \/ PeerReceives \/ PeerWrites \/ PeerEnds \/ PeerReads \/ PeerResets \/ Lose

Spec == Init /\ [][Next]_vars

\* The loop has something to do: it is not just polling again.
CanRun ==
  /\ LoopRuns
  /\ w.due = {} =>
       LET v == Loop!SetUp(w)
           polled == Loop!poll(v)
       IN  \/ ~Loop!something_to_poll(v) \/ v.abort \/ polled.due # {}
           \/ Loop!Reported(v) # {} /\ EndTurn(polled, 0) # w

\* What only the loop changes, and each of its steps that does anything.
Loops(v) == <<v.due, v.rules, v.tcp, v.phase, v.thrown>>

\* Time would make a difference now.
CanElapse ==
  /\ LoopRuns /\ Quiet(w)
  /\ tick(w.tcp, TickMs) # w.tcp \/ tick(peer, TickMs) # peer

\* Weak fairness, written with the guards and with what the actions change:
\* the loop runs, and on a quiet network time passes; what is not lost
\* arrives; both applications read; joins return.
Fairness ==
  /\ []<>~CanRun \/ []<><<Loops(w)' # Loops(w)>>_vars
  /\ []<>~CanElapse \/ []<><<peer' # peer \/ w'.tcp # w.tcp>>_vars
  /\ []<>(w.wire_out = << >>) \/ []<><<Len(w'.wire_out) < Len(w.wire_out)>>_vars
  /\ []<>(~Using \/ w.to_owner = << >>) \/ []<><<owner'.got # owner.got>>_vars
  /\ []<>Stream!buffer_empty(inbound_stream(peer)) \/ []<><<peer_got' # peer_got>>_vars
  /\ []<>~CanJoin \/ []<><<owner'.mode # owner.mode>>_vars

FairSpec == Spec /\ Fairness
-----------------------------------------------------------------------------
Up == INSTANCE ReliableStream
  WITH sent <- Bytes(owner.sent), finished <- owner.finished,
       received <- peer_got, at_end <- Stream!eof(inbound_stream(peer))

Down == INSTANCE ReliableStream
  WITH sent <- Bytes(peer.sender.stream.written), finished <- peer.sender.stream.input_end,
       received <- owner.got, at_end <- owner.eof /\ Stream!eof(inbound(w))

\* Through the local sockets, the two threads and the connection each
\* direction is a reliable stream, for the owner as for the other end: also
\* when the owner shuts down, waits or is destroyed between any two callbacks
\* (tcp_sponge_socket.cc:94-151).  An end that a reset made is no end of the
\* stream; the owner is not told the difference (:136-138).
SocketReliable == Up!Spec /\ Down!Spec

\* The thread ends by itself only when everything is delivered: if there was
\* no reset and the socket was not destroyed, the owner's whole stream and
\* its end have reached the other end, and the other end's whole stream is
\* with the owner or in its socket (:28-31, :116, :148-151).  And it dies of
\* an exception only after a reset: the connection accepts what it advertised
\* (:102), no callback is a busy wait (eventloop.cc:135), and nothing is
\* written to a side that is shut.  (After a reset it can be: rule 3 shuts its
\* side although some of the inbound bytes did not fit, and goes on writing
\* them, :133-138, :149.)
EndsDelivered ==
  /\ w.thrown => inbound(w).error
  /\ w.phase = "ended" /\ ~inbound(w).error /\ ~w.abort =>
       /\ owner.finished /\ inbound_stream(peer).input_end
       /\ inbound_stream(peer).written = owner.sent
       /\ owner.got \o w.to_owner = Bytes(peer.sender.stream.written)

\* The thread repeats a zero-window probe to an end that is gone: that is not
\* counted as a retransmission, so that it never gives up (tcp_sender.cc:214-225).
ProbesForNothing == ~active(peer) /\ w.tcp.sender.zero_win_seg_send

\* The owner is in connect, wait_until_closed or the destructor.
InCall == w.phase = "connect" \/ owner.mode \in {"waiting", "destroying"}

\* No call leaves the owner waiting: connect returns ("blocks until connect
\* succeeds or fails"), and so do wait_until_closed at the end of the stream
\* and the destructor at any time (:186-187, :197-199, :217-221), also when
\* datagrams are lost or the other end is gone; all but wait_until_closed
\* while the thread goes on probing an end that is gone.
CallsReturn ==
  InCall ~> \/ ~InCall \/ w.thrown
            \/ owner.mode = "waiting" /\ ProbesForNothing

\* tcp_sponge_socket.hh:75, "When a connected socket is destructed, it will
\* send a RST": when the thread has ended because of the destructor, and the
\* connection was active, the reset is on its way or has arrived.
DestructorResets ==
  w.phase = "ended" /\ w.abort /\ w.tcp.sender.stream.error =>
    \/ \E i \in DOMAIN w.wire_out : w.wire_out[i].rst
    \/ peer.sender.stream.error
=============================================================================
