------------------------------- MODULE TCPPair ------------------------------
(***************************************************************************)
(* Two TCPConnections, the applications that own them and the network      *)
(* between them.  The queue segments_out of an endpoint stands for that    *)
(* queue and the wire behind it: the network delivers from it, loses from  *)
(* it, and, if told so, delivers out of order or twice.  The byte at index *)
(* i of either stream is the number i.                                     *)
(***************************************************************************)
EXTENDS TCPState

CONSTANTS Client, Server,   \* the two ends: the client connects
          Isn,              \* [End -> initial sequence number]
          StreamLen,        \* [End -> bytes its application writes]
          SendCapacity,     \* of the outbound streams
          RecvCapacity,     \* of the inbound streams
          TickMs,           \* time that passes between two calls of tick
          Patient,          \* no timer fires while a segment is on its way
          MaxLost,          \* bound: segments the network loses
          MaxDuplicated,    \* bound: segments it delivers twice
          MaxReordered,     \* bound: segments that overtake earlier ones
          MaxWire           \* bound: segments queued when a timer fires

End == {Client, Server}
Peer(e) == IF e = Client THEN Server ELSE Client

ASSUME PairAssumption ==
  /\ Client # Server
  /\ Isn \in [End -> 0 .. SeqnoMod - 1]
  /\ StreamLen \in [End -> Nat]
  /\ {SendCapacity, RecvCapacity, TickMs} \subseteq Nat \ {0}
  /\ {MaxLost, MaxDuplicated, MaxReordered, MaxWire} \subseteq Nat
  /\ Patient \in BOOLEAN
  /\ RecvCapacity < SizeMod
  /\ \A e \in End : StreamLen[e] + RecvCapacity + 2 < SizeMod

VARIABLES conn,         \* [End -> connection]
          received,     \* history: the bytes each application has read
          faults        \* what the network has done to segments so far

vars == <<conn, received, faults>>

Init ==
  /\ conn = [e \in End |-> NewConnection(SendCapacity, RecvCapacity, Isn[e])]
  /\ received = [e \in End |-> << >>]
  /\ faults = [lost |-> 0, duplicated |-> 0, reordered |-> 0]

Connect ==
  /\ conn[Client].sender.next_seqno = 0
  /\ conn' = [conn EXCEPT ![Client] = connect(@)]
  /\ UNCHANGED <<received, faults>>

\* The application writes the next n bytes of its stream.
Write(e, n) ==
  LET done == conn[e].sender.stream.written
  IN  /\ active(conn[e])
      /\ n <= Stream!remaining_capacity(conn[e].sender.stream)
      /\ done + n <= StreamLen[e]
      /\ conn' = [conn EXCEPT ![e] = write(@, [i \in 1 .. n |-> done + i - 1])]
      /\ UNCHANGED <<received, faults>>

\* The application has written all it has, and shuts down its stream.
EndInput(e) ==
  /\ active(conn[e])
  /\ conn[e].sender.next_seqno > 0
  /\ conn[e].sender.stream.written = StreamLen[e]
  /\ ~conn[e].sender.stream.input_end
  /\ conn' = [conn EXCEPT ![e] = end_input_stream(@)]
  /\ UNCHANGED <<received, faults>>

Read(e, n) ==
  /\ n <= Stream!buffer_size(inbound_stream(conn[e]))
  /\ received' = [received EXCEPT ![e] = @ \o Stream!peek_output(inbound_stream(conn[e]), n)]
  /\ conn' = [conn EXCEPT ![e].receiver.reassembler.output = Stream!pop_output(@, n)]
  /\ UNCHANGED faults

InTransit == Len(conn[Client].segments_out) + Len(conn[Server].segments_out)

\* Time passes: for both ends at once and only while the network is silent,
\* or for one end at a time, whatever is still on its way.
Clocks == IF Patient THEN {End} ELSE {{Client}, {Server}}

Tick(E) ==
  /\ IF Patient THEN InTransit = 0 ELSE InTransit < MaxWire
  /\ conn' = [e \in End |-> IF e \in E THEN tick(conn[e], TickMs) ELSE conn[e]]
  /\ UNCHANGED <<received, faults>>

Without(q, i) == SubSeq(q, 1, i - 1) \o SubSeq(q, i + 1, Len(q))

\* The network hands the i-th segment of e's queue to the other end.
Deliver(e, i) ==
  /\ i > 1 => faults.reordered < MaxReordered
  /\ faults' = [faults EXCEPT !.reordered = IF i > 1 THEN @ + 1 ELSE @]
  /\ conn' = [conn EXCEPT ![e].segments_out = Without(@, i),
                          ![Peer(e)] = segment_received(@, conn[e].segments_out[i])]
  /\ UNCHANGED received

Duplicate(e) ==
  /\ faults.duplicated < MaxDuplicated
  /\ conn[e].segments_out # << >>
  /\ faults' = [faults EXCEPT !.duplicated = @ + 1]
  /\ conn' = [conn EXCEPT ![Peer(e)] = segment_received(@, Head(conn[e].segments_out))]
  /\ UNCHANGED received

Lose(e) ==
  /\ faults.lost < MaxLost
  /\ conn[e].segments_out # << >>
  /\ faults' = [faults EXCEPT !.lost = @ + 1]
  /\ conn' = [conn EXCEPT ![e].segments_out = Tail(@)]
  /\ UNCHANGED received

Next ==
  \/ Connect
  \/ \E E \in Clocks : Tick(E)
  \/ \E e \in End :
       \/ \E n \in 1 .. SendCapacity : Write(e, n)
       \/ EndInput(e)
       \/ \E n \in 1 .. RecvCapacity : Read(e, n)
       \/ \E i \in DOMAIN conn[e].segments_out : Deliver(e, i)
       \/ Duplicate(e)
       \/ Lose(e)

Spec == Init /\ [][Next]_vars

CanWrite(e) == /\ active(conn[e])
               /\ Stream!remaining_capacity(conn[e].sender.stream) > 0
               /\ conn[e].sender.stream.written < StreamLen[e]
CanEndInput(e) == /\ active(conn[e])
                  /\ conn[e].sender.next_seqno > 0
                  /\ conn[e].sender.stream.written = StreamLen[e]
                  /\ ~conn[e].sender.stream.input_end
CanDeliver(e) == conn[e].segments_out # << >>
CanTick(E) == /\ IF Patient THEN InTransit = 0 ELSE InTransit < MaxWire
              /\ \E e \in E : tick(conn[e], TickMs) # conn[e]

\* Weak fairness: the applications write, close and read, the timers run and
\* what is not lost arrives.  For the steps that run a whole handler it is
\* written out, with the condition under which the step is enabled.
Fairness ==
  /\ WF_vars(Connect)
  /\ \A E \in Clocks : []<>~CanTick(E) \/ []<><<Tick(E)>>_vars
  /\ \A e \in End :
       /\ []<>~CanWrite(e) \/ []<><<\E n \in 1 .. SendCapacity : Write(e, n)>>_vars
       /\ []<>~CanEndInput(e) \/ []<><<EndInput(e)>>_vars
       /\ WF_vars(\E n \in 1 .. RecvCapacity : Read(e, n))
       /\ []<>~CanDeliver(e)
            \/ []<><<\E i \in DOMAIN conn[e].segments_out : Deliver(e, i)>>_vars

FairSpec == Spec /\ Fairness
-----------------------------------------------------------------------------
(***************************************************************************)
(* What the endpoints hold.  A sender counts one number for its SYN, one   *)
(* for every byte and one for its FIN; a FIN that probes a zero window is  *)
(* sent, and counted, once more (tcp_sender.cc:129-139).                   *)
(***************************************************************************)
TypeOK ==
  \A e \in End :
    /\ conn[e].sender.next_seqno \in 0 .. StreamLen[e] + 3
    /\ conn[e].sender.stream.written \in 0 .. StreamLen[e]
    /\ conn[e].sender.rx_times \in 0 .. MaxRetx + 1
    /\ conn[e].linger \in BOOLEAN

\* Bytes below this index of e's stream have reached the other end in order.
Arrived(e) == inbound_stream(conn[Peer(e)]).written

(***************************************************************************)
(* Every byte the sender took out of its stream has reached the peer's     *)
(* inbound stream, or is in a segment that is still outstanding, or is the *)
(* zero-window probe: no interleaving of ACKs, probes and retransmissions  *)
(* makes the sender forget a byte that is not delivered.                   *)
(***************************************************************************)
NothingForgotten ==
  \A e \in End :
    LET s == conn[e].sender
        in_flight == Sender!InFlight(s)
    IN  \A p \in Arrived(e) .. s.stream.read - 1 :
          \/ p + 1 \in in_flight
          \/ s.zero_win_seg_send /\ s.zero_win_seg_seq = p + 1

(***************************************************************************)
(* The sender stays within the window the receiver has offered: no byte it *)
(* has sent lies beyond the receiver's right edge, except the single byte  *)
(* of a zero-window probe.                                                 *)
(***************************************************************************)
WindowRespected ==
  \A e \in End :
    conn[e].sender.stream.read <=
      inbound_stream(conn[Peer(e)]).read + RecvCapacity
        + (IF conn[e].sender.zero_win_seg_send THEN 1 ELSE 0)

AtEnd(e) == Stream!eof(inbound_stream(conn[e]))
Closed(e) == ~active(conn[e]) /\ ~conn[e].sender.stream.error

(***************************************************************************)
(* Clean shutdown: an endpoint that has become inactive without an error   *)
(* has had its whole stream, and its end, received by the peer, and has    *)
(* itself handed the peer's whole stream to its application.               *)
(***************************************************************************)
CleanClose ==
  \A e \in End : Closed(e) =>
    /\ Arrived(e) = StreamLen[e]
    /\ inbound_stream(conn[Peer(e)]).input_end
    /\ Len(received[e]) = StreamLen[Peer(e)]

(***************************************************************************)
(* At least one end lingers: the two never both decide to close without    *)
(* waiting for the other's last acknowledgment.                            *)
(***************************************************************************)
SomeoneLingers == \E e \in End : conn[e].linger

StateOrder == <<"CLOSED", "LISTEN", "SYN_SENT", "SYN_ACKED", "SYN_RECV",
                "FIN_SENT", "FIN_ACKED", "FIN_RECV", "ERROR">>
Rank(s) == CHOOSE i \in DOMAIN StateOrder : StateOrder[i] = s

(***************************************************************************)
(* The TCP state the endpoint reports only moves forward: whatever is      *)
(* acknowledged, probed or retransmitted, neither half goes back to an     *)
(* earlier state.                                                          *)
(***************************************************************************)
StatesMoveForward ==
  [][\A e \in End :
       /\ Rank(sender_state(conn[e].sender)) <= Rank(sender_state(conn'[e].sender))
       /\ Rank(receiver_state(conn[e].receiver)) <= Rank(receiver_state(conn'[e].receiver))]_vars

BytesWritten(e) == [i \in 1 .. conn[e].sender.stream.written |-> i - 1]

(***************************************************************************)
(* Whatever the network loses, repeats and reorders, and whatever a        *)
(* receiver holds back, cuts or evicts to stay within its memory: what an  *)
(* end has taken in, read and unread, is the beginning of what the other   *)
(* application has written, every byte in its place, and an end that is    *)
(* noted is the end that application set.                                  *)
(***************************************************************************)
NothingInvented ==
  \A e \in End :
    LET t == inbound_stream(conn[e])
        s == conn[Peer(e)].sender.stream
    IN  /\ received[e] \o t.buffer = [i \in 1 .. t.written |-> i - 1]
        /\ t.written <= s.written
        /\ t.input_end => s.input_end

(***************************************************************************)
(* An application that is told its inbound stream is over has read all of  *)
(* the peer's stream (stream_reassembler.hh:45: with eof, "the last byte   *)
(* of `data` will be the last byte in the entire stream").                 *)
(***************************************************************************)
NoTruncation == \A e \in End : AtEnd(e) => Len(received[e]) = StreamLen[Peer(e)]

(***************************************************************************)
(* When the network loses no more than the retransmission limit allows and *)
(* timers outlast a round trip, both streams are delivered and both ends   *)
(* close without an error: no zero window, lost window update, lost FIN or *)
(* lost last ACK leaves them waiting for each other.                       *)
(***************************************************************************)
BothClose == <>(\A e \in End : Closed(e))
=============================================================================
