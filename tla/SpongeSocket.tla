---------------------------- MODULE SpongeSocket ----------------------------
(***************************************************************************)
(* tcp_helpers/tcp_sponge_socket.{hh,cc}: a TCPConnection, the EventLoop   *)
(* that runs it, the pair of local sockets between the owner and the TCP   *)
(* thread, and the owner's calls.  w is everything the TCP thread touches: *)
(*   tcp                 _tcp                                              *)
(*   outbound_shutdown, inbound_shutdown, abort   the flags of these names *)
(*   to_thread, to_owner the bytes in the two directions of the pair       *)
(*   owner_wr, owner_rd, thread_wr   what has been shut: the owner's write *)
(*                       side, its read side, the thread's write side      *)
(*   wire_out, wire_in   datagrams the adapter has written, has to read    *)
(*   phase               "connect", "listen" (the owner runs _tcp_loop),   *)
(*                       "main" (the thread does), "ended"                 *)
(* and the loop's own fields (EventLoop).                                  *)
(***************************************************************************)
EXTENDS TCPState

CONSTANTS SendCapacity, RecvCapacity, Isn,   \* the TCPConfig
          ThreadRoom,     \* room in the local pair for bytes to the TCP thread
          OwnerRoom,      \* and for bytes to the owner
          MaxCopyLength   \* the 65536 of rule 3

-----------------------------------------------------------------------------
(* The four rules.                                                         *)

fd(r) == IF r \in {1, 4} THEN "adapter" ELSE "thread_data"

direction(r) == IF r \in {1, 2} THEN "In" ELSE "Out"

\* The kernel's side (external).
ThreadCannotWrite(v) == v.thread_wr \/ v.owner_rd

ready(r, v) ==
  CASE r = 1 -> v.wire_in # << >>
    [] r = 2 -> v.to_thread # << >> \/ v.owner_wr
    [] r = 3 -> Len(v.to_owner) < OwnerRoom
    [] r = 4 -> TRUE

hangup(r, v) == r \in {2, 3} /\ v.owner_wr /\ ThreadCannotWrite(v)

\* The owner's end of the pair is open until the thread has ended, and the
\* adapter's descriptor stays usable.
poll_error(r, v) == FALSE

inbound(v) == inbound_stream(v.tcp)

InboundOver(v) == Stream!eof(inbound(v)) \/ inbound(v).error

interest(r, v) ==
  CASE r = 1 -> active(v.tcp)
    [] r = 2 -> /\ active(v.tcp) /\ ~v.outbound_shutdown
                /\ remaining_outbound_capacity(v.tcp) > 0
    [] r = 3 -> \/ ~Stream!buffer_empty(inbound(v))
                \/ InboundOver(v) /\ ~v.inbound_shutdown
    [] r = 4 -> v.tcp.segments_out # << >>

FinishOutbound(v) ==
  [v EXCEPT !.tcp = end_input_stream(@), !.outbound_shutdown = TRUE]

cancel(r, v) == IF r = 2 THEN FinishOutbound(v) ELSE v

Fd == INSTANCE EventLoop WITH callback <- LAMBDA r, v : v

\* rule 1: read from filtered packet stream and dump into TCPConnection
ReadDatagram(v) ==
  [Fd!register_read(v, "adapter") EXCEPT
     !.wire_in = Tail(@), !.tcp = segment_received(@, Head(v.wire_in))]

\* rule 2: read from pipe into outbound buffer.  Less accepted than was
\* advertised is an exception.
AcceptOutbound(v, data) ==
  [v EXCEPT !.thrown = @ \/ Stream!accepted_size(v.tcp.sender.stream, data) # Len(data),
            !.to_thread = SubSeq(@, Len(data) + 1, Len(@)),
            !.tcp = write(@, data)]

FinishIfEof_always(v) == FinishOutbound(v)    \* mutant: any read is taken for the last

FinishIfEof(v) == IF "thread_data" \in v.eof THEN FinishOutbound(v) ELSE v

ReadOwner(v, limit) ==
  FinishIfEof(AcceptOutbound(Fd!note_read(v, "thread_data", limit, Len(v.to_thread)),
                             SubSeq(v.to_thread, 1, Stream!Lesser(limit, Len(v.to_thread)))))

\* rule 3: read from inbound buffer into pipe.  A write to a side that is
\* shut is an exception (EPIPE); one of no bytes is not.
ShutIfOver_forgets(v) ==    \* mutant: not remembered
  IF InboundOver(v) THEN [v EXCEPT !.thread_wr = TRUE] ELSE v

ShutIfOver(v) ==
  IF InboundOver(v) THEN [v EXCEPT !.thread_wr = TRUE, !.inbound_shutdown = TRUE] ELSE v

\* Mutant: what was written stays in the stream.
PassInbound_keeps(v, n) ==
  ShutIfOver([Fd!register_write(v, "thread_data") EXCEPT
    !.to_owner = @ \o Stream!peek_output(inbound(v), n)])

PassInbound(v, n) ==
  ShutIfOver([Fd!register_write(v, "thread_data") EXCEPT
    !.to_owner = @ \o Stream!peek_output(inbound(v), n),
    !.tcp.receiver.reassembler.output = Stream!pop_output(@, n)])

amount_to_write(v) == Stream!Lesser(MaxCopyLength, Stream!buffer_size(inbound(v)))

WriteOwner(v) ==
  IF amount_to_write(v) > 0 /\ ThreadCannotWrite(v) THEN [v EXCEPT !.thrown = TRUE]
  ELSE PassInbound(v, Stream!Lesser(amount_to_write(v), OwnerRoom - Len(v.to_owner)))

\* rule 4: read outbound segments from TCPConnection and send as datagrams
WriteDatagrams(v) ==
  [Fd!register_write(v, "adapter") EXCEPT
     !.wire_out = @ \o v.tcp.segments_out, !.tcp.segments_out = << >>]

callback(r, v) ==
  CASE r = 1 -> ReadDatagram(v)
    [] r = 2 -> ReadOwner(v, remaining_outbound_capacity(v.tcp))
    [] r = 3 -> WriteOwner(v)
    [] r = 4 -> WriteDatagrams(v)

Loop == INSTANCE EventLoop

-----------------------------------------------------------------------------
(* connect(), listen_and_accept(), _tcp_loop(), _tcp_main().               *)

NewSocket(tcp, phase) ==
  [rules |-> 1 .. 4, asked |-> {}, due |-> {}, eof |-> {}, closed |-> {},
   serviced |-> {}, thrown |-> FALSE, tcp |-> tcp,
   outbound_shutdown |-> FALSE, inbound_shutdown |-> FALSE, abort |-> FALSE,
   to_thread |-> << >>, to_owner |-> << >>, owner_wr |-> FALSE,
   owner_rd |-> FALSE, thread_wr |-> FALSE, wire_out |-> << >>,
   wire_in |-> << >>, phase |-> phase]

NewTCP == NewConnection(SendCapacity, RecvCapacity, Isn)

Connecting == NewSocket(connect(NewTCP), "connect")
Listening == NewSocket(NewTCP, "listen")

\* The condition of the _tcp_loop that is running.
condition(v) ==
  CASE v.phase = "connect" -> state(v.tcp) = State.SYN_SENT
    [] v.phase = "listen" -> state(v.tcp) \in {State.LISTEN, State.SYN_RCVD, State.SYN_SENT}
    [] v.phase = "main" -> TRUE

\* What follows the loop.  connect and listen_and_accept start the thread,
\* which runs the loop again; _tcp_main shuts the owner's socket and destroys
\* the connection, whose last words stay in its queue.
EndMain(v) ==
  [v EXCEPT !.phase = "ended", !.owner_wr = TRUE, !.owner_rd = TRUE, !.tcp = destroy(@)]

LeaveLoop(v) == IF v.phase = "main" THEN EndMain(v) ELSE [v EXCEPT !.phase = "main"]

GoOn(v) == IF condition(v) THEN v ELSE LeaveLoop(v)

\* The rest of a turn of the loop, once wait_next_event has returned.
EndTurn(v, ms) ==
  IF v.thrown THEN v
  ELSE IF v.abort THEN LeaveLoop(v)
  ELSE GoOn([v EXCEPT !.tcp = IF active(@) THEN tick(@, ms) ELSE @])
=============================================================================
