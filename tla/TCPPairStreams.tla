--------------------------- MODULE TCPPairStreams ---------------------------
(***************************************************************************)
(* The two directions of a connection as ReliableStreams: what TCPPair     *)
(* promises its applications.                                              *)
(***************************************************************************)
EXTENDS TCPPair

Upstream == INSTANCE ReliableStream
  WITH sent <- BytesWritten(Client), finished <- conn[Client].sender.stream.input_end,
       received <- received[Server], at_end <- AtEnd(Server)

Downstream == INSTANCE ReliableStream
  WITH sent <- BytesWritten(Server), finished <- conn[Server].sender.stream.input_end,
       received <- received[Client], at_end <- AtEnd(Client)

(***************************************************************************)
(* Each direction of the connection is a reliable stream: the application  *)
(* at the other end reads exactly what was written, in order, and is told  *)
(* "end of stream" only after the last byte of a stream that was ended.    *)
(***************************************************************************)
ReliableBothWays == Upstream!Spec /\ Downstream!Spec

UpstreamBytes == INSTANCE ReliableStream
  WITH sent <- BytesWritten(Client), finished <- conn[Client].sender.stream.input_end,
       received <- received[Server], at_end <- FALSE

DownstreamBytes == INSTANCE ReliableStream
  WITH sent <- BytesWritten(Server), finished <- conn[Server].sender.stream.input_end,
       received <- received[Client], at_end <- FALSE

(***************************************************************************)
(* The bytes alone, for every behaviour of the network: each application   *)
(* reads longer and longer beginnings of what the other writes.  Whether   *)
(* the end it is told of comes too early is left to ReliableBothWays.      *)
(***************************************************************************)
InOrderBothWays == UpstreamBytes!Spec /\ DownstreamBytes!Spec
=============================================================================
