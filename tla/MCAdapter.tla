----------------------------- MODULE MCAdapter ------------------------------
(***************************************************************************)
(* Three peers: q shares p's address, r shares p's port.                   *)
(***************************************************************************)
EXTENDS AdapterProcess

CONSTANTS p, q, r

MCPeerAddress ==
  p :> [ip |-> <<10, 0, 0, 1>>, port |-> 300] @@
  q :> [ip |-> <<10, 0, 0, 1>>, port |-> 44] @@
  r :> [ip |-> <<10, 0, 255, 2>>, port |-> 300]
MCLocal == [ip |-> <<192, 168, 7, 9>>, port |-> 65535]
MCLocalMac == <<2, 0, 0, 0, 0, 1>>
MCRouterMac == <<2, 0, 0, 0, 0, 2>>
MCRouterIp == <<192, 168, 7, 1>>
MCBroadcast == <<255, 255, 255, 255, 255, 255>>

Header(seqno, ack, rst, syn) ==
  [sport |-> 0, dport |-> 0, seqno |-> seqno, ackno |-> <<0, 0, 1, 0>>, doff |-> 5,
   urg |-> FALSE, ack |-> ack, psh |-> FALSE, rst |-> rst, syn |-> syn, fin |-> FALSE,
   win |-> 64000, cksum |-> 0, uptr |-> 0]
MCSyn == [header |-> Header(<<255, 255, 255, 254>>, FALSE, FALSE, TRUE), payload |-> << >>]
MCSynRst == [header |-> Header(<<255, 255, 255, 254>>, FALSE, TRUE, TRUE), payload |-> << >>]
MCData == [header |-> Header(<<255, 255, 255, 255>>, TRUE, FALSE, FALSE),
           payload |-> <<255, 0, 255>>]
MCSegments == {MCSyn, MCSynRst, MCData}
MCReplies == {[MCSyn EXCEPT !.header.ack = TRUE], MCData}
=============================================================================
