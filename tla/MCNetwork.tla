----------------------------- MODULE MCNetwork ------------------------------
(***************************************************************************)
(* Two routers between host a and a link shared by hosts b and c.  Hosts   *)
(* 1011 are reached through b; no host has an address 11.., for which each *)
(* router's default route points to the other.                             *)
(***************************************************************************)
EXTENDS Network

CONSTANTS a, b, c, r, s

MCHost == {a, b, c}
MCGateway == {r, s}
MCLink == << << <<a, 1>>, <<r, 1>> >>, << <<r, 2>>, <<s, 1>> >>,
             << <<s, 2>>, <<b, 1>>, <<c, 1>> >> >>
MCIp == <<r, 1>> :> 0 @@ <<a, 1>> :> 1 @@ <<r, 2>> :> 4 @@ <<s, 1>> :> 5
          @@ <<s, 2>> :> 8 @@ <<b, 1>> :> 9 @@ <<c, 1>> :> 10
MCNextHop == a :> 0 @@ b :> 8 @@ c :> 8
MCTable ==
  r :> <<Route(0, 0, 5, 2), Route(3, 2, Direct, 1), Route(4, 2, Direct, 2)>> @@
  s :> <<Route(8, 2, Direct, 2), Route(0, 0, 4, 1), Route(11, 4, 9, 2), Route(5, 2, Direct, 1)>>
MCTraffic ==
  [simulator |-> MCHost \X {1, 10, 11, 12} \X {2, 4},
   lab7 |-> {<<a, 10, 3>>, <<c, 1, 3>>}]
=============================================================================
