------------------------------ MODULE Network -------------------------------
(***************************************************************************)
(* Hosts and routers joined by Ethernet links, driven in one of the two    *)
(* ways the applications do it.  apps/network_simulator.cc lets a router   *)
(* route, and exchanges all frames queued on a link, in turns.             *)
(* apps/lab7.cc runs each router in an event loop that carries one frame   *)
(* at a time, routes at once, and advances the router's clocks after every *)
(* event; the link between the routers goes through apps/bouncer.cc.       *)
(*                                                                         *)
(* A station is a pair <<node, index of one of its interfaces>>, and also  *)
(* the Ethernet address of that interface.                                 *)
(***************************************************************************)
EXTENDS Router, FiniteSets

CONSTANTS Host, Gateway,   \* the nodes: hosts and routers
          Link,            \* sequence of links, each a sequence of stations
          Bounced,         \* the link that goes through the bouncer
          Ip,              \* [station -> IP address]
          NextHop,         \* [Host -> IP address of its router]
          Table,           \* [Gateway -> routing table]
          Traffic,         \* [driver -> what may be sent: <<host, address, ttl>>]
          TickMs,          \* tick(50)
          MaxSent          \* bound: datagrams sent

Node == Host \cup Gateway
Station == DOMAIN Ip

ASSUME NetworkAssumption ==
  /\ Host \cap Gateway = {}
  /\ Bounced \in DOMAIN Link
  /\ \A st \in Station : Ip[st] \in 0 .. 2^AddrBits - 1
  /\ {TickMs, MaxSent} \subseteq Nat

VARIABLES node,      \* [Node -> record with interfaces and routing table]
          driver,    \* which application runs the network
          peers,     \* the routers the bouncer has heard from
          sent,      \* history: the datagrams as they were sent
          calm       \* history: none was sent while another was on its way

vars == <<node, driver, peers, sent, calm>>

Interfaces(n) == {st \in Station : st[1] = n}

NewNode(n) ==
  [interfaces |-> [i \in {st[2] : st \in Interfaces(n)} |->
                     NewAsyncInterface(<<n, i>>, Ip[<<n, i>>])],
   table |-> IF n \in Gateway THEN Table[n] ELSE << >>]

Init ==
  /\ node = [n \in Node |-> NewNode(n)]
  /\ driver \in {"simulator", "lab7"}
  /\ peers = {}
  /\ sent = << >>
  /\ calm = TRUE

At(st) == node[st[1]].interfaces[st[2]]

\* Nothing is on its way: no frame is queued and no router holds a datagram.
Quiet ==
  /\ \A st \in Station : At(st).frames_out = << >>
  /\ \A st \in Station : st[1] \in Gateway => At(st).datagrams_out = << >>

\* Host::send_to, and NetworkInterfaceAdapter::write.
Send(h, dst, ttl) ==
  LET dgram == [src |-> Ip[<<h, 1>>], dst |-> dst, ttl |-> ttl, id |-> Len(sent) + 1]
  IN  /\ Len(sent) < MaxSent
      /\ node' = [node EXCEPT ![h].interfaces[1] = send_datagram(@, dgram, NextHop[h])]
      /\ sent' = Append(sent, dgram)
      /\ calm' = (calm /\ Quiet /\ (driver = "lab7" => peers = Gateway))
      /\ UNCHANGED <<driver, peers>>

RouteAll(g) ==
  /\ driver = "simulator"
  /\ node' = [node EXCEPT ![g] = route(@)]
  /\ UNCHANGED <<driver, peers, sent, calm>>

Popped(ai, n) == [ai EXCEPT !.frames_out = SubSeq(@, n + 1, Len(@))]

\* exchange_frames copies the queues of a link's stations, gives every other
\* station's frames to each of them, and removes what was copied: the answers
\* stay for the next exchange.
FramesFor(link, st) ==
  FlattenSeq([i \in DOMAIN link |-> IF link[i] = st THEN << >> ELSE At(link[i]).frames_out])

exchanged(ai, frames) ==
  Popped(FoldLeft(async_recv_frame, ai, frames), Len(ai.frames_out))

\* Mutant: what was copied is not removed.
exchange_frames_keeps(link) ==
  node' = [n \in Node |-> [node[n] EXCEPT !.interfaces =
    [i \in DOMAIN @ |-> FoldLeft(async_recv_frame, @[i],
       IF <<n, i>> \in Range(link) THEN FramesFor(link, <<n, i>>) ELSE << >>)]]]

exchange_frames(link) ==
  node' = [n \in Node |-> [node[n] EXCEPT !.interfaces =
    [i \in DOMAIN @ |-> IF <<n, i>> \in Range(link)
                        THEN exchanged(@[i], FramesFor(link, <<n, i>>)) ELSE @[i]]]]

Exchange(link) ==
  /\ driver = "simulator"
  /\ exchange_frames(link)
  /\ UNCHANGED <<driver, peers, sent, calm>>
-----------------------------------------------------------------------------
\* A router's event loop after an event.
tick_all(r) == [r EXCEPT !.interfaces = [i \in DOMAIN @ |-> tick(@[i], TickMs)]]

\* program_body: a router starts with a word to the bouncer.
Start(g) ==
  /\ driver = "lab7"
  /\ g \notin peers
  /\ peers' = peers \cup {g}
  /\ UNCHANGED <<node, driver, sent, calm>>

\* A router receives a frame and routes; a host receives it, and keeps the
\* datagram it may carry for the adapter.
Received(n, i, frame) ==
  IF n \in Host THEN [node[n] EXCEPT !.interfaces[i] = async_recv_frame(@, frame)]
  ELSE tick_all(route([node[n] EXCEPT !.interfaces[i] = async_recv_frame(@, frame)]))

\* A frame leaves; a router's event loop has written it.
SentOn(n, i) ==
  IF n \in Host THEN [node[n] EXCEPT !.interfaces[i] = Popped(@, 1)]
  ELSE tick_all([node[n] EXCEPT !.interfaces[i] = Popped(@, 1)])

\* The bouncer passes a frame on to a peer it has heard from.
Passes(l) == l = Bounced => peers = Gateway

\* The event loops that handle the frame run: those of both ends, or, with
\* the bouncer between them, that of the sender.
Running(l, st) ==
  LET loops == IF l = Bounced THEN {st[1]} ELSE {x[1] : x \in Range(Link[l])}
  IN  loops \cap Gateway \subseteq peers

\* One frame goes from a station to all others of its link.
Carry(l, st) ==
  /\ driver = "lab7"
  /\ st \in Range(Link[l])
  /\ Running(l, st)
  /\ At(st).frames_out # << >>
  /\ node' = [n \in Node |->
       IF n = st[1] THEN SentOn(n, st[2])
       ELSE LET ends == {i \in DOMAIN node[n].interfaces : <<n, i>> \in Range(Link[l])}
            IN  IF ends = {} \/ ~Passes(l) THEN node[n]
                ELSE Received(n, CHOOSE i \in ends : TRUE, Head(At(st).frames_out))]
  /\ UNCHANGED <<driver, peers, sent, calm>>

\* Time without an event, for a router or for the adapter of a host: poll
\* returns without one only if there is no frame to write.  A frame that is
\* still queued at another station has not arrived.
Idle(n) == \A st \in Interfaces(n) : At(st).frames_out = << >>

Timeout(n) ==
  /\ driver = "lab7"
  /\ Idle(n)
  /\ node' = [node EXCEPT ![n] = tick_all(@)]
  /\ UNCHANGED <<driver, peers, sent, calm>>

Next ==
  \/ \E t \in Traffic[driver] : Send(t[1], t[2], t[3])
  \/ \E g \in Gateway : RouteAll(g) \/ Start(g)
  \/ \E n \in Node : Timeout(n)
  \/ \E l \in DOMAIN Link : Exchange(Link[l])
  \/ \E l \in DOMAIN Link, st \in Station : Carry(l, st)

Spec == Init /\ [][Next]_vars

CanRoute(g) ==
  driver = "simulator" /\ \E st \in Interfaces(g) : At(st).datagrams_out # << >>
CanExchange(link) ==
  driver = "simulator" /\ \E st \in Range(link) : At(st).frames_out # << >>
CanCarry(l, st) ==
  driver = "lab7" /\ Running(l, st) /\ At(st).frames_out # << >>

\* simulate() alternates routing and exchanging; an event loop serves every
\* descriptor that is ready.  Weak fairness, written out with the condition
\* under which the step has an effect.
Fairness ==
  /\ \A g \in Gateway : /\ WF_vars(Start(g))
                        /\ []<>~CanRoute(g) \/ []<><<RouteAll(g)>>_vars
  /\ \A l \in DOMAIN Link :
       /\ []<>~CanExchange(Link[l]) \/ []<><<Exchange(Link[l])>>_vars
       /\ \A st \in Range(Link[l]) : []<>~CanCarry(l, st) \/ []<><<Carry(l, st)>>_vars

FairSpec == Spec /\ Fairness
-----------------------------------------------------------------------------
\* Where a datagram should go, from the definition of a route: of the entries
\* whose network contains the address, the first of the longest ones.
Covers(entry, dst) ==
  LET rest == 2^(AddrBits - entry.length) IN entry.prefix \div rest = dst \div rest

BestRoute(g, dst) ==
  LET applies == {i \in DOMAIN Table[g] : Covers(Table[g][i], dst)}
  IN  IF applies = {} THEN NoEntry
      ELSE Table[g][CHOOSE i \in applies : \A j \in applies :
             \/ Table[g][j].length < Table[g][i].length
             \/ Table[g][j].length = Table[g][i].length /\ i <= j]

\* The node that has the address and shares a link with the station.
Neighbours(st, ip) ==
  {x[1] : x \in {y \in Station \ {st} : /\ Ip[y] = ip
                                       /\ \E l \in DOMAIN Link : {st, y} \subseteq Range(Link[l])}}

NextNodes(g, dst) ==
  LET entry == BestRoute(g, dst)
  IN  IF entry = NoEntry THEN {}
      ELSE Neighbours(<<g, entry.interface>>,
                      IF entry.next_hop = Direct THEN dst ELSE entry.next_hop)

\* The host a datagram reaches and the time to live it has left there, from a
\* router it arrives at with time to live t; or nothing.
Journey[t \in Nat, g \in Gateway, dst \in 0 .. 2^AddrBits - 1] ==
  IF t <= 1 \/ NextNodes(g, dst) = {} THEN << >>
  ELSE LET n == CHOOSE n \in NextNodes(g, dst) : TRUE
       IN  IF n \in Host THEN <<n, t - 1>> ELSE Journey[t - 1, n, dst]

Fate ==
  [t \in UNION {Traffic[d] : d \in DOMAIN Traffic} |->
     Journey[t[3], CHOOSE g \in Neighbours(<<t[1], 1>>, NextHop[t[1]]) : TRUE, t[2]]]

FateOf(d) == Fate[<<CHOOSE h \in Host : Ip[<<h, 1>>] = d.src, d.dst, d.ttl>>]

(***************************************************************************)
(* router.cc:21-23 and the expectations of network_simulator.cc: a         *)
(* datagram that a host receives was meant for it: at every router it went *)
(* on along the route with the longest prefix that contains its address    *)
(* (lengths 0 and 32 included), and its time to live counts the routers it *)
(* passed.                                                                 *)
(***************************************************************************)
RoutedRight ==
  \A h \in Host : \A d \in Range(node[h].interfaces[1].datagrams_out) :
    FateOf(sent[d.id]) = <<h, d.ttl>>

Holds(frame, id) == frame.type = "IPv4" /\ frame.payload.id = id

Copies(id) ==
  LET held(st) == {<<st, "frame", i>> : i \in {i \in DOMAIN At(st).frames_out : Holds(At(st).frames_out[i], id)}}
        \cup {<<st, "waiting", ip>> : ip \in {ip \in DOMAIN At(st).waiting : At(st).waiting[ip].id = id}}
        \cup {<<st, "in", i>> : i \in {i \in DOMAIN At(st).datagrams_out : At(st).datagrams_out[i].id = id}}
  IN  UNION {held(st) : st \in Station}

(***************************************************************************)
(* A datagram is in one place at most: waiting for an address, in a frame, *)
(* or received.  However frames are copied to the stations of a shared     *)
(* link, and whenever ARP replies release waiting datagrams, none is       *)
(* forwarded or received twice.                                            *)
(***************************************************************************)
AtMostOnce == \A i \in DOMAIN sent : Cardinality(Copies(i)) <= 1

Arrived(i) ==
  \E h \in Host : \E d \in Range(node[h].interfaces[1].datagrams_out) : d.id = i

(***************************************************************************)
(* Host::check: "did NOT receive an expected Internet datagram" is never   *)
(* thrown: a datagram that is sent while no other is on its way, to an     *)
(* address the routes lead to and with enough time to live, arrives,       *)
(* whatever addresses have still to be resolved on its way.                *)
(***************************************************************************)
Delivered ==
  \A i \in 1 .. MaxSent :
    (i \in DOMAIN sent /\ calm /\ FateOf(sent[i]) # << >>) ~> (Arrived(i) \/ ~calm)

(***************************************************************************)
(* The network comes to rest: the time to live ends every journey, also    *)
(* where the routing tables of two routers send a datagram back and forth, *)
(* and ARP messages are not answered forever.                              *)
(***************************************************************************)
ComesToRest == <>[]Quiet
=============================================================================
