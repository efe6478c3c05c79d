----------------------------- MODULE ARPProcess -----------------------------
(***************************************************************************)
(* One NetworkInterface between a customer that sends datagrams and a      *)
(* network on which any ARP message may arrive at any time.  A history     *)
(* variable remembers how long ago each address was last asked for.        *)
(***************************************************************************)
EXTENDS NetworkInterface

CONSTANTS Ip, Mac,      \* addresses
          OwnIp, OwnMac,
          Datagram,
          TickMs,       \* times that may pass between two calls of tick
          MaxQueue      \* bound: frames waiting for transmission

ASSUME ProcessAssumption ==
  /\ OwnIp \in Ip /\ OwnMac \in Mac /\ Broadcast \notin Mac
  /\ Garbage \notin Datagram /\ MaxQueue \in Nat /\ TickMs \subseteq Nat

VARIABLES ni,           \* the interface
          quiet         \* history: [Ip -> time since the last request for it,
                        \*                 up to MaxReqTime]

ArpVars == <<ni, quiet>>

Message == [opcode : {"REQUEST", "REPLY"}, sender_mac : Mac, sender_ip : Ip,
            target_ip : Ip]

ArpFrame == [dst : Mac \cup {Broadcast}, src : Mac, type : {"ARP"},
             payload : Message \cup {Garbage}]

ArpInit ==
  /\ ni = NewInterface(OwnMac, OwnIp)
  /\ quiet = [ip \in Ip |-> MaxReqTime]

\* The step from ni to nj asked for ip.
Asks(nj, ip) == nj.frames_out = Push(ni, RequestFrame(ni, ip))

Send(dgram, next_hop) ==
  /\ Len(ni.frames_out) < MaxQueue
  /\ ni' = send_datagram(ni, dgram, next_hop)
  /\ quiet' = [ip \in Ip |-> IF Asks(ni', ip) THEN 0 ELSE quiet[ip]]

Receive(frame) ==
  /\ Len(ni.frames_out) < MaxQueue
  /\ ni' = recv_frame(ni, frame)
  /\ UNCHANGED quiet

Tick(ms) ==
  /\ ni' = tick(ni, ms)
  /\ quiet' = [ip \in Ip |-> IF quiet[ip] + ms < MaxReqTime THEN quiet[ip] + ms
                             ELSE MaxReqTime]

\* The owner takes a frame and puts it on the wire.
Transmit ==
  /\ ni.frames_out # << >>
  /\ ni' = [ni EXCEPT !.frames_out = Tail(@)]
  /\ UNCHANGED quiet

ArpNext ==
  \/ \E dgram \in Datagram, next_hop \in Ip : Send(dgram, next_hop)
  \/ \E frame \in ArpFrame : Receive(frame)
  \/ \E ms \in TickMs : Tick(ms)
  \/ Transmit

ArpSpec == ArpInit /\ [][ArpNext]_ArpVars
-----------------------------------------------------------------------------
IsInterface(r) ==
  /\ r = [mac |-> r.mac, ip |-> r.ip, frames_out |-> r.frames_out,
          cache |-> r.cache, cache_age |-> r.cache_age,
          waiting |-> r.waiting, req_age |-> r.req_age, reqs |-> r.reqs]
  /\ r.mac = OwnMac /\ r.ip = OwnIp

IsMap(f, S) == DOMAIN f \subseteq Ip /\ f \in [DOMAIN f -> S]

AnyFrame == [dst : Mac \cup {Broadcast}, src : Mac, type : {"ARP", "IPv4"},
             payload : Message \cup Datagram]

(***************************************************************************)
(* The shape of the interface's fields: the maps take IP addresses to what *)
(* they should, and every queued frame comes from an address of a station. *)
(***************************************************************************)
ArpTypeOK ==
  /\ IsInterface(ni)
  /\ ni.frames_out \in Seq(AnyFrame)
  /\ IsMap(ni.cache, Mac) /\ IsMap(ni.cache_age, Nat)
  /\ IsMap(ni.waiting, Datagram)
  /\ IsMap(ni.req_age, Nat) /\ IsMap(ni.reqs, AnyFrame)
  /\ quiet \in [Ip -> 0 .. MaxReqTime]

(***************************************************************************)
(* The parallel maps never come apart, whatever order datagrams, replies,  *)
(* requests and ticks come in: each cached address has an age, and each    *)
(* waiting datagram has the request that was sent for it and its age.  (A  *)
(* missing entry would be created by operator[]: an empty frame would be   *)
(* sent, or an entry would never expire.)                                  *)
(***************************************************************************)
MapsAgree ==
  /\ DOMAIN ni.cache = DOMAIN ni.cache_age
  /\ DOMAIN ni.waiting = DOMAIN ni.req_age
  /\ DOMAIN ni.waiting = DOMAIN ni.reqs
  /\ \A ip \in DOMAIN ni.reqs : ni.reqs[ip] = RequestFrame(ni, ip)

(***************************************************************************)
(* network_interface.hh:37: a mapping is used for less than MAX_CACHE_TIME *)
(* after it was learned.                                                   *)
(***************************************************************************)
CacheFresh == \A ip \in DOMAIN ni.cache_age : ni.cache_age[ip] < MaxCacheTime

(***************************************************************************)
(* Why requests do not come too fast: since the last request for an        *)
(* address, MAX_REQ_TIME has passed, or a datagram still waits for it and  *)
(* the age kept for the request is no more than the time since, or the     *)
(* answer is in the cache and is no older than the request.                *)
(***************************************************************************)
RequestRemembered ==
  \A ip \in Ip :
    \/ quiet[ip] = MaxReqTime
    \/ ip \in DOMAIN ni.waiting /\ ni.req_age[ip] <= quiet[ip]
    \/ ip \notin DOMAIN ni.waiting /\ ip \in DOMAIN ni.cache_age
         /\ ni.cache_age[ip] <= quiet[ip]

(***************************************************************************)
(* network_interface.cc:45: "send req again at least after 5 seconds":     *)
(* whatever happens to the waiting datagram and the cache entry between,   *)
(* two requests for the same address are at least MAX_REQ_TIME apart.      *)
(***************************************************************************)
RequestsSpaced ==
  [][\A ip \in Ip : Asks(ni', ip) => quiet[ip] >= MaxReqTime]_ArpVars
=============================================================================
