# A TLA+ model of the sponge TCP/IP stack

This directory models the C++ library `libsponge` (a user-space TCP/IP stack) and the programs
that run it: what its classes hold, what each of their methods does, how two of its endpoints behave
over a network that loses, repeats and reorders segments, how its socket's threads and event loop
cooperate, how its routers forward, and what its adapters make of the bytes they get. TLC checks the
models on small instances; TLAPS proves some of the properties for every value of the constants.

## 1. The system

### Parts, their state and their operations

| part | source (`libsponge/`) | state | operations |
|---|---|---|---|
| byte stream | `byte_stream.{hh,cc}` | buffer, capacity, bytes written and read, end-of-input and error flags | `write`, `peek_output`, `pop_output`, `read`, `end_input`, `set_error` |
| stream reassembler | `stream_reassembler.{hh,cc}` | output stream, map of waiting substrings, their total size, eof marks | `push_substring` |
| sequence numbers | `wrapping_integers.{hh,cc}` | none | `wrap`, `unwrap` |
| TCP receiver | `tcp_receiver.{hh,cc}` | reassembler, peer's ISN | `segment_received`, `ackno`, `window_size` |
| TCP sender | `tcp_sender.{hh,cc}` | outbound stream, next number, outstanding segments, window, retransmission timer, zero-window probe | `fill_window`, `ack_received`, `tick`, `send_empty_segment` |
| TCP connection | `tcp_connection.{hh,cc}` | a sender, a receiver, queue of segments, linger flag, clock | `connect`, `write`, `end_input_stream`, `segment_received`, `tick`, destructor |
| TCP state summary | `tcp_helpers/tcp_state.{hh,cc}` | none | names for what an endpoint is doing |
| network interface | `network_interface.{hh,cc}` | ARP cache, waiting datagrams, pending requests, three clocks, queue of frames | `send_datagram`, `recv_frame`, `tick` |
| router | `router.{hh,cc}` | routing table, interfaces | `add_route`, `route_one_datagram`, `route` |
| socket | `tcp_helpers/tcp_sponge_socket.{hh,cc}` | a connection, an adapter, a local stream socket, a thread | `connect`, `listen_and_accept`, `wait_until_closed`, the TCP thread's loop and its four rules |
| event loop | `util/eventloop.{hh,cc}` | rules (descriptor, direction, interest, callback, cancel) | `add_rule`, `wait_next_event` |
| adapters | `tcp_helpers/*adapter*`, `tcp_over_ip.*` | configuration, listen flag | `read`, `write`, with filtering and deliberate loss |
| headers, parser, buffers | `tcp_helpers/*_header.*`, `util/parser.*`, `util/buffer.*` | none | parsing, serialising, Internet checksum |
| I/O wrappers | `util/file_descriptor.*`, `socket.*`, `address.*`, `tun.*` | descriptors | system calls |
| stream copy | `apps/bidirectional_stream_copy.cc` | two byte streams, two end flags | four rules on an event loop |
| network programs | `apps/network_simulator.cc`, `lab7.cc`, `bouncer.cc` | hosts, routers, links | carrying frames between the stations of a link |
| other applications | `apps/` | — | command lines |

### How they interact

An application writes to the outbound byte stream of a connection. The sender cuts it into
segments as the peer's window allows, keeps each until it is acknowledged and resends the oldest
when the timer expires. The connection puts the receiver's acknowledgment number and window on
every segment that leaves. The peer's receiver turns the 32-bit sequence number into a stream
index and gives the payload to its reassembler, which writes what is in order to the inbound
stream, where the application reads it. What the application has not read makes the window
smaller. Below, a network interface finds the Ethernet address of the next hop of each datagram
with ARP, holding one datagram per unresolved address, and routers pass datagrams from interface to
interface. Above, the owner of a socket and the TCP thread share a local stream socket; the thread's
event loop moves bytes between it and the connection and segments between the connection and an
adapter, which carries them in UDP, IPv4 or Ethernet.

### What is hard about it

* The sender derives almost everything from a few counters (`_next_seqno`, bytes in flight,
  window, the probe flag); acknowledgments, probes, timers and the application change them in any
  order, and the zero-window probe occupies a sequence number without being "in flight".
* Any acknowledgment, old or new, sets the window.
* The last acknowledgment of a connection is never acknowledged: one end must linger, exactly one
  may decide not to.
* Segments overlap and repeat; the reassembler merges, cuts and evicts them while keeping a count
  of bytes in an unsigned integer and an end-of-stream mark on one of the pieces.
* 32-bit numbers wrap, and must be unwrapped to the nearest candidate.
* The network interface keeps five maps over the same keys, updated separately.
* The event loop asks each rule whether it is interested, polls once and then serves the rules one
  after the other; an end must be passed on behind the last byte, a rule that can still move
  something must stay interested, and one that does nothing when served ends the program.
* The owner may shut down, wait for or destroy its socket between any two callbacks.
* A datagram in a routing loop must die, and one on its way must not be copied.
* Several peers may knock at a listening adapter, and bytes may change on the way.

`PROJECT.json` lists these hazards at the lines where they bite, with the properties that
would catch them going wrong.

## 2. The modules

A component is a module of operators on a record that holds the fields of its class; an operator
with the name of a method is that whole method, from the old object to the new. A process module
adds VARIABLES, the environment, and the properties. Operators marked *mutant* are plausible
mistakes used to test that the properties notice them; no specification uses them.

```
ReliableStream                        what a stream promises (abstract)
  ^ implemented by ByteStreamProcess, and in each direction by TCPPair and SocketProcess

ByteStreamProcess --- ByteStream      TCPPair --- TCPState --- TCPConnection
SequenceTracking ---- WrappingIntegers      |        |            +-- TCPSender  (ByteStream, WrappingIntegers)
Reassembly ---------- StreamReassembler     |        |            +-- TCPReceiver (StreamReassembler, ...)
ARPProcess ---------- NetworkInterface  TCPPairStreams  |         +-- TCPSegment
                                      MCTCPPair      |
                                      SocketProcess --- SpongeSocket --- EventLoop
                                      StreamCopy  --------- EventLoop, ByteStream
                                      Network --- Router --- NetworkInterface
                                      MCNetwork
                                      AdapterProcess --- Adapter --- Wire, NetworkInterface
                                      MCAdapter
Proofs:
  StreamProofs                             about StreamCopy and ByteStreamProcess
  ComponentProofs                          about SequenceTracking, ARPProcess and Router
  ReassemblyLemmas <- ReassemblyProofs     about Reassembly
  TCPPairLemmas <- TCPPairInvariant <- TCPPairStates <- TCPPairProofs    about TCPPair, TCPPairStreams
                                       ReassemblyProofs <-+ (instance)
```

* **ByteStream**: the class, method by method. **ByteStreamProcess**: a writer and a reader call it
  in any order; `accepted` and `delivered` record what went in and came out.
  This module, SequenceTracking and ARPProcess name their specifications apart (`StreamSpec`,
  `TrackSpec`, `ArpSpec`), so that one proof module can extend several of them.
* **ReliableStream**: the abstract specification of a stream: the reader sees a prefix of what was
  sent, is told "end" only when the stream was ended and all of it was read, and that stays true.
* **StreamReassembler**: `push_substring` with its duplicate removal (all four overlaps),
  splitting, eviction when memory is full, truncation to the window, eof handling, and `size_t`
  arithmetic modulo `SizeMod`. A substring is a record of its bytes and its eof mark. Each of the
  code's loops is an operator for one turn (`OverlapAt`, `Evict`, `DrainStep`, `PushPiece`) and a
  recursive function that counts the turns, up to a number after which the loop cannot go on.
  **Reassembly** pushes arbitrary pieces of one logical stream, in any order, while a reader reads.
  The byte at index i is the number i, so a misplaced byte shows. `orderly` remembers whether every
  push so far stayed within the window, and nothing else; `marked` remembers whether a push that was not
  ignored brought eof with a last byte that was neither written nor waiting, or with no byte at all.
* **WrappingIntegers**: `wrap` and the candidate scan of `unwrap`, for a number space of
  `SeqnoMod`. **SequenceTracking**: a position followed from one number to the next.
* **TCPSegment**, **TCPReceiver**, **TCPSender**, **TCPConnection**, **TCPState**: the classes. A
  segment is its header flags, numbers, window and payload. The sender's data loop, which cuts the
  window into segments, is one operator that yields all of them. `_timeout` keeps the doubling
  and `ack_received` undoes it by dividing, as the code does.
* **TCPPair**: a client and a server connection, their applications (write, end, read) and the
  network (deliver, in or out of order; duplicate; lose). A connection's `segments_out` stands for
  that queue and the wire behind it. **TCPPairStreams** reads each of the two directions as a
  ReliableStream, with and without its end. **MCTCPPair** gives the function-valued constants.
* **NetworkInterface**: `send_datagram`, `recv_frame`, `tick`. The ages of requests are 32-bit
  (`AgeMod`), those of cache entries are not, as in the code. **ARPProcess**: a customer that
  sends datagrams, a network on which any ARP message may arrive, and time. `quiet` remembers how
  long ago each address was asked for.
* **Router**: `match`, the loop that keeps the longest match, TTL, `route` over all interfaces, and
  `AsyncNetworkInterface`. Addresses are numbers of `AddrBits` bits. **Network**: hosts and routers
  on links. The links of `network_simulator.cc` hand frames from station to station at once
  (`Exchange`); one link is instead carried by the processes of `lab7.cc` and `bouncer.cc`, whose
  sockets and event loops can be anywhere in the work when something else happens (`Carry`,
  `Passes`); a router's clocks advance after each of its events and, while it has nothing to write,
  without one (`Timeout`), whatever is still queued elsewhere. `sent` records what was
  sent; `FateOf` computes from the tables alone where a datagram must end. **MCNetwork** gives a topology with default routes that point at each other.
* **EventLoop**: `wait_next_event` with the rules' interests, callbacks and cancellations as operator
  constants. `SetUp` and `poll` are one step; each rule that poll reported is then served in a step
  of its own, so that the world can change between two callbacks. An error that poll reports
  (`POLLERR`, `POLLNVAL`; `poll_error`) is an exception when the loop comes to its rule, also for a rule
  that was not interested. The counters that detect a busy wait are kept as the set of descriptors that
  were acted on.
* **StreamCopy**: `bidirectional_stream_copy` on that loop, with standard input and output, the
  socket's two kernel buffers, the user, the peer, a reset at any time, and a reader of standard output
  who may leave at any time. After a reset the socket either is in error, as a kernel's TCP socket is
  (`tcp_native`), or only has both sides shut, as the owner's end of a `TCPSpongeSocket` has. Writing to
  a pipe or socket nobody reads fails (`EPIPE`); the signal that goes with it, which nothing in `src/`
  handles, ends the process as the exception does.
* **SpongeSocket**: the TCP thread of `TCPSpongeSocket`: its four rules, `_tcp_loop`, `_tcp_main`,
  and what `connect` and `listen_and_accept` do before. **SocketProcess** adds the owner's thread
  (write, read, shutdown, `wait_until_closed`, destructor), the local sockets, with room for
  `ThreadRoom` bytes to the TCP thread and `OwnerRoom` to the owner, and
  a peer, a bare `TCPConnection`, behind a network that may lose datagrams.
* **Wire**: bytes. `NetParser`, `NetUnparser`, the Internet checksum, and the IPv4, TCP, Ethernet and
  ARP formats as layouts (field, width) with a parse and a serialise operator each. The serialisers'
  exceptions (a wrong IP version, a header that is too short, an ARP message that is not supported, a
  payload of the wrong size) are left out: nothing that is built here raises one.
* **Adapter**: `read`, `write` and `tick` of the UDP, TUN and TAP adapters and of `LossyFdAdapter`.
  **AdapterProcess**: one adapter, three peers, a packet that may be lost or have any one byte of it
  changed, and a router that asks and answers with ARP. **MCAdapter**: two peers share an address,
  two share a port.

What is abstracted: except in Wire, bytes, datagrams and addresses are values of small sets; the
number spaces, timeouts and limits are constants; logging and wording are left out. The payload of
an ARP frame is a message, or a value that stands for everything that does not parse. The kernel is
modelled from how the code uses it: bounded buffers, short writes, what `poll` reports of an end, a
hang-up, an error or a shut side, `EPIPE`; an interrupted `poll` is left out. In SpongeSocket nothing
is ever in error (`poll_error` is FALSE): the local pair's other end is closed only after the thread was
joined, and the adapter's descriptor, an unconnected UDP socket or a TUN or TAP device, is assumed to
stay usable. Standard input that ends is readable in the model; a pipe reports a hang-up instead,
and the rule's cancellation then ends the outbound stream as its callback would.

## 3. What the runs check

Runs that pass:

| run | what is checked | instance |
|---|---|---|
| `byte_stream` | `Conservation`: nothing is lost, repeated or reordered, counters are exact, the buffer stays within its capacity; `ImplementsReliableStream`, if nobody writes after `end_input` | 2 byte values, capacity 2, 5 bytes in calls of up to 3: writes are cut, reads are short, the buffer fills and drains several times |
| `sequence_tracking` | `UnwrapIsClosest`: `unwrap` returns the candidate closest to the checkpoint; `NeverLosesTrack`: a position is never lost | number space 8, positions to 40: five wraps, every ISN |
| `reassembly` | `DeliversPrefix`: the output is a prefix of the stream; `WaitingDisjoint`: waiting substrings are disjoint and right; while pushes stay within the window: the byte count is exact (`MemoryAccountedInWindow`), eof does not come before the last byte (`NoPrematureEof`) and comes with it exactly if the last byte was new when it was pushed with its mark, or the mark was pushed alone (`EndsIffMarked`), no byte is stuck (`NothingStuck`) | capacity 5, stream of 8 bytes, pieces of up to 6: three disjoint substrings can wait, one push can cover several of them, pushes reach beyond the window |
| `tcp_lossy` | no byte is forgotten, the window is respected, a clean close means that everything arrived, someone lingers, both directions implement ReliableStream; both ends close (`BothClose`, liveness) | 3 bytes up, 1 down, receive window of 1 (it closes after each byte and the probe is needed), one segment lost and one repeated, anywhere; the client's numbers wrap right after its SYN |
| `tcp_disorder` | segments and acknowledgments overtake each other and timers fire at any time, up to the retransmission limit and the RST: what an end has taken in is the beginning of what the other application wrote, and an end it noted was set there (`NothingInvented`); as far as the bytes go both directions implement ReliableStream (`InOrderBothWays`); the counters stay in their bounds (`TypeOK`); states only move forward | 2 bytes in segments of up to 2, one overtaking, one duplicate, limit 1 |
| `arp` | the five maps agree, no mapping outlives `MAX_CACHE_TIME`, two requests for an address are `MAX_REQ_TIME` apart | 2 addresses of each kind, request time 2, cache time 3, ticks of 1 and 2; ages wrap at 5 |
| `network` | `RoutedRight`: a datagram is where the longest prefixes lead it, for as long as its TTL lasts; `AtMostOnce`; `Delivered`: one that travels alone on a route to its host arrives; `ComesToRest`: none circulates for ever | two routers whose default routes point at each other, three hosts, 4-bit addresses, a shared link and one through the processes of `lab7.cc` and `bouncer.cc`, two datagrams with TTLs from 2 to 4, request time 1, cache time 2 |
| `stream_copy` | `CopyConserves`: bytes are copied in order, both ways; `EndsBehindData`; `ReturnsWhenDone`: the loop is not left while something can still be copied; `ThrowsOnlyWhenCutOff`: no exception unless the connection was reset or the reader of standard output left; `CopyEnds` (liveness) | streams of 3 bytes, writes of 1, kernel buffers of 1, 4 bytes typed and 3 sent: every buffer fills and empties, a read of standard input leaves bytes behind; a reset and the reader's leaving at any time |
| `socket` | `SocketReliable`: both directions implement ReliableStream through both threads; `EndsDelivered`: the TCP thread ends by itself only when everything is delivered, and throws only after a reset; `CallsReturn` (liveness): `connect`, `wait_until_closed` and the destructor return | up to two bytes each way and one lost datagram, reset or destruction at any moment, three of these events in all; segments of up to 2 bytes, a receive window of 2 that closes, an outbound stream of 1 byte (so that rule 2 leaves a byte in the socket), room for 2 bytes to the thread and 1 to the owner (so that rule 3's write is partial, and throws after a reset), limit of 1 retransmission, numbers that wrap |
| `adapters` | `OnlyWhatWasSent`: what is handed up is what the peer wrote; `OnePeer`; `HandsUp`: what arrives whole is handed up; `RepliesReachThePeer` | each of the UDP, TUN and TAP adapters; three peers, two of which share an address and two a port; any byte of a packet changed by 4 or 255, packets of up to 60 bytes, lost packets, dropped SYNs |

Runs that show where the code and what is said about it disagree (each checks one property,
which TLC finds violated; `findings` in `PROJECT.json` quotes the text):

| run | what it shows |
|---|---|
| `tcp_truncation` | a stale acknowledgment widens the window; the receiver cuts a segment that does not fit but keeps its FIN, and the application is told the stream is over with bytes missing |
| `socket_rst` | the destructor of a connected socket ends the TCP thread before the connection is destroyed; the RST is queued and never sent, although `tcp_sponge_socket.hh:75` says it is |

Behaviours met while modelling that limit what the passing properties say:

* `ByteStream::write` accepts bytes after `end_input` (`byte_stream.hh:9` says no more can be
  written); `ImplementsReliableStream` therefore assumes `WriteAfterEnd = FALSE`.
* When a push reaches beyond the window and a waiting substring is shortened to make room
  (`stream_reassembler.cc:125`), `unassembled_bytes` may be wrong afterwards; the accounting
  properties therefore speak of histories in which every push stayed within the window (`orderly`).
* An end mark is lost if the last byte it comes with was pushed before without it: as a duplicate of
  written (`stream_reassembler.cc:42-44`) or waiting bytes (`:75-78`, `:84-88`). The mark pushed alone,
  behind the last byte, still ends the stream (`tests/fsm_stream_reassembler_holes.cc:129-132`).
  `EndsIffMarked` says exactly when the output ends. The library's sender repeats a segment as it
  was, FIN included, or sends the FIN by itself; that its streams end is part of `BothClose`.
* A zero-window probe that is repeated is not counted as a retransmission (`tcp_sender.cc:214-225`): if
  the other end is gone while one is unanswered, the sender never gives up and `wait_until_closed` does
  not return. `CallsReturn` excepts this case (`ProbesForNothing`).
* An acknowledgment that arrives late with a window of zero makes a sender that has sent its FIN send
  it again under the next number (`tcp_sender.cc:129`, `:206`); that end never closes. `BothClose` is
  therefore checked over a network that loses and repeats but does not reorder.
* An ARP request from the awaited host teaches its address but leaves the datagram waiting; only a
  reply releases it (`network_interface.cc:160`).

`tcp_lossy` and `tcp_disorder` ask different questions of the same system: loss with a liveness claim
needs timers that outlast a round trip (`Patient`), disorder needs timers that fire at any time. That the
end of a stream is told too early is possible only with reordering (`tcp_truncation`); `tcp_disorder`
therefore asks what holds of every network, and `ReliableBothWays`, ends included, is asked where nothing
is reordered. `TypeOK` allows a sender one number more than SYN, bytes and FIN take: a FIN sent as a
zero-window probe after a stale acknowledgment is counted once more.

Bounds on the environment (`MaxLost`, `MaxDuplicated`, `MaxReordered`, `MaxWire`, `MaxQueue`,
`MaxPush`, `MaxData`, `MaxWritten`, `MaxAbs`, `MaxTyped`, `MaxSent`, `MaxBytes`, `MaxTrouble`,
`MaxEvents`, `MaxPacket`) are named constants in the guards of the environment's actions; `KernelSize`,
`ThreadRoom` and `OwnerRoom` are the sizes of kernel buffers. They are small because the sizes matter
only relative to each other; the table says which of them the run fills and exceeds. In `socket` the
sum of what happens is bounded (`MaxEvents`), so that two bytes are not seen in both directions at once:
a stream of two bytes one way is seen together with one byte the other way or with one trouble. `CHECK_DEADLOCK FALSE` is set
where the system may stop: two closed endpoints, a network at rest, a copy that has returned, a
socket that is gone.

### Fairness

All fairness is weak. For steps that run a whole handler it is written out with the condition under
which the step is enabled and changes something (`CanTick`, `CanDeliver`, `CanRun`, ...), which TLC
evaluates far faster than ENABLED. None is assumed of losing, repeating, resetting or choosing an order.

* `TCPPair`: the applications write, end and read (the program's owner does so); what is not lost
  arrives; the timers run (the socket's loop calls `tick` at least every 10 ms); the client connects.
  `MaxLost` below the retransmission limit is the assumption under which a connection must not be reset.
* `Network`: `simulate()` alternates routing and exchanging until nothing moves; the event loops of
  `lab7` and the bouncer serve every descriptor that is ready. Time is not assumed to pass.
* `StreamCopy`: the process is scheduled; what is written to the socket is read, and what is written to
  standard output unless its reader leaves.
  Nobody is assumed to type or to end anything: `CopyEnds` starts when both sides have ended.
* `SocketProcess`: the TCP thread is scheduled, and on a quiet network time passes (`poll` has a
  timeout of 10 ms); what is not lost arrives; both applications read what has come, and a join returns
  when the thread has ended. The owner need not shut down, wait or destroy, and the peer need not write
  or end. (A peer that never reads keeps its window closed, and `wait_until_closed` waits for it.)
  `TickMs` is a long wait, of ten timeouts: during one an end may finish lingering. Nothing is
  claimed of `listen_and_accept`, which waits for as long as nobody connects.

## 4. What is proved

Eight modules hold theorems and lemmas, checked by TLAPS. Each theorem holds for every value of the
constants that satisfies the named assumptions of the modules it extends. The elementary facts about
sequences that a proof cites (`LenOfSeq`, `SplitSeq`, `JoinSeqs`, ...) stand at the beginning of its
module; some of them appear in several: each module states what its own proofs need, because every
statement in scope makes every leaf slower to prepare.

A byte stream (**StreamProofs**), for every set of bytes, capacity and bound:

* `StreamConserves`: `StreamSpec => [](StreamTypeOK /\ Conservation)`. The two together are inductive: a
  write appends the same bytes to the buffer and to `accepted`; a read splits the buffer in two and
  concatenation is associative; the capacity bound needs the cut to `remaining_capacity`.
* `StreamRefines`: with `WriteAfterEnd` false, `StreamSpec => ImplementsReliableStream`. Each call maps to a step of
  `ReliableStream` or a stutter; that the end is real follows from the lengths adding up
  (`BytesAddUp`): an empty buffer means that everything accepted has been delivered.

Sequence numbers (**ComponentProofs**), for every size of the number space:

* `UnwrapFindsClosest`: `TrackSpec => []UnwrapIsClosest`. The scan of `unwrap` starts one epoch before the
  checkpoint's (`ScanStart`) and stops at the first candidate that is no closer than the one before;
  candidates are `SeqnoMod` apart (`MultiplesApart`), so none outside the scan is closer
  (`ScanIsClosest`).
* `TrackingIsExact`: `TrackSpec => []NeverLosesTrack`. Inductive with the types (`Tracks`): a step of less than
  half the number space leaves one closest candidate, the position itself (`UnwrapInverts`).

The network interface (**ComponentProofs**), for all sets of addresses and datagrams, all tick lengths and
all timer values with `0 < MaxReqTime <= MaxCacheTime` and `MaxReqTime < AgeMod`:

* `InterfaceInvariant`: `ArpSpec => [](ArpTypeOK /\ MapsAgree /\ CacheFresh /\ RequestRemembered)`, and from it
  `CacheExpires`: `ArpSpec => []CacheFresh`.
* `NoRequestTooSoon`: `ArpSpec => RequestsSpaced`. It is not inductive by itself: what holds a request
  back is the age in `_time_since_req_send` while a datagram waits, but the entry is erased when the
  reply comes. `RequestRemembered` is the strengthening: since the last request either
  `MAX_REQ_TIME` has passed, or its age is still kept and is not more than the time since, or the
  answer is in the cache and is no older than the request. An answer is forgotten only after
  `MAX_CACHE_TIME`, which is why the proof needs `MaxReqTime <= MaxCacheTime`. Ages wrap at `AgeMod`,
  which can only make them smaller and delay a request (`ModAtMost`).

  The proof has one lemma per branch of the code: a datagram to a known address, a first request,
  a repeated one, a dropped datagram; an ARP message learned, with or without something waiting;
  a tick; a frame taken. The `Set...` operators write out the record updates once.

The router (**ComponentProofs**), for every table whose entries have a prefix length, and every datagram:

* `RouterPicksLongest`: `route_one_datagram` drops a datagram that is about to expire or that no entry matches,
  and gives every other one, with its time to live counted down, to the interface of the longest entry that
  matches, and of several as long to the first. The loop is a recursive function (`longest_match`); that there
  is such a function (`ScanExists`), and what it holds after each round (`BetterKeeps`, `LongestMatch`), is shown
  by induction over a set of rounds, as for the reassembler below. The theorem says nothing of when an entry
  matches: that `match` compares the bits above the prefix length, and so agrees with the ranges of addresses in
  `RoutedRight`, is model-checked.

The stream copy (**StreamProofs**), for all positive buffer sizes, copy lengths and kernel buffer sizes and
any number of bytes: the four safety properties of `stream_copy`, `CopyKeepsBytes` (`CopyConserves`),
`CopyPassesEndsOn` (`EndsBehindData`), `CopyReturns` (`ReturnsWhenDone`) and `CopyThrows`
(`ThrowsOnlyWhenCutOff`), all from `CopyInvariant`: `Spec => []IInv`.

None of the four is inductive. That an end is passed on behind the data rests on what the process
believes: descriptor at its end, stream ended, side shut, each of which must come only behind the
data (`UpInv`, `DownInv`). That the loop returns only when both directions are over rests on which
rules are left: a rule is gone only when its work is, and while none of the two directions is over
some rule is interested, because a buffer of positive size is not full and empty at once. That nothing
throws rests on the poll results not being stale when they are served: only the process itself takes
the bytes rule 1 and rule 3 were woken for, a hang-up alone is reported only for rule 2, and an error
only once the connection or the reader of standard output is gone, because a rule whose descriptor the
process has closed is removed before the next poll (`LoopInv`). The lemmas show first that each callback keeps this and the bytes, then that setting up the
rules, polling and serving a result do, then there is one for every action. Concatenation is hidden
behind `Joined`, about which only associativity is used.

The reassembler (**ReassemblyProofs**, with **ReassemblyLemmas**), for every capacity that a `size_t` can
hold, every stream length and every bound on a push: all six invariants of the run `reassembly`, as
`ReassemblerDeliversPrefix` (`DeliversPrefix`), `ReassemblerStoresOnce` (`WaitingDisjoint`),
`ReassemblerMemory` (`MemoryAccountedInWindow`), `ReassemblerEof` (`NoPrematureEof`),
`ReassemblerEndsIffMarked` (`EndsIffMarked`) and `ReassemblerNothingStuck` (`NothingStuck`), from `Inductive`:
`Spec => []IInv`. The inductive invariant has four parts:

* `Sound`, of every history, the pushes beyond the window included: the output, what was delivered and
  every waiting substring hold the bytes of the stream at their places, waiting substrings are not
  written yet and do not overlap. It says nothing of `_substrs_size`, which such pushes may spoil: nothing
  the reassembler does with its count of bytes, however wrong, puts a byte in the wrong place.
* `Orderly`, while pushes stay within the window: `_substrs_size` is the number of waiting bytes; these end
  within the window; only a substring that ends at the last byte of the stream carries an eof mark, and
  the output has ended only if the last byte is written. Waiting bytes
  are disjoint subsets of the window, so a new piece that lies in the window and meets none of them
  fits: the truncation and the eviction loop are never entered, which is why the miscount at
  `stream_reassembler.cc:125` does not matter here. `_substrs_size` never wraps for the same reason.
* `Unstuck`: the next byte does not wait while there is room. `push_substring` drains to the end, and a
  reader that makes room can only do so after a full buffer, behind which nothing waits: the window then
  ends at the next byte.
* `Marked`, again within the window: the output has ended or a waiting substring carries the mark if and
  only if `marked`. A piece that is stored takes the mark along exactly if it ends with the last byte
  of what was pushed, and there is such a piece exactly if that byte was new (`EndNew`).

The argument follows the code. What one turn of each loop keeps is proved first, then what the loop
computes, by induction on the number of its turns. The induction theorems of the library, which take
a predicate, cannot be instantiated here; instead a set of turns at which the claim fails has a least
element (`LeastElement`, from `WFMin` and the well-foundedness of the naturals), and `SetInduction` turns
that into an induction principle about sets, used with the set of turns at which a claim holds. The
duplicate-removal loop is characterised by what its pieces have to do with the bytes that wait:
together they are the bytes of the new data that do not.

Two connected endpoints (**TCPPairLemmas**, **TCPPairInvariant**, **TCPPairStates**, **TCPPairProofs**), for all
stream lengths, capacities, windows, payload sizes, timeouts, retransmission limits and initial numbers, and
for every number of segments that the network loses, repeats and reorders:

* `PairTypes` (`TypeOK`), `PairLingers` (`SomeoneLingers`) and `PairIntegrity` (`NothingInvented`): what an end has
  taken in is the beginning of what the other application has written, every byte in its place.
* `PairRefines` (`InOrderBothWays`): the bytes of both directions implement ReliableStream.
* `PairStatesForward` (`StatesMoveForward`): the states that `state_summary` names never go back.

All five assume `ShortStreams`: each stream with its SYN, its FIN and two numbers more takes less than half of
the number space. Nothing in the code bounds the life of a segment, and nothing in the model does either: a
segment that is a whole turn of the numbers old cannot be told from a new one, so the theorems claim nothing
of longer streams. The instances satisfy it.

The inductive invariant `IInv` says of each end, relative to what the other has written (`HeldBy`):

* `Sending`: the outbound stream holds what is written and not sent; the next number is that of the next byte,
  or lies one or two behind the last (`Position`: a FIN sent again as a zero-window probe takes a number of its
  own); every queued, outstanding or probing segment is *truthful* (`Truthful`): at its number it carries
  bytes that the application wrote, a SYN only at 0, a FIN only behind the last byte of an ended stream, and
  acknowledges a number of the other stream.
* `Linked`: so is every segment on the wire, and the receiver acknowledges only numbers of the other stream.
* `Receiving`: what is read, buffered and waiting to be reassembled are bytes of the peer at their places, and
  an end was set there.
* `Held`: an end that does not linger has heard the peer's end; retransmissions stay within the limit until
  the connection gives up. And one of the two ends lingers.

Truth, not order, is what survives the network: a truthful segment stays truthful when it is late, repeated
or overtaken, because streams only grow (`TruthfulMore`). So no clause speaks of what is lost or of when
something arrives. Sequence numbers are unwrapped to the positions they were made from because checkpoint
and position lie within half a turn (`SenderUnwraps`, `ReceiverUnwraps`); an index before the stream becomes
the largest `size_t` and is refused (`LastIndexRefused`). The lemmas have one step per method: TCPPairLemmas those
of the sender and then those of the connection, TCPPairInvariant the actions.

The receiver's reassembler is not reasoned about again. TCPPairInvariant takes what is needed of it
(`ReceiverKeeps`) and of counting (`Counting`) as hypotheses; TCPPairProofs instantiates ReassemblyProofs with a
stream long enough for both (`R`), shows that the receiver's `push_substring` is the one proved there
(`SamePush`), and discharges them (`Discharged`). `Sound` of the reassembler holds for pushes beyond the window,
which a peer with a stale idea of the window makes.

That states do not go back needs a relation between a sender before and after each call (`Forward`): what is
outstanding afterwards was outstanding before, or is new and behind the old numbers, and nothing is new once
the FIN is out. With the counts of finite sets (`Counted`) it follows that a sender which has something
acknowledged never again has all of its numbers in flight, and that one whose FIN is acknowledged never has
any; the zero-window probe is not counted as in flight, which is why it does not matter here. `Grown` is the
same for the receiver.

Everything else is only model-checked:

* Liveness (`BothClose`, `ComesToRest`, `CopyEnds`, `CallsReturn`, `Delivered`) is out of the
  prover's reach.
* `NothingForgotten`, `WindowRespected`, `CleanClose` and `ReliableBothWays` in `TCPPair` do not hold for every value
  of the constants: over a network that reorders, a stale acknowledgment widens or closes the window and leads
  to the behaviours of section 3. What the network may do is part of what they say, and the runs state it.
  The same goes for `SocketReliable` and `EndsDelivered`, which say of a socket that its end came behind the data.
* `SocketProcess`: the event loop of `StreamCopy` around the connections of `TCPPair`. An invariant for it would
  join both proofs; the two together are beyond what the prover can hold in one module.
* `Network` and `AdapterProcess`: their invariants compare a run with a journey from router to router, or with a
  checksum over the bytes of a packet. Both are folds whose steps are whole handlers, and the first also needs the
  laws of powers of two for the prefixes, which no backend has.

## 5. What is not modelled

* **Command lines** (`webget`, `tcp_ipv4`, `tcp_udp`, `tcp_ip_ethernet`, `tcp_native`, `tun`,
  `udp_tcpdump`, `tcp_benchmark`): they parse arguments, configure the classes above, print packets or
  measure time, and hold no state of their own. The fixed topologies of `lab7` and `network_simulator`
  are replaced by the one of MCNetwork.
* **System calls**: opening TUN and TAP devices, name resolution, socket options, an interrupted
  `poll`. Descriptors are modelled where they are used, with what `poll`, `read` and `write` report.
* **Printing**: `to_string`, `summary`, error wording, the state names' text. `BufferList` and
  `BufferViewList` are plain sequences of bytes: how storage is shared does not show outside them.
* **A receive window of 2^16 or more**: the header field keeps it modulo 2^16 (`tcp_connection.hh:37`, the
  model's `WinMod`). The default capacity is 64000, and the windows of the instances stay below `WinMod`
  likewise; a larger one that a command line may ask for is not explored.
* **A descriptor that has hung up while its rule is uninterested**: `poll` then returns at once and the
  loop spins without effect until another rule acts; the models leave out turns that change nothing.

## 6. What remains

* The sender by itself, against any acknowledgment instead of those a peer sends. The lemmas of
  TCPPairLemmas already speak of one sender at a time, and ask of an acknowledgment only that it is of a number
  of the stream.
* That outstanding segments tile the numbers between the acknowledged one and the next: the proofs need only
  that each of them is true and lies below the next number.
* What holds of the end of a stream over a network that does not reorder, as a theorem.
* A network of routers as a theorem, on top of `RouterPicksLongest`.
