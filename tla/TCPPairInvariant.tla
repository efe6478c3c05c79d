-------------------------- MODULE TCPPairInvariant --------------------------
(***************************************************************************)
(* The inductive invariant of two connected endpoints, and that every step *)
(* keeps it, whatever the network loses, repeats and reorders.  What it    *)
(* needs of the receiver (ReceiverKeeps) is a hypothesis here, as Counting *)
(* is; both are proved in TCPPairProofs.                                   *)
(***************************************************************************)
EXTENDS TCPPairLemmas

USE ZenonT(40)

\* The candidates of unwrap for a number of the first half turn, and the
\* checkpoint in it as well: the number itself is closer than the next one.
LEMMA Candidates ==
  ASSUME NEW i \in 0 .. SeqnoMod - 1, NEW p \in Nat, NEW c \in Nat,
         2 * p < SeqnoMod, 2 * c < SeqnoMod
  PROVE  LET n == Sender!wrap(p, i)
         IN  /\ SeqnoMod \in Nat \ {0} /\ Sender!init_k(c) = 0
             /\ Sender!curr_val(n, i, 0) = p /\ Sender!curr_val(n, i, 1) = p + SeqnoMod
             /\ Sender!Distance(p + SeqnoMod, c) >= Sender!Distance(p, c)
             /\ ~ (Sender!Distance(p + SeqnoMod, c) < Sender!Distance(p, c))
<1>. DEFINE M == SeqnoMod
            n == Sender!wrap(p, i)
<1>1. M \in Nat \ {0} /\ i \in Nat /\ i < M
  BY ConnectionAssumption, SMTT(40)
<1>2. Sender!init_k(c) = 0
  <2>1. c \div M = 0
    BY <1>1, SMTT(40)
  <2>. QED  BY <2>1, SMTT(40) DEF Sender!init_k
<1>3. n = IF i + p < M THEN i + p ELSE i + p - M
  BY <1>1, SMTT(40) DEF Sender!wrap
<1>. HIDE DEF n
<1>4. Sender!curr_val(n, i, 0) = p /\ Sender!curr_val(n, i, 1) = p + M
  <2>1. 0 * M = 0 /\ 1 * M = M
    BY <1>1, SMTT(40)
  <2>. QED  BY <1>1, <1>3, <2>1, SMTT(40) DEF Sender!curr_val
<1>5. /\ Sender!Distance(p + M, c) >= Sender!Distance(p, c)
      /\ ~ (Sender!Distance(p + M, c) < Sender!Distance(p, c))
  BY <1>1, SMTT(40) DEF Sender!Distance
<1>. QED  BY <1>1, <1>2, <1>4, <1>5, SMTT(40) DEF n

\* The number the sender recovers from an acknowledgment is the one the other
\* end meant.
LEMMA SenderUnwraps ==
  ASSUME NEW i \in 0 .. SeqnoMod - 1, NEW p \in Nat, NEW c \in Nat,
         2 * p < SeqnoMod, 2 * c < SeqnoMod
  PROVE  Sender!unwrap(Sender!wrap(p, i), i, c) = p
<1>. DEFINE M == SeqnoMod
            n == Sender!wrap(p, i)
            val(k) == Sender!curr_val(n, i, k)
            diff(k) == Sender!Distance(val(k), c)
            Stops(k) == diff(k) >= diff(k - 1) /\ \A j \in 0 + 1 .. k - 1 : diff(j) < diff(j - 1)
            last == CHOOSE k \in 0 + 1 .. 0 + 3 : Stops(k)
<1>1. M \in Nat \ {0} /\ Sender!init_k(c) = 0 /\ val(1) = p + M
  BY Candidates
<1>2. diff(1) >= diff(0) /\ ~ (diff(1) < diff(0))
  BY Candidates
<1>. HIDE DEF diff, val, n
<1>3. Stops(1) /\ 1 \in 0 + 1 .. 0 + 3
  BY <1>2, SMTT(40)
<1>4. last \in 0 + 1 .. 0 + 3 /\ Stops(last)
  <2>. HIDE DEF Stops
  <2>. QED  BY <1>3 DEF last
<1>. HIDE DEF last
<1>5. last = 1
  BY <1>2, <1>4, SMTT(40)
<1>6. Sender!unwrap(n, i, c) = val(last) - M
  BY <1>1 DEF Sender!unwrap, last, Stops, diff, val
<1>. QED  BY <1>1, <1>5, <1>6, SMTT(40) DEF n

\* The same of the receiver and the number of a segment.
LEMMA ReceiverUnwraps ==
  ASSUME NEW i \in 0 .. SeqnoMod - 1, NEW p \in Nat, NEW c \in Nat,
         2 * p < SeqnoMod, 2 * c < SeqnoMod
  PROVE  Receiver!unwrap(Sender!wrap(p, i), i, c) = p
<1>. DEFINE M == SeqnoMod
            n == Sender!wrap(p, i)
            val(k) == Receiver!curr_val(n, i, k)
            diff(k) == Receiver!Distance(val(k), c)
            Stops(k) == diff(k) >= diff(k - 1) /\ \A j \in 0 + 1 .. k - 1 : diff(j) < diff(j - 1)
            last == CHOOSE k \in 0 + 1 .. 0 + 3 : Stops(k)
<1>0. /\ \A m, k, l : Receiver!curr_val(m, k, l) = Sender!curr_val(m, k, l)
      /\ \A a, b : Receiver!Distance(a, b) = Sender!Distance(a, b)
      /\ \A k : Receiver!init_k(k) = Sender!init_k(k)
  BY DEF Receiver!curr_val, Sender!curr_val, Receiver!Distance, Sender!Distance,
               Receiver!init_k, Sender!init_k
<1>1. M \in Nat \ {0} /\ Receiver!init_k(c) = 0 /\ val(1) = p + M
  BY Candidates, <1>0
<1>2. diff(1) >= diff(0) /\ ~ (diff(1) < diff(0))
  BY Candidates, <1>0
<1>. HIDE DEF diff, val, n
<1>3. Stops(1) /\ 1 \in 0 + 1 .. 0 + 3
  BY <1>2, SMTT(40)
<1>4. last \in 0 + 1 .. 0 + 3 /\ Stops(last)
  <2>. HIDE DEF Stops
  <2>. QED  BY <1>3 DEF last
<1>. HIDE DEF last
<1>5. last = 1
  BY <1>2, <1>4, SMTT(40)
<1>6. Receiver!unwrap(n, i, c) = val(last) - M
  BY <1>1 DEF Receiver!unwrap, last, Stops, diff, val
<1>. QED  BY <1>1, <1>5, <1>6, SMTT(40) DEF n

-----------------------------------------------------------------------------
\* No index into either stream exceeds this number.
Horizon == StreamLen[Client] + StreamLen[Server] + 3

\* The substrings m that wait to be reassembled, when w bytes are written:
\* later parts of the stream that do not overlap.
EndOf(m, i) == i + Len(m[i].data)

Waiting(m, w) ==
  /\ DOMAIN m \subseteq 0 .. Horizon
  /\ \A i \in DOMAIN m :
       /\ w <= i
       /\ EndOf(m, i) \in i .. Horizon
       /\ m[i].data = Run(i, EndOf(m, i))
       /\ m[i].eof \in BOOLEAN
  /\ \A i, j \in DOMAIN m : i < j => EndOf(m, i) <= j

\* They are among the first n bytes, and marked as last only if ended.
Backed(m, n, ended) ==
  \A i \in DOMAIN m : /\ i < EndOf(m, i) => EndOf(m, i) <= n
                      /\ m[i].eof => ended

\* The inbound stream t, of which d has been read, is the beginning of those
\* n bytes.
Inbound(t, d, n, ended) ==
  /\ InboundFields \subseteq DOMAIN t
  /\ t.capacity = RecvCapacity
  /\ t.buffer \in Seq(Nat) /\ Len(t.buffer) <= RecvCapacity
  /\ t.input_end \in BOOLEAN
  /\ t.written \in 0 .. Horizon
  /\ d \in Seq(Nat) /\ d \o t.buffer = Run(0, t.written)
  /\ n \in Nat /\ t.written <= n
  /\ t.input_end => ended

\* The receiver of end e, whose application has read d, holds nothing that the
\* peer, which has written n bytes, did not send.
Receiving(e, rcv, d, n, ended) ==
  /\ {"reassembler", "isn", "isn_set"} \subseteq DOMAIN rcv
  /\ rcv.isn_set \in BOOLEAN /\ (rcv.isn_set => rcv.isn = Isn[Peer(e)])
  /\ {"output", "substrs", "size"} \subseteq DOMAIN rcv.reassembler
  /\ rcv.reassembler.size \in 0 .. SizeMod - 1
  /\ Inbound(rcv.reassembler.output, d, n, ended)
  /\ Waiting(rcv.reassembler.substrs, rcv.reassembler.output.written)
  /\ Backed(rcv.reassembler.substrs, n, ended)

\* A new receiver.
LEMMA ReceivesNothing ==
  ASSUME NEW e \in End
  PROVE  Receiving(e, Receiver!NewReceiver(RecvCapacity), << >>, 0, FALSE)
<1>. DEFINE rcv == Receiver!NewReceiver(RecvCapacity)
            q == Receiver!NewReassembler(RecvCapacity)
            t == Receiver!NewByteStream(RecvCapacity)
<1>1. /\ {"reassembler", "isn", "isn_set"} \subseteq DOMAIN rcv
      /\ rcv.isn_set = FALSE /\ rcv.reassembler = q
  BY SMTT(40) DEF Receiver!NewReceiver
<1>2. /\ {"output", "substrs", "size"} \subseteq DOMAIN q
      /\ q.output = t /\ q.substrs = << >> /\ q.size = 0
  BY SMTT(40) DEF Receiver!NewReassembler
<1>3. /\ InboundFields \subseteq DOMAIN t /\ t.capacity = RecvCapacity /\ t.buffer = << >>
      /\ t.written = 0 /\ t.input_end = FALSE
  BY SMTT(40) DEF Receiver!NewByteStream, InboundFields
<1>. HIDE DEF rcv, q, t
<1>4. SizeMod \in Nat \ {0} /\ RecvCapacity \in Nat /\ Horizon \in Nat
  BY PairAssumption, ConnectionAssumption, SMTT(40) DEF Horizon, End
<1>5. Inbound(t, << >>, 0, FALSE)
  <2>1. /\ << >> \in Seq(Nat) /\ Len(<< >>) = 0
    BY EmptySeqLen, SMTT(40)
  <2>2. << >> \o << >> = << >> /\ Run(0, 0) = << >>
    BY <2>1, ConcatEmpty, RunEmpty, SMTT(40)
  <2>3. 0 \in 0 .. Horizon /\ 0 <= RecvCapacity /\ 0 \in Nat /\ 0 <= 0
    BY <1>4, SMTT(40)
  <2>. QED  BY <1>3, <2>1, <2>2, <2>3 DEF Inbound
<1>6. DOMAIN q.substrs = {}
  BY <1>2, SMTT(40)
<1>7. Waiting(q.substrs, t.written) /\ Backed(q.substrs, 0, FALSE)
  BY <1>6 DEF Waiting, Backed
<1>8. q.size \in 0 .. SizeMod - 1
  BY <1>2, <1>4, SMTT(40)
<1>. QED  BY <1>1, <1>2, <1>5, <1>7, <1>8 DEF Receiving, rcv

\* The peer may write on, and end its stream.
LEMMA ReceivingMore ==
  ASSUME NEW e, NEW rcv, NEW d, NEW n, NEW f, Receiving(e, rcv, d, n, f),
         NEW m \in Nat, n <= m, NEW g, f => g
  PROVE  Receiving(e, rcv, d, m, g)
<1>. DEFINE t == rcv.reassembler.output
            q == rcv.reassembler.substrs
<1>1. Inbound(t, d, n, f) /\ Waiting(q, t.written) /\ Backed(q, n, f)
  BY DEF Receiving
<1>2. t.written <= m
  BY <1>1, SMTT(40) DEF Inbound
<1>3. Inbound(t, d, m, g)
  BY <1>1, <1>2 DEF Inbound
<1>4. ASSUME NEW i \in DOMAIN q, i < EndOf(q, i) PROVE EndOf(q, i) <= m
  <2>1. EndOf(q, i) <= n /\ EndOf(q, i) \in i .. Horizon /\ i \in 0 .. Horizon
    BY <1>1, <1>4 DEF Waiting, Backed
  <2>2. n \in Nat
    BY <1>1 DEF Inbound
  <2>. HIDE DEF q
  <2>. QED  BY <2>1, <2>2, SMTT(40)
<1>5. Backed(q, m, g)
  BY <1>1, <1>4 DEF Backed
<1>. QED  BY <1>1, <1>3, <1>5 DEF Receiving

\* It acknowledges numbers of the peer's stream.
LEMMA ReceivingAcks ==
  ASSUME NEW e \in End, NEW rcv, NEW d, NEW n, NEW f, Receiving(e, rcv, d, n, f),
         n <= StreamLen[Peer(e)]
  PROVE  Acking(e, rcv)
<1>. DEFINE t == rcv.reassembler.output
<1>1. Inbound(t, d, n, f)
  BY DEF Receiving
<1>2. t.written \in 0 .. StreamLen[Peer(e)]
  BY <1>1, Ends, SMTT(40) DEF Inbound
<1>3. Len(t.buffer) \in Nat /\ RecvCapacity \in Nat
  BY <1>1, LenOfSeq, PairAssumption, SMTT(40) DEF Inbound
<1>4. t.capacity - Len(t.buffer) \in Int
  <2>1. t.capacity = RecvCapacity
    BY <1>1 DEF Inbound
  <2>. QED  BY <1>3, <2>1, SMTT(40)
<1>5. Receiver!window_size(rcv) \in Int
  BY <1>4 DEF Receiver!window_size, Receiver!remaining_capacity, Receiver!stream_out
<1>. QED  BY <1>1, <1>2, <1>5 DEF Acking, Receiving, Inbound, Receiver!stream_out

\* A receiver with another inbound stream.
Reoutput(rcv, t) == [rcv EXCEPT !.reassembler.output = t]

\* What it holds is as sound as that stream.
LEMMA OutputReplaced ==
  ASSUME NEW e, NEW rcv, NEW d, NEW n, NEW f, Receiving(e, rcv, d, n, f),
         NEW t, NEW d2, Inbound(t, d2, n, f), t.written = rcv.reassembler.output.written
  PROVE  /\ Receiving(e, Reoutput(rcv, t), d2, n, f)
         /\ Receiver!stream_out(Reoutput(rcv, t)) = t
<1>. DEFINE new == Reoutput(rcv, t)
            q == rcv.reassembler
<1>1. /\ {"reassembler", "isn", "isn_set"} \subseteq DOMAIN new
      /\ new.isn = rcv.isn /\ new.isn_set = rcv.isn_set
      /\ new.reassembler = [q EXCEPT !.output = t]
  BY DEF Receiving, Reoutput
<1>. HIDE DEF new
<1>2. {"output", "substrs", "size"} \subseteq DOMAIN q
  BY DEF Receiving
<1>3. /\ {"output", "substrs", "size"} \subseteq DOMAIN new.reassembler
      /\ new.reassembler.output = t /\ new.reassembler.substrs = q.substrs
      /\ new.reassembler.size = q.size
  BY <1>1, <1>2
<1>. QED  BY <1>1, <1>3 DEF Receiving, Receiver!stream_out, new

\* Setting the error of the inbound stream changes nothing of what it holds.
LEMMA ReceivingFailed ==
  ASSUME NEW e, NEW rcv, NEW d, NEW n, NEW f, Receiving(e, rcv, d, n, f)
  PROVE  Receiving(e, Failed(rcv), d, n, f)
<1>. DEFINE old == rcv.reassembler.output
            t == Stream!set_error(old)
<1>1. Inbound(old, d, n, f)
  BY DEF Receiving
<1>2. /\ InboundFields \subseteq DOMAIN t /\ t.capacity = old.capacity /\ t.buffer = old.buffer
      /\ t.written = old.written /\ t.input_end = old.input_end
  BY <1>1 DEF Inbound, InboundFields, Stream!set_error
<1>. HIDE DEF t
<1>3. Inbound(t, d, n, f)
  BY <1>1, <1>2 DEF Inbound
<1>4. Failed(rcv) = Reoutput(rcv, t)
  BY DEF Failed, Reoutput, t
<1>5. t.written = rcv.reassembler.output.written
  BY <1>2
<1>6. Receiving(e, Reoutput(rcv, t), d, n, f)
  BY <1>3, <1>5, OutputReplaced, SMTT(40)
<1>. QED  BY <1>4, <1>6

\* ByteStream::read: the application takes len bytes out of the inbound stream.
LEMMA InboundPopped ==
  ASSUME NEW t, NEW d, NEW n, NEW f, Inbound(t, d, n, f), NEW len \in Nat, len <= Len(t.buffer)
  PROVE  LET u == Stream!pop_output(t, len)
         IN  /\ Inbound(u, d \o Stream!peek_output(t, len), n, f)
             /\ u.written = t.written /\ u.error = t.error
<1>. DEFINE u == Stream!pop_output(t, len)
            b == t.buffer
            l == Len(b)
            out == SubSeq(b, 1, len)
            rest == SubSeq(b, len + 1, l)
<1>1. /\ b \in Seq(Nat) /\ l <= RecvCapacity /\ d \in Seq(Nat) /\ RecvCapacity \in Nat
      /\ InboundFields \subseteq DOMAIN t
  BY PairAssumption, SMTT(40) DEF Inbound
<1>2. l \in Nat /\ len <= l
  BY <1>1, LenOfSeq
<1>3. Stream!Lesser(len, Len(t.buffer)) = len
  <2>. HIDE DEF b
  <2>. QED  BY <1>2, SMTT(40) DEF Stream!Lesser
<1>4. /\ InboundFields \subseteq DOMAIN u /\ u.capacity = t.capacity /\ u.buffer = rest
      /\ u.written = t.written /\ u.input_end = t.input_end /\ u.error = t.error
  BY <1>1, <1>3 DEF InboundFields, Stream!pop_output
<1>5. Stream!peek_output(t, len) = out
  BY <1>3 DEF Stream!peek_output
<1>. HIDE DEF u, b, l
<1>6. len \in 0 .. l
  BY <1>2, SMTT(40)
<1>7. out \in Seq(Nat) /\ rest \in Seq(Nat) /\ Len(rest) = l - len /\ out \o rest = b
  BY <1>1, <1>6, SplitSeq DEF l
<1>. HIDE DEF out, rest
<1>8. (d \o out) \o rest = d \o b /\ d \o out \in Seq(Nat)
  <2>1. (d \o out) \o rest = d \o (out \o rest)
    BY <1>1, <1>7, JoinBytes
  <2>. QED  BY <1>1, <1>7, <2>1, Concatenation
<1>9. l - len <= RecvCapacity
  BY <1>1, <1>2, SMTT(40)
<1>10. Inbound(u, d \o out, n, f)
  BY <1>4, <1>7, <1>8, <1>9 DEF Inbound, b
<1>. QED  BY <1>4, <1>5, <1>10 DEF u

-----------------------------------------------------------------------------
\* The streams of end e, whose application has read d, when its peer has
\* written n bytes: after tick gives up, the count of retransmissions is one
\* more than the limit.
GaveUp(c) == c.sender.stream.error /\ inbound_stream(c).error

Held(e, c, d, n, ended) ==
  /\ Linked(e, c)
  /\ c.linger \in BOOLEAN /\ (~c.linger => ended)
  /\ \/ c.sender.rx_times <= MaxRetx
     \/ GaveUp(c) /\ c.sender.rx_times <= MaxRetx + 1
  /\ Receiving(e, c.receiver, d, n, ended)

\* The stream that d sends continues the one that c sends: one step adds bytes
\* or the end.
Continues(c, d) ==
  /\ c.sender.stream.written <= d.sender.stream.written
  /\ c.sender.stream.input_end => d.sender.stream.input_end
  /\ d.sender.stream.input_end => \/ c.sender.stream.input_end
                                 \/ d.sender.stream.written = c.sender.stream.written

\* d is as sound as c, and lingers if c does.
Follows(e, c, d, read, n, ended) ==
  /\ Held(e, d, read, n, ended) /\ Continues(c, d) /\ d.linger = c.linger

\* The outbound stream of a connection.
LEMMA WrittenType ==
  ASSUME NEW e \in End, NEW c, Linked(e, c)
  PROVE  /\ c.sender.stream.written \in 0 .. StreamLen[e]
         /\ c.sender.stream.written \in Nat
         /\ c.sender.stream.written <= StreamLen[e]
         /\ c.sender.stream.written <= c.sender.stream.written
         /\ c.sender.stream.input_end \in BOOLEAN
         /\ c.sender.stream.input_end => c.sender.stream.written = StreamLen[e]
         /\ c.sender.rx_times \in Nat
<1>1. Outbound(e, c.sender.stream) /\ c.sender.rx_times \in Nat
  BY SendingFacts DEF Linked
<1>2. c.sender.stream.written \in 0 .. StreamLen[e]
  BY <1>1 DEF Outbound
<1>3. /\ c.sender.stream.written \in Nat /\ c.sender.stream.written <= StreamLen[e]
      /\ c.sender.stream.written <= c.sender.stream.written
  BY <1>2, Ends, SMTT(40)
<1>. QED  BY <1>1, <1>2, <1>3 DEF Outbound

\* Queueing and sending.
LEMMA HeldOnward ==
  ASSUME NEW e \in End, NEW c, NEW d, NEW read, NEW n, NEW f, Held(e, c, read, n, f),
         Onward(e, c, d)
  PROVE  Follows(e, c, d, read, n, f)
<1>1. c.sender.stream.written <= c.sender.stream.written
  BY WrittenType DEF Held
<1>. QED  BY <1>1 DEF Held, Follows, Continues, GaveUp, Onward, SameStream, inbound_stream

\* The application writes, or ends its stream.
LEMMA HeldWrote ==
  ASSUME NEW e \in End, NEW c, NEW d, NEW read, NEW n, NEW f, Held(e, c, read, n, f),
         NEW w, NEW ended, Wrote(e, c, w, ended, d), c.sender.stream.written <= w,
         c.sender.stream.input_end => ended,
         ended => c.sender.stream.input_end \/ w = c.sender.stream.written
  PROVE  Follows(e, c, d, read, n, f)
  BY DEF Held, Follows, Continues, GaveUp, Wrote, inbound_stream

\* A reset sets both errors.
LEMMA HeldGivenUp ==
  ASSUME NEW e \in End, NEW c, NEW d, NEW read, NEW n, NEW f, Held(e, c, read, n, f),
         GivenUp(e, c, d)
  PROVE  Follows(e, c, d, read, n, f)
<1>1. Receiving(e, d.receiver, read, n, f)
  BY ReceivingFailed DEF Held, GivenUp
<1>2. c.sender.rx_times \in Nat /\ c.sender.stream.written <= c.sender.stream.written
  BY WrittenType DEF Held
<1>3. MaxRetx \in Nat
  BY ConnectionAssumption
<1>4. c.sender.rx_times <= MaxRetx + 1
  <2>1. c.sender.rx_times <= MaxRetx \/ c.sender.rx_times <= MaxRetx + 1
    BY DEF Held
  <2>. QED  BY <1>2, <1>3, <2>1, SMTT(40)
<1>. QED  BY <1>1, <1>2, <1>4 DEF Held, Follows, Continues, GaveUp, GivenUp

\* A tick: only an active connection counts one more retransmission.
LEMMA HeldClockedOn ==
  ASSUME NEW e \in End, NEW c, NEW d, NEW read, NEW n, NEW f, Held(e, c, read, n, f),
         ClockedOn(e, c, d)
  PROVE  Follows(e, c, d, read, n, f)
<1>1. c.sender.stream.written <= c.sender.stream.written /\ c.sender.rx_times \in Nat
  BY WrittenType DEF Held
<1>2. CASE /\ Linked(e, d) /\ d.receiver = c.receiver /\ d.linger = c.linger
           /\ SameStream(c.sender.stream, d.sender.stream)
           /\ d.sender.rx_times <= MaxRetx \/ d = c
  BY <1>1, <1>2 DEF Held, Follows, Continues, GaveUp, SameStream, inbound_stream
<1>3. CASE /\ Linked(e, d) /\ d.receiver = Failed(c.receiver) /\ d.linger = c.linger
           /\ d.sender.stream.written = c.sender.stream.written
           /\ d.sender.stream.input_end = c.sender.stream.input_end
           /\ d.sender.stream.error /\ inbound_stream(d).error
           /\ active(c) /\ d.sender.rx_times <= c.sender.rx_times + 1
  <2>1. Receiving(e, d.receiver, read, n, f)
    BY <1>3, ReceivingFailed DEF Held
  <2>2. c.sender.rx_times <= MaxRetx
    BY <1>3 DEF Held, GaveUp, active
  <2>3. d.sender.rx_times <= MaxRetx + 1
    <3>1. d.sender.rx_times \in Nat /\ MaxRetx \in Nat
      BY <1>3, WrittenType, ConnectionAssumption
    <3>. QED  BY <1>1, <1>3, <2>2, <3>1, SMTT(40)
  <2>. QED  BY <1>1, <1>3, <2>1, <2>3 DEF Held, Follows, Continues, GaveUp
<1>. QED  BY <1>2, <1>3 DEF ClockedOn

\* The network takes segments away.
LEMMA HeldDequeued ==
  ASSUME NEW e \in End, NEW c, NEW read, NEW n, NEW f, Held(e, c, read, n, f),
         NEW q \in Seq(Truthful(e, c.sender.stream.written, c.sender.stream.input_end))
  PROVE  Follows(e, c, [c EXCEPT !.segments_out = q], read, n, f)
<1>. DEFINE d == [c EXCEPT !.segments_out = q]
<1>1. ConnFields \subseteq DOMAIN c
  BY DEF Held, Linked
<1>2. /\ ConnFields \subseteq DOMAIN d /\ d.segments_out = q /\ d.sender = c.sender
      /\ d.receiver = c.receiver /\ d.linger = c.linger
  BY <1>1 DEF ConnFields
<1>. HIDE DEF d
<1>3. c.sender.stream.written <= c.sender.stream.written
  BY WrittenType DEF Held
<1>4. Linked(e, d)
  BY <1>2 DEF Linked, Held
<1>. QED  BY <1>2, <1>3, <1>4 DEF Held, Follows, Continues, GaveUp, inbound_stream, d

\* ByteStream::read of the inbound stream, by the application.
LEMMA HeldRead ==
  ASSUME NEW e \in End, NEW c, NEW read, NEW n, NEW f, Held(e, c, read, n, f),
         n <= StreamLen[Peer(e)], NEW len \in Nat, len <= Stream!buffer_size(inbound_stream(c))
  PROVE  Follows(e, c, [c EXCEPT !.receiver.reassembler.output = Stream!pop_output(@, len)],
                 read \o Stream!peek_output(inbound_stream(c), len), n, f)
<1>. DEFINE t == c.receiver.reassembler.output
            u == Stream!pop_output(t, len)
            more == read \o Stream!peek_output(t, len)
            d == [c EXCEPT !.receiver.reassembler.output = Stream!pop_output(@, len)]
<1>1. /\ Linked(e, c) /\ ConnFields \subseteq DOMAIN c
      /\ Receiving(e, c.receiver, read, n, f) /\ Inbound(t, read, n, f)
      /\ inbound_stream(c) = t
  BY DEF Held, Linked, Receiving, inbound_stream, Receiver!stream_out
<1>2. len <= Len(t.buffer)
  BY <1>1 DEF Stream!buffer_size
<1>3. Inbound(u, more, n, f) /\ u.written = t.written /\ u.error = t.error
  BY <1>1, <1>2, InboundPopped
<1>4. /\ ConnFields \subseteq DOMAIN d /\ d.sender = c.sender /\ d.linger = c.linger
      /\ d.segments_out = c.segments_out /\ d.receiver = Reoutput(c.receiver, u)
  BY <1>1 DEF ConnFields, Reoutput
<1>. HIDE DEF d, u, more
<1>5. Receiving(e, d.receiver, more, n, f) /\ Receiver!stream_out(d.receiver) = u
  BY <1>1, <1>3, <1>4, OutputReplaced, SMTT(40)
<1>6. Acking(e, d.receiver)
  BY <1>5, ReceivingAcks
<1>7. c.sender.stream.written <= c.sender.stream.written
  BY <1>1, WrittenType
<1>8. Linked(e, d)
  BY <1>1, <1>4, <1>6 DEF Linked
<1>9. Follows(e, c, d, more, n, f)
  BY <1>1, <1>3, <1>4, <1>5, <1>7, <1>8 DEF Held, Follows, Continues, GaveUp, inbound_stream
<1>. QED  BY <1>1, <1>9 DEF d, more

\* The receiver new is no less far than rcv: what is set stays set.
Grown(rcv, new) ==
  /\ rcv.isn_set => new.isn_set
  /\ Receiver!stream_out(rcv).input_end => Receiver!stream_out(new).input_end
  /\ Receiver!stream_out(rcv).error => Receiver!stream_out(new).error

\* What the receiver makes of a truthful segment; proved in TCPPairProofs, from
\* the lemmas about the reassembler.
ReceiverKeeps ==
  \A e \in End : \A rcv, d, n, ended, seg :
    /\ n \in 0 .. StreamLen[Peer(e)] /\ (ended => n = StreamLen[Peer(e)])
    /\ Receiving(e, rcv, d, n, ended)
    /\ seg \in Truthful(Peer(e), n, ended)
    => /\ Receiving(e, Receiver!segment_received(rcv, seg), d, n, ended)
       /\ Grown(rcv, Receiver!segment_received(rcv, seg))

\* The sender recovers the number that a truthful segment acknowledges.
LEMMA AckRecovered ==
  ASSUME ShortStreams, NEW e \in End, NEW s, Sending(e, s), NEW n, NEW f,
         NEW seg \in Truthful(Peer(e), n, f), seg.ack
  PROVE  Sender!unwrap(seg.ackno, s.isn, s.next_seqno) \in 0 .. StreamLen[e] + 2
<1>1. AcksPeer(Peer(e), seg) /\ Peer(Peer(e)) = e
  BY Ends DEF Truthful
<1>2. PICK y \in 0 .. StreamLen[e] + 2 : seg.ackno = Sender!wrap(y, Isn[e])
  BY <1>1 DEF AcksPeer
<1>3. s.isn = Isn[e] /\ s.next_seqno \in 0 .. StreamLen[e] + 3
  BY SendingFacts
<1>4. 2 * (StreamLen[e] + 3) < SeqnoMod
  BY DEF ShortStreams
<1>5. /\ y \in Nat /\ 2 * y < SeqnoMod
      /\ s.next_seqno \in Nat /\ 2 * s.next_seqno < SeqnoMod
  <2>1. StreamLen[e] \in Nat /\ SeqnoMod \in Nat
    BY Ends, SMTT(40)
  <2>. QED  BY <1>3, <1>4, <2>1, SMTT(40)
<1>6. Isn[e] \in 0 .. SeqnoMod - 1
  BY Ends
<1>7. Sender!unwrap(Sender!wrap(y, Isn[e]), Isn[e], s.next_seqno) = y
  BY <1>5, <1>6, SenderUnwraps
<1>. QED  BY <1>2, <1>3, <1>7

\* TCPConnection::segment_received, when the other end has written n bytes: a
\* connection stops lingering only if its own stream is not over yet.
LEMMA HeldSegment ==
  ASSUME Counting, ReceiverKeeps, ShortStreams, NEW e \in End, NEW c, NEW read, NEW n, NEW f,
         Held(e, c, read, n, f), n \in 0 .. StreamLen[Peer(e)], f => n = StreamLen[Peer(e)],
         NEW seg \in Truthful(Peer(e), n, f)
  PROVE  LET d == segment_received(c, seg)
         IN  /\ Held(e, d, read, n, f) /\ Continues(c, d)
             /\ c.linger /\ ~d.linger => ~c.sender.stream.input_end
<1>. DEFINE d == segment_received(c, seg)
            rcv == Receiver!segment_received(c.receiver, seg)
<1>1. Linked(e, c) /\ c.linger \in BOOLEAN /\ Sending(e, c.sender)
  BY DEF Held, Linked
<1>2. /\ c.sender.stream.written <= c.sender.stream.written /\ c.sender.rx_times \in Nat
      /\ c.sender.stream.input_end \in BOOLEAN
  BY <1>1, WrittenType
<1>3. CASE ~active(c)
  <2>1. d = c
    BY <1>3 DEF segment_received
  <2>. QED  BY <1>1, <1>2, <2>1 DEF Continues
<1>4. CASE active(c) /\ seg.rst
  <2>1. d = set_errors(c)
    BY <1>4 DEF segment_received
  <2>2. GivenUp(e, c, set_errors(c))
    BY <1>1, ErrorsSet
  <2>3. Follows(e, c, d, read, n, f)
    BY <2>1, <2>2, HeldGivenUp
  <2>. QED  BY <2>3 DEF Follows
<1>5. CASE active(c) /\ ~seg.rst
  <2>1. Receiving(e, rcv, read, n, f)
    BY DEF ReceiverKeeps, Held
  <2>2. Acking(e, rcv)
    <3>1. n <= StreamLen[Peer(e)]
      BY Ends, SMTT(40)
    <3>. HIDE DEF rcv
    <3>. QED  BY <2>1, <3>1, ReceivingAcks
  <2>3. Heard(e, c.sender, HearAck(c.sender, seg))
    <3>1. seg \in Segments
      BY DEF Truthful
    <3>2. 2 * (StreamLen[e] + 3) < SeqnoMod
      BY DEF ShortStreams
    <3>. QED  BY <1>1, <3>1, <3>2, AckRecovered, AckAnswered
  <2>4. Received(e, c, rcv, d)
    BY <1>1, <1>5, <2>2, <2>3, SegmentTaken
  <2>5. Receiver!stream_out(rcv).input_end \in BOOLEAN /\ (Receiver!stream_out(rcv).input_end => f)
    BY <2>1 DEF Receiving, Inbound, Receiver!stream_out
  <2>. HIDE DEF rcv, d
  <2>6. d.linger \in BOOLEAN /\ (~d.linger => f)
    BY <1>1, <1>2, <2>4, <2>5 DEF Received, Held
  <2>7. d.sender.rx_times <= MaxRetx
    <3>1. c.sender.rx_times <= MaxRetx
      BY <1>5 DEF Held, GaveUp, active
    <3>2. d.sender.rx_times \in Nat /\ MaxRetx \in Nat
      BY <2>4, WrittenType, ConnectionAssumption DEF Received
    <3>3. d.sender.rx_times <= c.sender.rx_times
      BY <2>4 DEF Received
    <3>. QED  BY <1>2, <3>1, <3>2, <3>3, SMTT(40)
  <2>8. Held(e, d, read, n, f)
    BY <2>1, <2>4, <2>6, <2>7 DEF Held, Received
  <2>9. Continues(c, d)
    BY <1>2, <2>4 DEF Continues, Received, SameStream
  <2>. QED  BY <1>1, <1>2, <2>4, <2>8, <2>9 DEF Received, d
<1>. QED  BY <1>3, <1>4, <1>5

-----------------------------------------------------------------------------
(***************************************************************************)
(* The inductive invariant: each end is sound with respect to what the     *)
(* other has written so far, and one of them lingers.                      *)
(***************************************************************************)
HeldBy(e, c, d) ==
  Held(e, c, d, conn[Peer(e)].sender.stream.written, conn[Peer(e)].sender.stream.input_end)

IInv ==
  /\ DOMAIN conn = End /\ DOMAIN received = End
  /\ \A e \in End : HeldBy(e, conn[e], received[e])
  /\ \E e \in End : conn[e].linger

\* A step that keeps it, and continues both streams.
Moved == IInv' /\ \A e \in End : Continues(conn[e], conn'[e])

\* What the peer has written grows under a connection that holds still.
LEMMA HeldMore ==
  ASSUME NEW e \in End, NEW c, NEW read, NEW n, NEW f, Held(e, c, read, n, f),
         NEW m \in Nat, n <= m, NEW g, f => g
  PROVE  Held(e, c, read, m, g)
<1>1. Receiving(e, c.receiver, read, m, g)
  BY ReceivingMore DEF Held
<1>. QED  BY <1>1 DEF Held

\* A step after which each end is sound with respect to what the other had
\* written before it.
LEMMA BothMove ==
  ASSUME IInv, DOMAIN conn' = End, DOMAIN received' = End,
         \A e \in End : HeldBy(e, conn'[e], received'[e]) /\ Continues(conn[e], conn'[e]),
         \E e \in End : conn'[e].linger
  PROVE  Moved
<1>1. ASSUME NEW e \in End PROVE HeldBy(e, conn[e], received[e])'
  <2>. DEFINE p == Peer(e)
              m == conn'[p].sender.stream.written
              g == conn'[p].sender.stream.input_end
  <2>1. p \in End
    BY Ends
  <2>2. Linked(p, conn'[p])
    BY <2>1 DEF HeldBy, Held
  <2>3. m \in Nat
    BY <2>1, <2>2, WrittenType
  <2>4. Continues(conn[p], conn'[p])
    BY <2>1
  <2>5. Held(e, conn'[e], received'[e], m, g)
    <3>. DEFINE n == conn[p].sender.stream.written
                f == conn[p].sender.stream.input_end
    <3>1. Held(e, conn'[e], received'[e], n, f) /\ n <= m /\ (f => g)
      BY <2>4 DEF HeldBy, Continues
    <3>. HIDE DEF n, f, m, g
    <3>. QED  BY <2>3, <3>1, HeldMore
  <2>. QED  BY <2>5 DEF HeldBy
<1>. QED  BY <1>1 DEF IInv, Moved

\* What the invariant says of the ends.
LEMMA EndFacts ==
  ASSUME IInv, NEW e \in End
  PROVE  LET n == conn[Peer(e)].sender.stream.written
             f == conn[Peer(e)].sender.stream.input_end
         IN  /\ Held(e, conn[e], received[e], n, f) /\ Linked(e, conn[e])
             /\ n \in 0 .. StreamLen[Peer(e)] /\ n <= StreamLen[Peer(e)]
             /\ f => n = StreamLen[Peer(e)]
             /\ Continues(conn[e], conn[e])
<1>1. Peer(e) \in End
  BY Ends
<1>2. /\ Linked(e, conn[e]) /\ Linked(Peer(e), conn[Peer(e)])
      /\ HeldBy(e, conn[e], received[e])
  BY <1>1 DEF IInv, HeldBy, Held
<1>. QED  BY <1>1, <1>2, WrittenType DEF HeldBy, Continues

\* A step of one end, which lingers if it did.
LEMMA OneMoves ==
  ASSUME IInv, NEW e \in End, NEW c, NEW d, conn' = [conn EXCEPT ![e] = c],
         DOMAIN received' = End, received'[e] = d,
         \A p \in End : p # e => received'[p] = received[p],
         Follows(e, conn[e], c, d, conn[Peer(e)].sender.stream.written,
                 conn[Peer(e)].sender.stream.input_end)
  PROVE  Moved
<1>1. DOMAIN conn' = End
  BY DEF IInv
<1>2. conn'[e] = c /\ \A p \in End : p # e => conn'[p] = conn[p]
  BY DEF IInv
<1>3. ASSUME NEW p \in End
      PROVE  HeldBy(p, conn'[p], received'[p]) /\ Continues(conn[p], conn'[p])
             /\ conn'[p].linger = conn[p].linger
  <2>1. CASE p = e
    BY <1>2, <2>1 DEF Follows, HeldBy
  <2>2. CASE p # e
    BY <1>2, <2>2, EndFacts DEF HeldBy
  <2>. QED  BY <2>1, <2>2
<1>4. \E p \in End : conn'[p].linger
  BY <1>3 DEF IInv
<1>. QED  BY <1>1, <1>3, <1>4, BothMove

\* The same when nothing is read.
LEMMA OneSends ==
  ASSUME IInv, NEW e \in End, NEW c, conn' = [conn EXCEPT ![e] = c], received' = received,
         Follows(e, conn[e], c, received[e], conn[Peer(e)].sender.stream.written,
                 conn[Peer(e)].sender.stream.input_end)
  PROVE  Moved
  BY OneMoves DEF IInv

-----------------------------------------------------------------------------
\* The application connects ...
LEMMA ConnectHolds ==
  ASSUME Counting, IInv, Connect
  PROVE  Moved
<1>1. /\ Client \in End /\ conn[Client].sender.next_seqno = 0 /\ received' = received
      /\ conn' = [conn EXCEPT ![Client] = connect(conn[Client])]
  BY DEF Connect, End
<1>2. Onward(Client, conn[Client], connect(conn[Client]))
  BY <1>1, EndFacts, Connects
<1>. QED  BY <1>1, <1>2, EndFacts, HeldOnward, OneSends

\* ... writes ...
LEMMA WriteHolds ==
  ASSUME Counting, IInv, NEW e \in End, NEW n \in 1 .. SendCapacity, Write(e, n)
  PROVE  Moved
<1>. DEFINE c == conn[e]
            w == c.sender.stream.written
            d == write(c, [i \in 1 .. n |-> w + i - 1])
<1>1. /\ n <= Stream!remaining_capacity(c.sender.stream) /\ w + n <= StreamLen[e]
      /\ conn' = [conn EXCEPT ![e] = d] /\ received' = received
  BY DEF Write
<1>2. n \in Nat \ {0}
  BY PairAssumption, SMTT(40)
<1>3. Wrote(e, c, w + n, c.sender.stream.input_end, d)
  BY <1>1, <1>2, EndFacts, Writes
<1>. HIDE DEF d
<1>4. w <= w + n
  <2>1. w \in Nat
    BY EndFacts, WrittenType
  <2>. HIDE DEF w
  <2>. QED  BY <1>2, <2>1, SMTT(40)
<1>5. Follows(e, c, d, received[e], conn[Peer(e)].sender.stream.written,
              conn[Peer(e)].sender.stream.input_end)
  BY <1>3, <1>4, EndFacts, HeldWrote
<1>. QED  BY <1>1, <1>5, OneSends

\* ... ends its stream ...
LEMMA EndInputHolds ==
  ASSUME Counting, IInv, NEW e \in End, EndInput(e)
  PROVE  Moved
<1>. DEFINE c == conn[e]
            d == end_input_stream(c)
<1>1. /\ c.sender.stream.written = StreamLen[e]
      /\ conn' = [conn EXCEPT ![e] = d] /\ received' = received
  BY DEF EndInput
<1>2. Wrote(e, c, c.sender.stream.written, TRUE, d)
  BY <1>1, EndFacts, EndsInput
<1>. HIDE DEF d
<1>3. c.sender.stream.written <= c.sender.stream.written
  BY EndFacts, WrittenType
<1>4. Follows(e, c, d, received[e], conn[Peer(e)].sender.stream.written,
              conn[Peer(e)].sender.stream.input_end)
  BY <1>2, <1>3, EndFacts, HeldWrote
<1>. QED  BY <1>1, <1>4, OneSends

\* ... and reads.
LEMMA ReadHolds ==
  ASSUME IInv, NEW e \in End, NEW n \in 1 .. RecvCapacity, Read(e, n)
  PROVE  Moved
<1>. DEFINE c == conn[e]
            d == [c EXCEPT !.receiver.reassembler.output = Stream!pop_output(@, n)]
            more == received[e] \o Stream!peek_output(inbound_stream(c), n)
<1>1. /\ n <= Stream!buffer_size(inbound_stream(c))
      /\ conn' = [conn EXCEPT ![e] = d] /\ received' = [received EXCEPT ![e] = more]
  BY DEF Read
<1>2. n \in Nat
  BY PairAssumption, SMTT(40)
<1>3. Follows(e, c, d, more, conn[Peer(e)].sender.stream.written,
              conn[Peer(e)].sender.stream.input_end)
  BY <1>1, <1>2, EndFacts, HeldRead
<1>. HIDE DEF d, more
<1>4. /\ DOMAIN received' = End /\ received'[e] = more
      /\ \A p \in End : p # e => received'[p] = received[p]
  BY <1>1 DEF IInv
<1>. QED  BY <1>1, <1>3, <1>4, OneMoves

\* Time passes.
LEMMA TickHolds ==
  ASSUME Counting, IInv, NEW E, Tick(E)
  PROVE  Moved
<1>1. /\ received' = received
      /\ conn' = [e \in End |-> IF e \in E THEN tick(conn[e], TickMs) ELSE conn[e]]
  BY DEF Tick
<1>2. DOMAIN conn' = End /\ DOMAIN received' = End
  BY <1>1 DEF IInv
<1>3. ASSUME NEW e \in End
      PROVE  /\ HeldBy(e, conn'[e], received'[e]) /\ Continues(conn[e], conn'[e])
             /\ conn'[e].linger = conn[e].linger
  <2>1. CASE conn'[e] = conn[e]
    BY <1>1, <2>1, EndFacts DEF HeldBy
  <2>2. CASE conn'[e] = tick(conn[e], TickMs)
    <3>1. ClockedOn(e, conn[e], tick(conn[e], TickMs))
      BY EndFacts, ConnectionTicks
    <3>2. Follows(e, conn[e], conn'[e], received'[e], conn[Peer(e)].sender.stream.written,
                  conn[Peer(e)].sender.stream.input_end)
      BY <1>1, <2>2, <3>1, EndFacts, HeldClockedOn
    <3>. QED  BY <3>2 DEF Follows, HeldBy
  <2>. QED  BY <1>1, <2>1, <2>2
<1>4. \E e \in End : conn'[e].linger
  BY <1>3 DEF IInv
<1>. QED  BY <1>2, <1>3, <1>4, BothMove

\* The network loses a segment ...
LEMMA LoseHolds ==
  ASSUME IInv, NEW e \in End, Lose(e)
  PROVE  Moved
<1>. DEFINE c == conn[e]
            d == [c EXCEPT !.segments_out = Tail(@)]
            S == Truthful(e, c.sender.stream.written, c.sender.stream.input_end)
            q == c.segments_out
<1>1. /\ q # << >> /\ conn' = [conn EXCEPT ![e] = d] /\ received' = received
  BY DEF Lose
<1>2. Tail(q) \in Seq(S)
  <2>1. q \in Seq(S)
    BY EndFacts DEF Linked
  <2>. HIDE DEF S, q
  <2>. QED  BY <1>1, <2>1, SMTT(40)
<1>3. Follows(e, c, d, received[e], conn[Peer(e)].sender.stream.written,
              conn[Peer(e)].sender.stream.input_end)
  BY <1>2, EndFacts, HeldDequeued
<1>. QED  BY <1>1, <1>3, OneSends

\* ... and hands one to the other end, with or without keeping it.
LEMMA HandedOver ==
  ASSUME Counting, ReceiverKeeps, ShortStreams, IInv, NEW e \in End, NEW seg, NEW c,
         seg \in Truthful(e, conn[e].sender.stream.written, conn[e].sender.stream.input_end),
         Follows(e, conn[e], c, received[e], conn[Peer(e)].sender.stream.written,
                 conn[Peer(e)].sender.stream.input_end),
         DOMAIN conn' = End, conn'[e] = c, received' = received,
         conn'[Peer(e)] = segment_received(conn[Peer(e)], seg)
  PROVE  Moved
<1>. DEFINE p == Peer(e)
            d == segment_received(conn[p], seg)
<1>1. p \in End /\ Peer(p) = e /\ \A a \in End : a = e \/ a = p
  BY Ends DEF End, Peer
<1>2. /\ Held(p, d, received[p], conn[e].sender.stream.written, conn[e].sender.stream.input_end)
      /\ Continues(conn[p], d)
      /\ conn[p].linger /\ ~d.linger => ~conn[p].sender.stream.input_end
  BY <1>1, EndFacts, HeldSegment
<1>. HIDE DEF d
<1>3. \A a \in End : HeldBy(a, conn'[a], received'[a]) /\ Continues(conn[a], conn'[a])
  BY <1>1, <1>2 DEF HeldBy, Follows, d
<1>4. \E a \in End : conn'[a].linger
  <2>1. c.linger = conn[e].linger
    BY DEF Follows
  <2>2. conn[e].linger \/ conn[p].linger
    BY <1>1 DEF IInv
  <2>3. ~conn[e].linger => conn[p].sender.stream.input_end
    BY EndFacts DEF Held
  <2>. QED  BY <1>1, <1>2, <2>1, <2>2, <2>3 DEF d
<1>5. DOMAIN received' = End
  BY DEF IInv
<1>. QED  BY <1>3, <1>4, <1>5, BothMove

\* A queue without its i-th segment.
LEMMA WithoutOne ==
  ASSUME NEW S, NEW q \in Seq(S), NEW i \in DOMAIN q
  PROVE  Without(q, i) \in Seq(S) /\ q[i] \in S
<1>1. Len(q) \in Nat /\ i \in 1 .. Len(q) /\ q[i] \in S
  BY SMTT(40)
<1>2. SubSeq(q, 1, i - 1) \in Seq(S) /\ SubSeq(q, i + 1, Len(q)) \in Seq(S)
  BY <1>1, SMTT(40)
<1>3. SubSeq(q, 1, i - 1) \o SubSeq(q, i + 1, Len(q)) \in Seq(S)
  BY <1>2, SMTT(40)
<1>. QED  BY <1>1, <1>3 DEF Without

\* A delivered segment leaves one queue and is handed to the other end's
\* segment_received; any segment of the queue may be the next.
LEMMA DeliverHolds ==
  ASSUME Counting, ReceiverKeeps, ShortStreams, IInv,
         NEW e \in End, NEW i \in DOMAIN conn[e].segments_out, Deliver(e, i)
  PROVE  Moved
<1>. DEFINE c == conn[e]
            q == c.segments_out
            d == [c EXCEPT !.segments_out = Without(q, i)]
            S == Truthful(e, c.sender.stream.written, c.sender.stream.input_end)
            p == Peer(e)
<1>1. p \in End /\ p # e
  BY Ends
<1>2. /\ conn' = [conn EXCEPT ![e].segments_out = Without(@, i),
                              ![p] = segment_received(@, q[i])]
      /\ received' = received
  BY DEF Deliver
<1>3. /\ DOMAIN conn' = End /\ conn'[e] = d
      /\ conn'[p] = segment_received(conn[p], q[i])
  BY <1>1, <1>2 DEF IInv
<1>4. q \in Seq(S)
  BY EndFacts DEF Linked
<1>5. Without(q, i) \in Seq(S) /\ q[i] \in S
  <2>. HIDE DEF S, q
  <2>. QED  BY <1>4, WithoutOne DEF q
<1>6. Follows(e, c, d, received[e], conn[Peer(e)].sender.stream.written,
              conn[Peer(e)].sender.stream.input_end)
  BY <1>5, EndFacts, HeldDequeued
<1>. QED  BY <1>2, <1>3, <1>5, <1>6, HandedOver

\* A duplicate is handed over as well and stays in the queue.
LEMMA DuplicateHolds ==
  ASSUME Counting, ReceiverKeeps, ShortStreams, IInv, NEW e \in End, Duplicate(e)
  PROVE  Moved
<1>. DEFINE c == conn[e]
            q == c.segments_out
            S == Truthful(e, c.sender.stream.written, c.sender.stream.input_end)
            p == Peer(e)
<1>1. p \in End /\ p # e
  BY Ends
<1>2. /\ q # << >> /\ conn' = [conn EXCEPT ![p] = segment_received(@, Head(q))]
      /\ received' = received
  BY DEF Duplicate
<1>3. /\ DOMAIN conn' = End /\ conn'[e] = c
      /\ conn'[p] = segment_received(conn[p], Head(q))
  BY <1>1, <1>2 DEF IInv
<1>4. q \in Seq(S)
  BY EndFacts DEF Linked
<1>5. Head(q) \in S
  <2>. HIDE DEF S, q
  <2>. QED  BY <1>2, <1>4, SMTT(40)
<1>6. Follows(e, c, c, received[e], conn[Peer(e)].sender.stream.written,
              conn[Peer(e)].sender.stream.input_end)
  BY EndFacts DEF Follows
<1>. QED  BY <1>2, <1>3, <1>5, <1>6, HandedOver

\* A new connection.
LEMMA NewLinked ==
  ASSUME NEW e \in End
  PROVE  LET c == NewConnection(SendCapacity, RecvCapacity, Isn[e])
         IN  /\ Held(e, c, << >>, 0, FALSE) /\ c.linger
             /\ c.sender.stream.written = 0 /\ c.sender.stream.input_end = FALSE
<1>. DEFINE c == NewConnection(SendCapacity, RecvCapacity, Isn[e])
            s == Sender!NewSender(SendCapacity, RtTimeout, Isn[e])
            t == Sender!NewByteStream(SendCapacity)
            z == Sender!Segment(0)
<1>1. /\ ConnFields \subseteq DOMAIN c /\ c.sender = s /\ c.segments_out = << >> /\ c.linger = TRUE
      /\ c.receiver = Receiver!NewReceiver(RecvCapacity)
  BY SMTT(40) DEF NewConnection, ConnFields
<1>2. /\ SenderFields \subseteq DOMAIN s /\ s.isn = Isn[e] /\ s.stream = t
      /\ s.segments_out = << >> /\ s.next_seqno = 0 /\ s.outstanding = << >>
      /\ s.win_size = 0 /\ s.rx_times = 0 /\ s.zero_win_seg_send = FALSE
      /\ s.zero_win_seg = z
  BY SMTT(40) DEF Sender!NewSender, SenderFields
<1>3. /\ StreamFields \subseteq DOMAIN t /\ t.capacity = SendCapacity /\ t.buffer = << >>
      /\ t.written = 0 /\ t.read = 0 /\ t.input_end = FALSE
  BY SMTT(40) DEF Sender!NewByteStream, StreamFields
<1>4. z \in Segments /\ ~z.syn /\ ~z.ack /\ ~z.fin
  <2>1. << >> \in Seq(Nat) /\ 0 \in Nat
    BY SMTT(40)
  <2>. QED  BY <2>1, SMTT(40) DEF Sender!Segment, Segments
<1>. HIDE DEF c, s, t, z
<1>5. Outbound(e, t)
  <2>1. << >> = Run(0, 0)
    BY RunEmpty, SMTT(40)
  <2>2. 0 \in 0 .. StreamLen[e] /\ 0 \in 0 .. 0 /\ SendCapacity \in Nat
    BY Ends, PairAssumption, SMTT(40)
  <2>. QED  BY <1>3, <2>1, <2>2 DEF Outbound
<1>6. Sending(e, s)
  <2>1. DOMAIN s.outstanding = {} /\ \A T : << >> \in Seq(T)
    BY <1>2, SMTT(40)
  <2>2. Queued(e, s)
    BY <1>2, <2>1 DEF Queued
  <2>3. Probe(e, s)
    BY <1>2, <1>4 DEF Probe
  <2>4. Position(e, s)
    BY <1>2, <1>3 DEF Position
  <2>5. 0 \in Nat
    BY SMTT(40)
  <2>. QED  BY <1>2, <1>5, <2>2, <2>3, <2>4, <2>5 DEF Sending
<1>7. Receiving(e, c.receiver, << >>, 0, FALSE)
  BY <1>1, ReceivesNothing
<1>8. Linked(e, c)
  <2>1. 0 <= StreamLen[Peer(e)] /\ \A T : << >> \in Seq(T)
    BY Ends, SMTT(40)
  <2>2. Acking(e, c.receiver)
    BY <1>7, <2>1, ReceivingAcks
  <2>. QED  BY <1>1, <1>6, <2>1, <2>2 DEF Linked
<1>9. c.sender.rx_times <= MaxRetx
  BY <1>1, <1>2, ConnectionAssumption, SMTT(40)
<1>. QED  BY <1>1, <1>2, <1>3, <1>7, <1>8, <1>9 DEF Held, c

\* The initial state.
LEMMA InitHolds ==
  ASSUME Init
  PROVE  IInv
<1>1. /\ DOMAIN conn = End /\ DOMAIN received = End
      /\ \A e \in End : /\ conn[e] = NewConnection(SendCapacity, RecvCapacity, Isn[e])
                        /\ received[e] = << >>
  BY DEF Init
<1>2. ASSUME NEW e \in End PROVE HeldBy(e, conn[e], received[e]) /\ conn[e].linger
  BY <1>1, Ends, NewLinked DEF HeldBy
<1>. QED  BY <1>1, <1>2 DEF IInv, End

\* Every step.
LEMMA NextHolds ==
  ASSUME Counting, ReceiverKeeps, ShortStreams, IInv, [Next]_vars
  PROVE  Moved
<1>1. CASE Next
  BY <1>1, ConnectHolds, TickHolds, WriteHolds, EndInputHolds, ReadHolds, DeliverHolds,
     DuplicateHolds, LoseHolds DEF Next
<1>2. CASE UNCHANGED vars
  <2>1. conn' = conn /\ received' = received
    BY <1>2 DEF vars
  <2>2. IInv'
    BY <2>1 DEF IInv, HeldBy
  <2>3. \A e \in End : Continues(conn[e], conn'[e])
    BY <2>1, EndFacts
  <2>. QED  BY <2>2, <2>3 DEF Moved
<1>. QED  BY <1>1, <1>2

-----------------------------------------------------------------------------
(***************************************************************************)
(* What the invariant says.                                                *)
(***************************************************************************)
\* The counters of the senders.
LEMMA InvTypes ==
  ASSUME IInv
  PROVE  TypeOK
<1>1. SUFFICES ASSUME NEW e \in End
               PROVE  /\ conn[e].sender.next_seqno \in 0 .. StreamLen[e] + 3
                      /\ conn[e].sender.stream.written \in 0 .. StreamLen[e]
                      /\ conn[e].sender.rx_times \in 0 .. MaxRetx + 1
                      /\ conn[e].linger \in BOOLEAN
  BY DEF TypeOK
<1>. DEFINE c == conn[e]
            s == c.sender
<1>2. /\ Linked(e, c) /\ c.linger \in BOOLEAN
      /\ s.rx_times <= MaxRetx \/ s.rx_times <= MaxRetx + 1
  BY EndFacts DEF Held
<1>3. /\ s.stream.written \in 0 .. StreamLen[e] /\ s.rx_times \in Nat /\ StreamLen[e] \in Nat
      /\ MaxRetx \in Nat
  BY <1>2, WrittenType, Ends, ConnectionAssumption
<1>4. Position(e, s) /\ s.stream.read \in 0 .. s.stream.written
  BY <1>2 DEF Linked, Sending, Outbound
<1>5. s.next_seqno \in 0 .. StreamLen[e] + 3
  BY <1>3, <1>4, SMTT(40) DEF Position
<1>6. s.rx_times \in 0 .. MaxRetx + 1
  BY <1>2, <1>3, SMTT(40)
<1>. QED  BY <1>2, <1>3, <1>5, <1>6

\* The inbound streams.
LEMMA InvStreams ==
  ASSUME IInv
  PROVE  NothingInvented
<1>1. ASSUME NEW e \in End
      PROVE  LET t == inbound_stream(conn[e])
                 s == conn[Peer(e)].sender.stream
             IN  /\ received[e] \o t.buffer = [i \in 1 .. t.written |-> i - 1]
                 /\ t.written <= s.written
                 /\ t.input_end => s.input_end
  <2>. DEFINE t == inbound_stream(conn[e])
              s == conn[Peer(e)].sender.stream
  <2>1. Inbound(t, received[e], s.written, s.input_end)
    BY EndFacts DEF Held, Receiving, inbound_stream, Receiver!stream_out
  <2>2. t.written \in Nat
    <3>1. t.written \in 0 .. Horizon
      BY <2>1 DEF Inbound
    <3>. HIDE DEF t
    <3>. QED  BY <3>1, SMTT(40)
  <2>. HIDE DEF t, s
  <2>3. Run(0, t.written) = [i \in 1 .. t.written |-> i - 1]
    BY <2>2, SMTT(40) DEF Run
  <2>. QED  BY <2>1, <2>3 DEF Inbound, t, s
<1>. QED  BY <1>1 DEF NothingInvented

\* What an application has read is the beginning of what the other has written.
LEMMA ReadSoFar ==
  ASSUME NEW e \in End, NEW c, NEW h, NEW d, Linked(e, c),
         Held(Peer(e), h, d, c.sender.stream.written, c.sender.stream.input_end)
  PROVE  LET n == c.sender.stream.written
         IN  /\ d = Run(0, Len(d)) /\ Len(d) \in Nat /\ Len(d) <= n /\ n \in Nat
             /\ [i \in 1 .. n |-> i - 1] = Run(0, n)
<1>. DEFINE n == c.sender.stream.written
            b == h.receiver.reassembler.output.buffer
            w == h.receiver.reassembler.output.written
<1>1. d \in Seq(Nat) /\ b \in Seq(Nat) /\ w \in 0 .. Horizon /\ d \o b = Run(0, w) /\ w <= n
  BY DEF Held, Receiving, Inbound
<1>2. n \in Nat
  BY WrittenType
<1>. HIDE DEF b, w, n
<1>3. [i \in 1 .. n |-> i - 1] = Run(0, n)
  BY <1>2, SMTT(40) DEF Run
<1>4. w \in Nat /\ 0 <= w /\ 0 \in Nat
  BY <1>1, SMTT(40)
<1>5. Run(0, w) \in Seq(Nat) /\ Len(Run(0, w)) = w - 0
  BY <1>4, RunType
<1>6. Len(d) \in Nat /\ Len(d) <= w
  BY <1>1, <1>4, <1>5, SMTT(40)
<1>7. d = Run(0, Len(d))
  <2>1. SubSeq(d \o b, 1, Len(d)) = d
    BY <1>1, SMTT(40)
  <2>2. 0 \in 0 .. w - 0 /\ Len(d) \in 0 .. w - 0 /\ 0 + 1 = 1 /\ 0 + 0 = 0 /\ 0 + Len(d) = Len(d)
    BY <1>4, <1>6, SMTT(40)
  <2>3. SubSeq(Run(0, w), 0 + 1, Len(d)) = Run(0 + 0, 0 + Len(d))
    BY <1>4, <2>2, RunSub
  <2>. QED  BY <1>1, <2>1, <2>2, <2>3
<1>8. Len(d) <= n
  BY <1>1, <1>2, <1>4, <1>6, SMTT(40)
<1>. QED  BY <1>2, <1>3, <1>6, <1>7, <1>8 DEF n

\* A step of the application that reads changes nothing at the other end.
LEMMA ReadsOn ==
  ASSUME IInv, [Next]_vars, NEW e \in End
  PROVE  LET p == Peer(e)
         IN  \/ received'[p] = received[p]
             \/ conn'[e] = conn[e] /\ Len(received[p]) <= Len(received'[p])
<1>. DEFINE p == Peer(e)
<1>1. CASE received' = received
  BY <1>1
<1>2. ASSUME NEW x \in End, NEW n \in 1 .. RecvCapacity, Read(x, n)
      PROVE  \/ received'[p] = received[p]
             \/ conn'[e] = conn[e] /\ Len(received[p]) <= Len(received'[p])
  <2>. DEFINE t == inbound_stream(conn[x])
              more == Stream!peek_output(t, n)
  <2>1. /\ n <= Stream!buffer_size(t)
        /\ received' = [received EXCEPT ![x] = @ \o more]
        /\ conn' = [conn EXCEPT ![x].receiver.reassembler.output = Stream!pop_output(@, n)]
    BY <1>2 DEF Read
  <2>2. p \in End /\ p # e
    BY Ends
  <2>3. CASE x # p
    BY <2>1, <2>2, <2>3 DEF IInv
  <2>4. CASE x = p
    <3>1. conn'[e] = conn[e]
      BY <2>1, <2>2, <2>4 DEF IInv
    <3>2. received'[p] = received[p] \o more
      BY <2>1, <2>2, <2>4 DEF IInv
    <3>3. received[p] \in Seq(Nat) /\ t.buffer \in Seq(Nat) /\ n <= Len(t.buffer) /\ n \in Nat
      <4>1. Inbound(t, received[p], conn[Peer(p)].sender.stream.written,
                    conn[Peer(p)].sender.stream.input_end)
        BY <2>2, <2>4, EndFacts DEF Held, Receiving, inbound_stream, Receiver!stream_out
      <4>2. n \in Nat
        BY PairAssumption, SMTT(40)
      <4>. QED  BY <2>1, <4>1, <4>2 DEF Inbound, Stream!buffer_size
    <3>4. more = SubSeq(t.buffer, 1, n)
      <4>. HIDE DEF t
      <4>1. Len(t.buffer) \in Nat
        BY <3>3, LenOfSeq
      <4>2. Stream!Lesser(n, Len(t.buffer)) = n
        BY <3>3, <4>1, SMTT(40) DEF Stream!Lesser
      <4>. QED  BY <4>2 DEF Stream!peek_output
    <3>. HIDE DEF t, more
    <3>5. more \in Seq(Nat)
      BY <3>3, <3>4, SMTT(40)
    <3>6. Len(received[p]) <= Len(received[p] \o more)
      <4>. DEFINE d == received[p]
      <4>1. d \in Seq(Nat)
        BY <3>3
      <4>. HIDE DEF d
      <4>2. Len(d) <= Len(d \o more)
        BY <3>5, <4>1, SMTT(40)
      <4>. QED  BY <4>2 DEF d
    <3>. QED  BY <3>1, <3>2, <3>6
  <2>. QED  BY <2>3, <2>4
<1>. QED  BY <1>1, <1>2 DEF Next, Connect, Tick, Write, EndInput, Deliver, Duplicate, Lose, vars

\* The bytes of one direction: sent, f and d become new, g and h in a step of
\* the abstract stream.
BytesMove(sent, new, f, g, d, h) ==
  \/ ~f /\ new = sent \o SubSeq(new, Len(sent) + 1, Len(new)) /\ g = f /\ h = d
  \/ g = TRUE /\ new = sent /\ h = d
  \/ (\E k \in Len(d) .. Len(sent) : h = SubSeq(sent, 1, k)) /\ new = sent /\ g = f

\* Every step of the system is such a step.
LEMMA BytesStep ==
  ASSUME IInv, Moved, [Next]_vars, NEW e \in End
  PROVE  BytesMove(BytesWritten(e), BytesWritten(e)', conn[e].sender.stream.input_end,
                   conn'[e].sender.stream.input_end, received[Peer(e)], received'[Peer(e)])
<1>. DEFINE p == Peer(e)
            n == conn[e].sender.stream.written
            m == conn'[e].sender.stream.written
            sent == [i \in 1 .. n |-> i - 1]
            new == [i \in 1 .. m |-> i - 1]
            f == conn[e].sender.stream.input_end
            g == conn'[e].sender.stream.input_end
            d == received[p]
            h == received'[p]
<1>. SUFFICES BytesMove(sent, new, f, g, d, h)
  BY DEF BytesWritten
<1>1. p \in End /\ Peer(p) = e
  BY Ends
<1>2. /\ Linked(e, conn[e]) /\ Held(p, conn[p], d, n, f)
      /\ Linked(e, conn'[e]) /\ Held(p, conn'[p], h, m, g)
  BY <1>1 DEF IInv, Moved, HeldBy, Held
<1>3. /\ d = Run(0, Len(d)) /\ Len(d) \in Nat /\ Len(d) <= n /\ n \in Nat /\ sent = Run(0, n)
      /\ h = Run(0, Len(h)) /\ Len(h) \in Nat /\ Len(h) <= m /\ m \in Nat /\ new = Run(0, m)
  BY <1>2, ReadSoFar
<1>4. /\ f \in BOOLEAN /\ g \in BOOLEAN /\ (f => n = StreamLen[e]) /\ m <= StreamLen[e]
      /\ StreamLen[e] \in Nat
  BY <1>2, WrittenType, Ends
<1>5. n <= m /\ (f => g) /\ (g => f \/ m = n)
  BY DEF Moved, Continues
<1>6. h = d \/ (conn'[e] = conn[e] /\ Len(d) <= Len(h))
  BY ReadsOn
<1>7. CASE h = d
  <2>1. CASE g
    <3>1. m = n
      BY <1>3, <1>4, <1>5, <2>1, SMTT(40)
    <3>2. new = sent /\ g = TRUE
      BY <1>4, <2>1, <3>1
    <3>. HIDE DEF n, m, sent, new, d, h, f, g
    <3>. QED  BY <1>7, <3>2 DEF BytesMove
  <2>2. CASE ~g
    <3>1. ~f
      BY <1>5, <2>2
    <3>. HIDE DEF n, m, sent, new, d, h, f, g
    <3>2. 0 \in Nat /\ 0 <= n /\ 0 <= m /\ n \in 0 .. m - 0 /\ m \in n .. m - 0 /\ 0 + n = n /\ 0 + m = m
          /\ n - 0 = n /\ m - 0 = m
      BY <1>3, <1>5, SMTT(40)
    <3>3. Len(sent) = n /\ Len(new) = m
      BY <1>3, <3>2, RunType
    <3>4. SubSeq(Run(0, m), n + 1, m) = Run(0 + n, 0 + m)
      BY <1>3, <3>2, RunSub
    <3>5. Run(0, n) \o Run(n, m) = Run(0, m)
      BY <1>3, <1>5, <3>2, RunJoin
    <3>6. new = sent \o SubSeq(new, Len(sent) + 1, Len(new))
      BY <1>3, <3>2, <3>3, <3>4, <3>5
    <3>. QED  BY <1>4, <1>7, <2>2, <3>1, <3>6 DEF BytesMove
  <2>. QED  BY <2>1, <2>2
<1>8. CASE conn'[e] = conn[e] /\ Len(d) <= Len(h)
  <2>1. new = sent /\ g = f /\ m = n
    BY <1>8
  <2>. HIDE DEF n, m, sent, new, d, h, f, g
  <2>2. 0 \in Nat /\ 0 <= n /\ n - 0 = n /\ 0 \in 0 .. n - 0 /\ Len(h) \in 0 .. n - 0 /\ 0 + 0 = 0
        /\ 0 + 1 = 1 /\ 0 + Len(h) = Len(h) /\ Len(h) \in Len(d) .. n
    BY <1>3, <1>8, <2>1, SMTT(40)
  <2>3. Len(sent) = n
    BY <1>3, <2>2, RunType
  <2>4. SubSeq(Run(0, n), 0 + 1, Len(h)) = Run(0 + 0, 0 + Len(h))
    BY <1>3, <2>2, RunSub
  <2>5. h = SubSeq(sent, 1, Len(h))
    BY <1>3, <2>2, <2>4
  <2>6. \E k \in Len(d) .. Len(sent) : h = SubSeq(sent, 1, k)
    BY <2>2, <2>3, <2>5
  <2>. QED  BY <2>1, <2>6 DEF BytesMove
<1>. QED  BY <1>6, <1>7, <1>8

\* So it holds throughout, and with it what it says; the theorems repeat this
\* without the hypotheses on the receiver and on counting.
LEMMA InvAlways ==
  ASSUME ShortStreams, Counting, ReceiverKeeps
  PROVE  Spec => []IInv
<1>1. Init => IInv
  BY InitHolds
<1>2. IInv /\ [Next]_vars => IInv'
  BY NextHolds DEF Moved
<1>. QED  BY <1>1, <1>2, PTL DEF Spec

\* The connection's bounds, its lingering end and its bytes.
LEMMA PairSafe ==
  ASSUME ShortStreams, Counting, ReceiverKeeps
  PROVE  Spec => [](TypeOK /\ SomeoneLingers /\ NothingInvented)
<1>1. IInv => TypeOK /\ SomeoneLingers /\ NothingInvented
  BY InvTypes, InvStreams DEF IInv, SomeoneLingers
<1>. QED  BY <1>1, InvAlways, PTL
=============================================================================
