----------------------------- MODULE StreamProofs ---------------------------
(***************************************************************************)
(* What bidirectional_stream_copy keeps of the bytes, when it passes on an *)
(* end, when it returns and when it throws (StreamCopy), for every size of *)
(* the buffers, every copy length and any number of bytes. First the byte  *)
(* streams and the four callbacks: CopyInv relates what the process        *)
(* believes of each direction to the bytes on their way, and every         *)
(* callback that poll wakes for a reason keeps CopyInv and the bytes. Then *)
(* the event loop, then the actions of the process, which are compositions *)
(* of those operators, and the steps of the user and the peer.             *)
(*                                                                         *)
(* Last, what a ByteStream by itself keeps of the bytes                    *)
(* (ByteStreamProcess).                                                    *)
(***************************************************************************)
EXTENDS StreamCopy, ByteStreamProcess, Integers, TLAPS

(***************************************************************************)
(* Facts about sequences.  The elementary ones are known to the SMT        *)
(* backend; they are stated here to be cited where Zenon does the rest.    *)
(***************************************************************************)


\* A sequence is a function on 1 .. its length.
LEMMA LenOfSeq ==
  ASSUME NEW S, NEW s \in Seq(S)
  PROVE  Len(s) \in Nat /\ DOMAIN s = 1 .. Len(s) /\ s \in [1 .. Len(s) -> S]
  OBVIOUS

\* A function on 1 .. n is a sequence of length n.
LEMMA FunctionIsSeq ==
  ASSUME NEW S, NEW n \in Nat, NEW f \in [1 .. n -> S]
  PROVE  f \in Seq(S) /\ Len(f) = n
  OBVIOUS

\* Its elements.
LEMMA SeqElement ==
  ASSUME NEW S, NEW s \in Seq(S), NEW i \in 1 .. Len(s)
  PROVE  s[i] \in S
  OBVIOUS

\* Only the empty sequence has length 0.
LEMMA EmptySeqLen ==
  ASSUME NEW S
  PROVE  /\ << >> \in Seq(S) /\ Len(<< >>) = 0
         /\ \A s \in Seq(S) : s # << >> => Len(s) \in Nat \ {0}
  OBVIOUS

\* Sequences that agree at every place are the same.
LEMMA SameSeq ==
  ASSUME NEW S, NEW s \in Seq(S), NEW t \in Seq(S), Len(s) = Len(t),
         \A i \in 1 .. Len(s) : s[i] = t[i]
  PROVE  s = t
  OBVIOUS

\* Two sequences joined.
LEMMA Concatenation ==
  ASSUME NEW S, NEW s \in Seq(S), NEW t \in Seq(S)
  PROVE  /\ s \o t \in Seq(S) /\ Len(s \o t) = Len(s) + Len(t)
         /\ \A i \in 1 .. Len(s) + Len(t) :
              (s \o t)[i] = IF i <= Len(s) THEN s[i] ELSE t[i - Len(s)]
  OBVIOUS

\* Joining the empty sequence changes nothing.
LEMMA ConcatEmpty ==
  ASSUME NEW S, NEW s \in Seq(S)
  PROVE  s \o << >> = s /\ << >> \o s = s
  OBVIOUS

\* A part of a sequence.
LEMMA SubSeqSlice ==
  ASSUME NEW S, NEW s \in Seq(S), NEW m \in 1 .. Len(s) + 1, NEW n \in m - 1 .. Len(s)
  PROVE  /\ SubSeq(s, m, n) \in Seq(S) /\ Len(SubSeq(s, m, n)) = n - m + 1
         /\ \A i \in 1 .. n - m + 1 : SubSeq(s, m, n)[i] = s[m + i - 1]
  OBVIOUS

\* All of a sequence.
LEMMA SubSeqWhole ==
  ASSUME NEW S, NEW s \in Seq(S)
  PROVE  SubSeq(s, 1, Len(s)) = s
  OBVIOUS

\* An element appended.
LEMMA Appended ==
  ASSUME NEW S, NEW s \in Seq(S), NEW e \in S
  PROVE  /\ Append(s, e) \in Seq(S) /\ Append(s, e) # << >>
         /\ Len(Append(s, e)) = Len(s) + 1
         /\ \A i \in 1 .. Len(s) : Append(s, e)[i] = s[i]
         /\ Append(s, e)[Len(s) + 1] = e
         /\ Append(s, e) = s \o <<e>>
  OBVIOUS

\* The first element and the others.
LEMMA HeadAndTail ==
  ASSUME NEW S, NEW s \in Seq(S), s # << >>
  PROVE  /\ Head(s) \in S /\ Tail(s) \in Seq(S) /\ Len(Tail(s)) = Len(s) - 1
         /\ \A i \in 1 .. Len(Tail(s)) : Tail(s)[i] = s[i + 1]
  OBVIOUS

(***************************************************************************)
(* What the bytes taken from the front and the bytes left over have to do  *)
(* with each other: split anywhere, a sequence is the two parts joined.    *)
(* peek_output and pop_output split the buffer at the same place.          *)
(***************************************************************************)
LEMMA SplitSeq ==
  ASSUME NEW S, NEW s \in Seq(S), NEW n \in 0 .. Len(s)
  PROVE  /\ SubSeq(s, 1, n) \in Seq(S)
         /\ SubSeq(s, n + 1, Len(s)) \in Seq(S)
         /\ Len(SubSeq(s, 1, n)) = n
         /\ Len(SubSeq(s, n + 1, Len(s))) = Len(s) - n
         /\ s = SubSeq(s, 1, n) \o SubSeq(s, n + 1, Len(s))
<1>. DEFINE p == SubSeq(s, 1, n)
            q == SubSeq(s, n + 1, Len(s))
<1>1. /\ Len(s) \in Nat
      /\ \A i \in 1 .. Len(s) : s[i] \in S
  BY SeqElement, LenOfSeq
<1>2. /\ p \in Seq(S)
      /\ Len(p) = n
      /\ \A i \in 1 .. n : p[i] = s[i]
  BY <1>1, SubSeqSlice
<1>3. /\ q \in Seq(S)
      /\ Len(q) = Len(s) - n
      /\ \A i \in 1 .. Len(s) - n : q[i] = s[n + i]
  BY <1>1, SubSeqSlice
<1>4. s = p \o q
  <2>1. /\ p \o q \in Seq(S) /\ Len(p \o q) = Len(p) + Len(q)
        /\ \A i \in 1 .. Len(p) + Len(q) :
             (p \o q)[i] = IF i <= Len(p) THEN p[i] ELSE q[i - Len(p)]
    BY <1>2, <1>3, Concatenation, Zenon
  <2>. HIDE DEF p, q
  <2>2. Len(p \o q) = Len(s)
    BY <1>1, <1>2, <1>3, <2>1
  <2>3. ASSUME NEW i \in 1 .. Len(s) PROVE (p \o q)[i] = s[i]
    BY <1>1, <1>2, <1>3, <2>1
  <2>. QED  BY <2>1, <2>2, <2>3, SameSeq, Zenon
<1>. QED  BY <1>2, <1>3, <1>4, Zenon

\* Joining sequences is associative.
LEMMA JoinSeqs ==
  ASSUME NEW S, NEW s \in Seq(S), NEW t \in Seq(S), NEW u \in Seq(S)
  PROVE  (s \o t) \o u = s \o (t \o u)
<1>1. s \o t \in Seq(S) /\ t \o u \in Seq(S)
  BY Zenon, Concatenation
<1>2. (s \o t) \o u \in Seq(S) /\ s \o (t \o u) \in Seq(S)
  BY <1>1, Zenon, Concatenation
<1>3. Len((s \o t) \o u) = Len(s \o (t \o u))
  BY SMTT(60)
<1>4. ASSUME NEW i \in 1 .. Len((s \o t) \o u)
      PROVE  ((s \o t) \o u)[i] = (s \o (t \o u))[i]
  BY SMTT(60)
<1>. QED  BY <1>2, <1>3, <1>4, SameSeq, Zenon

\* An element appended to the second of two joined sequences is appended to
\* the whole.
LEMMA JoinAppend ==
  ASSUME NEW S, NEW s \in Seq(S), NEW t \in Seq(S), NEW e \in S
  PROVE  s \o Append(t, e) = Append(s \o t, e)
<1>1. s \o t \in Seq(S) /\ <<e>> \in Seq(S)
  BY Concatenation
<1>2. Append(t, e) = t \o <<e>> /\ Append(s \o t, e) = (s \o t) \o <<e>>
  BY <1>1, Appended
<1>. QED  BY <1>1, <1>2, JoinSeqs

\* The first element of the second sequence moved to the end of the first
\* changes nothing in the whole.
LEMMA MoveHead ==
  ASSUME NEW S, NEW s \in Seq(S), NEW t \in Seq(S), t # << >>
  PROVE  /\ Append(s, Head(t)) \in Seq(S) /\ Tail(t) \in Seq(S)
         /\ Len(Tail(t)) = Len(t) - 1
         /\ Append(s, Head(t)) \o Tail(t) = s \o t
<1>1. /\ Head(t) \in S /\ Tail(t) \in Seq(S) /\ Len(Tail(t)) = Len(t) - 1
      /\ \A i \in 1 .. Len(Tail(t)) : Tail(t)[i] = t[i + 1]
  BY HeadAndTail
<1>2. <<Head(t)>> \in Seq(S) /\ Len(t) \in Nat \ {0}
  BY <1>1, EmptySeqLen
<1>3. t = <<Head(t)>> \o Tail(t)
  <2>1. /\ <<Head(t)>> \o Tail(t) \in Seq(S)
        /\ Len(<<Head(t)>> \o Tail(t)) = 1 + Len(Tail(t))
        /\ \A i \in 1 .. 1 + Len(Tail(t)) :
             (<<Head(t)>> \o Tail(t))[i] = IF i <= 1 THEN <<Head(t)>>[i] ELSE Tail(t)[i - 1]
    BY <1>1, <1>2, Concatenation
  <2>2. Len(t) = Len(<<Head(t)>> \o Tail(t))
    BY <1>1, <1>2, <2>1
  <2>3. \A i \in 1 .. Len(t) : t[i] = (<<Head(t)>> \o Tail(t))[i]
    BY <1>1, <1>2, <2>1
  <2>. QED  BY <2>1, <2>2, <2>3, SameSeq
<1>4. Append(s, Head(t)) = s \o <<Head(t)>> /\ Append(s, Head(t)) \in Seq(S)
  BY <1>1, Appended
<1>5. (s \o <<Head(t)>>) \o Tail(t) = s \o (<<Head(t)>> \o Tail(t))
  BY <1>1, <1>2, JoinSeqs
<1>. QED  BY <1>1, <1>3, <1>4, <1>5, Zenon

-----------------------------------------------------------------------------

\* The bytes of the model.
CopyByte == Nat
Bytes == Seq(CopyByte)

\* The fields a ByteStream and the copying process have.
StreamField == {"capacity", "buffer", "written", "read", "input_end", "error"}
Field == {"rules", "asked", "due", "eof", "closed", "serviced", "thrown", "outbound",
          "inbound", "outbound_shutdown", "inbound_shutdown", "stdin", "stdin_ended",
          "tx", "tx_shut", "rx", "rx_ended", "out", "reset", "sock_error", "out_gone"}

\* A stream of the process: within its capacity and never in error.
GoodStream(s) ==
  /\ StreamField \subseteq DOMAIN s
  /\ s.capacity = BufferSize
  /\ s.buffer \in Bytes
  /\ Len(s.buffer) <= BufferSize
  /\ s.error = FALSE
  /\ s.input_end \in BOOLEAN

\* std::min is one of the two numbers and no more than either.
LEMMA LesserIsMin ==
  ASSUME NEW a \in Nat, NEW b \in Nat
  PROVE  /\ Lesser(a, b) \in 0 .. a
         /\ Lesser(a, b) \in 0 .. b
         /\ a <= b => Lesser(a, b) = a
         /\ b <= a => Lesser(a, b) = b
  BY DEF Lesser

\* What ByteStream::write changes, and what it leaves alone.
LEMMA WriteFields ==
  ASSUME NEW s, NEW data, StreamField \subseteq DOMAIN s
  PROVE  LET n == accepted_size(s, data)
             t == write(s, data)
         IN  /\ StreamField \subseteq DOMAIN t
             /\ t.capacity = s.capacity /\ t.error = s.error /\ t.input_end = s.input_end
             /\ t.buffer = s.buffer \o SubSeq(data, 1, n)
  BY Zenon DEF write, StreamField

\* A write that fits is taken whole: no byte of a read bounded by
\* remaining_capacity is lost (bidirectional_stream_copy.cc:33).
LEMMA WriteAll ==
  ASSUME NEW s, GoodStream(s), NEW data \in Bytes, Len(data) <= remaining_capacity(s)
  PROVE  /\ GoodStream(write(s, data))
         /\ write(s, data).buffer = s.buffer \o data
         /\ write(s, data).input_end = s.input_end
<1>1. Len(s.buffer) \in Nat /\ Len(data) \in Nat /\ BufferSize \in Nat
  BY LenOfSeq, StreamCopyAssumption DEF GoodStream, Bytes
<1>2. accepted_size(s, data) = Len(data)
  <2>1. remaining_capacity(s) \in Nat
    BY <1>1 DEF remaining_capacity, GoodStream
  <2>. QED  BY <1>1, <2>1, LesserIsMin DEF accepted_size
<1>3. SubSeq(data, 1, Len(data)) = data
  BY SubSeqWhole DEF Bytes
<1>4. /\ s.buffer \o data \in Bytes
      /\ Len(s.buffer \o data) = Len(s.buffer) + Len(data)
  BY Concatenation DEF GoodStream, Bytes
<1>5. Len(s.buffer \o data) <= BufferSize
  BY <1>1, <1>4 DEF remaining_capacity, GoodStream
<1>6. /\ StreamField \subseteq DOMAIN write(s, data)
      /\ write(s, data).capacity = s.capacity /\ write(s, data).error = s.error
      /\ write(s, data).input_end = s.input_end
      /\ write(s, data).buffer = s.buffer \o SubSeq(data, 1, accepted_size(s, data))
  BY WriteFields, Zenon DEF GoodStream
<1>7. write(s, data).buffer = s.buffer \o data
  BY <1>2, <1>3, <1>6, Zenon
<1>. QED  BY <1>4, <1>5, <1>6, <1>7, Zenon DEF GoodStream

\* What ByteStream::pop_output changes, and what it leaves alone.
LEMMA PopFields ==
  ASSUME NEW s, NEW len, StreamField \subseteq DOMAIN s
  PROVE  LET n == Lesser(len, Len(s.buffer))
             t == pop_output(s, len)
         IN  /\ StreamField \subseteq DOMAIN t
             /\ t.capacity = s.capacity /\ t.error = s.error /\ t.input_end = s.input_end
             /\ t.buffer = SubSeq(s.buffer, n + 1, Len(s.buffer))
  BY Zenon DEF pop_output, StreamField

\* peek_output and pop_output split the buffer at the same place: what is
\* written to a descriptor is what is taken out (:46-48).
LEMMA PopSplits ==
  ASSUME NEW s, GoodStream(s), NEW len \in Nat
  PROVE  /\ GoodStream(pop_output(s, len))
         /\ peek_output(s, len) \in Bytes
         /\ Len(peek_output(s, len)) = Lesser(len, Len(s.buffer))
         /\ s.buffer = peek_output(s, len) \o pop_output(s, len).buffer
         /\ pop_output(s, len).input_end = s.input_end
<1>. DEFINE n == Lesser(len, Len(s.buffer))
<1>1. Len(s.buffer) \in Nat /\ BufferSize \in Nat
  BY LenOfSeq, StreamCopyAssumption DEF GoodStream, Bytes
<1>2. n \in 0 .. Len(s.buffer)
  BY <1>1, LesserIsMin, Zenon
<1>3. /\ SubSeq(s.buffer, 1, n) \in Bytes
      /\ SubSeq(s.buffer, n + 1, Len(s.buffer)) \in Bytes
      /\ Len(SubSeq(s.buffer, 1, n)) = n
      /\ Len(SubSeq(s.buffer, n + 1, Len(s.buffer))) = Len(s.buffer) - n
      /\ s.buffer = SubSeq(s.buffer, 1, n) \o SubSeq(s.buffer, n + 1, Len(s.buffer))
  BY <1>2, SplitSeq, Zenon DEF GoodStream, Bytes
<1>4. Len(s.buffer) - n <= BufferSize
  BY <1>1, <1>2 DEF GoodStream
<1>. QED  BY <1>3, <1>4, PopFields, Zenon DEF GoodStream, peek_output

\* end_input marks the end and touches nothing else.
LEMMA EndStream ==
  ASSUME NEW s, GoodStream(s)
  PROVE  /\ GoodStream(end_input(s))
         /\ end_input(s).buffer = s.buffer
         /\ end_input(s).input_end = TRUE
<1>1. LET t == end_input(s)
      IN  /\ DOMAIN t = DOMAIN s
          /\ t.capacity = s.capacity /\ t.error = s.error /\ t.input_end = TRUE
          /\ t.buffer = s.buffer
  BY Zenon DEF end_input, StreamField, GoodStream
<1>. QED  BY <1>1, Zenon DEF GoodStream

-----------------------------------------------------------------------------
\* All of it has been read, and no more will come.
StdinOver(v) == v.stdin_ended /\ v.stdin = << >>
SocketOver(v) == OutOfInput(v, "socket") /\ v.rx = << >>

(***************************************************************************)
(* From stdin to the socket: an end is known, ended or shut only behind    *)
(* the data; a rule is gone only when its work is; and what poll reported  *)
(* is still so when the rule is served, for bytes only the process takes.  *)
(***************************************************************************)
UpInv(v) ==
  /\ GoodStream(v.outbound) /\ v.stdin \in Bytes
  /\ v.tx \in Bytes /\ Len(v.tx) <= KernelSize
  /\ "stdin" \in v.eof => StdinOver(v)
  /\ v.outbound.input_end /\ 2 \in v.rules => StdinOver(v)
  /\ v.tx_shut => StdinOver(v) /\ v.outbound.buffer = << >>
  /\ v.outbound_shutdown => v.tx_shut
  /\ 1 \in v.rules \/ v.outbound.input_end
  /\ 2 \in v.rules \/ v.tx_shut \/ v.reset
  /\ <<1, "ready">> \in v.due => v.stdin # << >> \/ v.stdin_ended
  /\ <<2, "hangup">> \in v.due => v.tx_shut \/ v.reset

\* From the socket to stdout, likewise.
DownInv(v) ==
  /\ GoodStream(v.inbound) /\ v.rx \in Bytes
  /\ v.out \in Bytes /\ Len(v.out) <= KernelSize
  /\ "socket" \in v.eof => SocketOver(v)
  /\ v.inbound.input_end => SocketOver(v)
  /\ "stdout" \in v.closed => SocketOver(v) /\ v.inbound.buffer = << >>
  /\ v.closed \subseteq {"stdout"}
  /\ v.inbound_shutdown => "stdout" \in v.closed
  /\ 3 \in v.rules \/ v.inbound.input_end
  /\ 4 \in v.rules \/ "stdout" \in v.closed
  /\ <<3, "ready">> \in v.due => v.rx # << >> \/ OutOfInput(v, "socket")

\* The loop: one result for a rule, a hangup alone only for rule 2, and errors
\* and exceptions only once the connection or the reader of stdout is gone.
Outcomes == {"error", "ready", "hangup"}
LoopInv(v) ==
  /\ v.rules \subseteq 1 .. 4
  /\ v.due \subseteq v.rules \X Outcomes
  /\ \A r \in 1 .. 4 : \A b, c \in Outcomes : <<r, b>> \in v.due /\ <<r, c>> \in v.due => b = c
  /\ \A r \in 1 .. 4 : <<r, "hangup">> \in v.due => r = 2
  /\ \A r \in 1 .. 4 : <<r, "error">> \in v.due => CutOff(v)
  /\ v.sock_error => v.reset
  /\ v.thrown => CutOff(v)

CopyInv(v) == Field \subseteq DOMAIN v /\ UpInv(v) /\ DownInv(v) /\ LoopInv(v)

\* What a step from v to u leaves alone.
SameLoop(v, u) == u.rules = v.rules /\ u.due = v.due /\ u.thrown = v.thrown
SameUp(v, u) ==
  /\ u.stdin = v.stdin /\ u.outbound = v.outbound /\ u.tx = v.tx
  /\ u.tx_shut = v.tx_shut /\ u.outbound_shutdown = v.outbound_shutdown
SameDown(v, u) ==
  /\ u.rx = v.rx /\ u.inbound = v.inbound /\ u.out = v.out
  /\ u.closed = v.closed /\ u.inbound_shutdown = v.inbound_shutdown
SameWorld(v, u) ==
  /\ u.stdin_ended = v.stdin_ended /\ u.rx_ended = v.rx_ended /\ u.reset = v.reset
  /\ u.sock_error = v.sock_error /\ u.out_gone = v.out_gone

\* What rule 1's callback leaves of each field, when there is something to read.
LEMMA ReadInputFields ==
  ASSUME NEW v, Field \subseteq DOMAIN v, NEW limit, v.stdin # << >> \/ v.stdin_ended
  PROVE  LET u == read_input(v, limit)
         IN  /\ Field \subseteq DOMAIN u
             /\ SameLoop(v, u) /\ SameDown(v, u) /\ SameWorld(v, u)
             /\ u.stdin = Rest(v.stdin, Lesser(limit, Len(v.stdin)))
             /\ u.outbound = EndIf(Len(v.stdin) = 0, write(v.outbound, CanRead(v.stdin, limit)))
             /\ u.tx = v.tx /\ u.tx_shut = v.tx_shut
             /\ u.outbound_shutdown = v.outbound_shutdown
             /\ u.eof = IF limit > 0 /\ Len(v.stdin) = 0 THEN v.eof \cup {"stdin"} ELSE v.eof
             /\ u.serviced = v.serviced \cup {<<"stdin", "In">>}
<1>1. v.stdin # << >> \/ OutOfInput(v, "stdin")
  BY DEF OutOfInput
<1>. QED  BY <1>1, Zenon
   DEF read_input, Fd!note_read, Fd!register_read, Field, SameLoop, SameDown, SameWorld

\* What rule 3's callback leaves of each field, when there is something to read
\* and it does not throw.
LEMMA ReadSocketFields ==
  ASSUME NEW v, Field \subseteq DOMAIN v, NEW limit,
         v.rx # << >> \/ OutOfInput(v, "socket"), ~(v.rx = << >> /\ v.sock_error)
  PROVE  LET u == read_socket(v, limit)
         IN  /\ Field \subseteq DOMAIN u
             /\ SameLoop(v, u) /\ SameUp(v, u) /\ SameWorld(v, u)
             /\ u.rx = Rest(v.rx, Lesser(limit, Len(v.rx)))
             /\ u.inbound = EndIf(Len(v.rx) = 0, write(v.inbound, CanRead(v.rx, limit)))
             /\ u.out = v.out /\ u.closed = v.closed
             /\ u.inbound_shutdown = v.inbound_shutdown
             /\ u.eof = IF limit > 0 /\ Len(v.rx) = 0 THEN v.eof \cup {"socket"} ELSE v.eof
             /\ u.serviced = v.serviced \cup {<<"socket", "In">>}
  BY Zenon DEF read_socket, Fd!note_read, Fd!register_read, Field, SameLoop, SameUp, SameWorld

\* What rule 2's callback leaves of each field, when the write does not throw.
LEMMA WriteSocketFields ==
  ASSUME NEW v, Field \subseteq DOMAIN v, NEW n,
         ~v.sock_error, ~(buffer_size(v.outbound) > 0 /\ (v.tx_shut \/ v.reset))
  PROVE  LET u == write_socket(v, n)
             over == eof(pop_output(v.outbound, n))
         IN  /\ Field \subseteq DOMAIN u
             /\ SameLoop(v, u) /\ SameDown(v, u) /\ SameWorld(v, u)
             /\ u.stdin = v.stdin
             /\ u.outbound = pop_output(v.outbound, n)
             /\ u.tx = v.tx \o peek_output(v.outbound, n)
             /\ u.tx_shut = IF over THEN TRUE ELSE v.tx_shut
             /\ u.outbound_shutdown = IF over THEN TRUE ELSE v.outbound_shutdown
             /\ u.eof = v.eof
             /\ u.serviced = v.serviced \cup {<<"socket", "Out">>}
<1>. DEFINE x == [Fd!register_write(v, "socket") EXCEPT
                    !.tx = @ \o peek_output(v.outbound, n), !.outbound = pop_output(@, n)]
<1>1. /\ Field \subseteq DOMAIN x
      /\ SameLoop(v, x) /\ SameDown(v, x) /\ SameWorld(v, x)
      /\ x.stdin = v.stdin
      /\ x.outbound = pop_output(v.outbound, n)
      /\ x.tx = v.tx \o peek_output(v.outbound, n)
      /\ x.tx_shut = v.tx_shut /\ x.outbound_shutdown = v.outbound_shutdown
      /\ x.eof = v.eof
      /\ x.serviced = v.serviced \cup {<<"socket", "Out">>}
  BY Zenon DEF Fd!register_write, Field, SameLoop, SameDown, SameWorld
<1>2. write_socket(v, n) = shut_socket(x)
  BY Zenon DEF write_socket
<1>. HIDE DEF x
<1>3. CASE eof(x.outbound)
  BY <1>1, <1>2, <1>3, ZenonT(30) DEF shut_socket, Field, SameLoop, SameDown, SameWorld
<1>4. CASE ~eof(x.outbound)
  BY <1>1, <1>2, <1>4, Zenon DEF shut_socket
<1>. QED  BY <1>3, <1>4, Zenon

\* What rule 4's callback leaves of each field, when the write does not throw.
LEMMA WriteOutputFields ==
  ASSUME NEW v, Field \subseteq DOMAIN v, NEW n, ~(v.out_gone /\ buffer_size(v.inbound) > 0)
  PROVE  LET u == write_output(v, n)
             over == eof(pop_output(v.inbound, n))
         IN  /\ Field \subseteq DOMAIN u
             /\ SameLoop(v, u) /\ SameUp(v, u) /\ SameWorld(v, u)
             /\ u.rx = v.rx
             /\ u.inbound = pop_output(v.inbound, n)
             /\ u.out = v.out \o peek_output(v.inbound, n)
             /\ u.closed = IF over THEN v.closed \cup {"stdout"} ELSE v.closed
             /\ u.inbound_shutdown = IF over THEN TRUE ELSE v.inbound_shutdown
             /\ u.eof = IF over THEN v.eof \cup {"stdout"} ELSE v.eof
             /\ u.serviced = v.serviced \cup {<<"stdout", "Out">>}
<1>. DEFINE x == [Fd!register_write(v, "stdout") EXCEPT
                    !.out = @ \o peek_output(v.inbound, n), !.inbound = pop_output(@, n)]
<1>1. /\ Field \subseteq DOMAIN x
      /\ SameLoop(v, x) /\ SameUp(v, x) /\ SameWorld(v, x)
      /\ x.rx = v.rx
      /\ x.inbound = pop_output(v.inbound, n)
      /\ x.out = v.out \o peek_output(v.inbound, n)
      /\ x.closed = v.closed /\ x.inbound_shutdown = v.inbound_shutdown
      /\ x.eof = v.eof
      /\ x.serviced = v.serviced \cup {<<"stdout", "Out">>}
  BY Zenon DEF Fd!register_write, Field, SameLoop, SameUp, SameWorld
<1>2. write_output(v, n) = close_output(x)
  BY Zenon DEF write_output
<1>. HIDE DEF x
<1>3. CASE eof(x.inbound)
  <2>. DEFINE y == Fd!close(x, "stdout")
  <2>1. /\ Field \subseteq DOMAIN y
        /\ SameLoop(x, y) /\ SameUp(x, y) /\ SameWorld(x, y)
        /\ y.rx = x.rx /\ y.inbound = x.inbound /\ y.out = x.out
        /\ y.closed = x.closed \cup {"stdout"} /\ y.eof = x.eof \cup {"stdout"}
        /\ y.serviced = x.serviced
    BY <1>1, Zenon DEF Fd!close, Field, SameLoop, SameUp, SameWorld
  <2>2. close_output(x) = [y EXCEPT !.inbound_shutdown = TRUE]
    BY <1>3, Zenon DEF close_output
  <2>. HIDE DEF y
  <2>. DEFINE z == [y EXCEPT !.inbound_shutdown = TRUE]
  <2>3. /\ Field \subseteq DOMAIN z
        /\ SameLoop(y, z) /\ SameUp(y, z) /\ SameWorld(y, z)
        /\ z.rx = y.rx /\ z.inbound = y.inbound /\ z.out = y.out
        /\ z.closed = y.closed /\ z.eof = y.eof /\ z.inbound_shutdown = TRUE
        /\ z.serviced = y.serviced
    BY <2>1, Zenon DEF Field, SameLoop, SameUp, SameWorld
  <2>4. write_output(v, n) = z
    BY <1>2, <2>2
  <2>. HIDE DEF z
  <2>5. eof(pop_output(v.inbound, n)) /\ x.closed = v.closed /\ x.eof = v.eof
    BY <1>1, <1>3
  <2>6. /\ SameLoop(v, z) /\ SameUp(v, z) /\ SameWorld(v, z)
    BY <1>1, <2>1, <2>3, Zenon DEF SameLoop, SameUp, SameWorld
  <2>7. /\ z.rx = v.rx /\ z.inbound = pop_output(v.inbound, n)
        /\ z.out = v.out \o peek_output(v.inbound, n)
        /\ z.closed = v.closed \cup {"stdout"} /\ z.eof = v.eof \cup {"stdout"}
        /\ z.serviced = v.serviced \cup {<<"stdout", "Out">>}
    BY <1>1, <2>1, <2>3
  <2>. QED  BY <2>3, <2>4, <2>5, <2>6, <2>7, Zenon
<1>4. CASE ~eof(x.inbound)
  BY <1>1, <1>2, <1>4, Zenon DEF close_output
<1>. QED  BY <1>3, <1>4, Zenon

-----------------------------------------------------------------------------
\* Joining strings of bytes is associative.
LEMMA JoinStrings ==
  ASSUME NEW s \in Bytes, NEW t \in Bytes, NEW u \in Bytes
  PROVE  (s \o t) \o u = s \o (t \o u)
  BY JoinSeqs, SMTT(30) DEF Bytes

\* A string of bytes split anywhere is its two parts joined.
LEMMA SplitBytes ==
  ASSUME NEW s \in Bytes, NEW n \in 0 .. Len(s)
  PROVE  /\ SubSeq(s, 1, n) \in Bytes
         /\ SubSeq(s, n + 1, Len(s)) \in Bytes
         /\ Len(SubSeq(s, 1, n)) = n
         /\ Len(SubSeq(s, n + 1, Len(s))) = Len(s) - n
         /\ s = SubSeq(s, 1, n) \o SubSeq(s, n + 1, Len(s))
  BY SplitSeq, Zenon DEF Bytes

\* A read takes a prefix, no longer than asked for.
LEMMA ReadSplits ==
  ASSUME NEW q \in Bytes, NEW limit \in Nat
  PROVE  LET n == Lesser(limit, Len(q))
         IN  /\ CanRead(q, limit) \in Bytes /\ Rest(q, n) \in Bytes
             /\ Len(CanRead(q, limit)) <= limit
             /\ q = CanRead(q, limit) \o Rest(q, n)
             /\ q = << >> => CanRead(q, limit) = << >> /\ Rest(q, n) = << >>
<1>. DEFINE n == Lesser(limit, Len(q))
<1>1. Len(q) \in Nat
  BY LenOfSeq DEF Bytes
<1>2. n \in 0 .. Len(q) /\ n \in 0 .. limit
  BY <1>1, LesserIsMin
<1>3. /\ SubSeq(q, 1, n) \in Bytes /\ SubSeq(q, n + 1, Len(q)) \in Bytes
      /\ Len(SubSeq(q, 1, n)) = n
      /\ Len(SubSeq(q, n + 1, Len(q))) = Len(q) - n
      /\ q = SubSeq(q, 1, n) \o SubSeq(q, n + 1, Len(q))
  BY <1>2, SplitBytes, Zenon
<1>4. ASSUME q = << >>
      PROVE  Len(SubSeq(q, 1, n)) = 0 /\ Len(SubSeq(q, n + 1, Len(q))) = 0
  <2>1. Len(q) = 0
    BY <1>4, EmptySeqLen
  <2>. QED  BY <1>2, <1>3, <2>1
<1>5. q = << >> => SubSeq(q, 1, n) = << >> /\ SubSeq(q, n + 1, Len(q)) = << >>
  BY <1>3, <1>4, EmptySeqLen DEF Bytes
<1>6. Len(SubSeq(q, 1, n)) <= limit
  BY <1>2, <1>3
<1>. QED  BY <1>3, <1>5, <1>6, Zenon DEF CanRead, Rest

\* A read into a stream: nothing is lost between the descriptor and the
\* stream, which is ended exactly if the descriptor was at its end (:33-36).
LEMMA Fill ==
  ASSUME NEW s, GoodStream(s), NEW q \in Bytes
  PROVE  LET limit == read_limit(s)
             t == EndIf(Len(q) = 0, write(s, CanRead(q, limit)))
             rest == Rest(q, Lesser(limit, Len(q)))
         IN  /\ GoodStream(t) /\ rest \in Bytes
             /\ t.buffer \o rest = s.buffer \o q
             /\ t.input_end <=> s.input_end \/ q = << >>
             /\ q = << >> => rest = << >> /\ t.buffer = s.buffer
<1>. DEFINE limit == read_limit(s)
            data == CanRead(q, limit)
            rest == Rest(q, Lesser(limit, Len(q)))
            u == write(s, data)
            t == EndIf(Len(q) = 0, u)
<1>1. limit \in Nat
  <2>1. Len(s.buffer) \in Nat /\ BufferSize \in Nat
    BY LenOfSeq, StreamCopyAssumption DEF GoodStream, Bytes
  <2>. QED  BY <2>1 DEF read_limit, remaining_capacity, GoodStream
<1>2. /\ data \in Bytes /\ rest \in Bytes /\ Len(data) <= limit /\ q = data \o rest
      /\ q = << >> => data = << >> /\ rest = << >>
  BY <1>1, ReadSplits, Zenon
<1>3. GoodStream(u) /\ u.buffer = s.buffer \o data /\ u.input_end = s.input_end
  BY <1>2, WriteAll DEF read_limit
<1>4. Len(q) = 0 <=> q = << >>
  BY EmptySeqLen DEF Bytes
<1>5. GoodStream(t) /\ t.buffer = u.buffer
  BY <1>3, EndStream, Zenon DEF EndIf
<1>6. t.input_end <=> s.input_end \/ q = << >>
  BY <1>3, <1>4, EndStream, Zenon DEF EndIf
<1>7. s.buffer \in Bytes
  BY DEF GoodStream
<1>8. (s.buffer \o data) \o rest = s.buffer \o (data \o rest)
  BY <1>2, <1>7, JoinStrings, ZenonT(30)
<1>9. q = << >> => s.buffer \o data = s.buffer
  BY <1>2, <1>7, ConcatEmpty DEF Bytes
<1>. HIDE DEF t, u, data, rest, limit
<1>. QED
  <2>1. /\ GoodStream(t) /\ rest \in Bytes
        /\ t.buffer \o rest = s.buffer \o q
        /\ t.input_end <=> s.input_end \/ q = << >>
        /\ q = << >> => rest = << >> /\ t.buffer = s.buffer
    BY <1>2, <1>3, <1>5, <1>6, <1>8, <1>9
  <2>. QED  BY <2>1, Zenon DEF t, u, data, rest, limit

\* A write out of a stream: nothing is lost between the stream and the
\* descriptor, whose buffer does not overflow (:46-48, :75-77).
LEMMA Drain ==
  ASSUME NEW s, GoodStream(s), NEW q \in Bytes, Len(q) <= KernelSize
  PROVE  LET n == Taken(q, bytes_to_write(s))
             t == pop_output(s, n)
             new == q \o peek_output(s, n)
         IN  /\ GoodStream(t) /\ new \in Bytes /\ Len(new) <= KernelSize
             /\ new \o t.buffer = q \o s.buffer
             /\ t.input_end = s.input_end
             /\ s.buffer = << >> => t.buffer = << >>
             /\ eof(t) <=> t.input_end /\ t.buffer = << >>
<1>. DEFINE n == Taken(q, bytes_to_write(s))
            t == pop_output(s, n)
            p == peek_output(s, n)
<1>1. /\ Len(q) \in Nat /\ KernelSize \in Nat /\ MaxCopyLength \in Nat
      /\ Len(s.buffer) \in Nat /\ s.buffer \in Bytes
  BY LenOfSeq, StreamCopyAssumption DEF GoodStream, Bytes
<1>2. bytes_to_write(s) \in Nat
  <2>1. Lesser(MaxCopyLength, Len(s.buffer)) \in 0 .. MaxCopyLength
    BY <1>1, LesserIsMin, Zenon
  <2>. QED  BY <1>1, <2>1 DEF bytes_to_write, buffer_size
<1>3. n \in Nat /\ n <= KernelSize - Len(q)
  <2>1. KernelSize - Len(q) \in Nat
    BY <1>1
  <2>. QED  BY <1>2, <2>1, LesserIsMin DEF Taken
<1>4. /\ GoodStream(t) /\ p \in Bytes /\ Len(p) = Lesser(n, Len(s.buffer))
      /\ s.buffer = p \o t.buffer /\ t.input_end = s.input_end
  BY <1>3, PopSplits, Zenon
<1>5. Len(p) \in Nat /\ Len(p) <= n
  <2>1. Lesser(n, Len(s.buffer)) \in 0 .. n
    BY <1>1, <1>3, LesserIsMin, Zenon
  <2>. HIDE DEF n, p
  <2>. QED  BY <1>3, <1>4, <2>1
<1>6. q \o p \in Bytes /\ Len(q \o p) = Len(q) + Len(p)
  BY <1>4, Concatenation, Zenon DEF Bytes
<1>7. Len(q \o p) <= KernelSize
  BY <1>1, <1>3, <1>5, <1>6
<1>8. t.buffer \in Bytes
  BY <1>4 DEF GoodStream
<1>9. (q \o p) \o t.buffer = q \o (p \o t.buffer)
  BY <1>4, <1>8, JoinStrings, Zenon
<1>10. s.buffer = << >> => t.buffer = << >>
  <2>1. Len(p \o t.buffer) = Len(p) + Len(t.buffer) /\ Len(t.buffer) \in Nat
    BY <1>4, <1>8, Concatenation, LenOfSeq, Zenon DEF Bytes
  <2>2. s.buffer = << >> => Len(s.buffer) = 0
    BY EmptySeqLen
  <2>3. Len(s.buffer) = 0 => Len(t.buffer) = 0
    BY <1>4, <1>5, <2>1
  <2>. QED  BY <1>8, <2>2, <2>3, EmptySeqLen DEF Bytes
<1>11. eof(t) <=> t.input_end /\ t.buffer = << >>
  BY <1>8, EmptySeqLen DEF eof, buffer_empty, Bytes
<1>. QED  BY <1>4, <1>6, <1>7, <1>9, <1>10, <1>11

-----------------------------------------------------------------------------
\* The bytes on their way, from the ones written out to the ones to be read.
Joined(p, q) == p \o q
Held(p, q, r) == Joined(Joined(p, q), r)
UpBytes(v) == Held(v.tx, v.outbound.buffer, v.stdin)
DownBytes(v) == Held(v.out, v.inbound.buffer, v.rx)

\* Strings of bytes are closed under joining.
LEMMA JoinedBytes ==
  ASSUME NEW p \in Bytes, NEW q \in Bytes
  PROVE  Joined(p, q) \in Bytes
  BY Concatenation DEF Bytes, Joined

\* Joining is associative.
LEMMA JoinedAssociative ==
  ASSUME NEW p \in Bytes, NEW q \in Bytes, NEW r \in Bytes
  PROVE  Joined(Joined(p, q), r) = Joined(p, Joined(q, r))
  BY JoinStrings DEF Joined

\* A byte appended to the second of two strings is appended to the whole.
LEMMA JoinedAppend ==
  ASSUME NEW p \in Bytes, NEW q \in Bytes, NEW e \in CopyByte
  PROVE  /\ Append(q, e) \in Bytes /\ Append(q, e) # << >>
         /\ Joined(p, Append(q, e)) = Append(Joined(p, q), e)
<1>1. Append(q, e) \in Bytes /\ Append(q, e) # << >>
  BY Appended DEF Bytes
<1>2. p \o Append(q, e) = Append(p \o q, e)
  BY JoinAppend DEF Bytes
<1>. QED  BY <1>1, <1>2 DEF Joined

\* A byte moved from the front of the second string to the end of the first
\* changes nothing in the whole.
LEMMA JoinedMoveHead ==
  ASSUME NEW p \in Bytes, NEW q \in Bytes, q # << >>
  PROVE  /\ Append(p, Head(q)) \in Bytes /\ Tail(q) \in Bytes
         /\ Len(Tail(q)) = Len(q) - 1
         /\ Joined(Append(p, Head(q)), Tail(q)) = Joined(p, q)
  BY MoveHead, SMTT(30) DEF Bytes, Joined

\* The invariant and the bytes are kept.
Kept(v, u) ==
  /\ CopyInv(u) /\ SameWorld(v, u)
  /\ UpBytes(u) = UpBytes(v) /\ DownBytes(u) = DownBytes(v)

\* What a step that leaves stdin, the outbound stream and the socket's write
\* side alone does not disturb.
LEMMA UpKept ==
  ASSUME NEW v, NEW u, UpInv(v), SameUp(v, u), SameWorld(v, u),
         \A r \in {1, 2} : r \in u.rules <=> r \in v.rules,
         u.due \subseteq v.due, "stdin" \in u.eof => "stdin" \in v.eof
  PROVE  UpInv(u) /\ UpBytes(u) = UpBytes(v)
  BY ZenonT(30) DEF UpInv, SameUp, SameWorld, StdinOver, UpBytes

\* What a step that leaves the socket's read side, the inbound stream and
\* stdout alone does not disturb.
LEMMA DownKept ==
  ASSUME NEW v, NEW u, DownInv(v), SameDown(v, u), SameWorld(v, u),
         \A r \in {3, 4} : r \in u.rules <=> r \in v.rules,
         u.due \subseteq v.due, "socket" \in u.eof => "socket" \in v.eof
  PROVE  DownInv(u) /\ DownBytes(u) = DownBytes(v)
  BY ZenonT(30) DEF DownInv, SameDown, SameWorld, SocketOver, OutOfInput, DownBytes

\* What a step that leaves the rules and the poll results alone does not disturb.
LEMMA LoopKept ==
  ASSUME NEW v, NEW u, LoopInv(v), SameLoop(v, u), SameWorld(v, u)
  PROVE  LoopInv(u)
  BY ZenonT(30) DEF LoopInv, SameLoop, SameWorld, CutOff

\* A step of the loop's own bookkeeping keeps the invariant and the bytes.
LEMMA BookkeepingStep ==
  ASSUME NEW v, CopyInv(v), NEW u, Field \subseteq DOMAIN u, SameUp(v, u), SameDown(v, u),
         SameWorld(v, u), u.rules = v.rules, u.due \subseteq v.due, u.eof = v.eof,
         u.thrown => v.thrown \/ CutOff(v)
  PROVE  Kept(v, u)
<1>1. UpInv(u) /\ UpBytes(u) = UpBytes(v)
  BY UpKept, ZenonT(30) DEF CopyInv
<1>2. DownInv(u) /\ DownBytes(u) = DownBytes(v)
  BY DownKept, ZenonT(30) DEF CopyInv
<1>3. LoopInv(u)
  BY ZenonT(30) DEF LoopInv, CopyInv, SameWorld, CutOff
<1>. QED  BY <1>1, <1>2, <1>3, ZenonT(30) DEF Kept, CopyInv

\* So does an exception, if the connection or the reader of stdout is gone.
LEMMA ThrowStep ==
  ASSUME NEW v, CopyInv(v), CutOff(v)
  PROVE  Kept(v, throw(v))
<1>. DEFINE u == throw(v)
<1>1. /\ Field \subseteq DOMAIN u
      /\ SameUp(v, u) /\ SameDown(v, u) /\ SameWorld(v, u)
      /\ u.rules = v.rules /\ u.due = v.due /\ u.eof = v.eof
  BY ZenonT(30) DEF throw, Field, CopyInv, SameUp, SameDown, SameWorld
<1>. HIDE DEF u
<1>2. u.due \subseteq v.due
  BY <1>1, Zenon
<1>3. Kept(v, u)
  BY <1>1, <1>2, BookkeepingStep, ZenonT(30)
<1>. QED  BY <1>3 DEF u

\* Rule 1 keeps the invariant and the bytes, and counts as a read of stdin.
LEMMA ReadInputStep ==
  ASSUME NEW v, CopyInv(v), <<1, "ready">> \notin v.due, v.stdin # << >> \/ v.stdin_ended
  PROVE  LET u == read_input(v, read_limit(v.outbound))
         IN  Kept(v, u) /\ <<"stdin", "In">> \in u.serviced
<1>. DEFINE limit == read_limit(v.outbound)
            u == read_input(v, limit)
            rest == Rest(v.stdin, Lesser(limit, Len(v.stdin)))
            t == EndIf(Len(v.stdin) = 0, write(v.outbound, CanRead(v.stdin, limit)))
<1>1. /\ Field \subseteq DOMAIN u
      /\ SameLoop(v, u) /\ SameDown(v, u) /\ SameWorld(v, u)
      /\ u.stdin = rest /\ u.outbound = t /\ u.tx = v.tx /\ u.tx_shut = v.tx_shut
      /\ u.outbound_shutdown = v.outbound_shutdown
      /\ u.eof = IF limit > 0 /\ Len(v.stdin) = 0 THEN v.eof \cup {"stdin"} ELSE v.eof
      /\ u.serviced = v.serviced \cup {<<"stdin", "In">>}
  BY ReadInputFields, Zenon DEF CopyInv
<1>2. /\ GoodStream(t) /\ rest \in Bytes
      /\ t.buffer \o rest = v.outbound.buffer \o v.stdin
      /\ t.input_end <=> v.outbound.input_end \/ v.stdin = << >>
      /\ v.stdin = << >> => rest = << >> /\ t.buffer = v.outbound.buffer
  BY Fill, Zenon DEF CopyInv, UpInv
<1>3. Len(v.stdin) = 0 <=> v.stdin = << >>
  BY EmptySeqLen, ZenonT(30) DEF CopyInv, UpInv, Bytes
<1>. HIDE DEF u, t, rest, limit
<1>4. UpInv(u)
  BY <1>1, <1>2, <1>3, ZenonT(30) DEF CopyInv, UpInv, SameLoop, SameWorld, StdinOver
<1>5. UpBytes(u) = UpBytes(v)
  <2>1. /\ v.tx \in Bytes /\ v.outbound.buffer \in Bytes /\ v.stdin \in Bytes
        /\ t.buffer \in Bytes /\ rest \in Bytes
    BY <1>2, ZenonT(30) DEF CopyInv, UpInv, GoodStream
  <2>2. Held(v.tx, t.buffer, rest) = Joined(v.tx, Joined(t.buffer, rest))
    BY <2>1, JoinedAssociative DEF Held
  <2>3. Held(v.tx, v.outbound.buffer, v.stdin) = Joined(v.tx, Joined(v.outbound.buffer, v.stdin))
    BY <2>1, JoinedAssociative DEF Held
  <2>4. Joined(t.buffer, rest) = Joined(v.outbound.buffer, v.stdin)
    BY <1>2 DEF Joined
  <2>. QED  BY <1>1, <2>2, <2>3, <2>4 DEF UpBytes
<1>6. DownInv(u) /\ DownBytes(u) = DownBytes(v)
  <2>1. u.rules = v.rules /\ u.due \subseteq v.due /\ ("socket" \in u.eof => "socket" \in v.eof)
    BY <1>1 DEF SameLoop
  <2>. QED  BY <1>1, <2>1, DownKept, ZenonT(30) DEF CopyInv
<1>7. LoopInv(u)
  BY <1>1, LoopKept, ZenonT(30) DEF CopyInv
<1>8. Kept(v, u) /\ <<"stdin", "In">> \in u.serviced
  BY <1>1, <1>4, <1>5, <1>6, <1>7, ZenonT(30) DEF Kept, CopyInv
<1>. QED  BY <1>8 DEF u, limit

\* Rule 3 keeps the invariant and the bytes, and counts as a read of the
\* socket, unless that is in error and empty.
LEMMA ReadSocketKept ==
  ASSUME NEW v, CopyInv(v), <<3, "ready">> \notin v.due, v.rx # << >> \/ OutOfInput(v, "socket"),
         ~(v.rx = << >> /\ v.sock_error)
  PROVE  LET u == read_socket(v, read_limit(v.inbound))
         IN  Kept(v, u) /\ <<"socket", "In">> \in u.serviced
<1>. DEFINE limit == read_limit(v.inbound)
            u == read_socket(v, limit)
            rest == Rest(v.rx, Lesser(limit, Len(v.rx)))
            t == EndIf(Len(v.rx) = 0, write(v.inbound, CanRead(v.rx, limit)))
<1>1. /\ Field \subseteq DOMAIN u
      /\ SameLoop(v, u) /\ SameUp(v, u) /\ SameWorld(v, u)
      /\ u.rx = rest /\ u.inbound = t /\ u.out = v.out /\ u.closed = v.closed
      /\ u.inbound_shutdown = v.inbound_shutdown
      /\ u.eof = IF limit > 0 /\ Len(v.rx) = 0 THEN v.eof \cup {"socket"} ELSE v.eof
      /\ u.serviced = v.serviced \cup {<<"socket", "In">>}
  BY ReadSocketFields, Zenon DEF CopyInv
<1>2. /\ GoodStream(t) /\ rest \in Bytes
      /\ t.buffer \o rest = v.inbound.buffer \o v.rx
      /\ t.input_end <=> v.inbound.input_end \/ v.rx = << >>
      /\ v.rx = << >> => rest = << >> /\ t.buffer = v.inbound.buffer
  BY Fill, Zenon DEF CopyInv, DownInv
<1>3. Len(v.rx) = 0 <=> v.rx = << >>
  BY EmptySeqLen, ZenonT(30) DEF CopyInv, DownInv, Bytes
<1>. HIDE DEF u, t, rest, limit
<1>4. DownInv(u)
  BY <1>1, <1>2, <1>3, ZenonT(30) DEF CopyInv, DownInv, SameLoop, SameWorld, SocketOver, OutOfInput
<1>5. DownBytes(u) = DownBytes(v)
  <2>1. /\ v.out \in Bytes /\ v.inbound.buffer \in Bytes /\ v.rx \in Bytes
        /\ t.buffer \in Bytes /\ rest \in Bytes
    BY <1>2, ZenonT(30) DEF CopyInv, DownInv, GoodStream
  <2>2. Held(v.out, t.buffer, rest) = Joined(v.out, Joined(t.buffer, rest))
    BY <2>1, JoinedAssociative DEF Held
  <2>3. Held(v.out, v.inbound.buffer, v.rx) = Joined(v.out, Joined(v.inbound.buffer, v.rx))
    BY <2>1, JoinedAssociative DEF Held
  <2>4. Joined(t.buffer, rest) = Joined(v.inbound.buffer, v.rx)
    BY <1>2 DEF Joined
  <2>. QED  BY <1>1, <2>2, <2>3, <2>4, SMTT(30) DEF DownBytes
<1>6. UpInv(u) /\ UpBytes(u) = UpBytes(v)
  <2>1. u.rules = v.rules /\ u.due \subseteq v.due /\ ("stdin" \in u.eof => "stdin" \in v.eof)
    BY <1>1 DEF SameLoop
  <2>. QED  BY <1>1, <2>1, UpKept, ZenonT(30) DEF CopyInv
<1>7. LoopInv(u)
  BY <1>1, LoopKept, ZenonT(30) DEF CopyInv
<1>8. Kept(v, u) /\ <<"socket", "In">> \in u.serviced
  BY <1>1, <1>4, <1>5, <1>6, <1>7, ZenonT(30) DEF Kept, CopyInv
<1>. QED  BY <1>8 DEF u, limit

\* Rule 3 in every case.
LEMMA ReadSocketStep ==
  ASSUME NEW v, CopyInv(v), <<3, "ready">> \notin v.due, v.rx # << >> \/ OutOfInput(v, "socket")
  PROVE  LET u == read_socket(v, read_limit(v.inbound))
         IN  Kept(v, u) /\ (CutOff(v) \/ <<"socket", "In">> \in u.serviced)
<1>1. CASE v.rx = << >> /\ v.sock_error
  <2>1. read_socket(v, read_limit(v.inbound)) = throw(v)
    BY <1>1, ZenonT(30) DEF read_socket
  <2>2. CutOff(v)
    BY <1>1, ZenonT(30) DEF CopyInv, LoopInv, CutOff
  <2>. QED  BY <2>1, <2>2, ThrowStep, ZenonT(30)
<1>. QED  BY <1>1, ReadSocketKept, ZenonT(30)

\* Rule 2 keeps the invariant and the bytes, and counts as a write to the
\* socket, unless it throws; it can only throw after a reset.
LEMMA WriteSocketStep ==
  ASSUME NEW v, CopyInv(v), 2 \in v.rules
  PROVE  LET u == write_socket(v, Taken(v.tx, bytes_to_write(v.outbound)))
         IN  Kept(v, u) /\ (CutOff(v) \/ <<"socket", "Out">> \in u.serviced)
<1>. DEFINE n == Taken(v.tx, bytes_to_write(v.outbound))
            u == write_socket(v, n)
            t == pop_output(v.outbound, n)
            new == v.tx \o peek_output(v.outbound, n)
<1>1. CASE v.sock_error \/ (buffer_size(v.outbound) > 0 /\ (v.tx_shut \/ v.reset))
  <2>1. CutOff(v)
    <3>1. CASE v.sock_error
      BY <3>1, ZenonT(30) DEF CopyInv, LoopInv, CutOff
    <3>2. CASE buffer_size(v.outbound) > 0 /\ (v.tx_shut \/ v.reset)
      BY <3>2, EmptySeqLen DEF CopyInv, UpInv, buffer_size, CutOff
    <3>. QED  BY <1>1, <3>1, <3>2
  <2>2. u = throw(v)
    BY <1>1, Zenon DEF write_socket
  <2>. QED  BY <2>1, <2>2, ThrowStep, ZenonT(30)
<1>2. CASE ~(v.sock_error \/ (buffer_size(v.outbound) > 0 /\ (v.tx_shut \/ v.reset)))
  <2>1. /\ Field \subseteq DOMAIN u
        /\ SameLoop(v, u) /\ SameDown(v, u) /\ SameWorld(v, u)
        /\ u.stdin = v.stdin /\ u.outbound = t /\ u.tx = new
        /\ u.tx_shut = IF eof(t) THEN TRUE ELSE v.tx_shut
        /\ u.outbound_shutdown = IF eof(t) THEN TRUE ELSE v.outbound_shutdown
        /\ u.eof = v.eof
        /\ u.serviced = v.serviced \cup {<<"socket", "Out">>}
    BY <1>2, WriteSocketFields, ZenonT(30) DEF CopyInv
  <2>2. /\ GoodStream(t) /\ new \in Bytes /\ Len(new) <= KernelSize
        /\ new \o t.buffer = v.tx \o v.outbound.buffer
        /\ t.input_end = v.outbound.input_end
        /\ v.outbound.buffer = << >> => t.buffer = << >>
        /\ eof(t) <=> t.input_end /\ t.buffer = << >>
    BY Drain, Zenon DEF CopyInv, UpInv
  <2>. HIDE DEF u, t, new, n
  <2>3. UpInv(u)
    BY <2>1, <2>2, ZenonT(30) DEF CopyInv, UpInv, SameLoop, SameWorld, StdinOver
  <2>4. UpBytes(u) = UpBytes(v)
    BY <2>1, <2>2 DEF UpBytes, Held, Joined
  <2>5. DownInv(u) /\ DownBytes(u) = DownBytes(v) /\ LoopInv(u)
    BY <2>1, DownKept, LoopKept, ZenonT(30) DEF CopyInv, SameLoop
  <2>6. Kept(v, u) /\ <<"socket", "Out">> \in u.serviced
    BY <2>1, <2>3, <2>4, <2>5, ZenonT(30) DEF Kept, CopyInv
  <2>. QED  BY <2>6 DEF u, n
<1>. QED  BY <1>1, <1>2

\* Rule 4 keeps the invariant and the bytes, and counts as a write to stdout,
\* unless nobody reads what it writes.
LEMMA WriteOutputKept ==
  ASSUME NEW v, CopyInv(v), ~(v.out_gone /\ buffer_size(v.inbound) > 0)
  PROVE  LET u == write_output(v, Taken(v.out, bytes_to_write(v.inbound)))
         IN  Kept(v, u) /\ <<"stdout", "Out">> \in u.serviced
<1>. DEFINE n == Taken(v.out, bytes_to_write(v.inbound))
            u == write_output(v, n)
            t == pop_output(v.inbound, n)
            new == v.out \o peek_output(v.inbound, n)
<1>1. /\ Field \subseteq DOMAIN u
      /\ SameLoop(v, u) /\ SameUp(v, u) /\ SameWorld(v, u)
      /\ u.rx = v.rx /\ u.inbound = t /\ u.out = new
      /\ u.closed = IF eof(t) THEN v.closed \cup {"stdout"} ELSE v.closed
      /\ u.inbound_shutdown = IF eof(t) THEN TRUE ELSE v.inbound_shutdown
      /\ u.eof = IF eof(t) THEN v.eof \cup {"stdout"} ELSE v.eof
      /\ u.serviced = v.serviced \cup {<<"stdout", "Out">>}
  BY WriteOutputFields, ZenonT(30) DEF CopyInv
<1>2. /\ GoodStream(t) /\ new \in Bytes /\ Len(new) <= KernelSize
      /\ new \o t.buffer = v.out \o v.inbound.buffer
      /\ t.input_end = v.inbound.input_end
      /\ v.inbound.buffer = << >> => t.buffer = << >>
      /\ eof(t) <=> t.input_end /\ t.buffer = << >>
  BY Drain, Zenon DEF CopyInv, DownInv
<1>. HIDE DEF u, t, new, n
<1>3. DownInv(u)
  BY <1>1, <1>2, ZenonT(30) DEF CopyInv, DownInv, SameLoop, SameWorld, SocketOver, OutOfInput
<1>4. DownBytes(u) = DownBytes(v)
  BY <1>1, <1>2 DEF DownBytes, Held, Joined
<1>5. UpInv(u) /\ UpBytes(u) = UpBytes(v) /\ LoopInv(u)
  <2>1. u.rules = v.rules /\ u.due \subseteq v.due /\ ("stdin" \in u.eof => "stdin" \in v.eof)
    BY <1>1 DEF SameLoop
  <2>. QED  BY <1>1, <2>1, UpKept, LoopKept, ZenonT(30) DEF CopyInv
<1>6. Kept(v, u) /\ <<"stdout", "Out">> \in u.serviced
  BY <1>1, <1>3, <1>4, <1>5, ZenonT(30) DEF Kept, CopyInv
<1>. QED  BY <1>6 DEF u, n

\* Rule 4 in every case.
LEMMA WriteOutputStep ==
  ASSUME NEW v, CopyInv(v)
  PROVE  LET u == write_output(v, Taken(v.out, bytes_to_write(v.inbound)))
         IN  Kept(v, u) /\ (CutOff(v) \/ <<"stdout", "Out">> \in u.serviced)
<1>1. CASE v.out_gone /\ buffer_size(v.inbound) > 0
  <2>1. write_output(v, Taken(v.out, bytes_to_write(v.inbound))) = throw(v)
    BY <1>1, ZenonT(30) DEF write_output
  <2>. QED  BY <1>1, <2>1, ThrowStep, ZenonT(30) DEF CutOff
<1>. QED  BY <1>1, WriteOutputKept, ZenonT(30)

-----------------------------------------------------------------------------
(***************************************************************************)
(* The event loop's part: serving a poll result, dropping a rule, asking   *)
(* every rule for its interest and polling keep CopyInv and the bytes, and *)
(* if no rule is left to poll both directions of bidirectional_stream_copy *)
(* are over.                                                               *)
(***************************************************************************)

\* Two steps that keep them, one after the other, keep them.
LEMMA KeptTransitive ==
  ASSUME NEW v, NEW u, NEW x, Kept(v, u), Kept(u, x)
  PROVE  Kept(v, x)
  BY DEF Kept, SameWorld

\* So does the check for a busy wait, if the rule did something or the
\* connection or the reader of stdout is gone (eventloop.cc:135).
LEMMA BusyWaitStep ==
  ASSUME NEW v, CopyInv(v), NEW r, Loop!BusyWait(r, v) => CutOff(v)
  PROVE  Kept(v, Loop!CheckBusyWait(r, v))
<1>. DEFINE u == Loop!CheckBusyWait(r, v)
<1>1. /\ Field \subseteq DOMAIN u
      /\ SameUp(v, u) /\ SameDown(v, u) /\ SameWorld(v, u)
      /\ u.rules = v.rules /\ u.due = v.due /\ u.eof = v.eof
      /\ u.thrown = (v.thrown \/ Loop!BusyWait(r, v))
  BY Zenon DEF Loop!CheckBusyWait, Field, CopyInv, SameUp, SameDown, SameWorld
<1>. HIDE DEF u
<1>2. u.thrown => v.thrown \/ CutOff(v)
  BY <1>1, Zenon
<1>3. Kept(v, u)
  BY <1>1, <1>2, BookkeepingStep
<1>. QED  BY <1>3 DEF u

\* Every callback keeps them, and none of them is a busy wait unless it throws.
LEMMA CallbackStep ==
  ASSUME NEW v, CopyInv(v), NEW r \in 1 .. 4, r \in v.rules,
         <<r, "ready">> \notin v.due,
         r = 1 => v.stdin # << >> \/ v.stdin_ended,
         r = 3 => v.rx # << >> \/ OutOfInput(v, "socket")
  PROVE  Kept(v, callback(r, v)) /\ (Loop!BusyWait(r, callback(r, v)) => CutOff(v))
<1>1. CASE r = 1
  <2>1. callback(r, v) = read_input(v, read_limit(v.outbound)) /\ fd(r) = "stdin" /\ direction(r) = "In"
    BY <1>1 DEF callback, fd, direction
  <2>. QED  BY <1>1, <2>1, ReadInputStep DEF Loop!BusyWait
<1>2. CASE r = 2
  <2>1. /\ callback(r, v) = write_socket(v, Taken(v.tx, bytes_to_write(v.outbound)))
        /\ fd(r) = "socket" /\ direction(r) = "Out"
    BY <1>2 DEF callback, fd, direction
  <2>. QED  BY <1>2, <2>1, WriteSocketStep DEF Loop!BusyWait
<1>3. CASE r = 3
  <2>1. callback(r, v) = read_socket(v, read_limit(v.inbound)) /\ fd(r) = "socket" /\ direction(r) = "In"
    BY <1>3 DEF callback, fd, direction
  <2>. QED  BY <1>3, <2>1, ReadSocketStep DEF Loop!BusyWait
<1>4. CASE r = 4
  <2>1. /\ callback(r, v) = write_output(v, Taken(v.out, bytes_to_write(v.inbound)))
        /\ fd(r) = "stdout" /\ direction(r) = "Out"
    BY <1>4, SMTT(30) DEF callback, fd, direction
  <2>. QED  BY <1>4, <2>1, WriteOutputStep DEF Loop!BusyWait
<1>. QED  BY <1>1, <1>2, <1>3, <1>4

\* What the cancellation and the removal of a rule change (eventloop.cc:77-81, :120-127).
LEMMA EraseFields ==
  ASSUME NEW v, Field \subseteq DOMAIN v, NEW r
  PROVE  LET u == Loop!erase(cancel(r, v), r)
         IN  /\ Field \subseteq DOMAIN u
             /\ SameWorld(v, u) /\ u.due = v.due /\ u.thrown = v.thrown
             /\ u.eof = v.eof /\ u.asked = v.asked
             /\ u.rules = v.rules \ {r}
             /\ u.stdin = v.stdin /\ u.tx = v.tx /\ u.tx_shut = v.tx_shut
             /\ u.outbound_shutdown = v.outbound_shutdown
             /\ u.rx = v.rx /\ u.out = v.out /\ u.closed = v.closed
             /\ u.inbound_shutdown = v.inbound_shutdown
             /\ r \in {1, 2} => u.outbound = end_input(v.outbound) /\ u.inbound = v.inbound
             /\ r \notin {1, 2} => u.outbound = v.outbound /\ u.inbound = end_input(v.inbound)
<1>1. CASE r \in {1, 2}
  BY <1>1, Zenon DEF Loop!erase, cancel, Field, SameWorld
<1>2. CASE r \notin {1, 2}
  BY <1>2, ZenonT(30) DEF Loop!erase, cancel, Field, SameWorld
<1>. QED  BY <1>1, <1>2

\* A rule may be cancelled once the side it reads from is over, or, for the
\* socket's write side, once that is shut or reset.
LEMMA EraseStep ==
  ASSUME NEW v, CopyInv(v), NEW r \in 1 .. 4,
         \A b \in Outcomes : <<r, b>> \notin v.due,
         r = 1 => StdinOver(v),
         r = 2 => v.tx_shut \/ v.reset,
         r = 3 => SocketOver(v),
         r = 4 => "stdout" \in v.closed
  PROVE  Kept(v, Loop!erase(cancel(r, v), r))
<1>. DEFINE u == Loop!erase(cancel(r, v), r)
<1>1. /\ Field \subseteq DOMAIN u
      /\ SameWorld(v, u) /\ u.due = v.due /\ u.thrown = v.thrown
      /\ u.eof = v.eof /\ u.asked = v.asked
      /\ u.rules = v.rules \ {r}
      /\ u.stdin = v.stdin /\ u.tx = v.tx /\ u.tx_shut = v.tx_shut
      /\ u.outbound_shutdown = v.outbound_shutdown
      /\ u.rx = v.rx /\ u.out = v.out /\ u.closed = v.closed
      /\ u.inbound_shutdown = v.inbound_shutdown
      /\ r \in {1, 2} => u.outbound = end_input(v.outbound) /\ u.inbound = v.inbound
      /\ r \notin {1, 2} => u.outbound = v.outbound /\ u.inbound = end_input(v.inbound)
  <2>1. Field \subseteq DOMAIN v
    BY ZenonT(30) DEF CopyInv
  <2>. QED  BY ONLY <2>1, EraseFields, SMTT(30)
<1>. HIDE DEF u
<1>2. LoopInv(u)
  <2>1. v.due \subseteq v.rules \X Outcomes
    BY ZenonT(30) DEF CopyInv, LoopInv
  <2>2. ASSUME NEW d \in v.due
        PROVE  d \in (v.rules \ {r}) \X Outcomes
    <3>1. PICK s \in v.rules, b \in Outcomes : d = <<s, b>>
      BY <2>1
    <3>2. s # r
      BY <3>1, Zenon
    <3>. QED  BY <3>1, <3>2
  <2>. QED  BY <1>1, <2>2, ZenonT(30) DEF CopyInv, LoopInv, SameWorld, CutOff
<1>3. CASE r \in {1, 2}
  <2>1. /\ GoodStream(u.outbound) /\ u.outbound.buffer = v.outbound.buffer
        /\ u.outbound.input_end = TRUE
    <3>1. u.outbound = end_input(v.outbound) /\ GoodStream(v.outbound)
      BY <1>1, <1>3, ZenonT(30) DEF CopyInv, UpInv
    <3>. QED  BY <3>1, EndStream, Zenon
  <2>2. UpInv(u)
    BY <1>1, <1>3, <2>1, ZenonT(30) DEF CopyInv, UpInv, SameWorld, StdinOver
  <2>3. UpBytes(u) = UpBytes(v)
    BY <1>1, <2>1 DEF UpBytes
  <2>4. SameDown(v, u) /\ \A s \in {3, 4} : s \in u.rules <=> s \in v.rules
    BY <1>1, <1>3 DEF SameDown
  <2>5. DownInv(u) /\ DownBytes(u) = DownBytes(v)
    BY <1>1, <2>4, DownKept, ZenonT(30) DEF CopyInv
  <2>6. Kept(v, u)
    BY <1>1, <1>2, <2>2, <2>3, <2>5, ZenonT(30) DEF Kept, CopyInv
  <2>. QED  BY <2>6 DEF u
<1>4. CASE r \in {3, 4}
  <2>1. /\ GoodStream(u.inbound) /\ u.inbound.buffer = v.inbound.buffer
        /\ u.inbound.input_end = TRUE
    <3>1. u.inbound = end_input(v.inbound) /\ GoodStream(v.inbound)
      BY <1>1, <1>4, SMTT(30) DEF CopyInv, DownInv
    <3>. QED  BY <3>1, EndStream, ZenonT(30)
  <2>2. DownInv(u)
    BY <1>1, <1>4, <2>1, ZenonT(30) DEF CopyInv, DownInv, SameWorld, SocketOver, OutOfInput
  <2>3. DownBytes(u) = DownBytes(v)
    BY <1>1, <2>1 DEF DownBytes
  <2>4. SameUp(v, u) /\ \A s \in {1, 2} : s \in u.rules <=> s \in v.rules
    BY <1>1, <1>4 DEF SameUp
  <2>5. UpInv(u) /\ UpBytes(u) = UpBytes(v)
    BY <1>1, <2>4, UpKept, ZenonT(30) DEF CopyInv
  <2>6. Kept(v, u)
    BY <1>1, <1>2, <2>2, <2>3, <2>5, ZenonT(30) DEF Kept, CopyInv
  <2>. QED  BY <2>6 DEF u
<1>. QED  BY <1>3, <1>4, SMTT(30)

\* Among the results poll reported there is a first.
LEMMA FirstDue ==
  ASSUME NEW v, CopyInv(v), v.due # {}
  PROVE  \E d \in v.due : \A e \in v.due : d[1] <= e[1]
<1>1. \A d \in v.due : d[1] \in 1 .. 4
  BY ZenonT(30) DEF CopyInv, LoopInv
<1>2. CASE \E d \in v.due : d[1] = 1
  BY <1>1, <1>2
<1>3. CASE (\E d \in v.due : d[1] = 2) /\ ~ \E d \in v.due : d[1] = 1
  BY <1>1, <1>3
<1>4. CASE (\E d \in v.due : d[1] = 3) /\ ~ \E d \in v.due : d[1] \in {1, 2}
  BY <1>1, <1>4
<1>5. CASE \A d \in v.due : d[1] = 4
  BY <1>5
<1>. QED  BY <1>1, <1>2, <1>3, <1>4, <1>5

\* Serving the next result keeps the invariant and the bytes.
LEMMA ServeStep ==
  ASSUME NEW v, CopyInv(v), v.due # {}
  PROVE  Kept(v, Loop!Serve(v))
<1>. DEFINE next == CHOOSE d \in v.due : \A e \in v.due : d[1] <= e[1]
            x == [v EXCEPT !.due = v.due \ {next}]
<1>1. next \in v.due
  BY FirstDue, Zenon
<1>2. Loop!Serve(v) = Loop!ServeRule(next[1], next[2], x)
  BY Zenon DEF Loop!Serve
<1>. HIDE DEF next
<1>3. PICK r \in v.rules, b \in Outcomes : next = <<r, b>>
  BY <1>1 DEF CopyInv, LoopInv
<1>4. r \in 1 .. 4 /\ next[1] = r /\ next[2] = b
  BY <1>3, ZenonT(30) DEF CopyInv, LoopInv
<1>5. /\ Field \subseteq DOMAIN x
      /\ SameUp(v, x) /\ SameDown(v, x) /\ SameWorld(v, x)
      /\ x.rules = v.rules /\ x.due = v.due \ {next} /\ x.eof = v.eof
      /\ x.thrown = v.thrown
  BY Zenon DEF Field, CopyInv, SameUp, SameDown, SameWorld
<1>. HIDE DEF x
<1>6. Kept(v, x) /\ CopyInv(x)
  <2>1. x.due \subseteq v.due /\ (x.thrown => v.thrown \/ CutOff(v))
    BY <1>5
  <2>2. Kept(v, x)
    BY <1>5, <2>1, BookkeepingStep
  <2>. QED  BY <2>2 DEF Kept
<1>7. ASSUME NEW c \in Outcomes PROVE <<r, c>> \notin x.due
  <2>1. <<r, b>> \in v.due /\ (<<r, c>> \in v.due => b = c)
    BY <1>1, <1>3, <1>4, ZenonT(30) DEF CopyInv, LoopInv
  <2>. QED  BY <1>3, <1>5, <2>1, Zenon
<1>0. "ready" \in Outcomes /\ "error" # "ready" /\ "error" # "hangup" /\ "ready" # "hangup"
  BY DEF Outcomes
<1>8. CASE b = "ready"
  <2>1. Loop!Serve(v) = Loop!CheckBusyWait(r, callback(r, x))
    BY <1>0, <1>2, <1>4, <1>8, Zenon DEF Loop!ServeRule
  <2>2. /\ r = 1 => x.stdin # << >> \/ x.stdin_ended
        /\ r = 3 => x.rx # << >> \/ OutOfInput(x, "socket")
    BY <1>1, <1>3, <1>5, <1>8, Zenon
       DEF CopyInv, UpInv, DownInv, OutOfInput, SameUp, SameDown, SameWorld
  <2>3. Kept(x, callback(r, x)) /\ (Loop!BusyWait(r, callback(r, x)) => CutOff(x))
    BY <1>0, <1>4, <1>5, <1>6, <1>7, <2>2, CallbackStep, ZenonT(30)
  <2>4. CopyInv(callback(r, x)) /\ (Loop!BusyWait(r, callback(r, x)) => CutOff(callback(r, x)))
    BY <2>3, ZenonT(30) DEF Kept, SameWorld, CutOff
  <2>5. Kept(callback(r, x), Loop!CheckBusyWait(r, callback(r, x)))
    BY <2>4, BusyWaitStep
  <2>. QED  BY <1>6, <2>1, <2>3, <2>5, KeptTransitive
<1>9. CASE b = "hangup"
  <2>1. Loop!Serve(v) = Loop!erase(cancel(r, x), r)
    BY <1>0, <1>2, <1>4, <1>9, Zenon DEF Loop!ServeRule
  <2>2. r = 2 /\ (x.tx_shut \/ x.reset)
    BY <1>1, <1>3, <1>4, <1>5, <1>9, Zenon DEF CopyInv, UpInv, LoopInv, SameUp, SameWorld
  <2>3. Kept(x, Loop!erase(cancel(r, x), r))
    BY <1>4, <1>6, <1>7, <2>2, EraseStep
  <2>. QED  BY <1>6, <2>1, <2>3, KeptTransitive
<1>10. CASE b = "error"
  <2>1. Loop!Serve(v) = throw(x)
    BY <1>2, <1>4, <1>10, Zenon DEF Loop!ServeRule, throw
  <2>2. CutOff(x)
    BY <1>1, <1>3, <1>4, <1>5, <1>10, ZenonT(30) DEF CopyInv, LoopInv, SameWorld, CutOff
  <2>. QED  BY <1>6, <2>1, <2>2, ThrowStep, KeptTransitive, ZenonT(30)
<1>. QED  BY <1>8, <1>9, <1>10, Zenon DEF Outcomes

-----------------------------------------------------------------------------
\* A step of the set-up: nothing is due, and the rules other than r stay.
SetUpKept(r, v, u) ==
  /\ Kept(v, u) /\ u.due = {} /\ v.asked \subseteq u.asked
  /\ u.thrown = v.thrown
  /\ u.rules \subseteq v.rules
  /\ \A s \in 1 .. 4 : interest(s, u) => s >= r \/ interest(s, v)
  /\ r \in u.rules /\ interest(r, u) => r \in u.asked
  /\ r \in u.rules => fd(r) \notin u.closed

\* What the interest of each rule comes to, without errors in the streams.
LEMMA InterestIs ==
  ASSUME NEW v, CopyInv(v)
  PROVE  /\ interest(1, v) <=> Len(v.outbound.buffer) < BufferSize
         /\ interest(2, v) <=> \/ Len(v.outbound.buffer) # 0
                               \/ v.outbound.input_end /\ ~v.outbound_shutdown
         /\ interest(3, v) <=> Len(v.inbound.buffer) < BufferSize
         /\ interest(4, v) <=> \/ Len(v.inbound.buffer) # 0
                               \/ v.inbound.input_end /\ ~v.inbound_shutdown
<1>1. /\ Len(v.outbound.buffer) \in Nat /\ Len(v.inbound.buffer) \in Nat /\ BufferSize \in Nat
      /\ v.outbound.error = FALSE /\ v.inbound.error = FALSE
      /\ v.outbound.capacity = BufferSize /\ v.inbound.capacity = BufferSize
  BY LenOfSeq, StreamCopyAssumption, ZenonT(30) DEF CopyInv, UpInv, DownInv, GoodStream, Bytes
<1>2. /\ interest(1, v) <=> Len(v.outbound.buffer) < BufferSize
      /\ interest(3, v) <=> Len(v.inbound.buffer) < BufferSize
  <2>1. ~v.outbound.error /\ ~v.inbound.error
    BY <1>1, Zenon
  <2>2. /\ interest(1, v) <=> remaining_capacity(v.outbound) > 0
        /\ interest(3, v) <=> remaining_capacity(v.inbound) > 0
    BY <2>1 DEF interest
  <2>. QED  BY <1>1, <2>2 DEF remaining_capacity
<1>3. /\ interest(2, v) <=> \/ Len(v.outbound.buffer) # 0
                            \/ v.outbound.input_end /\ ~v.outbound_shutdown
      /\ interest(4, v) <=> \/ Len(v.inbound.buffer) # 0
                            \/ v.inbound.input_end /\ ~v.inbound_shutdown
  <2>1. /\ interest(2, v) = (\/ ~buffer_empty(v.outbound)
                             \/ eof(v.outbound) /\ ~v.outbound_shutdown)
        /\ interest(4, v) = (\/ ~buffer_empty(v.inbound)
                             \/ eof(v.inbound) /\ ~v.inbound_shutdown)
    <3>1. 2 # 1 /\ 4 # 1 /\ 4 # 2 /\ 4 # 3 /\ 2 # 3 /\ 2 # 4
      OBVIOUS
    <3>. QED  BY <3>1, Zenon DEF interest
  <2>. QED  BY <2>1, Zenon DEF buffer_empty, eof
<1>. QED  BY <1>2, <1>3, SMTT(30)

\* A step of the set-up keeps them, and asks for the rule if it is interested.
LEMMA SetUpRuleStep ==
  ASSUME NEW v, CopyInv(v), v.due = {}, NEW r \in 1 .. 4
  PROVE  SetUpKept(r, v, Loop!SetUpRule(r, v))
<1>. DEFINE u == Loop!SetUpRule(r, v)
<1>1. CASE r \notin v.rules
  <2>1. u = v
    BY <1>1 DEF Loop!SetUpRule
  <2>2. Kept(v, v)
    BY DEF Kept, SameWorld
  <2>. HIDE DEF u
  <2>3. SetUpKept(r, v, u)
    BY <1>1, <2>1, <2>2 DEF SetUpKept
  <2>. QED  BY <2>3 DEF u
<1>2. CASE r \in v.rules /\ Loop!defunct(r, v)
  <2>. DEFINE x == Loop!erase(cancel(r, v), r)
  <2>1. u = x
    BY <1>2 DEF Loop!SetUpRule
  <2>2. /\ r = 1 => StdinOver(v)
        /\ r # 2
        /\ r = 3 => SocketOver(v)
        /\ r = 4 => "stdout" \in v.closed
    BY <1>2 DEF Loop!defunct, CopyInv, UpInv, DownInv, fd, direction
  <2>3. Kept(v, x)
    BY <2>2, EraseStep, SMTT(30)
  <2>4. /\ u.due = v.due /\ u.thrown = v.thrown /\ u.asked = v.asked /\ r \notin u.rules
        /\ u.rules = v.rules \ {r}
        /\ u.outbound_shutdown = v.outbound_shutdown
        /\ u.inbound_shutdown = v.inbound_shutdown
        /\ r \in {1, 2} => u.outbound = end_input(v.outbound) /\ u.inbound = v.inbound
        /\ r \notin {1, 2} => u.outbound = v.outbound /\ u.inbound = end_input(v.inbound)
    <3>1. Field \subseteq DOMAIN v
      BY ZenonT(30) DEF CopyInv
    <3>. QED  BY ONLY <2>1, <3>1, EraseFields
  <2>. HIDE DEF u, x
  <2>5. CopyInv(u)
    BY <2>1, <2>3 DEF Kept
  <2>6. /\ end_input(v.outbound).buffer = v.outbound.buffer
        /\ end_input(v.inbound).buffer = v.inbound.buffer
    BY EndStream, Zenon DEF CopyInv, UpInv, DownInv
  <2>7. ASSUME NEW s \in 1 .. 4, interest(s, u), s < r
        PROVE  interest(s, v)
    BY <2>2, <2>4, <2>5, <2>6, <2>7, InterestIs, SMTT(30)
  <2>8. SetUpKept(r, v, u)
    BY <2>1, <2>3, <2>4, <2>7, SMTT(30) DEF SetUpKept
  <2>. QED  BY <2>8 DEF u
<1>3. CASE r \in v.rules /\ ~Loop!defunct(r, v)
  <2>. DEFINE new == IF interest(r, v) THEN v.asked \cup {r} ELSE v.asked
              x == [v EXCEPT !.asked = new]
  <2>1. u = x
    BY <1>3 DEF Loop!SetUpRule
  <2>. HIDE DEF new, u
  <2>2. /\ Field \subseteq DOMAIN x
        /\ SameUp(v, x) /\ SameDown(v, x) /\ SameWorld(v, x)
        /\ x.rules = v.rules /\ x.due = v.due /\ x.eof = v.eof
        /\ x.thrown = v.thrown /\ x.asked = new
    BY Zenon DEF Field, CopyInv, SameUp, SameDown, SameWorld
  <2>. HIDE DEF x
  <2>3. Kept(v, x)
    <3>1. x.due \subseteq v.due /\ (x.thrown => v.thrown \/ CutOff(v))
      BY <2>2
    <3>. QED  BY <2>2, <3>1, BookkeepingStep
  <2>4. CopyInv(x)
    BY <2>3 DEF Kept
  <2>5. ASSUME NEW s \in 1 .. 4, interest(s, x)
        PROVE  interest(s, v)
    BY <2>2, <2>4, <2>5, InterestIs, SMTT(30) DEF SameUp, SameDown
  <2>6. fd(r) \notin x.closed
    BY <1>3, <2>2, Zenon DEF Loop!defunct, SameDown
  <2>7. SetUpKept(r, v, x)
    BY <1>3, <2>2, <2>3, <2>5, <2>6, SMTT(30) DEF SetUpKept, new
  <2>. QED  BY <2>1, <2>7 DEF u
<1>. QED  BY <1>1, <1>2, <1>3

\* After the whole set-up every rule in force that is interested is asked for:
\* no later step of it arouses the interest of an earlier rule.  Rule 4 is not
\* in force when stdout is closed.
LEMMA SetUpStep ==
  ASSUME NEW v, CopyInv(v), v.due = {}
  PROVE  LET u == Loop!SetUp(v)
         IN  /\ Kept(v, u) /\ u.due = {} /\ u.thrown = v.thrown
             /\ \A s \in u.rules : interest(s, u) => s \in u.asked
             /\ 4 \in u.rules => "stdout" \notin u.closed
<1>. DEFINE v0 == [v EXCEPT !.asked = {}]
            v1 == Loop!SetUpRule(1, v0)
            v2 == Loop!SetUpRule(2, v1)
            v3 == Loop!SetUpRule(3, v2)
            v4 == Loop!SetUpRule(4, v3)
<1>1. Loop!SetUp(v) = v4
  BY DEF Loop!SetUp, Loop!InOrder
<1>2. Kept(v, v0) /\ v0.due = {} /\ v0.thrown = v.thrown
  <2>1. /\ Field \subseteq DOMAIN v0
        /\ SameUp(v, v0) /\ SameDown(v, v0) /\ SameWorld(v, v0)
        /\ v0.rules = v.rules /\ v0.due = v.due /\ v0.eof = v.eof
        /\ v0.thrown = v.thrown
    BY Zenon DEF Field, CopyInv, SameUp, SameDown, SameWorld
  <2>2. v0.due \subseteq v.due /\ (v0.thrown => v.thrown \/ CutOff(v))
    BY <2>1
  <2>. HIDE DEF v0
  <2>. QED  BY <2>1, <2>2, BookkeepingStep
<1>. HIDE DEF v0
<1>3. SetUpKept(1, v0, v1)
  BY <1>2, SetUpRuleStep, SMTT(30) DEF Kept
<1>. HIDE DEF v1
<1>4. SetUpKept(2, v1, v2)
  BY <1>3, SetUpRuleStep, SMTT(30) DEF Kept, SetUpKept
<1>. HIDE DEF v2
<1>5. SetUpKept(3, v2, v3)
  BY <1>4, SetUpRuleStep, SMTT(30) DEF Kept, SetUpKept
<1>. HIDE DEF v3
<1>6. SetUpKept(4, v3, v4)
  BY <1>5, SetUpRuleStep DEF Kept, SetUpKept
<1>. HIDE DEF v4
<1>7. Kept(v, v1)
  BY <1>2, <1>3, KeptTransitive DEF SetUpKept
<1>8. Kept(v, v2)
  BY <1>4, <1>7, KeptTransitive DEF SetUpKept
<1>9. Kept(v, v3)
  BY <1>5, <1>8, KeptTransitive, SMTT(30) DEF SetUpKept
<1>10. Kept(v, v4) /\ v4.due = {} /\ v4.thrown = v.thrown
  <2>1. Kept(v, v4)
    BY <1>6, <1>9, KeptTransitive DEF SetUpKept
  <2>. QED  BY <1>2, <1>3, <1>4, <1>5, <1>6, <2>1, SMTT(30) DEF SetUpKept
<1>11. ASSUME NEW s \in v4.rules, interest(s, v4)
       PROVE  s \in v4.asked
  <2>1. s \in 1 .. 4
    BY <1>10, ZenonT(30) DEF Kept, CopyInv, LoopInv
  <2>2. CASE s = 4
    BY <1>6, <1>11, <2>2 DEF SetUpKept
  <2>3. CASE s = 3
    BY <1>5, <1>6, <1>11, <2>3 DEF SetUpKept
  <2>4. CASE s = 2
    BY <1>4, <1>5, <1>6, <1>11, <2>4, SMTT(30) DEF SetUpKept
  <2>5. CASE s = 1
    BY <1>3, <1>4, <1>5, <1>6, <1>11, <2>5, SMTT(30) DEF SetUpKept
  <2>. QED  BY <2>1, <2>2, <2>3, <2>4, <2>5, SMTT(30)
<1>12. 4 \in v4.rules => "stdout" \notin v4.closed
  <2>1. fd(4) = "stdout"
    BY SMTT(30) DEF fd
  <2>. QED  BY <1>6, <2>1, ZenonT(30) DEF SetUpKept
<1>. QED  BY <1>1, <1>10, <1>11, <1>12

\* If no rule in force is interested, both directions are finished.
LEMMA NothingAskedIsDone ==
  ASSUME NEW v, CopyInv(v), \A s \in v.rules : ~interest(s, v)
  PROVE  "stdout" \in v.closed /\ (v.tx_shut \/ v.reset)
<1>1. /\ 1 \in v.rules => ~interest(1, v)
      /\ 2 \in v.rules => ~interest(2, v)
      /\ 3 \in v.rules => ~interest(3, v)
      /\ 4 \in v.rules => ~interest(4, v)
  BY SMTT(30)
<1>2. BufferSize \in Nat \ {0} /\ Len(v.outbound.buffer) \in Nat /\ Len(v.inbound.buffer) \in Nat
  BY LenOfSeq, StreamCopyAssumption, ZenonT(30) DEF CopyInv, UpInv, DownInv, GoodStream, Bytes
<1>3. CASE 2 \in v.rules
  <2>1. Len(v.outbound.buffer) = 0 /\ (v.outbound.input_end => v.outbound_shutdown)
    <3>1. ~interest(2, v)
      BY <1>3
    <3>2. interest(2, v) <=> \/ Len(v.outbound.buffer) # 0
                             \/ v.outbound.input_end /\ ~v.outbound_shutdown
      BY InterestIs, SMTT(30)
    <3>. QED  BY <3>1, <3>2
  <2>2. 1 \notin v.rules
    BY <1>1, <1>2, <2>1, InterestIs, SMTT(30)
  <2>3. v.tx_shut
    BY <2>1, <2>2, ZenonT(30) DEF CopyInv, UpInv
  <2>. QED  BY <1>1, <1>2, <2>3, InterestIs DEF CopyInv, DownInv
<1>4. CASE 2 \notin v.rules
  BY <1>1, <1>2, <1>4, InterestIs, SMTT(30) DEF CopyInv, UpInv, DownInv
<1>. QED  BY <1>3, <1>4

\* What poll reports for the two rules that read.
LEMMA ReadyIs ==
  ASSUME NEW v
  PROVE  /\ ready(1, v) <=> v.stdin # << >> \/ v.stdin_ended
         /\ ready(3, v) <=> v.rx # << >> \/ OutOfInput(v, "socket")
<1>1. /\ ready(1, v) = (v.stdin # << >> \/ OutOfInput(v, "stdin"))
      /\ ready(3, v) = (v.rx # << >> \/ OutOfInput(v, "socket"))
  BY DEF ready
<1>. QED  BY <1>1, Zenon DEF OutOfInput

\* The results of poll fit the state: a rule that is not ready and hung up can
\* only be the one that writes to the socket, and no rule in force is about a
\* closed descriptor.
LEMMA PollStep ==
  ASSUME NEW v, CopyInv(v), v.due = {}, 4 \in v.rules => "stdout" \notin v.closed
  PROVE  Kept(v, Loop!poll(v))
<1>. DEFINE told == {s \in Loop!Reported(v) : s \in v.asked \/ poll_error(s, v)}
            new == {<<r, Loop!Outcome(r, v)>> : r \in told}
            u == [v EXCEPT !.asked = {}, !.due = new]
<1>1. Loop!poll(v) = u
  BY DEF Loop!poll
<1>2. ASSUME NEW d \in new
      PROVE  \E r \in v.rules : /\ d = <<r, Loop!Outcome(r, v)>> /\ r \in 1 .. 4
                                /\ poll_error(r, v) \/ hangup(r, v) \/ ready(r, v)
  <2>1. PICK r \in told : d = <<r, Loop!Outcome(r, v)>>
    BY <1>2, Zenon
  <2>2. r \in v.rules /\ (poll_error(r, v) \/ hangup(r, v) \/ ready(r, v))
    BY <2>1, Zenon DEF Loop!Reported
  <2>3. r \in 1 .. 4
    BY <2>2, ZenonT(30) DEF CopyInv, LoopInv
  <2>. QED  BY <2>1, <2>2, <2>3, Zenon
<1>. HIDE DEF told, new
<1>3. /\ Field \subseteq DOMAIN u
      /\ SameUp(v, u) /\ SameDown(v, u) /\ SameWorld(v, u)
      /\ u.rules = v.rules /\ u.due = new /\ u.eof = v.eof /\ u.thrown = v.thrown
  BY ZenonT(30) DEF Field, CopyInv, SameUp, SameDown, SameWorld
<1>. HIDE DEF u
<1>4. ASSUME NEW r \in 1 .. 4, NEW b, <<r, b>> \in new
      PROVE  /\ r \in v.rules /\ b = Loop!Outcome(r, v)
             /\ poll_error(r, v) \/ hangup(r, v) \/ ready(r, v)
  BY <1>2, <1>4
<1>5. ASSUME NEW r \in 1 .. 4
      PROVE  /\ <<r, "ready">> \in new => ready(r, v)
             /\ <<r, "hangup">> \in new => hangup(r, v) /\ ~ready(r, v)
             /\ <<r, "error">> \in new => r \in v.rules /\ poll_error(r, v)
  <2>1. /\ Loop!Outcome(r, v) = "ready" => ready(r, v)
        /\ Loop!Outcome(r, v) = "hangup" => ~poll_error(r, v) /\ ~ready(r, v)
        /\ Loop!Outcome(r, v) = "error" => poll_error(r, v)
    BY Zenon DEF Loop!Outcome
  <2>. QED  BY <1>4, <2>1, ZenonT(30)
<1>6. UpInv(u)
  <2>1. <<1, "ready">> \in new => v.stdin # << >> \/ v.stdin_ended
    BY <1>5, ReadyIs
  <2>2. <<2, "hangup">> \in new => v.tx_shut \/ v.reset
    BY <1>5, SMTT(30) DEF hangup
  <2>. QED  BY <1>3, <2>1, <2>2, ZenonT(30) DEF CopyInv, UpInv, SameUp, SameWorld, StdinOver
<1>7. DownInv(u)
  <2>1. <<3, "ready">> \in new => v.rx # << >> \/ OutOfInput(v, "socket")
    BY <1>5, ReadyIs, SMTT(30)
  <2>. QED  BY <1>3, <2>1, ZenonT(30) DEF CopyInv, DownInv, SameDown, SameWorld, SocketOver, OutOfInput
<1>8. LoopInv(u)
  <2>1. new \subseteq v.rules \X Outcomes
    <3>1. ASSUME NEW d \in new PROVE d \in v.rules \X Outcomes
      <4>1. PICK r \in v.rules : d = <<r, Loop!Outcome(r, v)>>
        BY <1>2, Zenon
      <4>2. Loop!Outcome(r, v) \in Outcomes
        BY DEF Loop!Outcome, Outcomes
      <4>. QED  BY <4>1, <4>2
    <3>. QED  BY <3>1
  <2>2. ASSUME NEW r \in 1 .. 4, NEW b \in Outcomes, NEW c \in Outcomes,
               <<r, b>> \in new, <<r, c>> \in new
        PROVE  b = c
    <3>1. b = Loop!Outcome(r, v)
      BY <1>4, <2>2, Zenon
    <3>2. c = Loop!Outcome(r, v)
      BY <1>4, <2>2, Zenon
    <3>. QED  BY <3>1, <3>2
  <2>3. ASSUME NEW r \in 1 .. 4, <<r, "hangup">> \in new
        PROVE  r = 2
    <3>1. hangup(r, v) /\ ~ready(r, v)
      BY <1>5, <2>3, Zenon
    <3>2. r \in {2, 3}
      BY <3>1 DEF hangup
    <3>3. r = 3 => ready(r, v)
      BY <3>1, ReadyIs, SMTT(30) DEF hangup, OutOfInput
    <3>. QED  BY <3>1, <3>2, <3>3
  <2>4. ASSUME NEW r \in 1 .. 4, <<r, "error">> \in new
        PROVE  CutOff(v)
    <3>1. r \in v.rules /\ poll_error(r, v)
      BY <1>5, <2>4, Zenon
    <3>2. CASE fd(r) \in v.closed
      <4>1. fd(r) = "stdout"
        BY <3>2, ZenonT(30) DEF CopyInv, DownInv
      <4>2. r = 4
        BY <4>1 DEF fd
      <4>. QED  BY <3>1, <3>2, <4>1, <4>2, Zenon
    <3>. QED  BY <3>1, <3>2, ZenonT(30) DEF poll_error, CutOff, CopyInv, LoopInv
  <2>. QED  BY <1>3, <2>1, <2>2, <2>3, <2>4, ZenonT(30) DEF CopyInv, LoopInv, SameWorld, CutOff
<1>9. Kept(v, u)
  BY <1>3, <1>6, <1>7, <1>8, ZenonT(30) DEF Kept, CopyInv, UpBytes, DownBytes, SameUp, SameDown
<1>. QED  BY <1>1, <1>9

-----------------------------------------------------------------------------
(***************************************************************************)
(* The inductive invariant: CopyInv, the bytes, and what a return means.   *)
(***************************************************************************)
IInv ==
  /\ CopyInv(w)
  /\ typed \in Bytes /\ shown \in Bytes /\ peer_sent \in Bytes /\ peer_got \in Bytes
  /\ typed = Joined(peer_got, UpBytes(w)) /\ peer_sent = Joined(shown, DownBytes(w))
  /\ ReturnsWhenDone

\* Joining four strings, from the left or around the middle.
LEMMA JoinedHeld ==
  ASSUME NEW p \in Bytes, NEW q \in Bytes, NEW r \in Bytes, NEW s \in Bytes
  PROVE  Joined(p, Held(q, r, s)) = Joined(Joined(Joined(p, q), r), s)
<1>1. Joined(p, q) \in Bytes /\ Joined(q, r) \in Bytes
  BY JoinedBytes
<1>2. Joined(Joined(p, q), r) = Joined(p, Joined(q, r))
  BY JoinedAssociative
<1>3. Joined(Joined(p, Joined(q, r)), s) = Joined(p, Joined(Joined(q, r), s))
  BY <1>1, JoinedAssociative
<1>. QED  BY <1>2, <1>3 DEF Held

\* The inductive invariant implies the properties.
LEMMA InvImplies ==
  IInv => CopyConserves /\ EndsBehindData /\ ThrowsOnlyWhenCutOff /\ ReturnsWhenDone
<1>. SUFFICES ASSUME IInv
              PROVE  CopyConserves /\ EndsBehindData /\ ThrowsOnlyWhenCutOff /\ ReturnsWhenDone
  BY SMTT(30)
<1>1. /\ w.tx \in Bytes /\ w.outbound.buffer \in Bytes /\ w.stdin \in Bytes
      /\ w.out \in Bytes /\ w.inbound.buffer \in Bytes /\ w.rx \in Bytes
      /\ peer_got \in Bytes /\ shown \in Bytes
  BY ZenonT(30) DEF IInv, CopyInv, UpInv, DownInv, GoodStream
<1>2. CopyConserves
  <2>1. /\ typed = Joined(peer_got, Held(w.tx, w.outbound.buffer, w.stdin))
        /\ peer_sent = Joined(shown, Held(w.out, w.inbound.buffer, w.rx))
    BY ZenonT(30) DEF IInv, UpBytes, DownBytes
  <2>2. /\ typed = Joined(Joined(Joined(peer_got, w.tx), w.outbound.buffer), w.stdin)
        /\ peer_sent = Joined(Joined(Joined(shown, w.out), w.inbound.buffer), w.rx)
    BY <1>1, <2>1, JoinedHeld, SMTT(30)
  <2>. QED  BY <2>2, Zenon DEF CopyConserves, Joined
<1>3. EndsBehindData
  BY ZenonT(30) DEF IInv, CopyInv, UpInv, DownInv, StdinOver, SocketOver, EndsBehindData
<1>4. ThrowsOnlyWhenCutOff
  BY ZenonT(30) DEF IInv, CopyInv, LoopInv, ThrowsOnlyWhenCutOff, CutOff
<1>. QED  BY <1>2, <1>3, <1>4, ZenonT(30) DEF IInv

\* The invariant holds when the copying starts.
LEMMA InitInv == Init => IInv
<1>. SUFFICES ASSUME Init
              PROVE  IInv
  OBVIOUS
<1>1. << >> \in Bytes /\ Len(<< >>) = 0 /\ << >> \o << >> = << >>
  BY EmptySeqLen, ConcatEmpty, SMTT(30) DEF Bytes
<1>2. GoodStream(NewByteStream(BufferSize)) /\ NewByteStream(BufferSize).buffer = << >>
      /\ NewByteStream(BufferSize).input_end = FALSE
  BY <1>1, StreamCopyAssumption, SMTT(30) DEF GoodStream, NewByteStream, StreamField
<1>3. /\ Field \subseteq DOMAIN w
      /\ w.rules = 1 .. 4 /\ w.due = {} /\ w.eof = {} /\ w.closed = {} /\ w.thrown = FALSE
      /\ w.outbound = NewByteStream(BufferSize) /\ w.inbound = NewByteStream(BufferSize)
      /\ w.outbound_shutdown = FALSE /\ w.inbound_shutdown = FALSE
      /\ w.stdin = << >> /\ w.tx = << >> /\ w.rx = << >> /\ w.out = << >>
      /\ w.tx_shut = FALSE /\ w.sock_error = FALSE
  BY SMTT(30) DEF Init, NewCopy, Field
<1>4. UpInv(w)
  BY <1>1, <1>2, <1>3, StreamCopyAssumption, SMTT(30) DEF UpInv
<1>5. DownInv(w)
  BY <1>1, <1>2, <1>3, StreamCopyAssumption, SMTT(30) DEF DownInv
<1>6. LoopInv(w)
  BY <1>3, ZenonT(30) DEF LoopInv
<1>7. UpBytes(w) = << >> /\ DownBytes(w) = << >> /\ Joined(<< >>, << >>) = << >>
  BY <1>1, <1>2, <1>3 DEF UpBytes, DownBytes, Held, Joined
<1>8. ReturnsWhenDone
  BY DEF Init, ReturnsWhenDone
<1>. QED  BY <1>1, <1>3, <1>4, <1>5, <1>6, <1>7, <1>8, ZenonT(30) DEF IInv, CopyInv, Init

\* wait_next_event up to the return of poll keeps the invariant.
LEMMA WaitNextEventInv == IInv /\ WaitNextEvent => IInv'
<1>. SUFFICES ASSUME IInv, WaitNextEvent
              PROVE  IInv'
  OBVIOUS
<1>. DEFINE v == Loop!SetUp(w)
<1>1. CopyInv(w) /\ w.due = {} /\ ~returned
  BY ZenonT(30) DEF IInv, WaitNextEvent, Copying
<1>2. /\ Kept(w, v) /\ v.due = {} /\ \A s \in v.rules : interest(s, v) => s \in v.asked
      /\ 4 \in v.rules => "stdout" \notin v.closed
  BY <1>1, SetUpStep
<1>3. /\ \/ ~Loop!something_to_poll(v) /\ w' = v /\ returned' = TRUE
         \/ w' = Loop!poll(v) /\ returned' = returned
      /\ typed' = typed /\ shown' = shown /\ peer_sent' = peer_sent /\ peer_got' = peer_got
  BY DEF WaitNextEvent
<1>. HIDE DEF v
<1>4. CopyInv(v)
  BY <1>2, SMTT(30) DEF Kept
<1>5. CASE ~Loop!something_to_poll(v) /\ w' = v /\ returned' = TRUE
  <2>1. \A s \in v.rules : ~interest(s, v)
    BY <1>2, <1>5, SMTT(30) DEF Loop!something_to_poll
  <2>2. "stdout" \in v.closed /\ (v.tx_shut \/ v.reset)
    BY <1>4, <2>1, NothingAskedIsDone
  <2>3. ReturnsWhenDone'
    BY <1>5, <2>2 DEF ReturnsWhenDone
  <2>. QED  BY <1>2, <1>3, <1>5, <2>3, ZenonT(30) DEF IInv, Kept
<1>6. CASE w' = Loop!poll(v) /\ returned' = returned
  <2>1. Kept(w, Loop!poll(v))
    BY <1>2, <1>4, PollStep, KeptTransitive, SMTT(30)
  <2>2. ReturnsWhenDone'
    BY <1>1, <1>6, SMTT(30) DEF ReturnsWhenDone
  <2>. QED  BY <1>3, <1>6, <2>1, <2>2, ZenonT(30) DEF IInv, Kept
<1>. QED  BY <1>3, <1>5, <1>6, Zenon

\* The rest of wait_next_event, one result after the other, keeps it.
LEMMA ServeNextInv == IInv /\ ServeNext => IInv'
<1>. SUFFICES ASSUME IInv, ServeNext
              PROVE  IInv'
  OBVIOUS
<1>1. Kept(w, w')
  BY ServeStep, ZenonT(30) DEF IInv, ServeNext
<1>2. ReturnsWhenDone'
  BY DEF ServeNext, Copying, ReturnsWhenDone
<1>. QED  BY <1>1, <1>2, ZenonT(30) DEF IInv, Kept, ServeNext

\* Append, under a name of its own, so that only what is said of it is used.
Added(s, e) == Append(s, e)

\* A byte that enters at the end is at the end of all bytes on their way.
LEMMA AppendBytes ==
  ASSUME NEW p \in Bytes, NEW q \in Bytes, NEW r \in Bytes, NEW s \in Bytes, NEW e \in CopyByte
  PROVE  Added(Joined(p, Held(q, r, s)), e) = Joined(p, Held(q, r, Added(s, e)))
<1>1. Joined(q, r) \in Bytes
  BY JoinedBytes
<1>2. Held(q, r, s) \in Bytes
  BY <1>1, JoinedBytes DEF Held
<1>3. Held(q, r, Append(s, e)) = Append(Held(q, r, s), e)
  BY <1>1, JoinedAppend DEF Held
<1>4. Joined(p, Append(Held(q, r, s), e)) = Append(Joined(p, Held(q, r, s)), e)
  BY <1>2, JoinedAppend
<1>. QED  BY <1>3, <1>4 DEF Added

\* A byte taken at the front moves to those that have arrived.
LEMMA TakeBytes ==
  ASSUME NEW p \in Bytes, NEW q \in Bytes, NEW r \in Bytes, NEW s \in Bytes, q # << >>
  PROVE  /\ Append(p, Head(q)) \in Bytes /\ Tail(q) \in Bytes
         /\ Len(Tail(q)) = Len(q) - 1
         /\ Joined(Append(p, Head(q)), Held(Tail(q), r, s)) = Joined(p, Held(q, r, s))
<1>1. /\ Append(p, Head(q)) \in Bytes /\ Tail(q) \in Bytes
      /\ Len(Tail(q)) = Len(q) - 1
      /\ Joined(Append(p, Head(q)), Tail(q)) = Joined(p, q)
  BY JoinedMoveHead
<1>2. Joined(Append(p, Head(q)), Held(Tail(q), r, s))
        = Joined(Joined(Joined(Append(p, Head(q)), Tail(q)), r), s)
  BY <1>1, JoinedHeld
<1>3. Joined(p, Held(q, r, s)) = Joined(Joined(Joined(p, q), r), s)
  BY JoinedHeld, SMTT(30)
<1>. QED  BY <1>1, <1>2, <1>3

\* The user typing a byte keeps the invariant.
LEMMA TypeInv == IInv /\ Type => IInv'
<1>. SUFFICES ASSUME IInv, Type
              PROVE  IInv'
  OBVIOUS
<1>. DEFINE n == Len(typed) + 1
            u == [w EXCEPT !.stdin = Append(w.stdin, n)]
<1>1. /\ Field \subseteq DOMAIN w /\ UpInv(w) /\ DownInv(w) /\ LoopInv(w)
      /\ w.tx \in Bytes /\ w.outbound.buffer \in Bytes /\ w.stdin \in Bytes
      /\ peer_got \in Bytes /\ typed = Joined(peer_got, Held(w.tx, w.outbound.buffer, w.stdin))
  BY ZenonT(30) DEF IInv, CopyInv, UpInv, GoodStream, UpBytes
<1>2. /\ w' = u /\ ~w.stdin_ended /\ typed' = Append(typed, n)
      /\ returned' = returned /\ shown' = shown /\ peer_sent' = peer_sent /\ peer_got' = peer_got
  BY DEF Type
<1>3. n \in CopyByte
  <2>1. typed \in Seq(CopyByte)
    BY Zenon DEF IInv, Bytes
  <2>. QED  BY <2>1, LenOfSeq DEF CopyByte
<1>4. /\ Field \subseteq DOMAIN u
      /\ SameDown(w, u) /\ SameWorld(w, u) /\ SameLoop(w, u) /\ u.eof = w.eof
      /\ u.stdin = Append(w.stdin, n) /\ u.outbound = w.outbound /\ u.tx = w.tx
      /\ u.tx_shut = w.tx_shut /\ u.outbound_shutdown = w.outbound_shutdown
  BY <1>1, Zenon DEF Field, SameDown, SameWorld, SameLoop
<1>. HIDE DEF n, u
<1>5. /\ Append(w.stdin, n) \in Bytes /\ Append(typed, n) \in Bytes
      /\ Append(typed, n) = Joined(peer_got, Held(w.tx, w.outbound.buffer, Append(w.stdin, n)))
  <2>1. /\ w.tx \in Bytes /\ w.outbound.buffer \in Bytes /\ w.stdin \in Bytes
        /\ peer_got \in Bytes /\ n \in CopyByte
    BY <1>1, <1>3
  <2>2. Added(Joined(peer_got, Held(w.tx, w.outbound.buffer, w.stdin)), n)
          = Joined(peer_got, Held(w.tx, w.outbound.buffer, Added(w.stdin, n)))
    BY ONLY <2>1, AppendBytes
  <2>3. typed \in Bytes
    BY ZenonT(30) DEF IInv
  <2>4. Append(w.stdin, n) \in Bytes /\ Append(typed, n) \in Bytes
    BY <2>1, <2>3, Appended DEF Bytes
  <2>. QED  BY <1>1, <2>2, <2>4, SMTT(30) DEF Added
<1>6. Append(w.stdin, n) # << >>
  BY <1>1, <1>3, JoinedAppend, ZenonT(30)
<1>7. UpInv(u)
  <2>1. ~StdinOver(w)
    BY <1>2, SMTT(30) DEF StdinOver
  <2>2. /\ ~w.tx_shut /\ "stdin" \notin w.eof
        /\ ~(w.outbound.input_end /\ 2 \in w.rules)
    BY <1>1, <2>1, ZenonT(30) DEF UpInv
  <2>3. u.stdin \in Bytes /\ u.stdin # << >>
    BY <1>4, <1>5, <1>6, SMTT(30)
  <2>. QED  BY <1>1, <1>4, <2>2, <2>3, ZenonT(30) DEF UpInv, SameLoop, SameWorld
<1>8. DownInv(u) /\ DownBytes(u) = DownBytes(w) /\ LoopInv(u)
  BY <1>1, <1>4, DownKept, LoopKept, SMTT(30) DEF SameLoop
<1>9. CopyInv(u)
  BY <1>4, <1>7, <1>8, ZenonT(30) DEF CopyInv
<1>10. ReturnsWhenDone'
  BY <1>2, <1>4, ZenonT(30) DEF IInv, ReturnsWhenDone, SameDown, SameWorld
<1>. QED  BY <1>2, <1>4, <1>5, <1>8, <1>9, <1>10, ZenonT(30) DEF IInv, UpBytes

\* The other end sending a byte keeps it.
LEMMA PeerSendInv == IInv /\ PeerSend => IInv'
<1>. SUFFICES ASSUME IInv, PeerSend
              PROVE  IInv'
  OBVIOUS
<1>. DEFINE n == Len(peer_sent) + 1
            u == [w EXCEPT !.rx = Append(w.rx, n)]
<1>1. /\ Field \subseteq DOMAIN w /\ UpInv(w) /\ DownInv(w) /\ LoopInv(w)
      /\ w.out \in Bytes /\ w.inbound.buffer \in Bytes /\ w.rx \in Bytes
      /\ shown \in Bytes /\ peer_sent = Joined(shown, Held(w.out, w.inbound.buffer, w.rx))
  BY ZenonT(30) DEF IInv, CopyInv, DownInv, GoodStream, DownBytes
<1>2. /\ w' = u /\ ~w.rx_ended /\ ~w.reset /\ peer_sent' = Append(peer_sent, n)
      /\ returned' = returned /\ typed' = typed /\ shown' = shown /\ peer_got' = peer_got
  BY DEF PeerSend
<1>3. n \in CopyByte
  <2>1. peer_sent \in Seq(CopyByte)
    BY Zenon DEF IInv, Bytes
  <2>. QED  BY <2>1, LenOfSeq DEF CopyByte
<1>4. /\ Field \subseteq DOMAIN u
      /\ SameUp(w, u) /\ SameWorld(w, u) /\ SameLoop(w, u) /\ u.eof = w.eof
      /\ u.rx = Append(w.rx, n) /\ u.inbound = w.inbound /\ u.out = w.out
      /\ u.closed = w.closed /\ u.inbound_shutdown = w.inbound_shutdown
  BY <1>1, Zenon DEF Field, SameUp, SameWorld, SameLoop
<1>. HIDE DEF n, u
<1>5. /\ Append(w.rx, n) \in Bytes /\ Append(peer_sent, n) \in Bytes
      /\ Append(peer_sent, n) = Joined(shown, Held(w.out, w.inbound.buffer, Append(w.rx, n)))
  <2>1. /\ w.out \in Bytes /\ w.inbound.buffer \in Bytes /\ w.rx \in Bytes
        /\ shown \in Bytes /\ n \in CopyByte
    BY <1>1, <1>3, SMTT(30)
  <2>2. Added(Joined(shown, Held(w.out, w.inbound.buffer, w.rx)), n)
          = Joined(shown, Held(w.out, w.inbound.buffer, Added(w.rx, n)))
    BY ONLY <2>1, AppendBytes
  <2>3. peer_sent \in Bytes
    BY ZenonT(30) DEF IInv
  <2>4. Append(w.rx, n) \in Bytes /\ Append(peer_sent, n) \in Bytes
    BY <2>1, <2>3, Appended DEF Bytes
  <2>. QED  BY <1>1, <2>2, <2>4, SMTT(30) DEF Added
<1>6. Append(w.rx, n) # << >>
  BY <1>1, <1>3, JoinedAppend, ZenonT(30)
<1>7. DownInv(u)
  <2>1. ~SocketOver(w)
    BY <1>2, SMTT(30) DEF SocketOver, OutOfInput
  <2>2. ~w.inbound.input_end /\ "stdout" \notin w.closed /\ "socket" \notin w.eof
    BY <1>1, <2>1, ZenonT(30) DEF DownInv
  <2>3. u.rx \in Bytes /\ u.rx # << >>
    BY <1>4, <1>5, <1>6, SMTT(30)
  <2>. QED  BY <1>1, <1>4, <2>2, <2>3, ZenonT(30) DEF DownInv, SameLoop
<1>8. UpInv(u) /\ UpBytes(u) = UpBytes(w) /\ LoopInv(u)
  BY <1>1, <1>4, UpKept, LoopKept, SMTT(30) DEF SameLoop
<1>9. CopyInv(u)
  BY <1>4, <1>7, <1>8, ZenonT(30) DEF CopyInv
<1>10. ReturnsWhenDone'
  BY <1>2, <1>4, ZenonT(30) DEF IInv, ReturnsWhenDone, SameUp, SameWorld
<1>. QED  BY <1>2, <1>4, <1>5, <1>8, <1>9, <1>10, ZenonT(30) DEF IInv, DownBytes

\* The other end reading a byte keeps it.
LEMMA PeerReadInv == IInv /\ PeerRead => IInv'
<1>. SUFFICES ASSUME IInv, PeerRead
              PROVE  IInv'
  OBVIOUS
<1>. DEFINE u == [w EXCEPT !.tx = Tail(w.tx)]
<1>1. /\ Field \subseteq DOMAIN w /\ UpInv(w) /\ DownInv(w) /\ LoopInv(w)
      /\ w.tx \in Bytes /\ w.outbound.buffer \in Bytes /\ w.stdin \in Bytes
      /\ peer_got \in Bytes /\ typed = Joined(peer_got, Held(w.tx, w.outbound.buffer, w.stdin))
  BY ZenonT(30) DEF IInv, CopyInv, UpInv, GoodStream, UpBytes
<1>2. /\ w' = u /\ w.tx # << >> /\ peer_got' = Append(peer_got, Head(w.tx))
      /\ returned' = returned /\ shown' = shown /\ peer_sent' = peer_sent /\ typed' = typed
  BY DEF PeerRead
<1>3. /\ Field \subseteq DOMAIN u
      /\ SameDown(w, u) /\ SameWorld(w, u) /\ SameLoop(w, u) /\ u.eof = w.eof
      /\ u.stdin = w.stdin /\ u.outbound = w.outbound /\ u.tx = Tail(w.tx)
      /\ u.tx_shut = w.tx_shut /\ u.outbound_shutdown = w.outbound_shutdown
  BY <1>1, ZenonT(30) DEF Field, SameDown, SameWorld, SameLoop
<1>. HIDE DEF u
<1>4. /\ Append(peer_got, Head(w.tx)) \in Bytes /\ Tail(w.tx) \in Bytes
      /\ Len(Tail(w.tx)) = Len(w.tx) - 1
      /\ Joined(Append(peer_got, Head(w.tx)), Held(Tail(w.tx), w.outbound.buffer, w.stdin)) = typed
  BY <1>1, <1>2, TakeBytes, SMTT(30)
<1>5. Len(Tail(w.tx)) <= KernelSize
  <2>1. Len(w.tx) \in Nat
    BY <1>1, LenOfSeq, Zenon DEF Bytes
  <2>2. Len(w.tx) <= KernelSize
    BY <1>1, Zenon DEF UpInv
  <2>3. KernelSize \in Nat
    BY StreamCopyAssumption
  <2>. DEFINE l == Len(w.tx)
              t == Len(Tail(w.tx))
  <2>4. t = l - 1
    BY <1>4, Zenon
  <2>. HIDE DEF l, t
  <2>5. l \in Nat /\ l <= KernelSize
    BY <2>1, <2>2, Zenon DEF l
  <2>6. t <= KernelSize
    BY <2>3, <2>4, <2>5
  <2>. QED  BY <2>6, Zenon DEF t
<1>6. UpInv(u)
  <2>1. u.stdin_ended = w.stdin_ended /\ u.reset = w.reset /\ StdinOver(u) = StdinOver(w)
    BY <1>3, Zenon DEF SameWorld, StdinOver
  <2>2. u.rules = w.rules /\ u.due = w.due
    BY <1>3, Zenon DEF SameLoop
  <2>3. u.tx \in Bytes /\ Len(u.tx) <= KernelSize
    BY <1>3, <1>4, <1>5, ZenonT(30)
  <2>. QED  BY <1>1, <1>3, <2>1, <2>2, <2>3, Zenon DEF UpInv
<1>7. DownInv(u) /\ DownBytes(u) = DownBytes(w) /\ LoopInv(u)
  BY <1>1, <1>3, DownKept, LoopKept, SMTT(30) DEF SameLoop
<1>8. CopyInv(u)
  BY <1>3, <1>6, <1>7, ZenonT(30) DEF CopyInv
<1>9. ReturnsWhenDone'
  BY <1>2, <1>3, ZenonT(30) DEF IInv, ReturnsWhenDone, SameDown, SameWorld
<1>. QED  BY <1>2, <1>3, <1>4, <1>7, <1>8, <1>9, ZenonT(30) DEF IInv, UpBytes

\* The user being shown a byte keeps it.
LEMMA ShowInv == IInv /\ Show => IInv'
<1>. SUFFICES ASSUME IInv, Show
              PROVE  IInv'
  OBVIOUS
<1>. DEFINE u == [w EXCEPT !.out = Tail(w.out)]
<1>1. /\ Field \subseteq DOMAIN w /\ UpInv(w) /\ DownInv(w) /\ LoopInv(w)
      /\ w.out \in Bytes /\ w.inbound.buffer \in Bytes /\ w.rx \in Bytes
      /\ shown \in Bytes /\ peer_sent = Joined(shown, Held(w.out, w.inbound.buffer, w.rx))
  BY ZenonT(30) DEF IInv, CopyInv, DownInv, GoodStream, DownBytes
<1>2. /\ w' = u /\ w.out # << >> /\ shown' = Append(shown, Head(w.out))
      /\ returned' = returned /\ typed' = typed /\ peer_sent' = peer_sent /\ peer_got' = peer_got
  BY DEF Show
<1>3. /\ Field \subseteq DOMAIN u
      /\ SameUp(w, u) /\ SameWorld(w, u) /\ SameLoop(w, u) /\ u.eof = w.eof
      /\ u.rx = w.rx /\ u.inbound = w.inbound /\ u.out = Tail(w.out)
      /\ u.closed = w.closed /\ u.inbound_shutdown = w.inbound_shutdown
  BY <1>1, ZenonT(30) DEF Field, SameUp, SameWorld, SameLoop
<1>. HIDE DEF u
<1>4. /\ Append(shown, Head(w.out)) \in Bytes /\ Tail(w.out) \in Bytes
      /\ Len(Tail(w.out)) = Len(w.out) - 1
      /\ Joined(Append(shown, Head(w.out)), Held(Tail(w.out), w.inbound.buffer, w.rx)) = peer_sent
  BY <1>1, <1>2, TakeBytes, SMTT(30)
<1>5. Len(Tail(w.out)) <= KernelSize
  <2>1. Len(w.out) \in Nat
    BY <1>1, LenOfSeq, Zenon DEF Bytes
  <2>2. Len(w.out) <= KernelSize
    BY <1>1, Zenon DEF DownInv
  <2>3. KernelSize \in Nat
    BY StreamCopyAssumption
  <2>. DEFINE l == Len(w.out)
              t == Len(Tail(w.out))
  <2>4. t = l - 1
    BY <1>4, Zenon
  <2>. HIDE DEF l, t
  <2>5. l \in Nat /\ l <= KernelSize
    BY <2>1, <2>2, Zenon DEF l
  <2>6. t <= KernelSize
    BY <2>3, <2>4, <2>5
  <2>. QED  BY <2>6, Zenon DEF t
<1>6. DownInv(u)
  <2>1. OutOfInput(u, "socket") = OutOfInput(w, "socket")
    BY <1>3, Zenon DEF SameWorld, OutOfInput
  <2>2. SocketOver(u) = SocketOver(w)
    BY <1>3, <2>1, Zenon DEF SocketOver
  <2>3. u.rules = w.rules /\ u.due = w.due
    BY <1>3, Zenon DEF SameLoop
  <2>4. u.out \in Bytes /\ Len(u.out) <= KernelSize
    BY <1>3, <1>4, <1>5, ZenonT(30)
  <2>. QED  BY <1>1, <1>3, <2>1, <2>2, <2>3, <2>4, Zenon DEF DownInv
<1>7. UpInv(u) /\ UpBytes(u) = UpBytes(w) /\ LoopInv(u)
  BY <1>1, <1>3, UpKept, LoopKept, SMTT(30) DEF SameLoop
<1>8. CopyInv(u)
  BY <1>3, <1>6, <1>7, ZenonT(30) DEF CopyInv
<1>9. ReturnsWhenDone'
  BY <1>2, <1>3, ZenonT(30) DEF IInv, ReturnsWhenDone, SameUp, SameWorld
<1>. QED  BY <1>2, <1>3, <1>4, <1>7, <1>8, <1>9, ZenonT(30) DEF IInv, DownBytes

\* An end, a reset or the loss of the reader, at any moment, keeps it.
LEMMA EndingInv == IInv /\ (EndStdin \/ PeerEnd \/ ReaderLeaves \/ Reset) => IInv'
<1>. SUFFICES ASSUME IInv, EndStdin \/ PeerEnd \/ ReaderLeaves \/ Reset
              PROVE  IInv'
  OBVIOUS
<1>1. /\ Field \subseteq DOMAIN w /\ UpInv(w) /\ DownInv(w) /\ LoopInv(w)
  BY ZenonT(30) DEF IInv, CopyInv
<1>2. /\ typed' = typed /\ shown' = shown /\ peer_sent' = peer_sent /\ peer_got' = peer_got
      /\ returned' = returned
  BY ZenonT(30) DEF EndStdin, PeerEnd, ReaderLeaves, Reset
<1>3. /\ Field \subseteq DOMAIN w'
      /\ SameUp(w, w') /\ SameDown(w, w') /\ SameLoop(w, w') /\ w'.eof = w.eof
      /\ w.stdin_ended => w'.stdin_ended
      /\ w.rx_ended => w'.rx_ended
      /\ w.reset => w'.reset
      /\ w.out_gone => w'.out_gone
      /\ w'.sock_error => w.sock_error \/ w'.reset
  <2>1. CASE EndStdin
    <3>1. w' = [w EXCEPT !.stdin_ended = TRUE]
      BY <2>1 DEF EndStdin
    <3>. QED  BY <1>1, <3>1, Zenon DEF Field, SameUp, SameDown, SameLoop
  <2>2. CASE PeerEnd
    <3>1. w' = [w EXCEPT !.rx_ended = TRUE]
      BY <2>2 DEF PeerEnd
    <3>. QED  BY <1>1, <3>1, Zenon DEF Field, SameUp, SameDown, SameLoop
  <2>3. CASE Reset
    <3>1. PICK b \in BOOLEAN : w' = [w EXCEPT !.reset = TRUE, !.sock_error = b]
      BY <2>3, Zenon DEF Reset
    <3>. QED  BY <1>1, <3>1, ZenonT(30) DEF Field, SameUp, SameDown, SameLoop
  <2>4. CASE ReaderLeaves
    <3>1. w' = [w EXCEPT !.out_gone = TRUE]
      BY <2>4 DEF ReaderLeaves
    <3>. QED  BY <1>1, <3>1, Zenon DEF Field, SameUp, SameDown, SameLoop
  <2>. QED  BY <2>1, <2>2, <2>3, <2>4, ZenonT(30)
<1>4. UpInv(w')
  <2>1. StdinOver(w) => StdinOver(w')
    BY <1>3, Zenon DEF SameUp, StdinOver
  <2>. QED  BY <1>1, <1>3, <2>1, Zenon DEF UpInv, SameUp, SameLoop
<1>5. DownInv(w')
  <2>1. OutOfInput(w, "socket") => OutOfInput(w', "socket")
    BY <1>3, Zenon DEF OutOfInput
  <2>2. SocketOver(w) => SocketOver(w')
    BY <1>3, <2>1, ZenonT(30) DEF SameDown, SocketOver
  <2>. QED  BY <1>1, <1>3, <2>1, <2>2, Zenon DEF DownInv, SameDown, SameLoop
<1>6. LoopInv(w')
  BY <1>1, <1>3, ZenonT(30) DEF LoopInv, SameLoop, CutOff
<1>7. UpBytes(w') = UpBytes(w) /\ DownBytes(w') = DownBytes(w)
  BY <1>3, SMTT(30) DEF UpBytes, DownBytes, SameUp, SameDown
<1>8. ReturnsWhenDone'
  BY <1>2, <1>3, ZenonT(30) DEF IInv, ReturnsWhenDone, SameUp, SameDown
<1>. QED  BY <1>2, <1>3, <1>4, <1>5, <1>6, <1>7, <1>8, ZenonT(30) DEF IInv, CopyInv

(***************************************************************************)
(* The inductive invariant of the copying process: every action of the     *)
(* process, the user and the other end keeps it.                           *)
(***************************************************************************)
THEOREM CopyInvariant == Spec => []IInv
<1>1. IInv /\ [Next]_vars => IInv'
  <2>. SUFFICES ASSUME IInv, [Next]_vars
                PROVE  IInv'
    BY SMTT(30)
  <2>1. CASE UNCHANGED vars
    BY <2>1, ZenonT(30) DEF IInv, vars, ReturnsWhenDone
  <2>. QED  BY <2>1, WaitNextEventInv, ServeNextInv, TypeInv, PeerSendInv, PeerReadInv,
               ShowInv, EndingInv, SMTT(30) DEF Next
<1>. QED  BY <1>1, InitInv, PTL DEF Spec

(***************************************************************************)
(* No byte is lost, doubled or reordered between stdin and the other end,  *)
(* or between the other end and stdout (CopyConserves).                    *)
(***************************************************************************)
THEOREM CopyKeepsBytes == Spec => []CopyConserves
  BY CopyInvariant, InvImplies, PTL

(***************************************************************************)
(* The write side of the socket is shut, and stdout is closed, only behind *)
(* the last byte (EndsBehindData).                                         *)
(***************************************************************************)
THEOREM CopyPassesEndsOn == Spec => []EndsBehindData
  BY CopyInvariant, InvImplies, PTL

(***************************************************************************)
(* bidirectional_stream_copy returns only when both directions are         *)
(* finished: there is no moment before that in which no rule of the loop   *)
(* is interested (ReturnsWhenDone).                                        *)
(***************************************************************************)
THEOREM CopyReturns == Spec => []ReturnsWhenDone
  BY CopyInvariant, InvImplies, PTL

(***************************************************************************)
(* Neither an error poll reports, nor the loop's check for a busy wait,    *)
(* nor a system call makes wait_next_event throw, unless the connection    *)
(* was reset or the reader of stdout is gone (ThrowsOnlyWhenCutOff).       *)
(***************************************************************************)
THEOREM CopyThrows == Spec => []ThrowsOnlyWhenCutOff
  BY CopyInvariant, InvImplies, PTL

-----------------------------------------------------------------------------
(***************************************************************************)
(* A ByteStream by itself (ByteStreamProcess), for every set of bytes,     *)
(* capacity and order of calls.                                            *)
(***************************************************************************)
\* Joining bytes is associative.
LEMMA ConcatBytes ==
  \A s, t, u \in Seq(Byte) : (s \o t) \o u = s \o (t \o u)
  BY JoinSeqs, SMTT(30)

\* min as write and read use it.
LEMMA LesserOfTwo ==
  ASSUME NEW a \in Nat, NEW b \in Nat
  PROVE  Lesser(a, b) \in 0 .. a /\ Lesser(a, b) \in 0 .. b
  BY DEF Lesser

(***************************************************************************)
(* The parameters of the calls are what the models say they are.           *)
(***************************************************************************)
LEMMA DataIsSeq == \A data \in Data : data \in Seq(Byte)
  BY StreamAssumption, FunctionIsSeq DEF Data

StreamInv == StreamTypeOK /\ Conservation

\* A new stream: nothing accepted, nothing delivered.
LEMMA InitStreamInv == StreamInit => StreamInv
<1>. SUFFICES ASSUME StreamInit PROVE StreamInv
  OBVIOUS
<1>1. << >> \in Seq(Byte) /\ Len(<< >>) = 0 /\ << >> \o << >> = << >>
  BY EmptySeqLen, ConcatEmpty
<1>. QED
  BY <1>1, StreamAssumption DEF StreamInit, StreamInv, StreamTypeOK, Conservation, NewByteStream

\* write accepts what fits and counts it.
LEMMA WriteIInv ==
  ASSUME StreamInv, NEW data \in Data, Write(data)
  PROVE  StreamInv'
<1>. DEFINE n == accepted_size(stream, data)
            new == SubSeq(data, 1, n)
<1>1. /\ data \in Seq(Byte) /\ Len(data) \in Nat
      /\ stream.buffer \in Seq(Byte) /\ Len(stream.buffer) \in Nat
      /\ Len(stream.buffer) <= Capacity /\ stream.capacity = Capacity
  BY DataIsSeq, LenOfSeq DEF StreamInv, StreamTypeOK, Conservation
<1>2. /\ n \in 0 .. Len(data)
      /\ n <= Capacity - Len(stream.buffer)
  <2>1. remaining_capacity(stream) \in Nat
    BY <1>1, StreamAssumption DEF remaining_capacity
  <2>2. n \in 0 .. Len(data) /\ n \in 0 .. remaining_capacity(stream)
    BY <1>1, <2>1, LesserOfTwo DEF accepted_size
  <2>. QED  BY <1>1, <2>2, StreamAssumption DEF remaining_capacity
<1>3. new \in Seq(Byte) /\ Len(new) = n
  BY <1>1, <1>2, SplitSeq
<1>4. /\ stream' = [stream EXCEPT !.buffer = stream.buffer \o new,
                                  !.written = stream.written + n]
  BY DEF Write, write
<1>4a. accepted' = accepted \o new /\ delivered' = delivered
  BY DEF Write
<1>5. /\ stream.buffer \o new \in Seq(Byte)
      /\ Len(stream.buffer \o new) = Len(stream.buffer) + n
      /\ accepted \o new \in Seq(Byte)
      /\ Len(accepted \o new) = Len(accepted) + n
  BY <1>1, <1>3, Concatenation DEF StreamInv, StreamTypeOK
<1>. HIDE DEF n, new
<1>6. accepted \o new = delivered \o (stream.buffer \o new)
  <2>1. delivered \in Seq(Byte) /\ accepted = delivered \o stream.buffer
    BY DEF StreamInv, StreamTypeOK, Conservation
  <2>2. (delivered \o stream.buffer) \o new = delivered \o (stream.buffer \o new)
    <3>1. delivered \in Seq(Byte) /\ stream.buffer \in Seq(Byte) /\ new \in Seq(Byte)
      BY <1>1, <1>3, <2>1
    <3>. QED  BY <3>1, ConcatBytes, Zenon
  <2>. QED  BY <2>1, <2>2, Zenon
<1>7. /\ stream'.buffer = stream.buffer \o new
      /\ stream'.written = stream.written + n
      /\ stream'.read = stream.read
  BY <1>4, Zenon DEF StreamInv, StreamTypeOK
<1>8. StreamTypeOK'
  <2>1. stream.written + n \in Nat
    BY <1>2 DEF StreamInv, StreamTypeOK
  <2>. QED  BY <1>4, <1>4a, <1>5, <2>1, Zenon DEF StreamInv, StreamTypeOK
<1>9. Conservation'
  BY <1>1, <1>2, <1>4a, <1>5, <1>6, <1>7, StreamAssumption
     DEF StreamInv, StreamTypeOK, Conservation
<1>. QED  BY <1>8, <1>9 DEF StreamInv

\* peek_output and pop_output take the same bytes, and count them.
LEMMA ReadIInv ==
  ASSUME StreamInv, NEW len \in 0 .. MaxData, Read(len)
  PROVE  StreamInv'
<1>. DEFINE n == Lesser(len, Len(stream.buffer))
            taken == SubSeq(stream.buffer, 1, n)
            rest == SubSeq(stream.buffer, n + 1, Len(stream.buffer))
<1>1. /\ stream.buffer \in Seq(Byte) /\ Len(stream.buffer) \in Nat
      /\ delivered \in Seq(Byte) /\ Len(delivered) \in Nat
      /\ Len(stream.buffer) <= Capacity
  BY LenOfSeq DEF StreamInv, StreamTypeOK, Conservation
<1>2. n \in 0 .. Len(stream.buffer)
  <2>1. len \in Nat
    BY StreamAssumption
  <2>. QED  BY <1>1, <2>1, LesserOfTwo, Zenon
<1>4. stream' = [stream EXCEPT !.buffer = rest, !.read = stream.read + n]
  BY DEF Read, pop_output
<1>4a. delivered' = delivered \o taken /\ accepted' = accepted
  BY DEF Read, peek_output
<1>. HIDE DEF n
<1>3. /\ taken \in Seq(Byte) /\ Len(taken) = n
      /\ rest \in Seq(Byte) /\ Len(rest) = Len(stream.buffer) - n
      /\ stream.buffer = taken \o rest
  <2>. DEFINE b == stream.buffer
  <2>1. b \in Seq(Byte) /\ n \in 0 .. Len(b)
    BY <1>1, <1>2
  <2>. HIDE DEF b
  <2>2. SubSeq(b, 1, n) \in Seq(Byte)
    BY <2>1, SplitSeq, Zenon
  <2>2a. Len(SubSeq(b, 1, n)) = n
    BY <2>1, LenOfSeq, SubSeqSlice
  <2>3. SubSeq(b, n + 1, Len(b)) \in Seq(Byte)
    BY <2>1, SplitSeq, Zenon
  <2>4. Len(SubSeq(b, n + 1, Len(b))) = Len(b) - n
    BY <2>1, SplitSeq, Zenon
  <2>5. b = SubSeq(b, 1, n) \o SubSeq(b, n + 1, Len(b))
    BY <2>1, SplitSeq, Zenon
  <2>. QED  BY <2>2, <2>2a, <2>3, <2>4, <2>5, Zenon DEF b
<1>. HIDE DEF taken, rest
<1>5. /\ delivered \o taken \in Seq(Byte)
      /\ Len(delivered \o taken) = Len(delivered) + n
  BY <1>1, <1>3, Concatenation, Zenon
<1>6. accepted = (delivered \o taken) \o rest
  <2>1. accepted = delivered \o (taken \o rest)
    BY <1>3, Zenon DEF StreamInv, Conservation
  <2>2. (delivered \o taken) \o rest = delivered \o (taken \o rest)
    <3>1. delivered \in Seq(Byte) /\ taken \in Seq(Byte) /\ rest \in Seq(Byte)
      BY <1>1, <1>3
    <3>. QED  BY <3>1, ConcatBytes, Zenon
  <2>. QED  BY <2>1, <2>2, Zenon
<1>7. /\ stream'.buffer = rest
      /\ stream'.written = stream.written
      /\ stream'.read = stream.read + n
  BY <1>4, Zenon DEF StreamInv, StreamTypeOK
<1>8. StreamTypeOK'
  <2>1. stream.read + n \in Nat
    BY <1>2 DEF StreamInv, StreamTypeOK
  <2>. QED  BY <1>3, <1>4, <1>4a, <1>5, <2>1, Zenon DEF StreamInv, StreamTypeOK
<1>9. Conservation'
  BY <1>1, <1>2, <1>3, <1>4a, <1>5, <1>6, <1>7, StreamAssumption, SMTT(30)
     DEF StreamInv, StreamTypeOK, Conservation
<1>. QED  BY <1>8, <1>9 DEF StreamInv

\* Every call, set_error and end_input included, keeps the invariant.
LEMMA NextStreamInv == StreamInv /\ [StreamNext]_StreamVars => StreamInv'
<1>. SUFFICES ASSUME StreamInv, [StreamNext]_StreamVars PROVE StreamInv'
  OBVIOUS
<1>1. ASSUME NEW data \in Data, Write(data) PROVE StreamInv'
  BY <1>1, WriteIInv
<1>2. ASSUME NEW len \in 0 .. MaxData, Read(len) PROVE StreamInv'
  BY <1>2, ReadIInv
<1>3. CASE EndInput
  BY <1>3, Zenon DEF EndInput, end_input, StreamInv, StreamTypeOK, Conservation
<1>4. CASE SetError
  BY <1>4, Zenon DEF SetError, set_error, StreamInv, StreamTypeOK, Conservation
<1>5. CASE UNCHANGED StreamVars
  BY <1>5 DEF StreamVars, StreamInv, StreamTypeOK, Conservation
<1>. QED  BY <1>1, <1>2, <1>3, <1>4, <1>5 DEF StreamNext

(***************************************************************************)
(* Every stream has well-formed fields and loses, repeats or reorders no   *)
(* byte, for all calls of write, read, pop_output, end_input, set_error.   *)
(***************************************************************************)
THEOREM StreamConserves == StreamSpec => [](StreamTypeOK /\ Conservation)
<1>1. StreamSpec => []StreamInv
  BY InitStreamInv, NextStreamInv, PTL DEF StreamSpec
<1>. QED  BY <1>1, PTL DEF StreamInv

-----------------------------------------------------------------------------
LEMMA ConcatParts ==
  ASSUME NEW S, NEW s \in Seq(S), NEW t \in Seq(S)
  PROVE  /\ SubSeq(s \o t, 1, Len(s)) = s
         /\ SubSeq(s \o t, Len(s) + 1, Len(s \o t)) = t
<1>. DEFINE c == s \o t
<1>1. /\ Len(s) \in Nat /\ Len(t) \in Nat
      /\ c \in Seq(S) /\ Len(c) = Len(s) + Len(t)
      /\ \A i \in 1 .. Len(s) + Len(t) :
            c[i] = IF i <= Len(s) THEN s[i] ELSE t[i - Len(s)]
  BY Concatenation, LenOfSeq
<1>. HIDE DEF c
<1>2. Len(s) \in 0 .. Len(c)
  BY <1>1
<1>3. \A i \in 1 .. Len(c) : c[i] \in S
  BY <1>1, SeqElement
<1>4. SubSeq(c, 1, Len(s)) = s
  <2>1. /\ SubSeq(c, 1, Len(s)) \in Seq(S)
        /\ Len(SubSeq(c, 1, Len(s))) = Len(s)
    BY <1>1, <1>2, SplitSeq, SMTT(30)
  <2>2. \A i \in 1 .. Len(s) : SubSeq(c, 1, Len(s))[i] = c[i]
    BY <1>1, <1>3, SubSeqSlice
  <2>3. \A i \in 1 .. Len(s) : SubSeq(c, 1, Len(s))[i] = s[i]
    BY <1>1, <2>2
  <2>. QED  BY <2>1, <2>3, SameSeq
<1>5. SubSeq(c, Len(s) + 1, Len(c)) = t
  <2>1. /\ SubSeq(c, Len(s) + 1, Len(c)) \in Seq(S)
        /\ Len(SubSeq(c, Len(s) + 1, Len(c))) = Len(t)
    BY <1>1, <1>2, SplitSeq, SMTT(30)
  <2>2. \A i \in 1 .. Len(t) : SubSeq(c, Len(s) + 1, Len(c))[i] = c[Len(s) + i]
    BY <1>1, <1>3, SubSeqSlice
  <2>3. ASSUME NEW i \in 1 .. Len(t)
        PROVE  SubSeq(c, Len(s) + 1, Len(c))[i] = t[i]
    <3>1. /\ Len(s) + i \in 1 .. Len(s) + Len(t)
          /\ ~(Len(s) + i <= Len(s))
          /\ (Len(s) + i) - Len(s) = i
      BY <1>1
    <3>2. c[Len(s) + i] = t[i]
      BY <1>1, <3>1
    <3>. QED  BY <2>2, <3>2, Zenon
  <2>. QED  BY <2>1, <2>3, SameSeq, Zenon
<1>. QED  BY <1>4, <1>5, SMTT(30) DEF c

\* eof tests the length of the buffer: length zero is no bytes.
LEMMA EmptyIffZero ==
  ASSUME NEW S, NEW s \in Seq(S), Len(s) = 0
  PROVE  s = << >>
  BY EmptySeqLen

\* An empty buffer means that everything accepted has been delivered.
LEMMA DrainedMeansDelivered ==
  ASSUME StreamInv, Len(stream.buffer) = 0
  PROVE  delivered = accepted
<1>1. stream.buffer = << >>
  BY EmptyIffZero DEF StreamInv, StreamTypeOK
<1>2. delivered \o << >> = delivered
  BY ConcatEmpty DEF StreamInv, StreamTypeOK
<1>. QED  BY <1>1, <1>2, Zenon DEF StreamInv, Conservation

\* The lengths behind the conservation law.
BytesAddUp ==
  /\ Len(stream.buffer) \in Nat
  /\ Len(delivered) \in Nat
  /\ Len(accepted) = Len(delivered) + Len(stream.buffer)

\* The lengths of the three sequences add up.
LEMMA BytesAddUpInv == StreamInv => BytesAddUp
<1>. SUFFICES ASSUME StreamInv PROVE BytesAddUp
  OBVIOUS
<1>1. /\ stream.buffer \in Seq(Byte) /\ delivered \in Seq(Byte)
      /\ accepted = delivered \o stream.buffer
  BY DEF StreamInv, StreamTypeOK, Conservation
<1>2. /\ Len(stream.buffer) \in Nat /\ Len(delivered) \in Nat
      /\ Len(delivered \o stream.buffer) = Len(delivered) + Len(stream.buffer)
  BY <1>1, LenOfSeq, Concatenation
<1>. QED  BY <1>1, <1>2 DEF BytesAddUp

\* write is a step of the abstract writer.
LEMMA WriteSends ==
  ASSUME StreamInv, StreamInv', NEW data \in Data, Write(data), ~WriteAfterEnd
  PROVE  Abstract!Send
<1>. DEFINE new == SubSeq(data, 1, accepted_size(stream, data))
<1>1. accepted' = accepted \o new /\ delivered' = delivered
  BY DEF Write
<1>2. stream.input_end = FALSE /\ stream'.input_end = FALSE
  <2>1. stream.input_end = FALSE
    BY DEF Write, StreamInv, StreamTypeOK
  <2>2. stream'.input_end = stream.input_end
    BY Zenon DEF Write, write, StreamInv, StreamTypeOK
  <2>. QED  BY <2>1, <2>2
<1>3. new \in Seq(Byte)
  <2>1. data \in Seq(Byte) /\ Len(data) \in Nat
    BY DataIsSeq, LenOfSeq
  <2>2. remaining_capacity(stream) \in Nat
    <3>1. Len(stream.buffer) \in Nat
      BY LenOfSeq DEF StreamInv, StreamTypeOK
    <3>. QED
      BY <3>1, StreamAssumption, SMTT(20)
         DEF remaining_capacity, StreamInv, StreamTypeOK, Conservation
  <2>3. accepted_size(stream, data) \in 0 .. Len(data)
    BY <2>1, <2>2, LesserOfTwo DEF accepted_size
  <2>. QED  BY <2>1, <2>3, SplitSeq, Zenon
<1>. HIDE DEF new
<1>4. SubSeq(accepted \o new, Len(accepted) + 1, Len(accepted \o new)) = new
  BY <1>3, ConcatParts DEF StreamInv, StreamTypeOK
<1>5. accepted' = accepted \o SubSeq(accepted', Len(accepted) + 1, Len(accepted'))
  <2>1. Len(accepted') = Len(accepted \o new)
    BY <1>1, Zenon
  <2>2. SubSeq(accepted', Len(accepted) + 1, Len(accepted')) = new
    BY <1>1, <1>4, <2>1, Zenon
  <2>. QED  BY <1>1, <2>2, Zenon
<1>. QED
  BY <1>1, <1>2, <1>5, Zenon DEF Abstract!Send, Abstract!EndIsReal, eof

\* read is a step of the abstract reader.
LEMMA ReadReceives ==
  ASSUME StreamInv, StreamInv', NEW len \in 0 .. MaxData, Read(len)
  PROVE  Abstract!Receive
<1>1. accepted' = accepted
  BY DEF Read
<1>2. stream'.input_end = stream.input_end
  BY Zenon DEF Read, pop_output, StreamInv, StreamTypeOK
<1>3. delivered' = SubSeq(accepted, 1, Len(delivered'))
  <2>1. /\ delivered' \in Seq(Byte) /\ stream'.buffer \in Seq(Byte)
        /\ accepted = delivered' \o stream'.buffer
    BY <1>1 DEF StreamInv, StreamTypeOK, Conservation
  <2>. QED  BY <2>1, ConcatParts, Zenon
<1>4b. /\ Len(stream'.buffer) \in Nat /\ Len(stream.buffer) \in Nat
       /\ Len(delivered) \in Nat /\ Len(delivered') \in Nat
       /\ Len(accepted) = Len(delivered) + Len(stream.buffer)
       /\ Len(accepted) = Len(delivered') + Len(stream'.buffer)
  <2>1. BytesAddUp /\ BytesAddUp'
    BY BytesAddUpInv, PTL
  <2>. QED  BY <1>1, <2>1, SMTT(30) DEF BytesAddUp
<1>4. Len(stream'.buffer) <= Len(stream.buffer) /\ Len(stream'.buffer) \in Nat
  <2>2. stream'.read >= stream.read
    <3>. DEFINE n == Lesser(len, Len(stream.buffer))
    <3>1. n \in Nat
      <4>1. len \in Nat
        BY StreamAssumption
      <4>2. n \in 0 .. len
        BY <1>4b, <4>1, LesserOfTwo, Zenon
      <4>. QED  BY <4>1, <4>2
    <3>. HIDE DEF n
    <3>2. stream'.read = stream.read + n
      BY Zenon DEF Read, pop_output, StreamInv, StreamTypeOK, n
    <3>. QED  BY <3>1, <3>2, SMTT(20) DEF StreamInv, StreamTypeOK
  <2>. QED  BY <1>4b, <2>2, SMTT(30) DEF StreamInv, Conservation
<1>5. Len(delivered') \in Len(delivered) .. Len(accepted)
  BY <1>4, <1>4b, SMTT(20)
<1>6. eof(stream) => eof(stream)'
  BY <1>2, <1>4, LenOfSeq DEF eof, buffer_empty, StreamInv, StreamTypeOK
<1>7. eof(stream)' => stream'.input_end /\ delivered' = accepted'
  <2>1. (Len(stream.buffer) = 0)' => (delivered = accepted)'
    BY DrainedMeansDelivered, PTL
  <2>. QED  BY <2>1 DEF eof, buffer_empty
<1>. QED
  BY <1>1, <1>2, <1>3, <1>5, <1>6, <1>7, Zenon DEF Abstract!Receive, Abstract!EndIsReal

\* end_input is the end of the abstract stream.
LEMMA EndFinishes ==
  ASSUME StreamInv, EndInput
  PROVE  Abstract!Finish
<1>1. /\ accepted' = accepted /\ delivered' = delivered
      /\ stream'.buffer = stream.buffer /\ stream'.input_end = TRUE
  BY DEF EndInput, end_input, StreamInv, StreamTypeOK
<1>2. eof(stream) => eof(stream)'
  BY <1>1 DEF eof, buffer_empty
<1>3. eof(stream)' => delivered' = accepted'
  BY <1>1, DrainedMeansDelivered DEF eof, buffer_empty
<1>. QED  BY <1>1, <1>2, <1>3 DEF Abstract!Finish, Abstract!EndIsReal

(***************************************************************************)
(* If callers stop writing once they have ended the input, a ByteStream of *)
(* any capacity implements the reliable stream: in-order, complete, with   *)
(* an end that is real and permanent.                                      *)
(***************************************************************************)
THEOREM StreamRefines ==
  ASSUME ~WriteAfterEnd
  PROVE  StreamSpec => ImplementsReliableStream
<1>1. StreamInit => Abstract!Init
  BY DEF StreamInit, Abstract!Init, NewByteStream, eof
<1>2. StreamInv /\ StreamInv' /\ [StreamNext]_StreamVars => [Abstract!Next]_(Abstract!vars)
  <2>. SUFFICES ASSUME StreamInv, StreamInv', [StreamNext]_StreamVars
                PROVE  Abstract!Next \/ UNCHANGED Abstract!vars
    OBVIOUS
  <2>1. ASSUME NEW data \in Data, Write(data) PROVE Abstract!Next
    BY <2>1, WriteSends DEF Abstract!Next
  <2>2. ASSUME NEW len \in 0 .. MaxData, Read(len) PROVE Abstract!Next
    BY <2>2, ReadReceives DEF Abstract!Next
  <2>3. CASE EndInput
    BY <2>3, EndFinishes DEF Abstract!Next
  <2>4. CASE SetError
    BY <2>4 DEF SetError, set_error, Abstract!vars, eof, buffer_empty, StreamInv, StreamTypeOK
  <2>5. CASE UNCHANGED StreamVars
    BY <2>5 DEF StreamVars, Abstract!vars, eof, buffer_empty
  <2>. QED  BY <2>1, <2>2, <2>3, <2>4, <2>5 DEF StreamNext
<1>3. StreamSpec => []StreamInv
  BY InitStreamInv, NextStreamInv, PTL DEF StreamSpec
<1>. QED  BY <1>1, <1>2, <1>3, PTL DEF StreamSpec, ImplementsReliableStream, Abstract!Spec
=============================================================================
