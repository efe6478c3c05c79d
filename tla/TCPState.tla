------------------------------ MODULE TCPState ------------------------------
(***************************************************************************)
(* tcp_helpers/tcp_state.{hh,cc}: how the rest of the program, and the     *)
(* tests, summarise an endpoint in the terms of the TCP state machine.     *)
(***************************************************************************)
EXTENDS TCPConnection

receiver_state(rcv) ==
  IF Receiver!stream_out(rcv).error THEN "ERROR"
  ELSE IF ~Receiver!has_ackno(rcv) THEN "LISTEN"
  ELSE IF Receiver!stream_out(rcv).input_end THEN "FIN_RECV" ELSE "SYN_RECV"

sender_state(s) ==
  LET in_flight == Sender!bytes_in_flight(s)
  IN  IF s.stream.error THEN "ERROR"
      ELSE IF s.next_seqno = 0 THEN "CLOSED"
      ELSE IF s.next_seqno = in_flight THEN "SYN_SENT"
      ELSE IF ~Stream!eof(s.stream) \/ s.next_seqno < s.stream.written + 2 THEN "SYN_ACKED"
      ELSE IF in_flight > 0 THEN "FIN_SENT" ELSE "FIN_ACKED"

\* The official names, as the pairs of summaries they stand for.
Official(receiver, sender, linger, is_active) ==
  [receiver |-> receiver, sender |-> sender, linger |-> linger, active |-> is_active]

State ==
  [LISTEN      |-> Official("LISTEN", "CLOSED", TRUE, TRUE),
   SYN_RCVD    |-> Official("SYN_RECV", "SYN_SENT", TRUE, TRUE),
   SYN_SENT    |-> Official("LISTEN", "SYN_SENT", TRUE, TRUE),
   ESTABLISHED |-> Official("SYN_RECV", "SYN_ACKED", TRUE, TRUE),
   CLOSE_WAIT  |-> Official("FIN_RECV", "SYN_ACKED", FALSE, TRUE),
   LAST_ACK    |-> Official("FIN_RECV", "FIN_SENT", FALSE, TRUE),
   CLOSING     |-> Official("FIN_RECV", "FIN_SENT", TRUE, TRUE),
   FIN_WAIT_1  |-> Official("SYN_RECV", "FIN_SENT", TRUE, TRUE),
   FIN_WAIT_2  |-> Official("SYN_RECV", "FIN_ACKED", TRUE, TRUE),
   TIME_WAIT   |-> Official("FIN_RECV", "FIN_ACKED", TRUE, TRUE),
   RESET       |-> Official("ERROR", "ERROR", FALSE, FALSE),
   CLOSED      |-> Official("FIN_RECV", "FIN_ACKED", FALSE, FALSE)]

\* state(): an endpoint that is not active does not linger.
state(c) == Official(receiver_state(c.receiver), sender_state(c.sender),
                     active(c) /\ c.linger, active(c))
=============================================================================
