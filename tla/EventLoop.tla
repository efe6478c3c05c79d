------------------------------ MODULE EventLoop -----------------------------
(***************************************************************************)
(* libsponge/util/eventloop.{hh,cc}, and what util/file_descriptor.{hh,cc} *)
(* keeps for it.  A user of the loop has a record w with the fields        *)
(*   rules      the rules still in force; they are numbered in the order   *)
(*              in which they were added                                   *)
(*   asked      the rules to be polled for their event (empty after poll)  *)
(*   due        what poll reported and was not yet looked at: <<rule,      *)
(*              "error", "ready" or "hangup">>                             *)
(*   eof, closed   the descriptors whose flag _eof, _closed is set         *)
(*   serviced   the descriptors read or written (<<fd, direction>>) in the *)
(*              callback that is running: those whose count has changed    *)
(*   thrown     an exception has left the loop                             *)
(* Every loop of the program that is modelled has four rules.              *)
(***************************************************************************)
EXTENDS Naturals

CONSTANTS fd(_), direction(_),            \* of a rule
          interest(_, _),                 \* rule, w: BOOLEAN
          callback(_, _), cancel(_, _),   \* rule, w: the new w
          ready(_, _), hangup(_, _),      \* rule, w: what poll reports
          poll_error(_, _)

Rule == 1 .. 4

InOrder(op(_, _), w) == op(4, op(3, op(2, op(1, w))))

erase(w, r) == [w EXCEPT !.rules = @ \ {r}]

\* Mutant: a rule is kept although its descriptor is at its end.
defunct_closed_only(r, w) == fd(r) \in w.closed

\* Mutant: only the end of what is read counts.
defunct_eof_only(r, w) == direction(r) = "In" /\ fd(r) \in w.eof

defunct(r, w) ==
  (direction(r) = "In" /\ fd(r) \in w.eof) \/ fd(r) \in w.closed

\* "set up the pollfd for each rule"
SetUpRule(r, w) ==
  IF r \notin w.rules THEN w
  ELSE IF defunct(r, w) THEN erase(cancel(r, w), r)
  ELSE [w EXCEPT !.asked = IF interest(r, w) THEN @ \cup {r} ELSE @]

SetUp(w) == InOrder(SetUpRule, [w EXCEPT !.asked = {}])

something_to_poll(w) == w.asked # {}

\* What poll says of a rule: a placeholder can report a hangup and an error,
\* too.
Reported(w) ==
  {r \in w.rules : \/ poll_error(r, w) \/ hangup(r, w)
                   \/ r \in w.asked /\ ready(r, w)}

Outcome(r, w) ==
  IF poll_error(r, w) THEN "error" ELSE IF ready(r, w) THEN "ready" ELSE "hangup"

poll(w) ==
  [w EXCEPT !.asked = {},
            !.due = {<<r, Outcome(r, w)>> :
                       r \in {s \in Reported(w) : s \in w.asked \/ poll_error(s, w)}}]

BusyWait(r, w) == <<fd(r), direction(r)>> \notin w.serviced /\ interest(r, w)

CheckBusyWait(r, w) == [w EXCEPT !.serviced = {}, !.thrown = @ \/ BusyWait(r, w)]

\* The next of the due rules, in order: an exception if its descriptor is in
\* error, a callback if its event is there, a cancellation if the only news is
\* a hangup.
ServeRule(r, outcome, w) ==
  CASE outcome = "error" -> [w EXCEPT !.thrown = TRUE]
    [] outcome = "ready" -> CheckBusyWait(r, callback(r, w))
    [] outcome = "hangup" -> erase(cancel(r, w), r)

Serve(w) ==
  LET next == CHOOSE d \in w.due : \A e \in w.due : d[1] <= e[1]
  IN  ServeRule(next[1], next[2], [w EXCEPT !.due = @ \ {next}])

\* FileDescriptor: what a call leaves behind for the loop.
register_read(w, f) == [w EXCEPT !.serviced = @ \cup {<<f, "In">>}]
register_write(w, f) == [w EXCEPT !.serviced = @ \cup {<<f, "Out">>}]

\* read: nothing read although something was asked for is the end.
note_read(w, f, limit, n) ==
  [register_read(w, f) EXCEPT !.eof = IF limit > 0 /\ n = 0 THEN @ \cup {f} ELSE @]

close(w, f) == [w EXCEPT !.eof = @ \cup {f}, !.closed = @ \cup {f}]
=============================================================================
