------------------------------- MODULE EachOnce -------------------------------
(***************************************************************************)
(* What a benchmark run promises, however many workers share the requests: *)
(* each of the requests asked for is answered once, an answer is never     *)
(* replaced, and only when all are in does the run conclude, with success  *)
(* exactly when one of them succeeded. A run may also be rejected at the   *)
(* start, without a request.                                               *)
(***************************************************************************)
EXTENDS Integers

CONSTANTS Sizes,         \* how many requests may be asked for
          Outcomes,      \* what a request may come to
          Successful,    \* the outcomes among these that are successes
          Pending        \* no outcome yet

VARIABLES answers,       \* the outcome of each request, or Pending
          verdict        \* "none", then "ok", "failed" or "rejected"

evars == <<answers, verdict>>

Init ==
  /\ \E n \in Sizes : answers = [i \in 1..n |-> Pending]
  /\ verdict = "none"

Answer(i) ==
  /\ verdict = "none"
  /\ answers[i] = Pending
  /\ \E o \in Outcomes : answers' = [answers EXCEPT ![i] = o]
  /\ UNCHANGED verdict

Conclude ==
  /\ verdict = "none"
  /\ \A i \in DOMAIN answers : answers[i] # Pending
  /\ verdict' = IF \E i \in DOMAIN answers : answers[i] \in Successful
                THEN "ok" ELSE "failed"
  /\ UNCHANGED answers

Reject ==
  /\ verdict = "none"
  /\ \A i \in DOMAIN answers : answers[i] = Pending
  /\ verdict' = "rejected"
  /\ UNCHANGED answers

Next == (\E i \in DOMAIN answers : Answer(i)) \/ Conclude \/ Reject

Spec == Init /\ [][Next]_evars
===============================================================================
