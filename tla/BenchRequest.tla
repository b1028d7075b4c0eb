----------------------------- MODULE BenchRequest -----------------------------
(***************************************************************************)
(* One request of inferlens bench: oneRequest (bench/bench.go) turns the   *)
(* result of one call of the client (StreamClient.tla) into a sample. This *)
(* is where the two models meet: what Bench.tla assumes of the samples its *)
(* workers store is shown here of the samples the client leaves.           *)
(***************************************************************************)
EXTENDS StreamClient, BenchSummary

(* Mutated: the first token is timed even when there was none.             *)
SampleOf_AlwaysTimed(r, e) ==
  [ status     |-> r.status,
    firstToken |-> r.firstToken - r.started,
    total      |-> IF r.done # 0 THEN r.done - r.started ELSE 0,
    deltas     |-> r.deltas,
    err        |-> IF e = "none" THEN NoError ELSE <<e>> ]

(* oneRequest, on what StreamChatWithRetries returned: times count from    *)
(* the start of the last attempt, not of the call.                         *)
SampleOf(r, e) ==
  [ status     |-> r.status,
    firstToken |-> IF r.firstToken # 0 THEN r.firstToken - r.started ELSE 0,
    total      |-> IF r.done # 0 THEN r.done - r.started ELSE 0,
    deltas     |-> r.deltas,
    err        |-> IF e = "none" THEN NoError ELSE <<e>> ]

(* Every sample the client leaves is one Bench.tla allows for, and a       *)
(* success began before the deadline: a request sent under an expired      *)
(* context is a failure (bench/bench.go:127-141).                          *)
SampleIsOutcome ==
  LET sample == SampleOf(result, err)
  IN  pc = "returned" =>
        /\ IsOutcome(sample)
        /\ IsSuccess(sample) => Deadline = 0 \/ result.started < Deadline
===============================================================================
