---------------------------- MODULE MCBenchSummary ----------------------------
(***************************************************************************)
(* BenchSummary over bounded runs. A behaviour fills in one sample list by *)
(* appending blocks of equal samples, so that lists long enough for P95 to *)
(* differ from the maximum (20 samples and more) are reached in few steps; *)
(* the operators are compared with definitions that neither sort nor group.*)
(***************************************************************************)
EXTENDS BenchSummary

CONSTANTS Outcomes,    \* the samples a request may leave
          Blocks,      \* sizes of a block
          MaxBlocks    \* bound on the number of blocks

ASSUME BenchConstants ==
  Blocks \subseteq Nat /\ \A o \in Outcomes : IsOutcome(o)

VARIABLES samples, blocks

svars == <<samples, blocks>>

Init == samples = <<>> /\ blocks = 0

AppendBlock(o, k) ==
  /\ blocks < MaxBlocks
  /\ blocks'  = blocks + 1
  /\ samples' = samples \o [i \in 1..k |-> o]

Done == blocks = MaxBlocks /\ UNCHANGED svars

Next == (\E o \in Outcomes, k \in Blocks : AppendBlock(o, k)) \/ Done

Spec == Init /\ [][Next]_svars

-------------------------------------------------------------------------------
Sample(st, ft, tot, d, e) ==
  [status |-> st, firstToken |-> ft, total |-> tot, deltas |-> d, err |-> e]

(* Two latencies whose order the two fields disagree on, a success without *)
(* content, and three errors of which two share their first line.          *)
MCOutcomes ==
  { Sample(200, 1, 5, 2, NoError), Sample(200, 3, 4, 1, NoError),
    Sample(200, 0, 2, 0, NoError),
    Sample(503, 0, 1, 0, <<"busy">>), Sample(500, 0, 1, 0, <<"busy", "detail">>),
    Sample(0, 0, 1, 0, <<"refused">>) }

-------------------------------------------------------------------------------
(* The reported percentiles are the nearest-rank ones of README.md:157 and *)
(* zero when nothing was measured (bench/bench.go:183-212).                *)
NearestRank == LatenciesSummarized(samples, Summarize(samples))

(* Every request is counted once, as a success or under one error line,    *)
(* although different error texts share a line (bench/bench.go:152-168).   *)
EveryRequestCounted == RequestsCounted(samples, Summarize(samples))
===============================================================================
