--------------------------------- MODULE Bench ---------------------------------
(***************************************************************************)
(* inferlens bench (bench/bench.go, Run and collect): the main goroutine   *)
(* checks the arguments, starts the workers one by one, waits for them on  *)
(* a WaitGroup and reports. Each worker claims the next index from a shared*)
(* atomic counter, makes the request (StreamClient.tla, here one step with *)
(* any outcome such a call may have) and writes the slot of its index. One *)
(* timeout covers the whole run.                                           *)
(*                                                                         *)
(* Slots are numbered from 1: slot i stands for samples[i - 1].            *)
(***************************************************************************)
EXTENDS BenchSummary

CONSTANTS
  RequestArgs,      \* values --requests may be given
  ConcurrencyArgs,  \* values --concurrency may be given
  Outcomes          \* samples a request may leave, see IsOutcome

ASSUME ArgsAreIntegers == RequestArgs \subseteq Int /\ ConcurrencyArgs \subseteq Int
ASSUME OutcomesAreOutcomes == \A o \in Outcomes : IsOutcome(o)

VARIABLES
  requests, concurrency,  \* the arguments
  expired,    \* the overall timeout has passed
  main,       \* where Run is
  spawned,    \* workers started
  wg,         \* the WaitGroup's counter
  next,       \* the shared atomic counter
  pc,         \* where each worker is
  slot,       \* the slot a worker works on
  late,       \* the worker's request began after the timeout
  samples,
  report,     \* <<>>, then <<the report>>
  exit        \* what Run returns: "none" yet, then "ok" or "failed"

args == <<requests, concurrency>>
vars == <<requests, concurrency, expired, main, spawned, wg, next,
          pc, slot, late, samples, report, exit>>

Workers == 1..concurrency

WorkerPCs == {"idle", "claim", "send", "flight", "leaving", "gone"}
Holding(w) == pc[w] \in {"send", "flight"}

-------------------------------------------------------------------------------
Init ==
  /\ requests \in RequestArgs
  /\ concurrency \in ConcurrencyArgs
  /\ expired = FALSE
  /\ main    = "parse"
  /\ spawned = 0
  /\ wg      = 0
  /\ next    = 0
  /\ pc      = [w \in Workers |-> "idle"]
  /\ slot    = [w \in Workers |-> 0]
  /\ late    = [w \in Workers |-> FALSE]
  /\ samples = [i \in 1..requests |-> ZeroSample]
  /\ report  = <<>>
  /\ exit    = "none"

(* Mutated: a concurrency below 1 is let through.                          *)
ArgsOK_AnyConcurrency == requests >= 1

ArgsOK == requests >= 1 /\ concurrency >= 1

Reject ==
  /\ main = "parse"
  /\ ~ArgsOK
  /\ exit' = "failed"
  /\ main' = "exited"
  /\ UNCHANGED <<args, expired, spawned, wg, next, pc, slot, late, samples, report>>

Accept ==
  /\ main = "parse"
  /\ ArgsOK
  /\ main' = "spawn"
  /\ UNCHANGED <<args, expired, spawned, wg, next, pc, slot, late, samples, report, exit>>

(* wg.Add(1), then go: the worker may run before the next one is started.  *)
Spawn ==
  /\ main = "spawn"
  /\ spawned < concurrency
  /\ spawned' = spawned + 1
  /\ wg' = wg + 1
  /\ pc' = [pc EXCEPT ![spawned + 1] = "claim"]
  /\ UNCHANGED <<args, expired, main, next, slot, late, samples, report, exit>>

SpawnedAll ==
  /\ main = "spawn"
  /\ spawned >= concurrency
  /\ main' = "wait"
  /\ UNCHANGED <<args, expired, spawned, wg, next, pc, slot, late, samples, report, exit>>

(* Mutated: the counter is read and written in two steps, so that a claim  *)
(* may be made on a stale value.                                           *)
Claim_Racy(w) ==
  /\ pc[w] = "claim"
  /\ \E seen \in {next, next - 1} \cap Nat :
       /\ next' = seen + 1
       /\ IF seen >= requests
          THEN pc' = [pc EXCEPT ![w] = "leaving"] /\ UNCHANGED slot
          ELSE pc' = [pc EXCEPT ![w] = "send"] /\ slot' = [slot EXCEPT ![w] = seen + 1]
  /\ UNCHANGED <<args, expired, main, spawned, wg, late, samples, report, exit>>

(* Mutated: the bound is tested with > instead of >=.                      *)
Claim_OffByOne(w) ==
  /\ pc[w] = "claim"
  /\ next' = next + 1
  /\ IF next > requests
     THEN pc' = [pc EXCEPT ![w] = "leaving"] /\ UNCHANGED slot
     ELSE pc' = [pc EXCEPT ![w] = "send"] /\ slot' = [slot EXCEPT ![w] = next + 1]
  /\ UNCHANGED <<args, expired, main, spawned, wg, late, samples, report, exit>>

Claim(w) ==
  /\ pc[w] = "claim"
  /\ next' = next + 1
  /\ IF next >= requests
     THEN pc' = [pc EXCEPT ![w] = "leaving"] /\ UNCHANGED slot
     ELSE pc' = [pc EXCEPT ![w] = "send"] /\ slot' = [slot EXCEPT ![w] = next + 1]
  /\ UNCHANGED <<args, expired, main, spawned, wg, late, samples, report, exit>>

Send(w) ==
  /\ pc[w] = "send"
  /\ pc'   = [pc EXCEPT ![w] = "flight"]
  /\ late' = [late EXCEPT ![w] = expired]
  /\ UNCHANGED <<args, expired, main, spawned, wg, next, slot, samples, report, exit>>

(* oneRequest returns and its sample is stored. A request sent under an    *)
(* expired context fails; one on its way at the timeout may go either way. *)
Store(w) ==
  /\ pc[w] = "flight"
  /\ \E o \in Outcomes :
       /\ late[w] => ~IsSuccess(o)
       /\ samples' = [samples EXCEPT ![slot[w]] = o]
  /\ pc' = [pc EXCEPT ![w] = "claim"]
  /\ UNCHANGED <<args, expired, main, spawned, wg, next, slot, late, report, exit>>

(* The deferred wg.Done *)
Leave(w) ==
  /\ pc[w] = "leaving"
  /\ pc' = [pc EXCEPT ![w] = "gone"]
  /\ wg' = wg - 1
  /\ UNCHANGED <<args, expired, main, spawned, next, slot, late, samples, report, exit>>

(* wg.Wait returns; the samples are summarized and the report printed.     *)
Report ==
  /\ main = "wait"
  /\ wg = 0
  /\ report' = <<Summarize(samples)>>
  /\ main' = "report"
  /\ UNCHANGED <<args, expired, spawned, wg, next, pc, slot, late, samples, exit>>

(* Mutated: one failed request fails the run.                              *)
Exit_Strict ==
  /\ main = "report"
  /\ exit' = IF report[1].failures > 0 THEN "failed" ELSE "ok"
  /\ main' = "exited"
  /\ UNCHANGED <<args, expired, spawned, wg, next, pc, slot, late, samples, report>>

Exit ==
  /\ main = "report"
  /\ exit' = IF report[1].successes = 0 THEN "failed" ELSE "ok"
  /\ main' = "exited"
  /\ UNCHANGED <<args, expired, spawned, wg, next, pc, slot, late, samples, report>>

(* Mutated: the run is not given the timeout.                              *)
Expire_NoTimeout == FALSE

(* The overall timeout; one of zero or less has passed at once.            *)
Expire ==
  /\ ~expired
  /\ main \notin {"parse", "exited"}
  /\ expired' = TRUE
  /\ UNCHANGED <<args, main, spawned, wg, next, pc, slot, late, samples, report, exit>>

Exited == main = "exited" /\ UNCHANGED vars

Main == Reject \/ Accept \/ Spawn \/ SpawnedAll \/ Report \/ Exit
Worker(w) == Claim(w) \/ Send(w) \/ Store(w) \/ Leave(w)

Next == Main \/ (\E w \in Workers : Worker(w)) \/ Expire \/ Exited

(* Goroutines that can run do; the timer fires; a request under an expired *)
(* context comes back (Termination of StreamClient.tla). The server owes   *)
(* nothing before that.                                                    *)
AnyWorker == UNION {1..c : c \in ConcurrencyArgs}

Fairness ==
  /\ WF_vars(Main) /\ WF_vars(Expire)
  /\ \A w \in AnyWorker :
       /\ WF_vars(w \in Workers /\ (Claim(w) \/ Send(w) \/ Leave(w)))
       /\ WF_vars(w \in Workers /\ expired /\ Store(w))

Spec == Init /\ [][Next]_vars
FairSpec == Spec /\ Fairness

-------------------------------------------------------------------------------
(* Properties *)

(* Every variable stays in its type: in particular no worker ever works on *)
(* a slot the slice does not have (bench/bench.go:115-119).                *)
TypeOK ==
  /\ requests \in Int /\ concurrency \in Int
  /\ expired \in BOOLEAN
  /\ main \in {"parse", "spawn", "wait", "report", "exited"}
  /\ spawned \in Nat /\ wg \in Nat /\ next \in Nat
  /\ pc \in [Workers -> WorkerPCs]
  /\ slot \in [Workers -> Nat]
  /\ \A w \in Workers : Holding(w) => slot[w] \in 1..requests
  /\ late \in [Workers -> BOOLEAN]
  /\ samples \in [1..requests -> Outcomes \cup {ZeroSample}]
  /\ report = <<>> \/ report = <<Summarize(samples)>>
  /\ exit \in {"none", "ok", "failed"}

(* No two requests write the same slot, and none a slot already written:   *)
(* the slots need no lock (bench/bench.go:115-119).                        *)
ClaimsDisjoint ==
  \A v \in Workers : Holding(v) =>
    /\ samples[slot[v]] = ZeroSample
    /\ \A w \in Workers : Holding(w) /\ slot[w] = slot[v] => w = v

(* A report is made of real samples only: no worker is still running, and  *)
(* no slot is the zero Sample, which has no error and would be counted as  *)
(* a success (bench/bench.go:57-68, 106, 123, 154-159).                    *)
ReportIsComplete ==
  report # <<>> =>
    /\ requests > 0
    /\ \A i \in 1..requests : samples[i] \in Outcomes
    /\ \A w \in Workers : pc[w] = "gone"

(* The run answers each request once and then concludes from the answers.  *)
EO == INSTANCE EachOnce WITH
        Sizes      <- RequestArgs,
        Successful <- {o \in Outcomes : IsSuccess(o)},
        Pending    <- ZeroSample,
        answers    <- samples,
        verdict    <- IF main # "exited" THEN "none"
                      ELSE IF report = <<>> THEN "rejected" ELSE exit

ImplementsEachOnce == EO!Spec

(* The run ends, at the latest some time after its timeout.                *)
Termination == <>(main = "exited")
===============================================================================
