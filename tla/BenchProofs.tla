------------------------------ MODULE BenchProofs ------------------------------
(***************************************************************************)
(* What Bench.tla states, for any arguments and any outcomes. ClaimsDisjoint*)
(* and ReportIsComplete are not inductive: that the report is complete     *)
(* rests on the counter (an index below it is written or held), on who may *)
(* leave (only a worker that saw the counter at its end) and on the        *)
(* WaitGroup counting exactly the workers that have not left.              *)
(***************************************************************************)
EXTENDS Bench, DataProofs

Running == {w \in Workers : pc[w] \notin {"idle", "gone"}}

(* The WaitGroup counts the workers started and not gone; the workers      *)
(* started are the first ones.                                             *)
Counted ==
  /\ wg = Cardinality(Running)
  /\ \A w \in Workers : pc[w] # "idle" <=> w <= spawned

(* What main has done so far.                                              *)
Progress ==
  /\ main \in {"spawn", "wait", "report"} => ArgsOK
  /\ main = "parse" => spawned = 0 /\ next = 0
  /\ main \in {"parse", "spawn", "wait"} => report = <<>>
  /\ main = "report" => report # <<>>
  /\ main = "spawn" => spawned <= concurrency
  /\ main \in {"wait", "report"} => spawned = concurrency
  /\ main = "exited" <=> exit # "none"
  /\ main = "exited" => report # <<>> \/ spawned = 0

(* The shared counter divides the slots into those claimed and those not.  *)
Claimed ==
  /\ \A i \in 1..requests : samples[i] # ZeroSample => i <= next
  /\ \A w \in Workers : Holding(w) => slot[w] <= next
  /\ \A i \in 1..requests : i <= next =>
       samples[i] # ZeroSample \/ \E w \in Workers : Holding(w) /\ slot[w] = i
  /\ \A w \in Workers : pc[w] \in {"leaving", "gone"} => next >= requests

Inductive ==
  /\ TypeOK
  /\ Counted
  /\ Progress
  /\ Claimed
  /\ ClaimsDisjoint
  /\ ReportIsComplete

-------------------------------------------------------------------------------
(* No request leaves the zero sample, so a slot that holds it was not      *)
(* stored.                                                                 *)
LEMMA ZeroIsNoOutcome == ZeroSample \notin Outcomes
BY OutcomesAreOutcomes DEF IsOutcome, IsSuccess, ZeroSample

(* The workers that run are finitely many, so they can be counted. *)
LEMMA RunningFinite ==
  ASSUME concurrency \in Int
  PROVE  IsFiniteSet(Running) /\ Cardinality(Running) \in Nat
<1>1. IsFiniteSet(Workers)
  BY FS_Interval DEF Workers
<1>2. IsFiniteSet(Running)
  BY <1>1, FS_Subset DEF Running
<1> QED BY <1>2, FS_CardinalityType

(* The invariant holds when bench.Run has been called. *)
LEMMA InitInductive == Init => Inductive
<1> SUFFICES ASSUME Init PROVE Inductive
  OBVIOUS
<1>1. TypeOK
  BY ArgsAreIntegers DEF Init, TypeOK, WorkerPCs, Holding
<1>2. Counted
  <2>1. Running = {}
    BY DEF Init, Running
  <2> QED BY <2>1, FS_EmptySet DEF Init, Counted, Workers
<1>3. Progress /\ Claimed /\ ClaimsDisjoint /\ ReportIsComplete
  BY <1>1 DEF Init, Progress, Claimed, ClaimsDisjoint, ReportIsComplete, Holding,
              TypeOK, Workers
<1> QED BY <1>1, <1>2, <1>3 DEF Inductive

-------------------------------------------------------------------------------
(* The steps of Run that start no worker and read no sample. *)
LEMMA MainInductive ==
  Inductive /\ (Reject \/ Accept \/ SpawnedAll \/ Exit \/ Expire) => Inductive'
<1> SUFFICES ASSUME Inductive, Reject \/ Accept \/ SpawnedAll \/ Exit \/ Expire
             PROVE  Inductive'
  OBVIOUS
<1> USE DEF Inductive
<1>1. UNCHANGED <<args, spawned, wg, next, pc, slot, late, samples, report>>
  BY DEF Reject, Accept, SpawnedAll, Exit, Expire
<1>2. TypeOK'
  BY <1>1 DEF TypeOK, Reject, Accept, SpawnedAll, Exit, Expire, args, Holding,
              Workers
<1>3. Counted' /\ Claimed' /\ ClaimsDisjoint' /\ ReportIsComplete'
  BY <1>1 DEF Counted, Claimed, ClaimsDisjoint, ReportIsComplete, Running, Holding,
              Workers, args
<1>4. Progress'
  <2>1. CASE Reject \/ Exit
    BY <1>1, <2>1 DEF Progress, Reject, Exit
  <2>2. CASE Accept
    BY <1>1, <2>2 DEF Progress, ArgsOK, args, TypeOK, Accept
  <2>3. CASE SpawnedAll
    BY <1>1, <2>3 DEF Progress, ArgsOK, args, TypeOK, SpawnedAll
  <2>4. CASE Expire
    BY <1>1, <2>4 DEF Progress, ArgsOK, args, Expire
  <2> QED BY <2>1, <2>2, <2>3, <2>4
<1> QED BY <1>2, <1>3, <1>4

(* Starting a worker keeps it. *)
LEMMA SpawnInductive == Inductive /\ Spawn => Inductive'
<1> SUFFICES ASSUME Inductive, Spawn PROVE Inductive'
  OBVIOUS
<1> USE DEF Inductive
<1> DEFINE w == spawned + 1
<1>1. /\ w \in Workers /\ pc[w] = "idle" /\ pc \in [Workers -> WorkerPCs]
      /\ concurrency \in Int /\ report = <<>> /\ main = "spawn" /\ spawned \in Nat
      /\ pc' = [pc EXCEPT ![w] = "claim"] /\ spawned' = w /\ wg' = wg + 1
      /\ UNCHANGED <<args, expired, main, next, slot, late, samples, report, exit>>
  BY DEF Spawn, TypeOK, Counted, Progress, Workers
<1>2. \A v \in Workers : Holding(v)' <=> Holding(v)
  BY <1>1 DEF Holding
<1>3. TypeOK'
  BY <1>1, <1>2 DEF TypeOK, args, Workers, WorkerPCs
<1>4. Counted'
  <2>1. Running' = Running \cup {w} /\ w \notin Running
    BY <1>1 DEF Running, Workers, args
  <2>2. Cardinality(Running') = Cardinality(Running) + 1
    BY <1>1, <2>1, RunningFinite, FS_AddElement
  <2>3. \A v \in Workers : pc'[v] # "idle" <=> v <= spawned'
    BY <1>1 DEF Counted, Workers
  <2> QED BY <1>1, <2>2, <2>3 DEF Counted, Workers, args
<1>5. Progress'
  BY <1>1 DEF Progress, ArgsOK, args, Workers
<1>6. Claimed' /\ ClaimsDisjoint' /\ ReportIsComplete'
  BY <1>1, <1>2 DEF Claimed, ClaimsDisjoint, ReportIsComplete, Workers, args
<1> QED BY <1>3, <1>4, <1>5, <1>6

(* A worker that is running was started, so main is past the arguments,    *)
(* and waits for it.                                                       *)
LEMMA RunningStarted ==
  ASSUME Inductive, NEW w \in Workers, pc[w] \notin {"idle", "gone"}
  PROVE  main # "parse" /\ main # "exited"
<1>1. w <= spawned /\ w > 0 /\ w \in Int /\ spawned \in Int
  BY DEF Inductive, Counted, TypeOK, Workers
<1>2. report = <<>>
  BY DEF Inductive, ReportIsComplete
<1> QED BY <1>1, <1>2 DEF Inductive, Progress

(* A step of a worker that neither starts nor ends it leaves the WaitGroup *)
(* right.                                                                  *)
LEMMA RunningKept ==
  ASSUME Inductive, NEW w \in Workers, NEW p \in {"claim", "send", "flight", "leaving"},
         pc[w] \notin {"idle", "gone"}, pc' = [pc EXCEPT ![w] = p],
         UNCHANGED <<args, spawned, wg>>
  PROVE  Counted'
<1>1. pc \in [Workers -> WorkerPCs]
  BY DEF Inductive, TypeOK
<1>2. Running' = Running
  BY <1>1 DEF Running, Workers, args
<1> QED BY <1>1, <1>2 DEF Inductive, Counted, Workers, args

(* Taking the next number from the shared counter keeps it. *)
LEMMA ClaimInductive ==
  ASSUME Inductive, NEW w \in Workers, Claim(w)
  PROVE  Inductive'
<1> USE DEF Inductive
<1>1. /\ pc[w] = "claim" /\ pc \in [Workers -> WorkerPCs]
      /\ slot \in [Workers -> Nat] /\ next \in Nat /\ next' = next + 1
      /\ requests \in Int /\ report = <<>>
      /\ UNCHANGED <<args, expired, main, spawned, wg, late, samples, report, exit>>
  BY DEF Claim, TypeOK, ReportIsComplete
<1>2. CASE next >= requests
  <2>1. pc' = [pc EXCEPT ![w] = "leaving"] /\ slot' = slot
    BY <1>2 DEF Claim
  <2>2. \A v \in Workers : Holding(v)' <=> Holding(v)
    BY <1>1, <2>1 DEF Holding
  <2>3. TypeOK'
    BY <1>1, <2>1, <2>2 DEF TypeOK, args, Workers, WorkerPCs
  <2>4. Counted'
    BY <1>1, <2>1, RunningKept
  <2>5. Progress'
    BY <1>1, RunningStarted DEF Progress, ArgsOK, args
  <2>6. Claimed'
    <3>1. \A i \in 1..requests : i <= next' =>
            samples[i] # ZeroSample \/ \E v \in Workers : Holding(v) /\ slot[v] = i
      BY <1>1, <1>2 DEF Claimed
    <3>2. \A v \in Workers : pc'[v] \in {"leaving", "gone"} => next' >= requests
      BY <1>1, <1>2
    <3>3. /\ \A i \in 1..requests : samples[i] # ZeroSample => i <= next'
          /\ \A v \in Workers : Holding(v) => slot[v] <= next'
      BY <1>1 DEF Claimed
    <3> QED BY <1>1, <2>1, <2>2, <3>1, <3>2, <3>3 DEF Claimed, Workers, args
  <2>7. ClaimsDisjoint' /\ ReportIsComplete'
    BY <1>1, <2>1, <2>2 DEF ClaimsDisjoint, ReportIsComplete, Workers, args
  <2> QED BY <2>3, <2>4, <2>5, <2>6, <2>7
<1>3. CASE next < requests
  <2>1. /\ pc' = [pc EXCEPT ![w] = "send"]
        /\ slot' = [slot EXCEPT ![w] = next + 1]
        /\ next + 1 \in 1..requests
    BY <1>1, <1>3 DEF Claim
  <2>2. /\ ~Holding(w) /\ Holding(w)' /\ slot'[w] = next + 1
        /\ \A v \in Workers : v # w => (Holding(v)' <=> Holding(v)) /\ slot'[v] = slot[v]
    BY <1>1, <2>1 DEF Holding
  <2>3. TypeOK'
    BY <1>1, <2>1, <2>2 DEF TypeOK, args, Workers, WorkerPCs
  <2>4. Counted'
    BY <1>1, <2>1, RunningKept
  <2>5. Progress'
    BY <1>1, RunningStarted DEF Progress, ArgsOK, args
  <2>6. Claimed'
    <3>1. \A i \in 1..requests : i <= next + 1 =>
            samples[i] # ZeroSample \/ \E v \in Workers : Holding(v)' /\ slot'[v] = i
      <4> SUFFICES ASSUME NEW i \in 1..requests, i <= next + 1, samples[i] = ZeroSample
                   PROVE  \E v \in Workers : Holding(v)' /\ slot'[v] = i
        OBVIOUS
      <4>1. CASE i = next + 1
        BY <2>2, <4>1
      <4>2. CASE i <= next
        BY <2>2, <4>2 DEF Claimed
      <4> QED BY <1>1, <4>1, <4>2
    <3>2. \A v \in Workers : Holding(v)' => slot'[v] <= next'
      BY <1>1, <2>2 DEF Claimed
    <3>3. \A v \in Workers : pc'[v] \in {"leaving", "gone"} => next' >= requests
      BY <1>1, <2>1 DEF Claimed
    <3> QED BY <1>1, <3>1, <3>2, <3>3 DEF Claimed, Workers, args
  <2>7. ClaimsDisjoint'
    <3>1. samples[next + 1] = ZeroSample
      BY <1>1, <2>1 DEF Claimed
    <3>2. \A v \in Workers : Holding(v) => slot[v] # next + 1
      BY <1>1 DEF Claimed
    <3> QED BY <1>1, <2>2, <3>1, <3>2 DEF ClaimsDisjoint, Workers, args
  <2>8. ReportIsComplete'
    BY <1>1 DEF ReportIsComplete
  <2> QED BY <2>3, <2>4, <2>5, <2>6, <2>7, <2>8
<1> QED BY <1>1, <1>2, <1>3

(* Sending the request keeps it. *)
LEMMA SendInductive ==
  ASSUME Inductive, NEW w \in Workers, Send(w)
  PROVE  Inductive'
<1> USE DEF Inductive
<1>1. /\ pc[w] = "send" /\ pc \in [Workers -> WorkerPCs] /\ report = <<>>
      /\ pc' = [pc EXCEPT ![w] = "flight"] /\ late' = [late EXCEPT ![w] = expired]
      /\ UNCHANGED <<args, expired, main, spawned, wg, next, slot, samples, report, exit>>
  BY DEF Send, TypeOK, ReportIsComplete
<1>2. \A v \in Workers : Holding(v)' <=> Holding(v)
  BY <1>1 DEF Holding
<1>3. TypeOK'
  BY <1>1, <1>2 DEF TypeOK, args, Workers, WorkerPCs
<1>4. Counted'
  BY <1>1, RunningKept
<1>5. Progress'
  BY <1>1 DEF Progress, ArgsOK, args
<1>6. Claimed' /\ ClaimsDisjoint' /\ ReportIsComplete'
  BY <1>1, <1>2 DEF Claimed, ClaimsDisjoint, ReportIsComplete, Workers, args
<1> QED BY <1>3, <1>4, <1>5, <1>6

(* Storing the sample in the worker's own slot keeps it. *)
LEMMA StoreInductive ==
  ASSUME Inductive, NEW w \in Workers, Store(w)
  PROVE  Inductive'
<1> USE DEF Inductive
<1>1. PICK o \in Outcomes : samples' = [samples EXCEPT ![slot[w]] = o]
  BY DEF Store
<1>2. /\ pc[w] = "flight" /\ pc \in [Workers -> WorkerPCs] /\ report = <<>>
      /\ pc' = [pc EXCEPT ![w] = "claim"]
      /\ samples \in [1..requests -> Outcomes \cup {ZeroSample}]
      /\ UNCHANGED <<args, expired, main, spawned, wg, next, slot, late, report, exit>>
  BY DEF Store, TypeOK, ReportIsComplete
<1>3. /\ Holding(w) /\ ~Holding(w)' /\ slot[w] \in 1..requests
      /\ \A v \in Workers : v # w => (Holding(v)' <=> Holding(v))
      /\ \A v \in Workers : v # w /\ Holding(v) => slot[v] # slot[w]
  BY <1>2 DEF Holding, TypeOK, ClaimsDisjoint
<1>4. /\ samples'[slot[w]] = o /\ o # ZeroSample
      /\ \A i \in 1..requests : i # slot[w] => samples'[i] = samples[i]
      /\ samples' \in [1..requests -> Outcomes \cup {ZeroSample}]
  BY <1>1, <1>2, <1>3, ZeroIsNoOutcome
<1>5. TypeOK'
  BY <1>2, <1>3, <1>4 DEF TypeOK, args, Workers, WorkerPCs
<1>6. Counted'
  BY <1>2, RunningKept
<1>7. Progress'
  BY <1>2 DEF Progress, ArgsOK, args
<1>8. Claimed'
  <2>1. \A i \in 1..requests : samples'[i] # ZeroSample => i <= next
    BY <1>3, <1>4 DEF Claimed
  <2>2. \A v \in Workers : Holding(v)' => slot[v] <= next
    BY <1>3 DEF Claimed
  <2>3. \A i \in 1..requests : i <= next =>
          samples'[i] # ZeroSample \/ \E v \in Workers : Holding(v)' /\ slot[v] = i
    BY <1>3, <1>4 DEF Claimed
  <2>4. \A v \in Workers : pc'[v] \in {"leaving", "gone"} => next >= requests
    BY <1>2 DEF Claimed
  <2> QED BY <1>2, <2>1, <2>2, <2>3, <2>4 DEF Claimed, Workers, args
<1>9. ClaimsDisjoint'
  <2>1. \A v \in Workers : Holding(v)' => samples'[slot[v]] = ZeroSample
    BY <1>3, <1>4 DEF ClaimsDisjoint, TypeOK
  <2>2. \A u, v \in Workers : Holding(u)' /\ Holding(v)' /\ slot[u] = slot[v] => u = v
    BY <1>3 DEF ClaimsDisjoint
  <2> QED BY <1>2, <2>1, <2>2 DEF ClaimsDisjoint, Workers, args
<1>10. ReportIsComplete'
  BY <1>2 DEF ReportIsComplete
<1> QED BY <1>5, <1>6, <1>7, <1>8, <1>9, <1>10

(* Leaving the loop keeps it. *)
LEMMA LeaveInductive ==
  ASSUME Inductive, NEW w \in Workers, Leave(w)
  PROVE  Inductive'
<1> USE DEF Inductive
<1>1. /\ pc[w] = "leaving" /\ pc \in [Workers -> WorkerPCs] /\ report = <<>>
      /\ pc' = [pc EXCEPT ![w] = "gone"] /\ wg' = wg - 1 /\ concurrency \in Int
      /\ UNCHANGED <<args, expired, main, spawned, next, slot, late, samples, report, exit>>
  BY DEF Leave, TypeOK, ReportIsComplete
<1>2. \A v \in Workers : Holding(v)' <=> Holding(v)
  BY <1>1 DEF Holding
<1>3. Counted' /\ wg' \in Nat
  <2>1. w \in Running /\ Running' = Running \ {w}
    BY <1>1 DEF Running, Workers, args
  <2>2. /\ Cardinality(Running') = Cardinality(Running) - 1
        /\ Cardinality(Running') \in Nat
    BY <1>1, <2>1, RunningFinite, FS_RemoveElement, FS_CardinalityType
  <2>3. \A v \in Workers : pc'[v] # "idle" <=> v <= spawned
    BY <1>1 DEF Counted
  <2> QED BY <1>1, <2>2, <2>3 DEF Counted, Workers, args
<1>4. TypeOK'
  BY <1>1, <1>2, <1>3 DEF TypeOK, args, Workers, WorkerPCs
<1>5. Progress'
  BY <1>1 DEF Progress, ArgsOK, args
<1>6. Claimed'
  BY <1>1, <1>2 DEF Claimed, Workers, args
<1>7. ClaimsDisjoint' /\ ReportIsComplete'
  BY <1>1, <1>2 DEF ClaimsDisjoint, ReportIsComplete, Workers, args
<1> QED BY <1>3, <1>4, <1>5, <1>6, <1>7

(* The WaitGroup at zero means that every worker has left; one of them saw *)
(* the counter past the last index, and nobody holds a slot.               *)
LEMMA ReportInductive == Inductive /\ Report => Inductive'
<1> SUFFICES ASSUME Inductive, Report PROVE Inductive'
  OBVIOUS
<1> USE DEF Inductive
<1>1. /\ main = "wait" /\ main' = "report" /\ wg = 0 /\ spawned = concurrency
      /\ requests \in Int /\ concurrency \in Int /\ requests >= 1 /\ concurrency >= 1
      /\ report' = <<Summarize(samples)>>
      /\ UNCHANGED <<args, expired, spawned, wg, next, pc, slot, late, samples, exit>>
  BY DEF Report, Progress, ArgsOK, TypeOK
<1>2. Running = {}
  BY <1>1, RunningFinite, FS_EmptySet DEF Counted
<1>3. \A w \in Workers : pc[w] = "gone"
  BY <1>1, <1>2 DEF Running, Counted, Workers
<1>4. next >= requests
  <2>1. 1 \in Workers
    BY <1>1 DEF Workers
  <2> QED BY <1>3, <2>1 DEF Claimed
<1>5. \A i \in 1..requests : samples[i] \in Outcomes
  <2> SUFFICES ASSUME NEW i \in 1..requests
               PROVE  samples[i] \in Outcomes
    OBVIOUS
  <2>1. i <= next
    BY <1>1, <1>4 DEF TypeOK
  <2>2. samples[i] # ZeroSample
    BY <1>3, <2>1 DEF Claimed, Holding
  <2> QED BY <2>2 DEF TypeOK
<1>6. ReportIsComplete'
  BY <1>1, <1>3, <1>5 DEF ReportIsComplete, Workers, args
<1>7. TypeOK'
  BY <1>1 DEF TypeOK, args, Workers, Holding
<1>8. Counted' /\ Claimed' /\ ClaimsDisjoint'
  BY <1>1 DEF Counted, Claimed, ClaimsDisjoint, Running, Holding, Workers, args
<1>9. Progress'
  BY <1>1 DEF Progress, ArgsOK, args
<1> QED BY <1>6, <1>7, <1>8, <1>9

(* A step of anything else keeps it. *)
LEMMA StutterInductive == Inductive /\ UNCHANGED vars => Inductive'
BY DEF Inductive, TypeOK, Counted, Progress, Claimed, ClaimsDisjoint,
       ReportIsComplete, Running, Holding, Workers, ArgsOK, vars

(* Every step keeps it. *)
LEMMA StepInductive == Inductive /\ [Next]_vars => Inductive'
<1> SUFFICES ASSUME Inductive, [Next]_vars PROVE Inductive'
  OBVIOUS
<1>1. CASE Main
  BY <1>1, MainInductive, SpawnInductive, ReportInductive DEF Main
<1>2. CASE \E w \in Workers : Worker(w)
  BY <1>2, ClaimInductive, SendInductive, StoreInductive, LeaveInductive DEF Worker
<1>3. CASE Expire
  BY <1>3, MainInductive
<1>4. CASE Exited \/ UNCHANGED vars
  BY <1>4, StutterInductive DEF Exited
<1> QED BY <1>1, <1>2, <1>3, <1>4 DEF Next

(* It holds in every state. *)
LEMMA InductiveHolds == Spec => []Inductive
BY InitInductive, StepInductive, PTL DEF Spec

-------------------------------------------------------------------------------
(* The theorems *)

(* Every variable keeps its type: no slot outside the slice is written and *)
(* the WaitGroup never goes below zero.                                    *)
THEOREM TypeCorrect == Spec => []TypeOK
<1>1. Inductive => TypeOK
  BY DEF Inductive
<1> QED BY <1>1, InductiveHolds, PTL

(* No two requests share a slot, whatever the number of workers.           *)
THEOREM SlotsNeedNoLock == Spec => []ClaimsDisjoint
<1>1. Inductive => ClaimsDisjoint
  BY DEF Inductive
<1> QED BY <1>1, InductiveHolds, PTL

(* What is reported was measured: no slot is left at its zero value.       *)
THEOREM ReportComplete == Spec => []ReportIsComplete
<1>1. Inductive => ReportIsComplete
  BY DEF Inductive
<1> QED BY <1>1, InductiveHolds, PTL

(* The report of a run, whenever it is looked at, counts the requests that *)
(* were asked for once each, and its percentiles are the nearest-rank ones *)
(* of what the successful ones took (bench/bench.go:71-76, 143-212).       *)
THEOREM ReportIsTrue ==
  Spec => [](report # <<>> =>
               /\ report[1].successes + report[1].failures = requests
               /\ RequestsCounted(samples, report[1])
               /\ LatenciesSummarized(samples, report[1]))
<1> DEFINE True == /\ report[1].successes + report[1].failures = requests
                   /\ RequestsCounted(samples, report[1])
                   /\ LatenciesSummarized(samples, report[1])
<1>1. Inductive => (report # <<>> => True)
  <2> SUFFICES ASSUME Inductive, report # <<>> PROVE True
    OBVIOUS
  <2>1. /\ requests \in Int /\ requests > 0
        /\ samples \in [1..requests -> Outcomes \cup {ZeroSample}]
        /\ \A i \in 1..requests : samples[i] \in Outcomes
        /\ report[1] = Summarize(samples)
    BY DEF Inductive, TypeOK, ReportIsComplete
  <2>2. samples \in Seq(Outcomes) /\ Len(samples) = requests
    <3>1. samples \in [1..requests -> Outcomes]
      BY <2>1
    <3> QED BY <2>1, <3>1
  <2>3. RequestsCounted(samples, report[1])
    BY <2>1, <2>2, SummaryOfRequests, Zenon
  <2>4. LatenciesSummarized(samples, report[1])
    BY <2>1, <2>2, SummaryOfLatencies, OutcomesAreOutcomes, Zenon
  <2>5. report[1].successes + report[1].failures = requests
    BY <2>2, <2>3 DEF RequestsCounted
  <2> QED BY <2>3, <2>4, <2>5
<1> QED BY <1>1, InductiveHolds, PTL

-------------------------------------------------------------------------------
(* The implementation of EachOnce *)

(* The run starts with no request answered. *)
LEMMA InitImplements == Init => EO!Init
BY DEF Init, EO!Init

(* The exit status is read off the report, which counts the successes.     *)
LEMMA SuccessesCounted ==
  ASSUME requests \in Int, DOMAIN samples = 1..requests
  PROVE  Summarize(samples).successes = 0 <=> Successes(samples) = {}
<1>1. IsFiniteSet(1..requests)
  BY FS_Interval
<1>2. IsFiniteSet(Successes(samples))
  BY <1>1, FS_Subset DEF Successes
<1>3. Summarize(samples).successes = Cardinality(Successes(samples))
  BY DEF Summarize
<1> QED BY <1>2, <1>3, FS_EmptySet

(* Exiting is concluding: by then every request has its answer. *)
LEMMA ExitImplements == Inductive /\ Exit => EO!Conclude
<1> SUFFICES ASSUME Inductive, Exit PROVE EO!Conclude
  OBVIOUS
<1> USE DEF Inductive
<1>1. /\ main = "report" /\ main' = "exited" /\ requests \in Int
      /\ samples' = samples /\ report' = report
      /\ report = <<Summarize(samples)>>
      /\ DOMAIN samples = 1..requests
      /\ \A i \in 1..requests : samples[i] \in Outcomes
  BY DEF Exit, Progress, TypeOK, ReportIsComplete
<1>2. exit' = IF Successes(samples) = {} THEN "failed" ELSE "ok"
  BY <1>1, SuccessesCounted DEF Exit
<1>3. Successes(samples) # {} <=>
        \E i \in DOMAIN samples : samples[i] \in {o \in Outcomes : IsSuccess(o)}
  BY <1>1 DEF Successes
<1>4. \A i \in DOMAIN samples : samples[i] # ZeroSample
  BY <1>1, ZeroIsNoOutcome
<1>5. report # <<>>
  BY <1>1
<1> QED BY <1>1, <1>2, <1>3, <1>4, <1>5 DEF EO!Conclude

(* Storing a sample answers one request that had no answer. *)
LEMMA StoreImplements ==
  ASSUME Inductive, NEW w \in Workers, Store(w)
  PROVE  EO!Next
<1>1. /\ slot[w] \in DOMAIN samples /\ samples[slot[w]] = ZeroSample
      /\ main # "exited"
  BY RunningStarted DEF Inductive, Store, TypeOK, ClaimsDisjoint, Holding
<1>2. /\ \E o \in Outcomes : samples' = [samples EXCEPT ![slot[w]] = o]
      /\ main' = main
  BY DEF Store
<1>3. EO!Answer(slot[w])
  BY <1>1, <1>2 DEF EO!Answer
<1> QED BY <1>1, <1>3 DEF EO!Next

(* Bad arguments end the run before any request.                           *)
LEMMA RejectImplements == Inductive /\ Reject => EO!Reject
<1> SUFFICES ASSUME Inductive, Reject PROVE EO!Reject
  OBVIOUS
<1>1. /\ main = "parse" /\ main' = "exited" /\ samples' = samples
      /\ report = <<>> /\ report' = report /\ next = 0
      /\ DOMAIN samples = 1..requests /\ requests \in Int
  BY DEF Inductive, Reject, Progress, TypeOK
<1>2. \A i \in DOMAIN samples : samples[i] = ZeroSample
  BY <1>1 DEF Inductive, Claimed
<1> QED BY <1>1, <1>2 DEF EO!Reject

(* Every step answers one request, concludes, or leaves the answers alone. *)
LEMMA StepImplements == Inductive /\ [Next]_vars => [EO!Next]_EO!evars
<1> SUFFICES ASSUME Inductive, [Next]_vars
             PROVE  EO!Next \/ UNCHANGED EO!evars
  OBVIOUS
<1>1. CASE Reject
  BY <1>1, RejectImplements DEF EO!Next
<1>2. CASE Exit
  BY <1>2, ExitImplements DEF EO!Next
<1>3. CASE \E w \in Workers : Store(w)
  BY <1>3, StoreImplements
<1>4. CASE Accept \/ Spawn \/ SpawnedAll \/ Report
  BY <1>4 DEF Accept, Spawn, SpawnedAll, Report, EO!evars
<1>5. CASE \E w \in Workers : Claim(w) \/ Send(w) \/ Leave(w)
  <2>1. UNCHANGED <<main, samples, report, exit>>
    BY <1>5 DEF Claim, Send, Leave
  <2> QED BY <2>1 DEF EO!evars
<1>6. CASE Expire
  BY <1>6 DEF Expire, EO!evars
<1>7. CASE Exited \/ UNCHANGED vars
  BY <1>7 DEF Exited, vars, EO!evars
<1> QED BY <1>1, <1>2, <1>3, <1>4, <1>5, <1>6, <1>7 DEF Next, Main, Worker

(* Any number of workers answer each request once, and the exit status     *)
(* follows from the answers.                                               *)
THEOREM Refinement == Spec => ImplementsEachOnce
BY InitImplements, StepImplements, InductiveHolds, PTL
DEF Spec, ImplementsEachOnce, EO!Spec
===============================================================================
