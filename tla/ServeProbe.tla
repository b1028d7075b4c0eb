------------------------------ MODULE ServeProbe -------------------------------
(***************************************************************************)
(* inferlens ping serve (pkg/mode/serve.go, runtime/health.go,             *)
(* metrics/metrics.go, output/output.go): a health check, a metrics        *)
(* snapshot, the streaming request (StreamClient.tla, here one step with   *)
(* its verdict), a second snapshot, the report. The health check and each  *)
(* snapshot have a timeout of their own within the overall deadline.       *)
(*                                                                         *)
(* The inference server is the environment: it generates tokens for this   *)
(* request and for others, under several label sets, may restart and may   *)
(* then export its counter under another name. The steps of the code take  *)
(* no time: the clock stands still while a timeout is due.                 *)
(***************************************************************************)
EXTENDS Observations

CONSTANTS
  HealthLimit,   \* healthTimeout, in ticks
  MetricsLimit,  \* metricsFetchTimeout, in ticks
  Deadlines,     \* ticks at which the overall context may be done; 0: never
  MaxTime,       \* bound on the clock
  Labels,        \* label sets of the counter, as a sequence
  MaxTokens,     \* bound on the counter under one label set
  MaxRestarts    \* bound on the restarts of the server

ASSUME ServeConstants ==
  /\ HealthLimit \in Nat \ {0} /\ MetricsLimit \in Nat \ {0}
  /\ Deadlines \subseteq Nat /\ MaxTime \in Nat
  /\ Labels \in Seq(STRING)
  /\ MaxTokens \in Nat /\ MaxRestarts \in Nat

(* The names an observer reads, in order of preference.                    *)
TokenNames   == <<"tokens_total", "tokens">>
WaitingNames == <<"waiting">>

VARIABLES
  (* the inference server *)
  tokens,      \* tokens generated since its start, per label set
  waiting,     \* requests in its queue
  alias,       \* the name it exports its counter under
  restarts,    \* how often it has restarted
  own,         \* tokens it has generated for this probe
  (* the probe *)
  deadline,    \* of the overall context; fixed for the run
  pc,          \* where Ping is
  now, since,  \* the clock, and the start of the current call
  health,      \* what healthText will say
  before, after,       \* the snapshots; no metric before they are fetched
  seen,        \* history: the server when each snapshot was taken
  obsErr,      \* "none", or the fetch that failed
  late,        \* the request was made under an expired context
  firstToken,  \* "none", "normal" or "high": the latency of the first token
  probeErr,
  report,      \* <<>>, then <<the report>>
  exitCode

server  == <<tokens, waiting, alias, restarts, own>>
metrics == <<before, after, seen, obsErr>>
vars == <<server, deadline, pc, now, since, health, metrics, late, firstToken,
          probeErr, report, exitCode>>

Server == [restarts |-> restarts, alias |-> alias]

NoSnapshot == [n \in {} |-> 0]

Expired == deadline # 0 /\ now >= deadline

Init ==
  /\ tokens = [i \in DOMAIN Labels |-> 0]
  /\ waiting = 0 /\ alias \in Range(TokenNames) /\ restarts = 0 /\ own = 0
  /\ deadline \in Deadlines
  /\ pc = "health" /\ now = 0 /\ since = 0
  /\ health = "none"
  /\ before = NoSnapshot /\ after = NoSnapshot
  /\ seen = [before |-> Server, after |-> Server]
  /\ obsErr = "none"
  /\ late = FALSE /\ firstToken = "none" /\ probeErr = FALSE
  /\ report = <<>> /\ exitCode = "none"

-------------------------------------------------------------------------------
(* Timeouts *)

(* Mutated: the fetch is given the overall context.                        *)
CallOver_MetricsUnlimited ==
  \/ Expired
  \/ pc = "health" /\ now - since >= HealthLimit

(* Mutated: the streaming request is made without the overall context.     *)
CallOver_StreamUnbounded ==
  \/ Expired /\ pc # "stream"
  \/ pc = "health" /\ now - since >= HealthLimit
  \/ pc \in {"before", "after"} /\ now - since >= MetricsLimit

(* The context of the current call is done.                                *)
CallOver ==
  \/ Expired
  \/ pc = "health" /\ now - since >= HealthLimit
  \/ pc \in {"before", "after"} /\ now - since >= MetricsLimit

(* The call in progress ends and the next one begins. *)
Goto(next) == pc' = next /\ since' = now

-------------------------------------------------------------------------------
(* CheckHealth: any answer counts, only its status matters; without one    *)
(* the health is unavailable. Either way the probe goes on.                *)
HealthAnswers ==
  /\ pc = "health"
  /\ health' \in {"healthy", "unhealthy"}
  /\ Goto("before")
  /\ UNCHANGED <<server, deadline, now, metrics, late, firstToken, probeErr,
                 report, exitCode>>

HealthFails ==
  /\ pc = "health"
  /\ health' = "unavailable"
  /\ Goto("before")
  /\ UNCHANGED <<server, deadline, now, metrics, late, firstToken, probeErr,
                 report, exitCode>>

(* What the server answers to a metrics request: its counter per label set,*)
(* a histogram series, a comment and the gauge.                            *)
Payload ==
  [i \in DOMAIN Labels |-> [kind |-> "sample", name |-> alias, value |-> tokens[i]]]
  \o << [kind |-> "series", name |-> alias, value |-> 7],
        [kind |-> "else", name |-> alias, value |-> 0],
        [kind |-> "sample", name |-> "waiting", value |-> waiting] >>

BeforeFetched ==
  /\ pc = "before"
  /\ before' = ParseSnapshot(Payload)
  /\ seen' = [seen EXCEPT !.before = Server]
  /\ Goto("stream") /\ late' = Expired
  /\ UNCHANGED <<server, deadline, now, health, after, obsErr, firstToken,
                 probeErr, report, exitCode>>

BeforeFails ==
  /\ pc = "before"
  /\ obsErr' = "before"
  /\ Goto("stream") /\ late' = Expired
  /\ UNCHANGED <<server, deadline, now, health, before, after, seen,
                 firstToken, probeErr, report, exitCode>>

(* The streaming request returns; made under an expired context it fails.  *)
(* The second snapshot is fetched only if there is a first one.            *)
StreamReturns ==
  /\ pc = "stream"
  /\ probeErr' \in BOOLEAN
  /\ late => probeErr'
  /\ firstToken' \in IF own = 0 THEN {"none"} ELSE {"none", "normal", "high"}
  /\ Goto(IF obsErr = "none" THEN "after" ELSE "report")
  /\ UNCHANGED <<server, deadline, now, health, metrics, late, report,
                 exitCode>>

AfterFetched ==
  /\ pc = "after"
  /\ after' = ParseSnapshot(Payload)
  /\ seen' = [seen EXCEPT !.after = Server]
  /\ Goto("report")
  /\ UNCHANGED <<server, deadline, now, health, before, obsErr, late,
                 firstToken, probeErr, report, exitCode>>

AfterFails ==
  /\ pc = "after"
  /\ obsErr' = "after"
  /\ Goto("report")
  /\ UNCHANGED <<server, deadline, now, health, before, after, seen, late,
                 firstToken, probeErr, report, exitCode>>

-------------------------------------------------------------------------------
(* The report *)

Tokens  == Observation(before, after, TokenNames)
Waiting == Observation(before, after, WaitingNames)

NoObservation == [source |-> "", before |-> Absent, after |-> Absent]

(* Mutated: the queue is judged although no snapshot was taken after.      *)
Diagnosis_TrustsZero ==
  IF probeErr THEN {"failed"}
  ELSE {firstToken} \cup
       (IF Waiting.after.value > 0 THEN {"queue pressure"} ELSE {"no queue buildup"})

(* printDiagnosis: one statement on the first token, one on the server     *)
Diagnosis ==
  IF probeErr THEN {"failed"}
  ELSE {firstToken} \cup
       (IF obsErr # "none" THEN {"client timeline only"}
        ELSE IF Waiting.after.present /\ Waiting.after.value > 0 THEN {"queue pressure"}
        ELSE IF Waiting.before.present /\ Waiting.after.present THEN {"no queue buildup"}
        ELSE {})

Report ==
  /\ pc = "report"
  /\ report' = <<[ health    |-> health,
                   observed  |-> obsErr = "none",
                   tokens    |-> IF obsErr = "none" THEN Tokens ELSE NoObservation,
                   diagnosis |-> Diagnosis ]>>
  /\ Goto("exit")
  /\ UNCHANGED <<server, deadline, now, health, metrics, late, firstToken,
                 probeErr, exitCode>>

Exit ==
  /\ pc = "exit"
  /\ exitCode' = IF probeErr THEN "failed" ELSE "ok"
  /\ Goto("exited")
  /\ UNCHANGED <<server, deadline, now, health, metrics, late, firstToken,
                 probeErr, report>>

-------------------------------------------------------------------------------
(* The server and the clock *)

(* Once the last call is over nothing the server does is observed.         *)
Running == pc \in {"health", "before", "stream", "after"}
probe == <<deadline, pc, now, since, health, metrics, late, firstToken, probeErr,
           report, exitCode>>

Generate(i) ==
  /\ Running
  /\ tokens[i] < MaxTokens
  /\ tokens' = [tokens EXCEPT ![i] = @ + 1]
  /\ own' \in IF pc = "stream" /\ ~late THEN {own, own + 1} ELSE {own}
  /\ UNCHANGED <<waiting, alias, restarts, probe>>

Queue ==
  /\ Running
  /\ waiting' = 1 - waiting
  /\ UNCHANGED <<tokens, alias, restarts, own, probe>>

Restart ==
  /\ Running
  /\ restarts < MaxRestarts
  /\ restarts' = restarts + 1
  /\ tokens' = [i \in DOMAIN Labels |-> 0]
  /\ waiting' = 0
  /\ alias' \in Range(TokenNames)
  /\ UNCHANGED <<own, probe>>

Tick ==
  /\ Running
  /\ ~CallOver
  /\ now < MaxTime
  /\ now' = now + 1
  /\ UNCHANGED <<server, deadline, pc, since, health, metrics, late, firstToken, probeErr,
                 report, exitCode>>

Exited == pc = "exited" /\ UNCHANGED vars

Calls == \/ HealthAnswers \/ HealthFails
         \/ BeforeFetched \/ BeforeFails
         \/ StreamReturns
         \/ AfterFetched \/ AfterFails

Conclude == Report \/ Exit

Environment == (\E i \in DOMAIN Labels : Generate(i)) \/ Queue \/ Restart

Next == Calls \/ Conclude \/ Environment \/ Tick \/ Exited

(* The goroutine runs, the clock advances, and a call whose context is done*)
(* returns. The server owes nothing.                                       *)
Fairness ==
  /\ WF_vars(Conclude) /\ WF_vars(Tick)
  /\ WF_vars(CallOver /\ Calls)

Spec == Init /\ [][Next]_vars
FairSpec == Spec /\ Fairness

-------------------------------------------------------------------------------
(* Properties *)

Observed == report # <<>> /\ report[1].observed

IsSnapshot(s) ==
  /\ DOMAIN s \subseteq Range(TokenNames) \cup Range(WaitingNames)
  /\ \A n \in DOMAIN s : s[n] \in Nat
ServerType == [restarts : 0..MaxRestarts, alias : Range(TokenNames)]

(* Every variable stays in its type; the probe is never at a call beyond   *)
(* the timeout of this call.                                               *)
TypeOK ==
  /\ tokens \in [DOMAIN Labels -> 0..MaxTokens]
  /\ waiting \in 0..1
  /\ Server \in ServerType
  /\ own \in Nat
  /\ deadline \in Deadlines
  /\ pc \in {"health", "before", "stream", "after", "report", "exit", "exited"}
  /\ now \in 0..MaxTime /\ since \in 0..now
  /\ pc = "health" => now - since <= HealthLimit
  /\ pc \in {"before", "after"} => now - since <= MetricsLimit
  /\ health \in {"none", "healthy", "unhealthy", "unavailable"}
  /\ IsSnapshot(before) /\ IsSnapshot(after)
  /\ seen \in [before : ServerType, after : ServerType]
  /\ obsErr \in {"none", "before", "after"}
  /\ late \in BOOLEAN /\ probeErr \in BOOLEAN
  /\ firstToken \in {"none", "normal", "high"}
  /\ exitCode \in {"none", "ok", "failed"}

(* A printed before/after pair belongs to one counter of the server, also  *)
(* when the server was upgraded in between and renamed it                  *)
(* (runtime/runtime.go:94-96).                                             *)
NeverMixed ==
  Observed =>
    LET delta == Delta(report[1].tokens.before, report[1].tokens.after)
    IN  delta.present => seen.before.alias = seen.after.alias

(* The two snapshots enclose the request: as long as the server does not   *)
(* restart in between, the printed token count is there and includes every *)
(* token of this request (pkg/mode/serve.go:64-77, metrics/metrics.go:63). *)
DeltaCoversProbe ==
  Observed /\ seen.before.restarts = seen.after.restarts =>
    LET delta == Delta(report[1].tokens.before, report[1].tokens.after)
    IN  delta.present /\ delta.value >= own

(* README.md:92: health and metrics are best effort. They neither fail the *)
(* command nor use up the time of the request, unless the deadline is not  *)
(* longer than their own two timeouts; and a request that fails is never   *)
(* excused by them.                                                        *)
BestEffort ==
  /\ pc = "exited" => (exitCode = "failed" <=> probeErr)
  /\ deadline = 0 \/ deadline > HealthLimit + MetricsLimit => ~late

(* The diagnosis says something about the queue only on the evidence of    *)
(* two snapshots, and never anything but the failure of a failed request   *)
(* (output/output.go:178-215).                                             *)
DiagnosisGrounded ==
  report # <<>> =>
    LET said == report[1].diagnosis
    IN  /\ "queue pressure" \in said => after["waiting"] > 0
        /\ "no queue buildup" \in said => "waiting" \in DOMAIN before \cap DOMAIN after
        /\ said \cap {"queue pressure", "no queue buildup"} # {} => obsErr = "none" /\ ~probeErr

(* The request is made at all, however long the endpoints for health and   *)
(* metrics are silent and even without an overall deadline.                *)
ProbeIsMade == <>(pc = "stream")

(* Under a deadline the command ends.                                      *)
Termination == deadline # 0 ~> pc = "exited"
===============================================================================
