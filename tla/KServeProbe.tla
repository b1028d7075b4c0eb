------------------------------ MODULE KServeProbe ------------------------------
(***************************************************************************)
(* inferlens ping kserve (pkg/mode/kserve.go, kserve/collector.go,         *)
(* output/kserve.go): two goroutines under one context, one running kubectl*)
(* twice, the other the streaming request (StreamClient.tla, here one step *)
(* with its verdict); the main goroutine joins them, reports and exits.    *)
(*                                                                         *)
(* The context has a deadline. When it passes, a running kubectl is killed;*)
(* cmd.Run then still waits until every process that inherited its output, *)
(* a credential plugin say, has closed it (external: os/exec).             *)
(***************************************************************************)
EXTENDS Integers

CONSTANT Pods   \* numbers of Pods a listing may contain

ASSUME PodsAreNumbers == Pods \subseteq Nat

(* The Ready condition of an InferenceService: a status, or no condition.  *)
Ready == {"True", "False", "Unknown", "missing"}

VARIABLES
  hasKubectl,  \* exec.LookPath finds kubectl
  expired,     \* the deadline has passed
  main,        \* where Ping is
  wg,          \* the WaitGroup's counter
  cpc,         \* the collector: the query it is at
  kubectl,     \* the kubectl process of that query
  service,     \* result.InferenceService: its Ready condition, or "nil"
  serviceErr,
  pods,        \* len(result.Pods); zero also when nothing was listed
  podsErr,
  listed,      \* history: the Pods listing was answered and decoded
  dpc,         \* the streaming goroutine
  probeErr,
  report,      \* "none", or the sections of the printed report
  exitCode

cvars == <<service, serviceErr, pods, podsErr, listed>>
vars  == <<hasKubectl, expired, main, wg, cpc, kubectl, cvars,
           dpc, probeErr, report, exitCode>>

NoReport == [control |-> "none", pods |-> "none", data |-> "none"]

Init ==
  /\ hasKubectl \in BOOLEAN
  /\ expired = FALSE
  /\ main = "new" /\ wg = 0
  /\ cpc = "idle" /\ kubectl = "none"
  /\ service = "nil" /\ serviceErr = FALSE
  /\ pods = 0 /\ podsErr = FALSE /\ listed = FALSE
  /\ dpc = "idle" /\ probeErr = FALSE
  /\ report = NoReport /\ exitCode = "none"

(* kserve.New fails: nothing is attempted and nothing printed.             *)
NewFails ==
  /\ main = "new"
  /\ ~hasKubectl
  /\ main' = "exited"
  /\ exitCode' = "failed"
  /\ UNCHANGED <<hasKubectl, expired, wg, cpc, kubectl, cvars, dpc, probeErr, report>>

(* Mutated: the WaitGroup counts one of the two goroutines.                *)
Start_AddOne ==
  /\ main = "new"
  /\ hasKubectl
  /\ main' = "wait" /\ wg' = 1
  /\ cpc' = "service" /\ dpc' = "stream"
  /\ UNCHANGED <<hasKubectl, expired, kubectl, cvars, probeErr, report, exitCode>>

Start ==
  /\ main = "new"
  /\ hasKubectl
  /\ main' = "wait" /\ wg' = 2
  /\ cpc' = "service" /\ dpc' = "stream"
  /\ UNCHANGED <<hasKubectl, expired, kubectl, cvars, probeErr, report, exitCode>>

-------------------------------------------------------------------------------
(* The collector *)

AtQuery == cpc \in {"service", "pods"}

(* Mutated: a failed query is made again, whatever the context says.       *)
QueryFailed_Retries ==
  /\ AtQuery
  /\ kubectl' = "none"
  /\ UNCHANGED <<cpc, wg, cvars>>

(* The query returned an error, or a payload that does not decode. The     *)
(* second query is made whatever became of the first.                      *)
QueryFailed ==
  /\ AtQuery
  /\ kubectl' = "none"
  /\ IF cpc = "service"
     THEN serviceErr' = TRUE /\ cpc' = "pods" /\ UNCHANGED <<podsErr, wg>>
     ELSE podsErr' = TRUE /\ cpc' = "done" /\ wg' = wg - 1 /\ UNCHANGED serviceErr
  /\ UNCHANGED <<service, pods, listed>>

(* A kubectl is not started under an expired context.                      *)
Exec ==
  /\ AtQuery
  /\ kubectl = "none"
  /\ IF expired
     THEN QueryFailed
     ELSE kubectl' = "running" /\ UNCHANGED <<cpc, wg, cvars>>
  /\ UNCHANGED <<hasKubectl, expired, main, dpc, probeErr, report, exitCode>>

ServiceAnswered(r) ==
  /\ cpc = "service"
  /\ kubectl \in {"running", "held"}
  /\ kubectl' = "none"
  /\ service' = r
  /\ cpc' = "pods"
  /\ UNCHANGED <<hasKubectl, expired, main, wg, serviceErr, pods, podsErr, listed,
                 dpc, probeErr, report, exitCode>>

PodsListed(n) ==
  /\ cpc = "pods"
  /\ kubectl \in {"running", "held"}
  /\ kubectl' = "none"
  /\ pods' = n /\ listed' = TRUE
  /\ cpc' = "done" /\ wg' = wg - 1
  /\ UNCHANGED <<hasKubectl, expired, main, service, serviceErr, podsErr,
                 dpc, probeErr, report, exitCode>>

(* kubectl fails, answers what does not decode, or is killed at the        *)
(* deadline with nobody else holding its output.                           *)
KubectlFails ==
  /\ kubectl = "running"
  /\ QueryFailed
  /\ UNCHANGED <<hasKubectl, expired, main, dpc, probeErr, report, exitCode>>

(* kubectl has ended or was killed, but a child of it has its output open. *)
(* Once the child lets go, cmd.Run returns: an error, or the answer if     *)
(* kubectl had ended well before the deadline.                             *)
KubectlHeld ==
  /\ expired
  /\ kubectl = "running"
  /\ kubectl' = "held"
  /\ UNCHANGED <<hasKubectl, expired, main, wg, cpc, cvars, dpc, probeErr, report, exitCode>>

HolderExits ==
  /\ kubectl = "held"
  /\ QueryFailed
  /\ UNCHANGED <<hasKubectl, expired, main, dpc, probeErr, report, exitCode>>

-------------------------------------------------------------------------------
(* The streaming goroutine *)

(* Mutated: the request waits until the collection is over.                *)
StreamReturns_AfterCollect ==
  /\ cpc = "done"
  /\ dpc = "stream"
  /\ dpc' = "done" /\ wg' = wg - 1
  /\ probeErr' \in BOOLEAN
  /\ UNCHANGED <<hasKubectl, expired, main, cpc, kubectl, cvars, report, exitCode>>

StreamReturns ==
  /\ dpc = "stream"
  /\ dpc' = "done" /\ wg' = wg - 1
  /\ probeErr' \in BOOLEAN
  /\ UNCHANGED <<hasKubectl, expired, main, cpc, kubectl, cvars, report, exitCode>>

-------------------------------------------------------------------------------
(* The report *)

(* readyError: only for a service that was read                            *)
ReadyErr == ~serviceErr /\ service # "nil" /\ service # "True"

PlaneOutcome(failed) == IF failed THEN "failed" ELSE "ok"

(* Mutated: a failed listing is printed like an empty one.                 *)
PodsSection_NoError == IF pods = 0 THEN "zero" ELSE "pods"

PodsSection ==
  IF podsErr THEN "unavailable"
  ELSE IF pods = 0 THEN "zero" ELSE "pods"

Report ==
  /\ main = "wait"
  /\ wg = 0
  /\ report' = [control |-> PlaneOutcome(serviceErr \/ ReadyErr),
                pods    |-> PodsSection,
                data    |-> PlaneOutcome(probeErr)]
  /\ main' = "report"
  /\ UNCHANGED <<hasKubectl, expired, wg, cpc, kubectl, cvars, dpc, probeErr, exitCode>>

(* Mutated: the listing error is left out of the join.                     *)
JoinedErr_NoPods == serviceErr \/ ReadyErr \/ probeErr

(* errors.Join                                                             *)
JoinedErr == serviceErr \/ ReadyErr \/ podsErr \/ probeErr

Exit ==
  /\ main = "report"
  /\ main' = "exited"
  /\ exitCode' = IF JoinedErr THEN "failed" ELSE "ok"
  /\ UNCHANGED <<hasKubectl, expired, wg, cpc, kubectl, cvars, dpc, probeErr, report>>

Expire ==
  /\ ~expired
  /\ main # "exited"
  /\ expired' = TRUE
  /\ UNCHANGED <<hasKubectl, main, wg, cpc, kubectl, cvars, dpc, probeErr, report, exitCode>>

Exited == main = "exited" /\ UNCHANGED vars

Collector ==
  \/ Exec
  \/ \E r \in Ready : ServiceAnswered(r)
  \/ \E n \in Pods : PodsListed(n)
  \/ KubectlFails \/ KubectlHeld \/ HolderExits

Main == NewFails \/ Start \/ Report \/ Exit

Next == Main \/ Collector \/ StreamReturns \/ Expire \/ Exited

(* Goroutines run, the timer fires, the kill at the deadline is delivered  *)
(* and a request under an expired context returns. The API server, the     *)
(* endpoint and a holder of the output owe nothing.                        *)
Fairness ==
  /\ WF_vars(Main) /\ WF_vars(Expire) /\ WF_vars(Exec)
  /\ WF_vars(expired /\ (KubectlFails \/ KubectlHeld))
  /\ WF_vars(expired /\ StreamReturns)

Spec == Init /\ [][Next]_vars
FairSpec == Spec /\ Fairness

-------------------------------------------------------------------------------
(* Properties *)

(* Every variable keeps its type; the WaitGroup's counter never goes       *)
(* negative, which would panic (pkg/mode/kserve.go:74-83).                 *)
TypeOK ==
  /\ hasKubectl \in BOOLEAN /\ expired \in BOOLEAN
  /\ main \in {"new", "wait", "report", "exited"}
  /\ wg \in 0..2
  /\ cpc \in {"idle", "service", "pods", "done"}
  /\ kubectl \in {"none", "running", "held"}
  /\ service \in Ready \cup {"nil"}
  /\ serviceErr \in BOOLEAN /\ podsErr \in BOOLEAN /\ listed \in BOOLEAN
  /\ pods \in Pods \cup {0}
  /\ dpc \in {"idle", "stream", "done"} /\ probeErr \in BOOLEAN
  /\ report \in [control : {"none", "ok", "failed"},
                 pods    : {"none", "unavailable", "zero", "pods"},
                 data    : {"none", "ok", "failed"}]
  /\ exitCode \in {"none", "ok", "failed"}

(* The report is written after both sides have come back, so neither is    *)
(* read while its goroutine may still write it (pkg/mode/kserve.go:74-97). *)
ReportAfterBoth ==
  report # NoReport => cpc = "done" /\ dpc = "done" /\ kubectl = "none"

(* "0 pods matched" is only said of a listing that was made and found      *)
(* none: a failure before or in the listing never looks like a service     *)
(* scaled to zero (kserve/collector.go:219-250, output/kserve.go:114-121). *)
ZeroPodsWereListed ==
  report.pods = "zero" => listed /\ pods = 0

(* README.md:142: the exit is non-zero exactly when the InferenceService   *)
(* cannot be read, its Ready condition is not True, the Pods cannot be     *)
(* listed or the request fails; and a failed exit is visible in the report.*)
ExitIsExplained ==
  main = "exited" /\ report # NoReport =>
    /\ exitCode = "ok" <=> service = "True" /\ listed /\ ~probeErr
    /\ exitCode = "failed" <=>
         report.control = "failed" \/ report.pods = "unavailable" \/ report.data = "failed"

(* pkg/mode/kserve.go:66-67: a slow collection does not keep the streaming *)
(* side from finishing, even one that never comes back.                    *)
StreamNotBlocked == (main = "wait") ~> (dpc = "done")

(* README.md:208, "--timeout: probe timeout": once the deadline has passed *)
(* the command ends.                                                       *)
EndsAfterTimeout == expired ~> (main = "exited")

(* What the code does promise of it: once the deadline has passed, nothing *)
(* but a process that holds the output of kubectl keeps the command from   *)
(* ending (kserve/collector.go:26, pkg/mode/kserve.go:60-104).             *)
EndsUnlessHeld == expired ~> (main = "exited" \/ kubectl = "held")
===============================================================================
