------------------------------ MODULE KServeProofs -----------------------------
(***************************************************************************)
(* What KServeProbe.tla promises, for any number of Pods and whatever the  *)
(* children of kubectl do.                                                 *)
(***************************************************************************)
EXTENDS KServeProbe, TLAPS

Step == [Next]_vars

(* The WaitGroup counts the goroutines that have not come back.            *)
Running(pc) == IF pc \in {"idle", "done"} THEN 0 ELSE 1
Counted == wg = Running(cpc) + Running(dpc)

(* Where Ping is bounds where its goroutines are.                          *)
Phases ==
  /\ main = "new" => cpc = "idle" /\ dpc = "idle" /\ report = NoReport
  /\ main = "wait" => cpc # "idle" /\ dpc # "idle" /\ report = NoReport
  /\ main = "report" => cpc = "done" /\ dpc = "done"
  /\ main = "exited" /\ report # NoReport => cpc = "done" /\ dpc = "done"
  /\ kubectl # "none" => cpc \in {"service", "pods"}

(* A query leaves its answer or its error, never neither nor both.         *)
Queried ==
  /\ cpc \in {"idle", "service"} => service = "nil" /\ ~serviceErr
  /\ cpc \in {"pods", "done"} => (serviceErr <=> service = "nil")
  /\ cpc # "done" => ~podsErr /\ ~listed
  /\ cpc = "done" => (podsErr <=> ~listed)

(* What was printed is what the goroutines left behind.                    *)
Printed ==
  main \in {"report", "exited"} /\ report # NoReport =>
    /\ report.control = "failed" <=> serviceErr \/ ReadyErr
    /\ report.pods = "unavailable" <=> podsErr
    /\ report.pods = "zero" => ~podsErr /\ pods = 0
    /\ report.data = "failed" <=> probeErr

Exits ==
  /\ main = "report" => report # NoReport
  /\ main = "exited" /\ report # NoReport =>
       /\ exitCode = "ok" <=> ~JoinedErr
       /\ exitCode = "failed" <=> JoinedErr

Inductive == TypeOK /\ Counted /\ Phases /\ Queried /\ Printed /\ Exits

(* The invariant holds when the probe starts. *)
LEMMA InitHolds == Init => Inductive
<1> SUFFICES ASSUME Init PROVE Inductive
  OBVIOUS
<1>1. report \in [control : {"none", "ok", "failed"},
                  pods    : {"none", "unavailable", "zero", "pods"},
                  data    : {"none", "ok", "failed"}]
  BY DEF Init, NoReport
<1>2. TypeOK
  <2>1. wg \in 0..2 /\ pods \in Pods \cup {0}
    BY DEF Init
  <2> QED BY <1>1, <2>1, Zenon DEF Init, TypeOK
<1>3. Counted
  BY DEF Init, Counted, Running
<1>4. Phases /\ Queried /\ Printed /\ Exits
  BY DEF Init, Phases, Queried, Printed, Exits
<1> QED BY <1>2, <1>3, <1>4 DEF Inductive

(* The sets and numbers of TypeOK, the goroutines' counter and the order of*)
(* the phases.                                                             *)
LEMMA ControlStep == Inductive /\ Step => TypeOK' /\ Counted' /\ Phases'
<1> SUFFICES ASSUME Inductive, Step PROVE TypeOK' /\ Counted' /\ Phases'
  OBVIOUS
<1> USE PodsAreNumbers DEF Inductive, TypeOK
<1>1. CASE NewFails
  <2>1. TypeOK'
    BY <1>1 DEF NewFails, cvars, TypeOK, Counted, Running
  <2>2. Counted'
    BY <1>1 DEF NewFails, cvars, Counted, Running
  <2>3. Phases'
    BY <1>1 DEF NewFails, cvars, Phases
  <2> QED BY <2>1, <2>2, <2>3
<1>2. CASE Start
  <2>1. TypeOK'
    BY <1>2 DEF Start, cvars, TypeOK, Counted, Running
  <2>2. Counted'
    BY <1>2 DEF Start, cvars, Counted, Running
  <2>3. Phases'
    BY <1>2 DEF Start, cvars, Phases
  <2> QED BY <2>1, <2>2, <2>3
<1>3. CASE QueryFailed /\ UNCHANGED <<hasKubectl, expired, main, dpc, probeErr, report, exitCode>>
  <2>1. TypeOK'
    <3>1. CASE cpc = "service"
      BY <3>1, <1>3 DEF QueryFailed, AtQuery, TypeOK
    <3>2. CASE cpc = "pods"
      <4>1. wg' \in 0..2
        BY <3>2, <1>3 DEF QueryFailed, Counted, Running
      <4> QED BY <4>1, <3>2, <1>3 DEF QueryFailed, AtQuery, TypeOK
    <3> QED BY <3>1, <3>2, <1>3 DEF QueryFailed, AtQuery
  <2>2. Counted'
    BY <1>3 DEF QueryFailed, AtQuery, Counted, Running
  <2>3. Phases'
    BY <1>3 DEF QueryFailed, AtQuery, Phases
  <2> QED BY <2>1, <2>2, <2>3
<1>4. CASE Exec
  <2>1. CASE expired
    BY <2>1, <1>3, <1>4 DEF Exec
  <2>2. CASE ~expired
    <3>1. TypeOK'
      BY <2>2, <1>4 DEF Exec, AtQuery, cvars, TypeOK, Counted, Running
    <3>2. Counted'
      BY <2>2, <1>4 DEF Exec, AtQuery, cvars, Counted, Running
    <3>3. Phases'
      BY <2>2, <1>4 DEF Exec, AtQuery, cvars, Phases
    <3> QED BY <3>1, <3>2, <3>3
  <2> QED BY <2>1, <2>2
<1>5. ASSUME NEW r \in Ready, ServiceAnswered(r) PROVE TypeOK' /\ Counted' /\ Phases'
  <2>1. TypeOK'
    BY <1>5 DEF ServiceAnswered, Ready, TypeOK, Counted, Running
  <2>2. Counted'
    BY <1>5 DEF ServiceAnswered, Ready, Counted, Running
  <2>3. Phases'
    BY <1>5 DEF ServiceAnswered, Ready, Phases
  <2> QED BY <2>1, <2>2, <2>3
<1>6. ASSUME NEW n \in Pods, PodsListed(n) PROVE TypeOK' /\ Counted' /\ Phases'
  <2>1. TypeOK'
    BY <1>6 DEF PodsListed, TypeOK, Counted, Running
  <2>2. Counted'
    BY <1>6 DEF PodsListed, Counted, Running
  <2>3. Phases'
    BY <1>6 DEF PodsListed, Phases
  <2> QED BY <2>1, <2>2, <2>3
<1>7. CASE KubectlHeld
  <2>1. TypeOK'
    BY <1>7 DEF KubectlHeld, cvars, TypeOK, Counted, Running
  <2>2. Counted'
    BY <1>7 DEF KubectlHeld, cvars, Counted, Running
  <2>3. Phases'
    BY <1>7 DEF KubectlHeld, cvars, Phases
  <2> QED BY <2>1, <2>2, <2>3
<1>8. CASE StreamReturns
  <2>1. TypeOK'
    BY <1>8 DEF StreamReturns, cvars, TypeOK, Counted, Running
  <2>2. Counted'
    BY <1>8 DEF StreamReturns, cvars, Counted, Running
  <2>3. Phases'
    BY <1>8 DEF StreamReturns, cvars, Phases
  <2> QED BY <2>1, <2>2, <2>3
<1>9. CASE Report
  <2>1. TypeOK'
    BY <1>9 DEF Report, cvars, NoReport, PlaneOutcome, PodsSection, TypeOK, Counted, Running
  <2>2. Counted'
    BY <1>9 DEF Report, cvars, NoReport, PlaneOutcome, PodsSection, Counted, Running
  <2>3. cpc = "done" /\ dpc = "done"
    BY <1>9 DEF Report, TypeOK, Phases, Counted, Running
  <2>4. Phases'
    BY <2>3, <1>9 DEF Report, cvars, Phases
  <2> QED BY <2>1, <2>2, <2>4
<1>10. CASE Exit
  <2>1. TypeOK'
    BY <1>10 DEF Exit, cvars, TypeOK, Counted, Running
  <2>2. Counted'
    BY <1>10 DEF Exit, cvars, Counted, Running
  <2>3. Phases'
    BY <1>10 DEF Exit, cvars, Phases
  <2> QED BY <2>1, <2>2, <2>3
<1>11. CASE Expire
  <2>1. TypeOK'
    BY <1>11 DEF Expire, cvars, TypeOK, Counted, Running
  <2>2. Counted'
    BY <1>11 DEF Expire, cvars, Counted, Running
  <2>3. Phases'
    BY <1>11 DEF Expire, cvars, Phases
  <2> QED BY <2>1, <2>2, <2>3
<1>12. CASE UNCHANGED vars
  <2>1. TypeOK'
    BY <1>12 DEF vars, cvars, TypeOK, Counted, Running
  <2>2. Counted'
    BY <1>12 DEF vars, cvars, Counted, Running
  <2>3. Phases'
    BY <1>12 DEF vars, cvars, Phases
  <2> QED BY <2>1, <2>2, <2>3
<1> QED
  BY <1>1, <1>2, <1>3, <1>4, <1>5, <1>6, <1>7, <1>8, <1>9, <1>10, <1>11, <1>12
     DEF Step, Next, Main, Collector, KubectlFails, HolderExits, Exited

(* What was found, what was printed of it and how the command exits.       *)
LEMMA EvidenceStep == Inductive /\ Step => Queried' /\ Printed' /\ Exits'
<1> SUFFICES ASSUME Inductive, Step PROVE Queried' /\ Printed' /\ Exits'
  OBVIOUS
<1> USE PodsAreNumbers DEF Inductive, TypeOK, Phases
<1>1. CASE NewFails
  <2>1. Queried'
    BY <1>1 DEF NewFails, cvars, Queried
  <2>2. Printed'
    BY <1>1 DEF NewFails, cvars, Printed, PlaneOutcome, PodsSection, ReadyErr
  <2>3. Exits'
    BY <1>1 DEF NewFails, cvars, Exits, ReadyErr, JoinedErr
  <2> QED BY <2>1, <2>2, <2>3
<1>2. CASE Start
  <2>1. Queried'
    BY <1>2 DEF Start, cvars, Queried
  <2>2. Printed'
    BY <1>2 DEF Start, cvars, Printed, PlaneOutcome, PodsSection, ReadyErr
  <2>3. Exits'
    BY <1>2 DEF Start, cvars, Exits, ReadyErr, JoinedErr
  <2> QED BY <2>1, <2>2, <2>3
<1>3. CASE QueryFailed /\ UNCHANGED <<hasKubectl, expired, main, dpc, probeErr, report, exitCode>>
  <2>1. Queried'
    BY <1>3 DEF QueryFailed, AtQuery, Queried
  <2>2. Printed'
    BY <1>3 DEF QueryFailed, AtQuery, Printed, PlaneOutcome, PodsSection, ReadyErr
  <2>3. Exits'
    BY <1>3 DEF QueryFailed, AtQuery, Exits, ReadyErr, JoinedErr
  <2> QED BY <2>1, <2>2, <2>3
<1>4. CASE Exec
  <2>1. CASE expired
    BY <2>1, <1>3, <1>4 DEF Exec
  <2>2. CASE ~expired
    <3>1. Queried'
      BY <2>2, <1>4 DEF Exec, AtQuery, cvars, Queried
    <3>2. Printed'
      BY <2>2, <1>4 DEF Exec, AtQuery, cvars, Printed, PlaneOutcome, PodsSection, ReadyErr
    <3>3. Exits'
      BY <2>2, <1>4 DEF Exec, AtQuery, cvars, Exits, ReadyErr, JoinedErr
    <3> QED BY <3>1, <3>2, <3>3
  <2> QED BY <2>1, <2>2
<1>5. ASSUME NEW r \in Ready, ServiceAnswered(r) PROVE Queried' /\ Printed' /\ Exits'
  <2>1. Queried'
    BY <1>5 DEF ServiceAnswered, Ready, Queried
  <2>2. Printed'
    BY <1>5 DEF ServiceAnswered, Ready, Printed, PlaneOutcome, PodsSection, ReadyErr
  <2>3. Exits'
    BY <1>5 DEF ServiceAnswered, Ready, Exits, ReadyErr, JoinedErr
  <2> QED BY <2>1, <2>2, <2>3
<1>6. ASSUME NEW n \in Pods, PodsListed(n) PROVE Queried' /\ Printed' /\ Exits'
  <2>1. Queried'
    BY <1>6 DEF PodsListed, Queried
  <2>2. Printed'
    BY <1>6 DEF PodsListed, Printed, PlaneOutcome, PodsSection, ReadyErr
  <2>3. Exits'
    BY <1>6 DEF PodsListed, Exits, ReadyErr, JoinedErr
  <2> QED BY <2>1, <2>2, <2>3
<1>7. CASE KubectlHeld
  <2>1. Queried'
    BY <1>7 DEF KubectlHeld, cvars, Queried
  <2>2. Printed'
    BY <1>7 DEF KubectlHeld, cvars, Printed, PlaneOutcome, PodsSection, ReadyErr
  <2>3. Exits'
    BY <1>7 DEF KubectlHeld, cvars, Exits, ReadyErr, JoinedErr
  <2> QED BY <2>1, <2>2, <2>3
<1>8. CASE StreamReturns
  <2>1. Queried'
    BY <1>8 DEF StreamReturns, cvars, Queried
  <2>2. Printed'
    BY <1>8 DEF StreamReturns, cvars, Printed, PlaneOutcome, PodsSection, ReadyErr
  <2>3. Exits'
    BY <1>8 DEF StreamReturns, cvars, Exits, ReadyErr, JoinedErr
  <2> QED BY <2>1, <2>2, <2>3
<1>9. CASE Report
  <2>1. Queried'
    BY <1>9 DEF Report, cvars, NoReport, Queried
  <2>2. Printed'
    BY <1>9 DEF Report, cvars, NoReport, Printed, PlaneOutcome, PodsSection, ReadyErr
  <2>3. Exits'
    <3>1. report'.control # NoReport.control
      BY <1>9 DEF Report, PlaneOutcome, NoReport
    <3>2. main' = "report" /\ report' # NoReport
      BY <3>1, <1>9 DEF Report
    <3> QED BY <3>2 DEF Exits
  <2> QED BY <2>1, <2>2, <2>3
<1>10. CASE Exit
  <2>1. Queried'
    BY <1>10 DEF Exit, cvars, Queried
  <2>2. Printed'
    BY <1>10 DEF Exit, cvars, Printed, PlaneOutcome, PodsSection, ReadyErr
  <2>3. Exits'
    BY <1>10 DEF Exit, cvars, Exits, ReadyErr, JoinedErr
  <2> QED BY <2>1, <2>2, <2>3
<1>11. CASE Expire
  <2>1. Queried'
    BY <1>11 DEF Expire, cvars, Queried
  <2>2. Printed'
    BY <1>11 DEF Expire, cvars, Printed, PlaneOutcome, PodsSection, ReadyErr
  <2>3. Exits'
    BY <1>11 DEF Expire, cvars, Exits, ReadyErr, JoinedErr
  <2> QED BY <2>1, <2>2, <2>3
<1>12. CASE UNCHANGED vars
  <2>1. Queried'
    BY <1>12 DEF vars, cvars, Queried
  <2>2. Printed'
    BY <1>12 DEF vars, cvars, Printed, PlaneOutcome, PodsSection, ReadyErr
  <2>3. Exits'
    BY <1>12 DEF vars, cvars, Exits, ReadyErr, JoinedErr
  <2> QED BY <2>1, <2>2, <2>3
<1> QED
  BY <1>1, <1>2, <1>3, <1>4, <1>5, <1>6, <1>7, <1>8, <1>9, <1>10, <1>11, <1>12
     DEF Step, Next, Main, Collector, KubectlFails, HolderExits, Exited

(* Every step of the two goroutines and of the caller keeps it. *)
LEMMA StepHolds == Inductive /\ Step => Inductive'
BY ControlStep, EvidenceStep DEF Inductive

(* It holds in every state. *)
LEMMA Invariance == Spec => []Inductive
BY InitHolds, StepHolds, PTL DEF Spec, Step

(* Every variable keeps its type, and the WaitGroup never goes negative.   *)
THEOREM TypeCorrect == Spec => []TypeOK
BY Invariance, PTL DEF Inductive

(* The report is written after both goroutines have come back.             *)
THEOREM Joined == Spec => []ReportAfterBoth
<1>1. Inductive => ReportAfterBoth
  BY DEF Inductive, TypeOK, Phases, ReportAfterBoth
<1> QED BY <1>1, Invariance, PTL

(* A failed listing is never printed as a service scaled to zero.          *)
THEOREM ZeroIsNoFailure == Spec => []ZeroPodsWereListed
<1>1. Inductive => ZeroPodsWereListed
  BY DEF Inductive, TypeOK, Phases, Queried, Printed, NoReport, ZeroPodsWereListed
<1> QED BY <1>1, Invariance, PTL

(* The exit code is the documented one, and a failure is in the report.    *)
THEOREM ExitExplained == Spec => []ExitIsExplained
<1>1. Inductive => ExitIsExplained
  <2> SUFFICES ASSUME Inductive, main = "exited", report # NoReport
               PROVE  /\ exitCode = "ok" <=> service = "True" /\ listed /\ ~probeErr
                      /\ exitCode = "failed" <=>
                           \/ report.control = "failed"
                           \/ report.pods = "unavailable"
                           \/ report.data = "failed"
    BY DEF ExitIsExplained
  <2>1. cpc = "done"
    BY DEF Inductive, Phases
  <2>2. /\ serviceErr <=> service = "nil"
        /\ podsErr <=> ~listed
    BY <2>1 DEF Inductive, Queried
  <2>3. JoinedErr <=> ~(service = "True" /\ listed /\ ~probeErr)
    BY <2>2 DEF JoinedErr, ReadyErr, Inductive, TypeOK
  <2>4. /\ exitCode = "ok" <=> ~JoinedErr
        /\ exitCode = "failed" <=> JoinedErr
    BY DEF Inductive, Exits
  <2>5. /\ report.control = "failed" <=> serviceErr \/ ReadyErr
        /\ report.pods = "unavailable" <=> podsErr
        /\ report.data = "failed" <=> probeErr
    BY DEF Inductive, Printed
  <2> QED BY <2>3, <2>4, <2>5 DEF JoinedErr
<1> QED BY <1>1, Invariance, PTL
===============================================================================
