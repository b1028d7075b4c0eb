------------------------------ MODULE ServeProofs ------------------------------
(***************************************************************************)
(* What ServeProbe.tla promises of its timeouts, its observations and its  *)
(* diagnosis, for any timeouts, any label sets and any number of tokens    *)
(* and restarts.                                                           *)
(***************************************************************************)
EXTENDS ServeProbe, DataProofs

(* Where the clock is at each call: the calls before the request are over  *)
(* within their own timeouts.                                              *)
Clock ==
  /\ deadline \in Deadlines /\ now \in Nat /\ since \in Nat
  /\ pc = "health" => since = 0 /\ now <= HealthLimit
  /\ pc = "before" => since <= HealthLimit /\ now - since <= MetricsLimit
  /\ deadline = 0 \/ deadline > HealthLimit + MetricsLimit => late = FALSE

Aliases == Range(TokenNames)

(* A snapshot has the names the server used when it was taken, no other.   *)
Named ==
  /\ alias \in Aliases
  /\ seen \in [before : [restarts : Int, alias : Aliases],
               after  : [restarts : Int, alias : Aliases]]
  /\ DOMAIN before \subseteq {seen.before.alias, "waiting"}
  /\ DOMAIN after \subseteq {seen.after.alias, "waiting"}

(* What was printed is what the calls left behind.                         *)
Printed ==
  report # <<>> =>
    /\ pc \in {"exit", "exited"}
    /\ report[1].observed = (obsErr = "none")
    /\ obsErr = "none" => report[1].tokens = Tokens
    /\ report[1].diagnosis = Diagnosis

Exits == pc = "exited" => exitCode = IF probeErr THEN "failed" ELSE "ok"

Verdicts == {"none", "normal", "high"}

Scalars == restarts \in Int /\ probeErr \in BOOLEAN /\ firstToken \in Verdicts

Inductive == Scalars /\ Clock /\ Named /\ Printed /\ Exits

-------------------------------------------------------------------------------
(* A payload names the counter as the server does, and the gauge.          *)
LEMMA PayloadNames ==
  DOMAIN ParseSnapshot(Payload) \subseteq {alias, "waiting"}
<1> DEFINE Line == [ kind  : {"sample", "series", "else"},
                     name  : {alias, "waiting"},
                     value : {0, 7, waiting} \cup {tokens[i] : i \in DOMAIN Labels} ]
           counter == [i \in DOMAIN Labels |->
                         [kind |-> "sample", name |-> alias, value |-> tokens[i]]]
           others  == << [kind |-> "series", name |-> alias, value |-> 7],
                         [kind |-> "else", name |-> alias, value |-> 0],
                         [kind |-> "sample", name |-> "waiting", value |-> waiting] >>
<1>1. counter \in Seq(Line)
  <2>1. DOMAIN Labels = 1..Len(Labels) /\ Len(Labels) \in Nat
    BY ServeConstants
  <2>2. \A i \in DOMAIN Labels : counter[i] \in Line
    OBVIOUS
  <2>3. counter \in [1..Len(Labels) -> Line]
    BY <2>1, <2>2
  <2> HIDE DEF counter, Line
  <2> QED BY <2>1, <2>3
<1>2. others \in Seq(Line)
  <2>1. \A i \in 1..3 : others[i] \in Line
    OBVIOUS
  <2>2. others \in [1..3 -> Line]
    BY <2>1
  <2> HIDE DEF others, Line
  <2> QED BY <2>2, SeqDef
<1>3. Payload = counter \o others
  BY DEF Payload
<1>4. Payload \in Seq(Line)
  <2> HIDE DEF counter, others, Line
  <2> QED BY <1>1, <1>2, <1>3
<1>5. \A i \in DOMAIN Payload : Payload[i].name \in {alias, "waiting"}
  <2>1. \A i \in DOMAIN Payload : Payload[i] \in Line
    <3> HIDE DEF Line
    <3> QED BY <1>4
  <2> QED BY <2>1
<1>6. DOMAIN ParseSnapshot(Payload) = {Payload[i].name : i \in Samples(Payload)}
  BY DEF ParseSnapshot
<1> QED BY <1>5, <1>6 DEF Samples

(* The initial states. *)
LEMMA InitHolds == Init => Inductive
<1> SUFFICES ASSUME Init PROVE Inductive
  OBVIOUS
<1>1. Clock
  BY ServeConstants DEF Init, Clock
<1>2. Named
  BY DEF Init, Named, Server, Aliases, NoSnapshot
<1>3. Printed /\ Exits
  BY DEF Init, Printed, Exits
<1>4. Scalars
  <2>1. restarts \in Int
    BY DEF Init
  <2>2. probeErr \in BOOLEAN
    BY DEF Init
  <2>3. firstToken \in Verdicts
    BY DEF Init, Verdicts
  <2> QED BY <2>1, <2>2, <2>3 DEF Scalars
<1> QED BY <1>1, <1>2, <1>3, <1>4 DEF Inductive

-------------------------------------------------------------------------------
(* The clock: the environment leaves it alone, a call ends at the moment   *)
(* it is at, and it goes on only while no timeout is due.                  *)
LEMMA ClockHolds == Inductive /\ [Next]_vars => Clock'
<1> SUFFICES ASSUME Inductive, [Next]_vars PROVE Clock'
  OBVIOUS
<1> USE ServeConstants DEF Inductive, Clock
<1>1. CASE HealthAnswers \/ HealthFails
  BY <1>1 DEF HealthAnswers, HealthFails, Goto, server, metrics
<1>2. CASE BeforeFetched \/ BeforeFails
  <2>1. now <= HealthLimit + MetricsLimit
    BY <1>2 DEF BeforeFetched, BeforeFails
  <2>2. deadline > HealthLimit + MetricsLimit \/ deadline = 0 => ~Expired
    BY <2>1 DEF Expired
  <2>3. late' = Expired
    BY <1>2 DEF BeforeFetched, BeforeFails
  <2>4. Expired \in BOOLEAN
    BY DEF Expired
  <2>5. deadline = 0 \/ deadline > HealthLimit + MetricsLimit => late' = FALSE
    BY <2>2, <2>3, <2>4, Zenon
  <2> QED BY <1>2, <2>5 DEF BeforeFetched, BeforeFails, Goto, server, metrics
<1>3. CASE StreamReturns \/ AfterFetched \/ AfterFails \/ Report \/ Exit
  BY <1>3 DEF StreamReturns, AfterFetched, AfterFails, Report, Exit, Goto
<1>4. CASE Environment \/ Exited \/ UNCHANGED vars
  BY <1>4 DEF Environment, Generate, Queue, Restart, Exited, vars, probe
<1>5. CASE Tick
  BY <1>5 DEF Tick, CallOver
<1> QED BY <1>1, <1>2, <1>3, <1>4, <1>5 DEF Next, Calls, Conclude

(* The names: a snapshot is taken together with the note of the server.    *)
LEMMA NamedHolds == Inductive /\ [Next]_vars => Named'
<1> SUFFICES ASSUME Inductive, [Next]_vars PROVE Named'
  OBVIOUS
<1> USE DEF Inductive, Named, Scalars
<1>1. CASE BeforeFetched
  BY <1>1, PayloadNames DEF BeforeFetched, server, Server
<1>2. CASE AfterFetched
  BY <1>2, PayloadNames DEF AfterFetched, server, Server
<1>3. CASE HealthAnswers \/ HealthFails \/ BeforeFails \/ StreamReturns \/ AfterFails
           \/ Report \/ Exit \/ Tick
  BY <1>3 DEF HealthAnswers, HealthFails, BeforeFails, StreamReturns, AfterFails, Report,
              Exit, Tick, server, metrics
<1>4. CASE Environment
  BY <1>4 DEF Environment, Generate, Queue, Restart, probe, metrics, Aliases
<1>5. CASE Exited \/ UNCHANGED vars
  BY <1>5 DEF Exited, vars, server, metrics
<1> QED BY <1>1, <1>2, <1>3, <1>4, <1>5 DEF Next, Calls, Conclude

(* The report: printed once, and nothing it is made of changes afterwards. *)
LEMMA PrintedHolds == Inductive /\ [Next]_vars => Printed'
<1> SUFFICES ASSUME Inductive, [Next]_vars PROVE Printed'
  OBVIOUS
<1>1. CASE Report
  <2>1. /\ UNCHANGED <<before, after, obsErr, firstToken, probeErr>>
        /\ pc' = "exit"
    BY <1>1 DEF Report, Goto, metrics
  <2>2. Tokens' = Tokens /\ Diagnosis' = Diagnosis
    BY <2>1 DEF Tokens, Waiting, Diagnosis
  <2>3. /\ report'[1].observed = (obsErr = "none")
        /\ obsErr = "none" => report'[1].tokens = Tokens
        /\ report'[1].diagnosis = Diagnosis
    BY <1>1 DEF Report
  <2> QED BY <2>1, <2>2, <2>3 DEF Printed
<1>2. CASE Calls
  <2>1. report = <<>>
    BY <1>2 DEF Inductive, Printed, Calls, HealthAnswers, HealthFails, BeforeFetched,
                BeforeFails, StreamReturns, AfterFetched, AfterFails
  <2>2. report' = report
    BY <1>2 DEF Calls, HealthAnswers, HealthFails, BeforeFetched, BeforeFails,
                StreamReturns, AfterFetched, AfterFails
  <2> QED BY <2>1, <2>2 DEF Printed
<1>3. CASE Exit \/ Environment \/ Tick \/ Exited \/ UNCHANGED vars
  <2>1. UNCHANGED <<before, after, obsErr, firstToken, probeErr, report>>
    BY <1>3 DEF Exit, Environment, Generate, Queue, Restart, Tick, Exited, vars, probe, metrics
  <2>2. pc \in {"exit", "exited"} => pc' \in {"exit", "exited"}
    BY <1>3 DEF Exit, Environment, Generate, Queue, Restart, Tick, Exited, vars, probe, Goto
  <2>3. Tokens' = Tokens /\ Diagnosis' = Diagnosis
    BY <2>1 DEF Tokens, Waiting, Diagnosis
  <2> QED BY <2>1, <2>2, <2>3 DEF Inductive, Printed
<1> QED BY <1>1, <1>2, <1>3 DEF Next, Conclude

(* The exit code: it follows the verdict of the request, which is settled. *)
LEMMA ExitsHold == Inductive /\ [Next]_vars => Scalars' /\ Exits'
<1> SUFFICES ASSUME Inductive, [Next]_vars PROVE Scalars' /\ Exits'
  OBVIOUS
<1> USE DEF Inductive, Scalars
<1>1. restarts' \in Int
  BY DEF Inductive, Next, Calls, HealthAnswers, HealthFails, BeforeFetched, BeforeFails,
         StreamReturns, AfterFetched, AfterFails, Conclude, Report, Exit, Environment,
         Generate, Queue, Restart, Tick, Exited, vars, server
<1>2. probeErr' \in BOOLEAN
  BY Zenon DEF Inductive, Next, Calls, HealthAnswers, HealthFails, BeforeFetched, BeforeFails,
         StreamReturns, AfterFetched, AfterFails, Conclude, Report, Exit, Environment,
         Generate, Queue, Restart, Tick, Exited, vars, probe
<1>3. firstToken' \in Verdicts
  <2>1. CASE StreamReturns
    BY <2>1 DEF StreamReturns, Verdicts
  <2>2. CASE ~StreamReturns
    BY <2>2 DEF Next, Calls, HealthAnswers, HealthFails, BeforeFetched, BeforeFails,
         AfterFetched, AfterFails, Conclude, Report, Exit, Environment,
         Generate, Queue, Restart, Tick, Exited, vars, probe
  <2> QED BY <2>1, <2>2
<1>4. Exits'
  <2>1. CASE Calls \/ Report
    BY <2>1 DEF Calls, HealthAnswers, HealthFails, BeforeFetched, BeforeFails,
         StreamReturns, AfterFetched, AfterFails, Report, Goto, Exits
  <2>2. CASE Exit
    BY <2>2 DEF Exit, Exits
  <2>3. CASE Environment \/ Tick \/ Exited \/ UNCHANGED vars
    BY <2>3 DEF Inductive, Environment, Generate, Queue, Restart, Tick, Exited, vars, probe, Exits
  <2> QED BY <2>1, <2>2, <2>3 DEF Next, Conclude
<1> QED BY <1>1, <1>2, <1>3, <1>4

(* The invariant of every behaviour. *)
LEMMA Invariance == Spec => []Inductive
<1>1. Inductive /\ [Next]_vars => Inductive'
  BY ClockHolds, NamedHolds, PrintedHolds, ExitsHold DEF Inductive
<1> QED BY InitHolds, <1>1, PTL DEF Spec

-------------------------------------------------------------------------------
(* The name an observation is read under is one of the names given.        *)
LEMMA SourceOfTokens ==
  ASSUME NEW b, NEW a
  PROVE  Source(b, a, TokenNames) \in Aliases
<1>1. ASSUME NEW S \in SUBSET {1, 2}, S # {}
      PROVE  Min(S) \in {1, 2}
  <2>1. \E x \in S : \A y \in S : x <= y
    <3>1. CASE 1 \in S
      BY <1>1, <3>1
    <3>2. CASE 1 \notin S
      <4>1. S = {2}
        BY <1>1, <3>2
      <4> QED BY <4>1
    <3> QED BY <3>1, <3>2
  <2> QED BY <1>1, <2>1 DEF Min
<1>2. DOMAIN TokenNames = {1, 2} /\ \A i \in {1, 2} : TokenNames[i] \in Aliases
  BY DEF TokenNames, Aliases, Range
<1>3. \A s : Found(s, TokenNames) \in SUBSET {1, 2}
  BY <1>2 DEF Found
<1> QED BY <1>1, <1>2, <1>3 DEF Source

(* Waiting requests have one name, so it is the source whatever was read. *)
LEMMA SourceOfWaiting ==
  ASSUME NEW b, NEW a
  PROVE  Source(b, a, WaitingNames) = "waiting"
<1>1. Min({1}) = 1
  BY DEF Min
<1>2. DOMAIN WaitingNames = {1} /\ WaitingNames[1] = "waiting"
  BY DEF WaitingNames
<1>3. \A s : Found(s, WaitingNames) # {} => Found(s, WaitingNames) = {1}
  BY <1>2 DEF Found
<1> QED BY <1>1, <1>2, <1>3 DEF Source

(* A printed pair belongs to one counter, also across an upgrade.          *)
THEOREM OneCounter == Spec => []NeverMixed
<1>1. Inductive => NeverMixed
  <2> SUFFICES ASSUME Inductive, Observed,
                      Delta(report[1].tokens.before, report[1].tokens.after).present
               PROVE  seen.before.alias = seen.after.alias
    BY DEF NeverMixed
  <2> DEFINE source == Source(before, after, TokenNames)
  <2>1. report[1].tokens = Observation(before, after, TokenNames)
    BY DEF Inductive, Printed, Observed, Tokens
  <2>2. /\ report[1].tokens.before = Lookup(before, source)
        /\ report[1].tokens.after = Lookup(after, source)
    BY <2>1 DEF Observation
  <2>3. source \in DOMAIN before /\ source \in DOMAIN after
    BY <2>2 DEF Delta, Lookup, Present, Absent
  <2>4. source # "waiting"
    <3>1. source \in Aliases
      BY SourceOfTokens
    <3> QED BY <3>1 DEF Aliases, TokenNames, Range
  <2> QED BY <2>3, <2>4 DEF Inductive, Named
<1> QED BY <1>1, Invariance, PTL

(* Health and metrics neither fail the command nor use up its time.        *)
THEOREM ExtrasAreBestEffort == Spec => []BestEffort
<1>1. Inductive => BestEffort
  BY DEF Inductive, Scalars, Clock, Exits, BestEffort
<1> QED BY <1>1, Invariance, PTL

(* What the diagnosis says of the queue is in the snapshots it names.      *)
THEOREM DiagnosisIsGrounded == Spec => []DiagnosisGrounded
<1>1. Inductive => DiagnosisGrounded
  <2> SUFFICES ASSUME Inductive, report # <<>>
               PROVE  /\ "queue pressure" \in Diagnosis => after["waiting"] > 0
                      /\ "no queue buildup" \in Diagnosis =>
                            "waiting" \in DOMAIN before \cap DOMAIN after
                      /\ Diagnosis \cap {"queue pressure", "no queue buildup"} # {} =>
                            obsErr = "none" /\ ~probeErr
    BY DEF Inductive, Printed, DiagnosisGrounded
  <2>1. /\ Waiting.before = Lookup(before, "waiting")
        /\ Waiting.after = Lookup(after, "waiting")
    BY SourceOfWaiting DEF Waiting, Observation
  <2>2. /\ Waiting.before.present => "waiting" \in DOMAIN before
        /\ Waiting.after.present =>
              "waiting" \in DOMAIN after /\ Waiting.after.value = after["waiting"]
    BY <2>1 DEF Lookup, Present, Absent
  <2>3. firstToken \notin {"queue pressure", "no queue buildup"}
    BY DEF Inductive, Scalars, Verdicts
  <2>4. "queue pressure" \in Diagnosis =>
          ~probeErr /\ obsErr = "none" /\ Waiting.after.present /\ Waiting.after.value > 0
    BY <2>3 DEF Diagnosis
  <2>5. "no queue buildup" \in Diagnosis =>
          ~probeErr /\ obsErr = "none" /\ Waiting.before.present /\ Waiting.after.present
    BY <2>3 DEF Diagnosis
  <2> QED BY <2>2, <2>4, <2>5
<1> QED BY <1>1, Invariance, PTL
-------------------------------------------------------------------------------
(* The token count *)

(* Tokens generated since the start of the server, over all label sets     *)
Generated == SumFunctionOnSet(tokens, DOMAIN Labels)

(* As long as the server has not restarted since the first snapshot, it    *)
(* has generated at least the tokens of this request since then; and so    *)
(* says the second snapshot, once it is there.                             *)
Covered ==
  /\ seen.before.restarts <= restarts
  /\ pc \in {"health", "before"} => own = 0 /\ obsErr = "none"
  /\ pc \in {"stream", "after"} /\ obsErr = "none" /\ seen.before.restarts = restarts =>
       /\ alias = seen.before.alias
       /\ alias \in DOMAIN before
       /\ before[alias] + own <= Generated
  /\ /\ pc \in {"report", "exit", "exited"} /\ obsErr = "none"
     /\ seen.before.restarts = seen.after.restarts
     => LET name == seen.after.alias
        IN  /\ name \in DOMAIN before \cap DOMAIN after
            /\ before[name] + own <= after[name]

(* What a snapshot reads from a payload: natural numbers, and under the    *)
(* name of the counter all tokens generated, if there is a label set.      *)
LEMMA PayloadRead ==
  ASSUME tokens \in [DOMAIN Labels -> Nat], waiting \in Nat, alias \in Aliases
  PROVE  /\ \A n \in DOMAIN ParseSnapshot(Payload) : ParseSnapshot(Payload)[n] \in Nat
         /\ Labels # <<>> =>
              /\ alias \in DOMAIN ParseSnapshot(Payload)
              /\ ParseSnapshot(Payload)[alias] = Generated
<1> DEFINE L == Len(Labels)
           counter == [i \in DOMAIN Labels |->
                         [kind |-> "sample", name |-> alias, value |-> tokens[i]]]
           series  == [kind |-> "series", name |-> alias, value |-> 7]
           comment == [kind |-> "else", name |-> alias, value |-> 0]
           gauge   == [kind |-> "sample", name |-> "waiting", value |-> waiting]
           value   == [i \in DOMAIN Payload |-> Payload[i].value]
           Named_(n) == {i \in Samples(Payload) : Payload[i].name = n}
<1>1. L \in Nat /\ DOMAIN Labels = 1..L
  BY ServeConstants
<1>2. alias # "waiting"
  BY DEF Aliases, TokenNames, Range
<1>3. /\ DOMAIN Payload = 1..(L + 3)
      /\ \A i \in 1..L : Payload[i] = counter[i]
      /\ Payload[L + 1] = series /\ Payload[L + 2] = comment /\ Payload[L + 3] = gauge
  <2> DEFINE Any == {counter[i] : i \in 1..L} \cup {series, comment, gauge}
             others == <<series, comment, gauge>>
  <2>1. counter \in [1..L -> Any] /\ {series, comment, gauge} \subseteq Any
    BY <1>1
  <2>2. Payload = counter \o others
    BY DEF Payload
  <2> HIDE DEF counter, series, comment, gauge, Any, L
  <2>3. counter \in Seq(Any) /\ Len(counter) = L
    BY <1>1, <2>1
  <2>4. others \in Seq(Any) /\ Len(others) = 3
    BY <2>1
  <2>5. /\ DOMAIN (counter \o others) = 1..(L + 3)
        /\ \A i \in 1..L : (counter \o others)[i] = counter[i]
    <3> HIDE DEF others
    <3>1. DOMAIN (counter \o others) = 1..(Len(counter) + Len(others))
      BY <2>3, <2>4, LenOfJoined, Zenon
    <3>2. \A i \in 1..L : (counter \o others)[i] = counter[i]
      BY <1>1, <2>3, <2>4
    <3> QED BY <2>3, <2>4, <3>1, <3>2, Zenon
  <2>6. /\ (counter \o others)[L + 1] = series
        /\ (counter \o others)[L + 2] = comment
        /\ (counter \o others)[L + 3] = gauge
    BY <1>1, <2>1, <2>3
  <2> QED BY <2>2, <2>5, <2>6
<1>4. /\ \A i \in 1..L : Payload[i].kind = "sample" /\ Payload[i].name = alias
                        /\ Payload[i].value = tokens[i]
      /\ Payload[L + 1].kind = "series" /\ Payload[L + 1].value = 7
      /\ Payload[L + 2].kind = "else" /\ Payload[L + 2].value = 0
      /\ Payload[L + 3].kind = "sample" /\ Payload[L + 3].name = "waiting"
      /\ Payload[L + 3].value = waiting
  <2>1. ASSUME NEW i \in 1..L
        PROVE  Payload[i].kind = "sample" /\ Payload[i].name = alias /\ Payload[i].value = tokens[i]
    <3>1. Payload[i] = [kind |-> "sample", name |-> alias, value |-> tokens[i]]
      BY <1>1, <1>3
    <3> QED BY <3>1
  <2> HIDE DEF L
  <2> QED BY <2>1, <1>3
<1> HIDE DEF counter, series, comment, gauge, L
<1>5. \A i \in DOMAIN Payload : value[i] \in Nat
  <2> SUFFICES ASSUME NEW i \in 1..(L + 3) PROVE Payload[i].value \in Nat
    BY <1>3
  <2>1. i \in 1..L \/ i = L + 1 \/ i = L + 2 \/ i = L + 3
    BY <1>1
  <2> QED BY <2>1, <1>1, <1>4
<1>6. Samples(Payload) = (1..L) \cup {L + 3}
  <2>1. ASSUME NEW i \in 1..(L + 3)
        PROVE  Payload[i].kind = "sample" <=> i \in 1..L \/ i = L + 3
    <3>1. i \in 1..L \/ i = L + 1 \/ i = L + 2 \/ i = L + 3
      BY <1>1
    <3> QED BY <3>1, <1>1, <1>4
  <2>2. (1..L) \cup {L + 3} \subseteq 1..(L + 3)
    BY <1>1
  <2> QED BY <2>1, <2>2, <1>3 DEF Samples
<1>7. \A n : IsFiniteSet(Named_(n)) /\ Named_(n) \subseteq DOMAIN Payload
  <2>1. IsFiniteSet(1..(L + 3))
    BY <1>1, FS_Interval
  <2>2. \A n : Named_(n) \subseteq 1..(L + 3)
    BY <1>3 DEF Samples
  <2> QED BY <1>3, <2>1, <2>2, FS_Subset
<1>8. ParseSnapshot(Payload) =
        [n \in {Payload[i].name : i \in Samples(Payload)} |->
           SumFunctionOnSet(value, Named_(n))]
  BY DEF ParseSnapshot
<1>9. ASSUME NEW n \in DOMAIN ParseSnapshot(Payload)
      PROVE  ParseSnapshot(Payload)[n] \in Nat
  <2>1. ParseSnapshot(Payload)[n] = SumFunctionOnSet(value, Named_(n))
    BY <1>8
  <2>2. \A i \in Named_(n) : value[i] \in Nat
    BY <1>5, <1>7
  <2> HIDE DEF value, Named_
  <2> QED BY <2>1, <2>2, <1>7, SumNat
<1>10. ASSUME Labels # <<>>
       PROVE  /\ alias \in DOMAIN ParseSnapshot(Payload)
              /\ ParseSnapshot(Payload)[alias] = Generated
  <2>1. L >= 1
    BY <1>1, <1>10, ServeConstants DEF L
  <2>2. alias \in {Payload[i].name : i \in Samples(Payload)}
    BY <1>1, <1>4, <1>6, <2>1
  <2>3. Named_(alias) = 1..L
    BY <1>1, <1>2, <1>4, <1>6
  <2>4. \A i \in 1..L : tokens[i] \in Int /\ value[i] = tokens[i]
    BY <1>1, <1>3, <1>4
  <2>5. SumFunctionOnSet(value, 1..L) = SumFunctionOnSet(tokens, 1..L)
    <3>1. IsFiniteSet(1..L)
      BY <1>1, FS_Interval
    <3> HIDE DEF value
    <3> QED BY <2>4, <3>1, SumSame
  <2>6. ParseSnapshot(Payload)[alias] = SumFunctionOnSet(value, Named_(alias))
    BY <1>8, <2>2
  <2> HIDE DEF value, Named_
  <2> QED BY <1>1, <1>8, <2>2, <2>3, <2>5, <2>6 DEF Generated
<1> QED BY <1>9, <1>10
(* What a fetched snapshot is, under the type invariant. *)
LEMMA FetchedSnapshot ==
  ASSUME TypeOK
  PROVE  /\ IsSnapshot(ParseSnapshot(Payload))
         /\ Labels # <<>> =>
              /\ alias \in DOMAIN ParseSnapshot(Payload)
              /\ ParseSnapshot(Payload)[alias] = Generated
<1>1. tokens \in [DOMAIN Labels -> Nat] /\ waiting \in Nat /\ alias \in Aliases
  <2>1. tokens \in [DOMAIN Labels -> 0..MaxTokens] /\ waiting \in 0..1
    BY DEF TypeOK
  <2>2. alias \in Aliases
    BY DEF TypeOK, Server, ServerType, Aliases
  <2> QED BY <2>1, <2>2, ServeConstants
<1>2. {alias, "waiting"} \subseteq Range(TokenNames) \cup Range(WaitingNames)
  BY <1>1 DEF Aliases, WaitingNames, Range
<1> QED BY <1>1, <1>2, PayloadNames, PayloadRead DEF IsSnapshot

(* The types: of the server, of the clock, of the snapshots, of the rest.  *)
LEMMA ServerTypes ==
  TypeOK /\ [Next]_vars =>
    /\ tokens' \in [DOMAIN Labels -> 0..MaxTokens] /\ waiting' \in 0..1
    /\ Server' \in ServerType /\ own' \in Nat
<1> SUFFICES ASSUME TypeOK, [Next]_vars
             PROVE  /\ tokens' \in [DOMAIN Labels -> 0..MaxTokens] /\ waiting' \in 0..1
                    /\ Server' \in ServerType /\ own' \in Nat
  OBVIOUS
<1>0. /\ tokens \in [DOMAIN Labels -> 0..MaxTokens] /\ waiting \in 0..1
      /\ restarts \in 0..MaxRestarts /\ alias \in Range(TokenNames) /\ own \in Nat
  BY DEF TypeOK, Server, ServerType
<1>1. CASE UNCHANGED server
  BY <1>0, <1>1 DEF server, Server, ServerType
<1>2. ASSUME NEW i \in DOMAIN Labels, Generate(i)
      PROVE  /\ tokens' \in [DOMAIN Labels -> 0..MaxTokens] /\ waiting' \in 0..1
             /\ Server' \in ServerType /\ own' \in Nat
  <2>1. tokens[i] + 1 \in 0..MaxTokens
    BY <1>0, <1>2, ServeConstants DEF Generate
  <2>2. tokens' \in [DOMAIN Labels -> 0..MaxTokens]
    BY <1>0, <1>2, <2>1 DEF Generate
  <2>3. own' \in {own, own + 1}
    BY <1>2 DEF Generate
  <2> QED BY <1>0, <1>2, <2>2, <2>3 DEF Generate, Server, ServerType
<1>3. CASE Queue
  BY <1>0, <1>3 DEF Queue, Server, ServerType
<1>4. CASE Restart
  <2>1. tokens' \in [DOMAIN Labels -> 0..MaxTokens] /\ waiting' \in 0..1 /\ own' \in Nat
    BY <1>0, <1>4, ServeConstants DEF Restart
  <2>2. restarts' \in 0..MaxRestarts /\ alias' \in Range(TokenNames)
    BY <1>0, <1>4, ServeConstants DEF Restart
  <2> QED BY <2>1, <2>2 DEF Server, ServerType
<1>5. CASE Calls \/ Conclude \/ Tick \/ Exited \/ UNCHANGED vars
  <2>1. UNCHANGED server
    BY <1>5 DEF Calls, HealthAnswers, HealthFails, BeforeFetched, BeforeFails, StreamReturns,
         AfterFetched, AfterFails, Conclude, Report, Exit, Tick, Exited, vars
  <2> QED BY <1>1, <2>1
<1> QED BY <1>2, <1>3, <1>4, <1>5 DEF Next, Environment

Pcs == {"health", "before", "stream", "after", "report", "exit", "exited"}

(* A step keeps the clock, its limits and the place in the probe in their  *)
(* types.                                                                  *)
LEMMA ClockTypes ==
  TypeOK /\ [Next]_vars =>
    /\ deadline' \in Deadlines /\ pc' \in Pcs
    /\ now' \in 0..MaxTime /\ since' \in 0..now'
    /\ pc' = "health" => now' - since' <= HealthLimit
    /\ pc' \in {"before", "after"} => now' - since' <= MetricsLimit
<1> SUFFICES ASSUME TypeOK, [Next]_vars
             PROVE  /\ deadline' \in Deadlines /\ pc' \in Pcs
                    /\ now' \in 0..MaxTime /\ since' \in 0..now'
                    /\ pc' = "health" => now' - since' <= HealthLimit
                    /\ pc' \in {"before", "after"} => now' - since' <= MetricsLimit
  OBVIOUS
<1>0. /\ deadline \in Deadlines /\ pc \in Pcs
      /\ now \in 0..MaxTime /\ since \in 0..now
      /\ pc = "health" => now - since <= HealthLimit
      /\ pc \in {"before", "after"} => now - since <= MetricsLimit
  BY DEF TypeOK, Pcs
<1>1. CASE Calls \/ Conclude
  <2>1. since' = now /\ UNCHANGED <<now, deadline>>
    BY <1>1 DEF Calls, HealthAnswers, HealthFails, BeforeFetched, BeforeFails, StreamReturns,
         AfterFetched, AfterFails, Conclude, Report, Exit, Goto
  <2>2. pc' \in Pcs \ {"health"}
    BY <1>1 DEF Calls, HealthAnswers, HealthFails, BeforeFetched, BeforeFails, StreamReturns,
         AfterFetched, AfterFails, Conclude, Report, Exit, Goto, Pcs
  <2> QED BY <1>0, <2>1, <2>2, ServeConstants
<1>2. CASE Tick
  <2>1. /\ now' = now + 1 /\ UNCHANGED <<deadline, pc, since>> /\ now < MaxTime
        /\ pc = "health" => ~(now - since >= HealthLimit)
        /\ pc \in {"before", "after"} => ~(now - since >= MetricsLimit)
    BY <1>2 DEF Tick, CallOver
  <2> QED BY <1>0, <2>1, ServeConstants
<1>3. CASE Environment \/ Exited \/ UNCHANGED vars
  <2>1. UNCHANGED <<deadline, pc, now, since>>
    BY <1>3 DEF Environment, Generate, Queue, Restart, Exited, vars, probe
  <2> QED BY <1>0, <2>1
<1> QED BY <1>1, <1>2, <1>3 DEF Next

(* A step keeps the snapshots, and the states they were taken of, in their *)
(* types.                                                                  *)
LEMMA SnapshotTypes ==
  TypeOK /\ [Next]_vars =>
    IsSnapshot(before)' /\ IsSnapshot(after)' /\ seen' \in [before : ServerType, after : ServerType]
<1> SUFFICES ASSUME TypeOK, [Next]_vars
             PROVE  /\ IsSnapshot(before)' /\ IsSnapshot(after)'
                    /\ seen' \in [before : ServerType, after : ServerType]
  OBVIOUS
<1>0. /\ IsSnapshot(before) /\ IsSnapshot(after)
      /\ seen \in [before : ServerType, after : ServerType] /\ Server \in ServerType
  BY DEF TypeOK
<1>1. CASE BeforeFetched
  <2>1. /\ before' = ParseSnapshot(Payload) /\ after' = after
        /\ seen' = [seen EXCEPT !.before = Server]
    BY <1>1 DEF BeforeFetched
  <2> HIDE DEF Server
  <2> QED BY <1>0, <2>1, FetchedSnapshot DEF IsSnapshot
<1>2. CASE AfterFetched
  <2>1. /\ after' = ParseSnapshot(Payload) /\ before' = before
        /\ seen' = [seen EXCEPT !.after = Server]
    BY <1>2 DEF AfterFetched
  <2> HIDE DEF Server
  <2> QED BY <1>0, <2>1, FetchedSnapshot DEF IsSnapshot
<1>3. CASE ~BeforeFetched /\ ~AfterFetched
  <2>1. UNCHANGED <<before, after, seen>>
    BY <1>3 DEF Next, Calls, HealthAnswers, HealthFails, BeforeFails, StreamReturns,
         AfterFails, Conclude, Report, Exit, Tick, Exited, Environment, Generate, Queue,
         Restart, vars, probe, metrics
  <2> QED BY <1>0, <2>1 DEF IsSnapshot
<1> QED BY <1>1, <1>2, <1>3

(* A step keeps what the probe has found out in its types. *)
LEMMA ProbeTypes ==
  TypeOK /\ [Next]_vars =>
    /\ health' \in {"none", "healthy", "unhealthy", "unavailable"}
    /\ obsErr' \in {"none", "before", "after"}
    /\ late' \in BOOLEAN /\ probeErr' \in BOOLEAN
    /\ firstToken' \in {"none", "normal", "high"}
    /\ exitCode' \in {"none", "ok", "failed"}
<1> SUFFICES ASSUME TypeOK, [Next]_vars
             PROVE  /\ health' \in {"none", "healthy", "unhealthy", "unavailable"}
                    /\ obsErr' \in {"none", "before", "after"}
                    /\ late' \in BOOLEAN /\ probeErr' \in BOOLEAN
                    /\ firstToken' \in {"none", "normal", "high"}
                    /\ exitCode' \in {"none", "ok", "failed"}
  OBVIOUS
<1> USE DEF Next, Calls, HealthAnswers, HealthFails, BeforeFetched, BeforeFails, StreamReturns,
            AfterFetched, AfterFails, Conclude, Report, Exit, Tick, Exited, Environment,
            Generate, Queue, Restart, vars, probe, metrics
<1>1. health' \in {"none", "healthy", "unhealthy", "unavailable"}
  BY DEF TypeOK
<1>2. obsErr' \in {"none", "before", "after"}
  BY DEF TypeOK
<1>3. late' \in BOOLEAN
  <2>1. late' \in {late, Expired} /\ late \in BOOLEAN
    BY Zenon DEF TypeOK
  <2> QED BY <2>1, Zenon DEF Expired
<1>4. probeErr' \in BOOLEAN
  BY Zenon DEF TypeOK
<1>5. firstToken' \in {"none", "normal", "high"}
  <2>1. CASE StreamReturns
    BY <2>1
  <2>2. CASE ~StreamReturns
    <3>1. firstToken' = firstToken
      BY <2>2
    <3> QED BY <3>1 DEF TypeOK
  <2> QED BY <2>1, <2>2
<1>6. exitCode' \in {"none", "ok", "failed"}
  <2>1. exitCode' \in {exitCode, "ok", "failed"}
    BY Zenon
  <2> QED BY <2>1 DEF TypeOK
<1> QED BY <1>1, <1>2, <1>3, <1>4, <1>5, <1>6

(* Every variable stays in its type; no call is ever beyond its timeout.   *)
THEOREM TypeCorrect == Spec => []TypeOK
<1>1. Init => TypeOK
  <2> SUFFICES ASSUME Init PROVE TypeOK
    OBVIOUS
  <2>1. /\ tokens \in [DOMAIN Labels -> 0..MaxTokens] /\ waiting \in 0..1 /\ own \in Nat
        /\ Server \in ServerType /\ seen \in [before : ServerType, after : ServerType]
    BY ServeConstants DEF Init, Server, ServerType
  <2>2. IsSnapshot(before) /\ IsSnapshot(after)
    BY DEF Init, IsSnapshot, NoSnapshot
  <2>3. late \in BOOLEAN /\ probeErr \in BOOLEAN
    BY Zenon DEF Init
  <2> QED BY <2>1, <2>2, <2>3, ServeConstants DEF Init, TypeOK
<1>2. TypeOK /\ [Next]_vars => TypeOK'
  <2> SUFFICES ASSUME TypeOK, [Next]_vars PROVE TypeOK'
    OBVIOUS
  <2> QED BY ServerTypes, ClockTypes, SnapshotTypes, ProbeTypes, Zenon DEF TypeOK, Pcs
<1> QED BY <1>1, <1>2, PTL DEF Spec
-------------------------------------------------------------------------------
(* Covered is kept. The tokens of the request are generated between the    *)
(* two snapshots, each of them is also a token of the server, and only a   *)
(* restart takes tokens away.                                              *)
LEMMA GeneratedIsNat == TypeOK => Generated \in Nat
<1> SUFFICES ASSUME TypeOK PROVE Generated \in Nat
  OBVIOUS
<1>1. IsFiniteSet(DOMAIN Labels)
  <2>1. Len(Labels) \in Nat /\ DOMAIN Labels = 1..Len(Labels)
    BY ServeConstants
  <2> QED BY <2>1, FS_Interval
<1>2. \A i \in DOMAIN Labels : tokens[i] \in Nat
  BY ServeConstants DEF TypeOK
<1> QED BY <1>1, <1>2, SumNat DEF Generated

(* Generating a token adds one to the total over the labels. *)
LEMMA GenerateCounts ==
  ASSUME TypeOK, NEW i \in DOMAIN Labels, Generate(i)
  PROVE  Generated' = Generated + 1
<1>1. IsFiniteSet(DOMAIN Labels)
  <2>1. Len(Labels) \in Nat /\ DOMAIN Labels = 1..Len(Labels)
    BY ServeConstants
  <2> QED BY <2>1, FS_Interval
<1>2. tokens \in [DOMAIN Labels -> Int]
  BY ServeConstants DEF TypeOK
<1>3. tokens' = [tokens EXCEPT ![i] = @ + 1]
  BY DEF Generate
<1> QED BY <1>1, <1>2, <1>3, SumIncrement DEF Generated

(* Every step keeps the account of the tokens between the snapshots. *)
LEMMA CoveredHolds ==
  ASSUME Labels # <<>>, TypeOK, Covered, [Next]_vars
  PROVE  Covered'
<1>0. /\ own \in Nat /\ Generated \in Nat /\ restarts \in Nat
      /\ seen \in [before : ServerType, after : ServerType]
      /\ seen.before.restarts \in Nat /\ seen.after.restarts \in Nat
      /\ pc \in Pcs
  BY GeneratedIsNat DEF TypeOK, Server, ServerType, Pcs
<1>1. CASE HealthAnswers \/ HealthFails
  BY <1>0, <1>1 DEF HealthAnswers, HealthFails, Goto, server, metrics, Covered
<1>2. CASE BeforeFetched
  <2>1. /\ before' = ParseSnapshot(Payload) /\ seen' = [seen EXCEPT !.before = Server]
        /\ pc' = "stream" /\ obsErr = "none" /\ own = 0
        /\ UNCHANGED <<tokens, alias, restarts, own, obsErr>>
    BY <1>2 DEF BeforeFetched, Goto, server, Covered
  <2>2. seen'.before = Server /\ Generated' = Generated
    BY <1>0, <2>1 DEF Generated
  <2>3. seen'.before.restarts = restarts /\ seen'.before.alias = alias
    BY <2>2 DEF Server
  <2>4. alias \in DOMAIN before' /\ before'[alias] = Generated
    BY <2>1, FetchedSnapshot
  <2> QED BY <1>0, <2>1, <2>2, <2>3, <2>4 DEF Covered
<1>3. CASE BeforeFails
  <2>1. /\ obsErr' = "before" /\ pc' = "stream" /\ UNCHANGED <<seen, restarts>>
    BY <1>3 DEF BeforeFails, Goto, server
  <2> QED BY <2>1 DEF Covered
<1>4. CASE StreamReturns
  <2>1. /\ UNCHANGED <<tokens, alias, restarts, own, before, after, seen, obsErr>>
        /\ pc = "stream" /\ pc' = IF obsErr = "none" THEN "after" ELSE "report"
    BY <1>4 DEF StreamReturns, Goto, server, metrics
  <2>2. Generated' = Generated
    BY <2>1 DEF Generated
  <2> QED BY <2>1, <2>2 DEF Covered
<1>5. CASE AfterFetched
  <2>1. /\ after' = ParseSnapshot(Payload) /\ seen' = [seen EXCEPT !.after = Server]
        /\ pc = "after" /\ pc' = "report"
        /\ UNCHANGED <<tokens, alias, restarts, own, before, obsErr>>
    BY <1>5 DEF AfterFetched, Goto, server
  <2>2. seen'.after = Server /\ seen'.before = seen.before
    BY <1>0, <2>1
  <2>3. seen'.after.restarts = restarts /\ seen'.after.alias = alias
    BY <2>2 DEF Server
  <2>4. alias \in DOMAIN after' /\ after'[alias] = Generated
    BY <2>1, FetchedSnapshot
  <2> QED BY <1>0, <2>1, <2>2, <2>3, <2>4 DEF Covered
<1>6. CASE AfterFails
  <2>1. /\ obsErr' = "after" /\ pc' = "report" /\ UNCHANGED <<seen, restarts>>
    BY <1>6 DEF AfterFails, Goto, server
  <2> QED BY <2>1 DEF Covered
<1>7. CASE Conclude
  <2>1. /\ pc \in {"report", "exit"} /\ pc' \in {"exit", "exited"}
        /\ UNCHANGED <<restarts, own, before, after, seen, obsErr>>
    BY <1>7 DEF Conclude, Report, Exit, Goto, server, metrics
  <2> QED BY <2>1 DEF Covered
<1>8. ASSUME NEW i \in DOMAIN Labels, Generate(i) PROVE Covered'
  <2>1. /\ UNCHANGED <<alias, restarts, before, after, seen, obsErr, pc>>
        /\ own' \in IF pc = "stream" THEN {own, own + 1} ELSE {own}
        /\ pc \in {"health", "before", "stream", "after"}
    BY <1>8 DEF Generate, probe, metrics, Running
  <2>2. Generated' = Generated + 1
    BY <1>8, GenerateCounts
  <2>3. IsSnapshot(before)
    BY DEF TypeOK
  <2>4. CASE pc \in {"health", "before"}
    BY <2>1, <2>4 DEF Covered
  <2>5. CASE pc \in {"stream", "after"}
    <3>1. ASSUME obsErr' = "none", seen'.before.restarts = restarts'
          PROVE  /\ alias' = seen'.before.alias /\ alias' \in DOMAIN before'
                 /\ before'[alias'] + own' <= Generated'
      <4>1. /\ alias = seen.before.alias /\ alias \in DOMAIN before
            /\ before[alias] + own <= Generated
        BY <2>1, <2>5, <3>1 DEF Covered
      <4>2. before[alias] \in Nat /\ own' <= own + 1 /\ own' \in Nat
        BY <1>0, <2>1, <2>3, <4>1 DEF IsSnapshot
      <4> QED BY <1>0, <2>1, <2>2, <4>1, <4>2
    <3> QED BY <2>1, <2>5, <3>1 DEF Covered
  <2> QED BY <2>1, <2>4, <2>5
<1>9. CASE Queue \/ Tick \/ Exited \/ UNCHANGED vars
  <2>1. UNCHANGED <<tokens, alias, restarts, own, before, after, seen, obsErr, pc>>
    BY <1>9 DEF Queue, Tick, Exited, vars, probe, metrics, server
  <2>2. Generated' = Generated
    BY <2>1 DEF Generated
  <2> QED BY <2>1, <2>2 DEF Covered
<1>10. CASE Restart
  <2>1. /\ restarts' = restarts + 1 /\ UNCHANGED <<own, before, after, seen, obsErr, pc>>
        /\ pc \in {"health", "before", "stream", "after"}
    BY <1>10 DEF Restart, probe, metrics, Running
  <2>2. seen'.before.restarts < restarts'
    BY <1>0, <2>1 DEF Covered
  <2> QED BY <1>0, <2>1, <2>2 DEF Covered
<1> QED BY <1>1, <1>2, <1>3, <1>4, <1>5, <1>6, <1>7, <1>8, <1>9, <1>10
        DEF Next, Calls, Environment

(* Of a counter both snapshots have, the observation is its two values.    *)
LEMMA TokensObserved ==
  ASSUME NEW name \in Aliases,
         name \in DOMAIN before, name \in DOMAIN after,
         DOMAIN after \subseteq {name, "waiting"}
  PROVE  Tokens.before = Present(before[name]) /\ Tokens.after = Present(after[name])
<1>1. /\ DOMAIN TokenNames = {1, 2}
      /\ TokenNames[1] = "tokens_total" /\ TokenNames[2] = "tokens"
  BY DEF TokenNames
<1>2. PICK i \in {1, 2} : TokenNames[i] = name
  BY <1>1 DEF Aliases, Range
<1>3. Found(after, TokenNames) = {i}
  BY <1>1, <1>2 DEF Found
<1>4. Min({i}) = i
  BY <1>2 DEF Min
<1>5. Source(before, after, TokenNames) = name
  BY <1>2, <1>3, <1>4 DEF Source
<1> QED BY <1>5 DEF Tokens, Observation, Lookup

(* The printed token count includes every token of the request, unless the *)
(* server restarted in between. The server is one that exports its counter.*)
THEOREM ProbeIsCounted ==
  ASSUME Labels # <<>>
  PROVE  Spec => []DeltaCoversProbe
<1>1. Init => Covered
  BY DEF Init, Covered, Server
<1>2. TypeOK /\ Covered /\ [Next]_vars => Covered'
  BY CoveredHolds
<1>3. TypeOK /\ Inductive /\ Covered => DeltaCoversProbe
  <2> SUFFICES ASSUME TypeOK, Inductive, Covered, Observed,
                      seen.before.restarts = seen.after.restarts
               PROVE  LET delta == Delta(report[1].tokens.before, report[1].tokens.after)
                      IN  delta.present /\ delta.value >= own
    BY DEF DeltaCoversProbe
  <2> DEFINE name == seen.after.alias
  <2>1. pc \in {"exit", "exited"} /\ obsErr = "none" /\ report[1].tokens = Tokens
    BY DEF Inductive, Printed, Observed
  <2>2. /\ name \in DOMAIN before /\ name \in DOMAIN after
        /\ before[name] + own <= after[name]
    BY <2>1 DEF Covered
  <2>3. name \in Aliases /\ DOMAIN after \subseteq {name, "waiting"}
    BY DEF Inductive, Named
  <2>4. before[name] \in Nat /\ after[name] \in Nat /\ own \in Nat
    BY <2>2 DEF TypeOK, IsSnapshot
  <2>5. Tokens.before = Present(before[name]) /\ Tokens.after = Present(after[name])
    BY <2>2, <2>3, TokensObserved
  <2>6. Delta(Tokens.before, Tokens.after) = Present(after[name] - before[name])
    BY <2>5 DEF Delta, Present
  <2> QED BY <2>1, <2>2, <2>4, <2>6 DEF Present
<1> QED BY <1>1, <1>2, <1>3, TypeCorrect, Invariance, PTL DEF Spec
===============================================================================
