------------------------------ MODULE OfflineProofs ----------------------------
(***************************************************************************)
(* What OfflineProbe.tla promises, for any generated texts, any number of  *)
(* other lines in the output and whatever the engine leaves behind.        *)
(***************************************************************************)
EXTENDS OfflineProbe, DataProofs

Step == [Next]_vars

(* TypeOK, the truth values apart from the rest                            *)
Flags ==
  /\ hasPython \in BOOLEAN /\ deadline \in BOOLEAN /\ held \in BOOLEAN
  /\ expired \in BOOLEAN /\ (expired => deadline)

Values ==
  /\ scripts \subseteq {"cwd", "exe"}
  /\ main \in {"new", "start", "wait", "print", "report", "exited"}
  /\ helper \in Live \cup {"none", "gone"}
  /\ code \in {"none", "ok", "error", "killed"}
  /\ out \in Seq(Noise \cup {"payload"})
  /\ err \in {"none", "notfound", "run", "decode"}
  /\ exitCode \in {"none", "ok", "failed"}

Records ==
  /\ answer \in [content : Text \cup {""}, timed : BOOLEAN, tokens : BOOLEAN]
  /\ result \in {NoResult, answer}
  /\ shown \in {<<>>, <<result.content>>}
  /\ report \in [timeline : BOOLEAN, tokens : BOOLEAN]

Untouched == result = NoResult /\ shown = <<>> /\ report = NoReport /\ exitCode = "none"

(* Where the helper is tells what it can have left.                        *)
HelperPhase ==
  /\ helper = "none" => out = <<>>
  /\ helper # "gone" => code = "none" /\ ~held
  /\ helper \notin {"exit", "gone"} => answer = NoResult
  /\ helper = "exit" \/ code = "ok" => answer.timed

(* Before the helper has returned nothing of it is in the caller's hands.  *)
CallerPhase ==
  /\ main \in {"new", "start"} => helper = "none" /\ err = "none" /\ Untouched
  /\ main = "wait" => helper # "none" /\ err = "none" /\ Untouched
  /\ main \in {"print", "report"} => report = NoReport /\ exitCode = "none"
  /\ main = "print" => shown = <<>>
  /\ main \in {"print", "report", "exited"} =>
       helper = "none" \/ (helper = "gone" /\ ~held)

(* Afterwards the result is the decoded payload of a clean helper.         *)
Outcome ==
  main \in {"print", "report", "exited"} =>
    /\ err = "none" <=> code = "ok" /\ Decoded.ok
    /\ result = IF err = "none" THEN Decoded.result ELSE NoResult

Shown ==
  /\ main \in {"report", "exited"} =>
       shown = IF result.content = "" THEN <<>> ELSE <<result.content>>
  /\ main = "exited" =>
       /\ report = [timeline |-> result.timed, tokens |-> result.tokens]
       /\ exitCode = IF err = "none" THEN "ok" ELSE "failed"

Inductive == TypeOK /\ HelperPhase /\ CallerPhase /\ Outcome /\ Shown

(* The type invariant in three parts, so that a step shows only the part   *)
(* it moves.                                                               *)
LEMMA TypeParts == TypeOK <=> Flags /\ Values /\ Records
BY Zenon DEF TypeOK, Flags, Values, Records

(* The same of the next state. *)
LEMMA TypePartsNext == TypeOK' <=> Flags' /\ Values' /\ Records'
BY Zenon DEF TypeOK, Flags, Values, Records

(* A step that touches neither the helper nor the deadline keeps the flags. *)
LEMMA FlagsKept == Flags /\ UNCHANGED <<ovars, expired, held>> => Flags'
<1> SUFFICES ASSUME Flags, UNCHANGED <<ovars, expired, held>> PROVE Flags'
  OBVIOUS
<1>1. hasPython' = hasPython /\ deadline' = deadline /\ held' = held /\ expired' = expired
  BY DEF ovars
<1>2. /\ hasPython' \in BOOLEAN /\ deadline' \in BOOLEAN /\ held' \in BOOLEAN
      /\ expired' \in BOOLEAN
  BY <1>1, Zenon DEF Flags
<1>3. expired' => deadline'
  BY <1>1, SMT DEF Flags
<1> QED BY <1>2, <1>3, Zenon DEF Flags

(* A step that moves neither the answer nor the report keeps the records. *)
LEMMA RecordsKept == Records /\ UNCHANGED <<answer, result, shown, report>> => Records'
<1> SUFFICES ASSUME Records, UNCHANGED <<answer, result, shown, report>> PROVE Records'
  OBVIOUS
<1>1. answer' = answer /\ result' = result /\ shown' = shown /\ report' = report
  OBVIOUS
<1> QED BY <1>1, Zenon DEF Records

(* The first line of an output. *)
LEMMA AppendedToNone == ASSUME NEW x PROVE Append(<<>>, x) = <<x>>
<1>1. <<>> \in Seq({x}) /\ x \in {x}
  OBVIOUS
<1>2. /\ Append(<<>>, x) \in Seq({x})
      /\ Len(Append(<<>>, x)) = 1 /\ Append(<<>>, x)[1] = x
  BY <1>1
<1> QED BY <1>2

(* The output with the line of JSON appended is an output. *)
LEMMA PayloadAppended ==
  ASSUME out \in Seq(Noise \cup {"payload"})
  PROVE  Append(out, "payload") \in Seq(Noise \cup {"payload"})
<1> DEFINE S == Noise \cup {"payload"}
<1>1. "payload" \in S /\ out \in Seq(S)
  OBVIOUS
<1> HIDE DEF S
<1>2. Append(out, "payload") \in Seq(S)
  BY <1>1
<1> QED BY <1>2 DEF S

(* What is decoded depends on the output and the answer only. *)
LEMMA DecodedKept == UNCHANGED <<out, answer>> => Decoded' = Decoded
BY DEF Decoded, LastLine, Filled

-------------------------------------------------------------------------------

(* The last line is a line, and all lines behind it are blank.             *)
LEMMA LastLineFound ==
  ASSUME out \in Seq(Noise \cup {"payload"}), LastLine # "blank"
  PROVE  \E k \in DOMAIN out : /\ out[k] = LastLine
                               /\ \A j \in DOMAIN out : j > k => out[j] = "blank"
<1>1. Filled # {}
  BY DEF LastLine
<1>2. Filled \in SUBSET (1..Len(out)) /\ Len(out) \in Nat
  BY DEF Filled
<1>3. \E k \in Filled : \A j \in Filled : j <= k
  BY <1>1, <1>2, GreatestElement
<1> DEFINE k == CHOOSE i \in Filled : \A j \in Filled : j <= i
<1>4. k \in Filled /\ \A j \in Filled : j <= k
  BY <1>3
<1>5. LastLine = out[k]
  BY <1>1 DEF LastLine
<1>6. ASSUME NEW j \in DOMAIN out, j > k PROVE j \notin Filled
  <2>1. k \in 1..Len(out) /\ j \in Nat
    <3> HIDE DEF k
    <3> QED BY <1>2, <1>4
  <2> HIDE DEF k
  <2> QED BY <2>1, <1>4, <1>6
<1> QED BY <1>4, <1>5, <1>6 DEF Filled

(* The line of JSON is found exactly when only blank lines follow it. *)
LEMMA PayloadDecoded ==
  ASSUME out \in Seq(Noise \cup {"payload"})
  PROVE  PayloadIsLast <=> LastLine = "payload"
<1>1. ASSUME LastLine = "payload" PROVE PayloadIsLast
  BY <1>1, LastLineFound DEF PayloadIsLast
<1>2. ASSUME PayloadIsLast PROVE LastLine = "payload"
  <2>1. PICK i \in DOMAIN out : /\ out[i] = "payload"
                                /\ \A j \in DOMAIN out : j > i => out[j] = "blank"
    BY <1>2 DEF PayloadIsLast
  <2>2. i \in Filled /\ Filled \subseteq 1..Len(out)
    BY <2>1 DEF Filled
  <2>3. \A j \in Filled : j <= i
    BY <2>1, <2>2 DEF Filled
  <2>4. LastLine = out[CHOOSE m \in Filled : \A j \in Filled : j <= m]
    BY <2>2 DEF LastLine
  <2> DEFINE k == CHOOSE m \in Filled : \A j \in Filled : j <= m
  <2>5. k \in Filled /\ \A j \in Filled : j <= k
    BY <2>2, <2>3
  <2>6. k = i
    BY <2>2, <2>3, <2>5
  <2> QED BY <2>1, <2>4, <2>6
<1> QED BY <1>1, <1>2

-------------------------------------------------------------------------------
(* The invariant holds when the probe starts. *)
LEMMA InitHolds == Init => Inductive
<1> SUFFICES ASSUME Init PROVE Inductive
  OBVIOUS
<1>1. NoResult \in [content : Text \cup {""}, timed : BOOLEAN, tokens : BOOLEAN]
      /\ NoReport \in [timeline : BOOLEAN, tokens : BOOLEAN]
  BY DEF NoResult, NoReport
<1>2. Flags
  BY DEF Init, Flags
<1>3. Values
  BY DEF Init, Values, Live
<1>4. Records
  BY <1>1, Zenon DEF Init, Records
<1>5. HelperPhase /\ CallerPhase /\ Outcome /\ Shown
  BY DEF Init, HelperPhase, CallerPhase, Untouched, Outcome, Shown
<1> QED BY <1>2, <1>3, <1>4, <1>5, TypeParts DEF Inductive

(* The caller's own steps                                                  *)
LEMMA MainStep == Inductive /\ Main => Inductive'
<1> SUFFICES ASSUME Inductive, Main PROVE Inductive'
  OBVIOUS
<1>1. UNCHANGED <<ovars, expired, held, out, answer, code>>
  BY DEF Main, FindHelper, StartHelper, HelperReturned, PrintContent, Exit, hvars
<1>2. Flags /\ Values /\ Records /\ HelperPhase /\ CallerPhase /\ Outcome /\ Shown
  BY TypeParts DEF Inductive
<1>3. Flags'
  BY <1>1, <1>2, FlagsKept
<1>4. Decoded' = Decoded
  BY <1>1, DecodedKept
<1> SUFFICES Values' /\ Records' /\ HelperPhase' /\ CallerPhase' /\ Outcome' /\ Shown'
  BY <1>3, TypePartsNext DEF Inductive
<1>5. CASE FindHelper
  <2>1. Values'
    BY <1>1, <1>2, <1>5 DEF FindHelper, Values, ovars, hvars
  <2>2. Records'
    BY <1>2, <1>5, RecordsKept DEF FindHelper, hvars
  <2>3. HelperPhase' /\ CallerPhase'
    BY <1>2, <1>5 DEF FindHelper, HelperPhase, CallerPhase, Untouched, hvars
  <2>4. code' = "none" /\ result' = NoResult /\ shown' = <<>>
        /\ main' \in {"start", "report"} /\ (main' = "report" => err' = "notfound")
    BY <1>2, <1>5 DEF FindHelper, HelperPhase, CallerPhase, Untouched, hvars
  <2>5. Outcome'
    BY <2>4 DEF Outcome
  <2>6. Shown'
    BY <2>4 DEF Shown, NoResult
  <2> QED BY <2>1, <2>2, <2>3, <2>5, <2>6
<1>6. CASE StartHelper
  <2>1. Values'
    BY <1>1, <1>2, <1>6 DEF StartHelper, Values, Live, ovars
  <2>2. Records'
    BY <1>2, <1>6, RecordsKept DEF StartHelper
  <2>3. HelperPhase' /\ CallerPhase'
    BY <1>2, <1>6 DEF StartHelper, HelperPhase, CallerPhase, Untouched
  <2>4. Outcome' /\ Shown'
    BY <1>2, <1>6 DEF StartHelper, HelperPhase, CallerPhase, Untouched, Outcome, Shown
  <2> QED BY <2>1, <2>2, <2>3, <2>4
<1>7. CASE HelperReturned
  <2>1. Decoded.result \in {NoResult, answer}
    BY DEF Decoded
  <2>2. Values'
    BY <1>1, <1>2, <1>7 DEF HelperReturned, Values, ovars, hvars
  <2>3. result = NoResult /\ shown = <<>> /\ shown' = shown /\ answer' = answer
        /\ report' = report /\ result' \in {NoResult, answer}
    BY <1>2, <1>7, <2>1 DEF HelperReturned, CallerPhase, Untouched, hvars
  <2>4. Records'
    BY <1>2, <2>3, Zenon DEF Records
  <2>5. HelperPhase' /\ CallerPhase'
    BY <1>2, <1>7 DEF HelperReturned, HelperPhase, CallerPhase, Untouched, hvars
  <2>6. Outcome' /\ Shown'
    BY <1>2, <1>7, <1>4 DEF HelperReturned, CallerPhase, Untouched, Outcome, Shown, hvars
  <2> QED BY <2>2, <2>4, <2>5, <2>6
<1>8. CASE PrintContent
  <2>1. shown' = IF result.content = "" THEN <<>> ELSE <<result.content>>
    <3>1. shown = <<>>
      BY <1>2, <1>8 DEF PrintContent, CallerPhase
    <3>2. shown' = IF result.content # "" THEN Append(shown, result.content) ELSE shown
      BY <1>8 DEF PrintContent
    <3> QED BY <3>1, <3>2, AppendedToNone
  <2>2. Values'
    BY <1>1, <1>2, <1>8 DEF PrintContent, Values, ovars, hvars
  <2>3. result' = result /\ answer' = answer /\ report' = report
        /\ shown' \in {<<>>, <<result.content>>}
    BY <1>8, <2>1 DEF PrintContent, hvars
  <2>4. Records'
    BY <1>2, <2>3, Zenon DEF Records
  <2>5. HelperPhase' /\ CallerPhase'
    BY <1>2, <1>8 DEF PrintContent, HelperPhase, CallerPhase, Untouched, hvars
  <2>6. Outcome' /\ Shown'
    BY <1>2, <1>8, <1>4, <2>1 DEF PrintContent, Outcome, Shown, hvars
  <2> QED BY <2>2, <2>4, <2>5, <2>6
<1>9. CASE Exit
  <2>1. result.timed \in BOOLEAN /\ result.tokens \in BOOLEAN
    <3>1. CASE result = NoResult
      BY <3>1 DEF NoResult
    <3>2. CASE result = answer
      BY <3>2, <1>2 DEF Records
    <3> QED BY <3>1, <3>2, <1>2 DEF Records
  <2>2. result' = result /\ answer' = answer /\ shown' = shown
        /\ report' \in [timeline : BOOLEAN, tokens : BOOLEAN]
    BY <1>9, <2>1 DEF Exit, hvars
  <2>3. Records'
    BY <1>2, <2>2, Zenon DEF Records
  <2>4. Values'
    BY <1>1, <1>2, <1>9 DEF Exit, Values, ovars, hvars
  <2>5. HelperPhase' /\ CallerPhase'
    BY <1>2, <1>9 DEF Exit, HelperPhase, CallerPhase, Untouched, hvars
  <2>6. Outcome' /\ Shown'
    BY <1>2, <1>9, <1>4 DEF Exit, Outcome, Shown, hvars
  <2> QED BY <2>3, <2>4, <2>5, <2>6
<1> QED BY <1>5, <1>6, <1>7, <1>8, <1>9 DEF Main

(* The helper moves only while the caller waits for it.                    *)
LEMMA HelperStep == Inductive /\ Helper => Inductive'
<1> SUFFICES ASSUME Inductive, Helper PROVE Inductive'
  OBVIOUS
<1>1. Flags /\ Values /\ Records /\ HelperPhase /\ CallerPhase /\ Outcome /\ Shown
  BY TypeParts DEF Inductive
<1>2. main = "wait" /\ UNCHANGED <<ovars, expired, main, rvars>>
  <2>1. helper \in Live \/ held
    BY DEF Helper, Load, Generate, HelperExits, HelperFails, Kill, PrintLine, LetsGo, Live
  <2>2. main = "wait"
    BY <1>1, <2>1 DEF HelperPhase, CallerPhase, Values, Live
  <2> QED BY <2>2 DEF Helper, Load, Generate, HelperExits, HelperFails, Kill, PrintLine,
                      LetsGo, End, Stays
<1>3. result = NoResult /\ result' = NoResult /\ shown' = shown /\ report' = report
  BY <1>1, <1>2 DEF CallerPhase, Untouched, rvars
<1>4. CallerPhase' /\ Outcome' /\ Shown'
  <2>1. helper' # "none"
    BY <1>1, <1>2 DEF Helper, Load, Generate, HelperExits, HelperFails, Kill, PrintLine,
                      LetsGo, End, CallerPhase
  <2> QED BY <1>1, <1>2, <2>1 DEF CallerPhase, Untouched, Outcome, Shown, rvars
<1> SUFFICES Flags' /\ Values' /\ Records' /\ HelperPhase'
  BY <1>4, TypePartsNext DEF Inductive
<1>5. CASE Load
  <2>1. Flags' /\ Records'
    BY <1>1, <1>2, <1>5, FlagsKept, RecordsKept DEF Load, rvars
  <2>2. Values'
    BY <1>1, <1>2, <1>5 DEF Load, Values, Live, ovars, rvars
  <2>3. HelperPhase'
    BY <1>1, <1>5 DEF Load, HelperPhase
  <2> QED BY <2>1, <2>2, <2>3
<1>6. CASE Generate
  <2>1. PICK content \in Text \cup {""}, tokens \in BOOLEAN :
          answer' = [content |-> content, timed |-> TRUE, tokens |-> tokens]
    BY <1>6 DEF Generate
  <2>2. Flags'
    BY <1>1, <1>2, <1>6, FlagsKept DEF Generate
  <2>3. Records'
    <3>1. answer' \in [content : Text \cup {""}, timed : BOOLEAN, tokens : BOOLEAN]
      BY <2>1
    <3> QED BY <1>1, <1>3, <3>1, Zenon DEF Records
  <2>4. Values'
    <3>1. out' = Append(out, "payload") /\ helper' = "exit" /\ code' = code
      BY <1>6 DEF Generate
    <3>2. out' \in Seq(Noise \cup {"payload"})
      BY <1>1, <3>1, PayloadAppended DEF Values
    <3> QED BY <1>1, <1>2, <3>1, <3>2 DEF Values, Live, ovars, rvars
  <2>5. answer'.timed = TRUE
    BY <2>1
  <2>6. HelperPhase'
    BY <1>1, <1>6, <2>5 DEF Generate, HelperPhase
  <2> QED BY <2>2, <2>3, <2>4, <2>6
<1>7. ASSUME NEW how \in {"ok", "error", "killed"}, End(how), helper \in Live,
             how = "ok" => helper = "exit"
      PROVE  Flags' /\ Values' /\ Records' /\ HelperPhase'
  <2>1. Flags'
    <3>1. hasPython' = hasPython /\ deadline' = deadline /\ expired' = expired
      BY <1>2 DEF ovars
    <3>2. held' \in BOOLEAN
      BY <1>7 DEF End
    <3> QED BY <1>1, <3>1, <3>2, Zenon DEF Flags
  <2>2. Records'
    BY <1>1, <1>2, <1>7, RecordsKept DEF End, rvars
  <2>3. Values'
    BY <1>1, <1>2, <1>7 DEF End, Values, ovars, rvars
  <2>4. HelperPhase'
    <3>1. helper' = "gone" /\ code' = how /\ out' = out /\ answer' = answer
      BY <1>7 DEF End
    <3> QED BY <1>1, <1>7, <3>1 DEF HelperPhase
  <2> QED BY <2>1, <2>2, <2>3, <2>4
<1>8. CASE HelperExits
  BY <1>7, <1>8 DEF HelperExits, Live
<1>9. CASE HelperFails
  BY <1>7, <1>9 DEF HelperFails
<1>10. CASE Kill
  BY <1>7, <1>10 DEF Kill
<1>11. ASSUME NEW line \in Noise, PrintLine(line)
       PROVE  Flags' /\ Values' /\ Records' /\ HelperPhase'
  <2>1. out' = Append(out, line) /\ UNCHANGED <<helper, code, held, answer>>
        /\ (helper \in Live \/ held)
    BY <1>11, Zenon DEF PrintLine
  <2>2. Flags' /\ Records'
    BY <1>1, <1>2, <2>1, FlagsKept, RecordsKept DEF rvars
  <2>3. Values'
    <3>1. out' \in Seq(Noise \cup {"payload"})
      BY <1>1, <2>1 DEF Values
    <3> QED BY <1>1, <1>2, <2>1, <3>1 DEF Values, ovars, rvars
  <2>4. HelperPhase'
    BY <1>1, <2>1 DEF HelperPhase, Live
  <2> QED BY <2>2, <2>3, <2>4
<1>12. CASE LetsGo
  <2>1. Flags'
    <3>1. hasPython' = hasPython /\ deadline' = deadline /\ expired' = expired
      BY <1>2 DEF ovars
    <3>2. held' \in BOOLEAN
      BY <1>12 DEF LetsGo
    <3> QED BY <1>1, <3>1, <3>2, Zenon DEF Flags
  <2>2. Records'
    BY <1>1, <1>2, <1>12, RecordsKept DEF LetsGo, rvars
  <2>3. Values'
    BY <1>1, <1>2, <1>12 DEF LetsGo, Values, ovars, rvars
  <2>4. HelperPhase'
    BY <1>1, <1>12 DEF LetsGo, HelperPhase
  <2> QED BY <2>1, <2>2, <2>3, <2>4
<1> QED BY <1>5, <1>6, <1>8, <1>9, <1>10, <1>11, <1>12 DEF Helper

(* Every step of the helper and of its caller keeps it. *)
LEMMA StepHolds == Inductive /\ Step => Inductive'
<1> SUFFICES ASSUME Inductive, Step PROVE Inductive'
  OBVIOUS
<1>0. Flags /\ Values /\ Records /\ HelperPhase /\ CallerPhase /\ Outcome /\ Shown
  BY TypeParts DEF Inductive
<1>1. CASE Expire \/ UNCHANGED vars
  <2>1. UNCHANGED <<ovars, main, helper, code, held, out, answer, result, err, shown,
                    report, exitCode>>
    BY <1>1 DEF Expire, vars, hvars, rvars
  <2>2. Decoded' = Decoded
    BY <2>1, DecodedKept
  <2>3. Flags'
    <3>1. CASE Expire
      <4>1. hasPython' = hasPython /\ deadline' = deadline /\ held' = held
            /\ deadline /\ expired' = TRUE
        BY <3>1, <2>1 DEF Expire, ovars
      <4> QED BY <1>0, <4>1, Zenon DEF Flags
    <3>2. CASE UNCHANGED vars
      BY <1>0, <3>2, FlagsKept DEF vars, hvars
    <3> QED BY <1>1, <3>1, <3>2
  <2>4. Values'
    BY <1>0, <2>1 DEF Values, ovars
  <2>5. Records'
    BY <1>0, <2>1, RecordsKept
  <2>6. HelperPhase' /\ CallerPhase'
    BY <1>0, <2>1 DEF HelperPhase, CallerPhase, Untouched
  <2>7. Outcome' /\ Shown'
    BY <1>0, <2>1, <2>2 DEF Outcome, Shown
  <2> QED BY <2>3, <2>4, <2>5, <2>6, <2>7, TypePartsNext DEF Inductive
<1> QED BY <1>1, MainStep, HelperStep DEF Step, Next, Exited

(* It holds in every state. *)
LEMMA Invariance == Spec => []Inductive
BY InitHolds, StepHolds, PTL DEF Spec, Step

(* Every variable keeps its type; results only exist in their phases.      *)
THEOREM TypeCorrect == Spec => []TypeOK
BY Invariance, PTL DEF Inductive

(* What is shown is a whole generation of a clean helper, or nothing.      *)
THEOREM GenerationShown == Spec => []GenerationCounts
<1>1. Inductive => GenerationCounts
  <2> SUFFICES ASSUME Inductive, main = "exited"
               PROVE  GenerationCounts
    BY DEF GenerationCounts
  <2>0. out \in Seq(Noise \cup {"payload"})
    BY DEF Inductive, TypeOK
  <2>1. /\ err = "none" <=> code = "ok" /\ Decoded.ok
        /\ result = IF err = "none" THEN Decoded.result ELSE NoResult
    BY DEF Inductive, Outcome
  <2>2. /\ report = [timeline |-> result.timed, tokens |-> result.tokens]
        /\ exitCode = IF err = "none" THEN "ok" ELSE "failed"
        /\ shown = IF result.content = "" THEN <<>> ELSE <<result.content>>
    BY DEF Inductive, Shown
  <2>3. CASE code = "ok" /\ PayloadIsLast
    <3>1. LastLine = "payload"
      BY <2>0, <2>3, PayloadDecoded
    <3>2. err = "none" /\ result = answer
      BY <2>1, <2>3, <3>1 DEF Decoded
    <3>3. answer.timed = TRUE
      BY <2>3 DEF Inductive, HelperPhase, TypeOK
    <3> QED BY <2>2, <2>3, <3>2, <3>3 DEF GenerationCounts
  <2>4. CASE ~(code = "ok" /\ PayloadIsLast)
    <3>1. code # "ok" \/ LastLine # "payload"
      BY <2>0, <2>4, PayloadDecoded
    <3>2. result = NoResult
      BY <2>1, <3>1 DEF Decoded
    <3>3. exitCode = "ok" => code = "ok" /\ LastLine = "json"
      BY <2>1, <2>2, <3>1 DEF Decoded
    <3>4. exitCode = "ok" => \E i \in DOMAIN out : out[i] = "json"
      BY <2>0, <3>3, LastLineFound
    <3> QED BY <2>2, <2>4, <3>2, <3>3, <3>4 DEF GenerationCounts, NoResult, NoReport
  <2> QED BY <2>3, <2>4
<1> QED BY <1>1, Invariance, PTL

-------------------------------------------------------------------------------
(* The implementation of AnswerOnce                                        *)

(* The probe starts with nothing delivered. *)
LEMMA InitImplements == Init => Once!Init
BY DEF Init, Once!Init

(* A text by itself is an answer, with nothing before it. *)
LEMMA OneText ==
  ASSUME NEW text \in Text
  PROVE  <<text>> \in Seq(Text) /\ Len(<<text>>) = 1 /\ SubSeq(<<text>>, 1, 0) = <<>>
OBVIOUS

(* Only the text of the result is delivered, and only once.                *)
LEMMA PrintImplements ==
  ASSUME Inductive, PrintContent
  PROVE  Once!Next \/ UNCHANGED Once!avars
<1>1. main = "print" /\ main' = "report" /\ exitCode' = exitCode /\ shown = <<>>
      /\ shown' = IF result.content # "" THEN Append(shown, result.content) ELSE shown
  BY DEF PrintContent, Inductive, CallerPhase
<1>2. CASE result.content = ""
  BY <1>1, <1>2 DEF Once!avars
<1>3. CASE result.content # ""
  <2>1. result.content \in Text
    <3>1. CASE result = NoResult
      BY <1>3, <3>1 DEF NoResult
    <3>2. CASE result = answer
      BY <1>3, <3>2, TypeParts DEF Inductive, Records
    <3> QED BY <3>1, <3>2, TypeParts DEF Inductive, Records
  <2>2. shown' = <<result.content>>
    BY <1>1, <1>3, AppendedToNone
  <2>3. /\ shown' \in Seq(Text) /\ Len(shown') = 1 /\ Len(shown) = 0
        /\ SubSeq(shown', 1, 0) = <<>>
    BY <1>1, <2>1, <2>2, OneText
  <2>4. Len(shown') > Len(shown)
    BY <2>3
  <2>5. SubSeq(shown', 1, Len(shown)) = shown
    BY <1>1, <2>3, Zenon
  <2>6. Once!Deliver
    BY <1>1, <2>3, <2>4, <2>5, Zenon DEF Once!Deliver
  <2> QED BY <2>6 DEF Once!Next
<1> QED BY <1>2, <1>3

(* Every step delivers the whole answer, ends, or changes neither. *)
LEMMA StepImplements == Inductive /\ Step => [Once!Next]_Once!avars
<1> SUFFICES ASSUME Inductive, Step PROVE Once!Next \/ UNCHANGED Once!avars
  OBVIOUS
<1>1. CASE FindHelper \/ StartHelper \/ HelperReturned
  BY <1>1 DEF FindHelper, StartHelper, HelperReturned, Once!avars
<1>2. CASE PrintContent
  BY <1>2, PrintImplements
<1>3. CASE Exit
  BY <1>3 DEF Exit, Inductive, CallerPhase, Shown, Once!Next, Once!Return
<1>4. CASE Helper
  <2>1. UNCHANGED <<main, rvars>>
    BY <1>4 DEF Helper, Load, Generate, HelperExits, HelperFails, Kill, PrintLine, LetsGo,
                End, Stays
  <2> QED BY <2>1 DEF rvars, Once!avars
<1>5. CASE Expire \/ UNCHANGED vars
  BY <1>5 DEF Expire, vars, rvars, Once!avars
<1> QED BY <1>1, <1>2, <1>3, <1>4, <1>5 DEF Step, Next, Main, Exited

(* To its caller an offline probe, too, delivers one answer once.          *)
THEOREM Refinement == Spec => ImplementsAnswerOnce
BY InitImplements, StepImplements, Invariance, PTL
DEF Spec, Step, ImplementsAnswerOnce, Once!Spec
===============================================================================
