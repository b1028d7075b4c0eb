------------------------------ MODULE OfflineProbe -----------------------------
(***************************************************************************)
(* inferlens ping offline (pkg/mode/offline.go) and its Python helper      *)
(* (scripts/vllm_offline_probe.py): one process is started under the       *)
(* context of the probe, everything it prints is kept until it has ended,  *)
(* and the last line that is not blank is taken for its payload.           *)
(*                                                                         *)
(* The engine the helper loads prints lines of its own, starts processes   *)
(* that inherit the output, and may raise or crash at any point. When the  *)
(* deadline passes the helper is killed; cmd.Run then still waits until    *)
(* every process has closed the output (external: os/exec).                *)
(***************************************************************************)
EXTENDS Integers, Sequences

CONSTANTS
  Text,       \* the non-empty texts a model may generate
  Noise,      \* lines other than the payload: "blank", "text", "json" (an object)
  MaxNoise    \* bound on the number of such lines

ASSUME OfflineAssumption ==
  /\ "" \notin Text
  /\ Noise \subseteq {"blank", "text", "json"}
  /\ MaxNoise \in Nat

VARIABLES
  scripts,    \* where the helper script is: in the working directory, next to
              \* the executable, in both places or in none
  hasPython,  \* the interpreter can be started
  deadline,   \* the context has a deadline: --timeout is positive
  expired,    \* it has passed
  main,       \* where Ping is
  helper,     \* where the helper process is
  code,       \* how it ended
  held,       \* a process it has left behind keeps the output open
  out,        \* the lines in the buffer
  answer,     \* history: what the model has generated, with its token counts
  result,     \* what runOfflineHelper returns
  err,
  shown,      \* the generated text on stdout
  report, exitCode

ovars == <<scripts, hasPython, deadline>>
hvars == <<helper, code, held, out, answer>>
rvars == <<result, err, shown, report, exitCode>>
vars  == <<ovars, expired, main, hvars, rvars>>

Live == {"import", "load", "generate", "exit"}

NoResult == [content |-> "", timed |-> FALSE, tokens |-> FALSE]
NoReport == [timeline |-> FALSE, tokens |-> FALSE]

Init ==
  /\ scripts \in SUBSET {"cwd", "exe"}
  /\ hasPython \in BOOLEAN /\ deadline \in BOOLEAN /\ expired = FALSE
  /\ main = "new"
  /\ helper = "none" /\ code = "none" /\ held = FALSE
  /\ out = <<>> /\ answer = NoResult
  /\ result = NoResult /\ err = "none"
  /\ shown = <<>> /\ report = NoReport /\ exitCode = "none"

-------------------------------------------------------------------------------
(* Ping *)

HelperPath == IF "cwd" \in scripts THEN "cwd" ELSE IF "exe" \in scripts THEN "exe" ELSE ""

(* Without a script only the header of the report is printed.              *)
FindHelper ==
  /\ main = "new"
  /\ IF HelperPath = "" THEN err' = "notfound" /\ main' = "report"
     ELSE main' = "start" /\ UNCHANGED err
  /\ UNCHANGED <<ovars, expired, hvars, result, shown, report, exitCode>>

StartHelper ==
  /\ main = "start"
  /\ IF expired \/ ~hasPython
     THEN err' = "run" /\ main' = "print" /\ UNCHANGED helper
     ELSE main' = "wait" /\ helper' = "import" /\ UNCHANGED err
  /\ UNCHANGED <<ovars, expired, code, held, out, answer, result, shown, report, exitCode>>

(* The last line that is not blank, if it is a JSON object. One without the*)
(* fields of the payload decodes to zero values.                           *)
Filled == {i \in DOMAIN out : out[i] # "blank"}

LastLine ==
  IF Filled = {} THEN "blank"
  ELSE out[CHOOSE i \in Filled : \A j \in Filled : j <= i]

Decoded ==
  [ok     |-> LastLine \in {"payload", "json"},
   result |-> IF LastLine = "payload" THEN answer ELSE NoResult]

(* Mutated: the output of a helper that failed is decoded as well.         *)
HelperReturned_AnyCode ==
  /\ main = "wait"
  /\ helper = "gone" /\ ~held
  /\ main' = "print"
  /\ IF ~Decoded.ok THEN err' = "decode" /\ UNCHANGED result
     ELSE result' = Decoded.result /\ UNCHANGED err
  /\ UNCHANGED <<ovars, expired, hvars, shown, report, exitCode>>

(* cmd.Run returns once the helper is gone and its output is closed.       *)
HelperReturned ==
  /\ main = "wait"
  /\ helper = "gone" /\ ~held
  /\ main' = "print"
  /\ IF code # "ok" THEN err' = "run" /\ UNCHANGED result
     ELSE IF ~Decoded.ok THEN err' = "decode" /\ UNCHANGED result
     ELSE result' = Decoded.result /\ UNCHANGED err
  /\ UNCHANGED <<ovars, expired, hvars, shown, report, exitCode>>

(* Mutated: the text is read from the helper's generation, not its result. *)
PrintContent_Unchecked ==
  /\ main = "print"
  /\ main' = "report"
  /\ shown' = IF answer.content # "" THEN Append(shown, answer.content) ELSE shown
  /\ UNCHANGED <<ovars, expired, hvars, result, err, report, exitCode>>

PrintContent ==
  /\ main = "print"
  /\ main' = "report"
  /\ shown' = IF result.content # "" THEN Append(shown, result.content) ELSE shown
  /\ UNCHANGED <<ovars, expired, hvars, result, err, report, exitCode>>

(* The report has no section for the error; main.go prints it.             *)
Exit ==
  /\ main = "report"
  /\ main' = "exited"
  /\ report' = [timeline |-> result.timed, tokens |-> result.tokens]
  /\ exitCode' = IF err = "none" THEN "ok" ELSE "failed"
  /\ UNCHANGED <<ovars, expired, hvars, result, err, shown>>

-------------------------------------------------------------------------------
(* The helper process and what it leaves behind *)

Stays == UNCHANGED <<ovars, expired, main, rvars>>

(* vLLM is imported, then loaded.                                          *)
Load ==
  /\ helper \in {"import", "load"}
  /\ helper' = IF helper = "import" THEN "load" ELSE "generate"
  /\ Stays /\ UNCHANGED <<code, held, out, answer>>

(* The payload: the text, which may be empty, times, which are positive    *)
(* once a model was loaded, and token counts, zero if the engine gives none*)
Generate ==
  /\ helper = "generate"
  /\ helper' = "exit"
  /\ \E content \in Text \cup {""}, tokens \in BOOLEAN :
       answer' = [content |-> content, timed |-> TRUE, tokens |-> tokens]
  /\ out' = Append(out, "payload")
  /\ Stays /\ UNCHANGED <<code, held>>

(* The helper ends. What it has started may live on with its output.       *)
End(how) ==
  /\ helper' = "gone" /\ code' = how
  /\ held' \in BOOLEAN
  /\ Stays /\ UNCHANGED <<out, answer>>

(* return 0. A kill at the deadline may meet a helper that has just ended; *)
(* cmd.Run then returns the error of the context.                          *)
HelperExits ==
  /\ helper = "exit"
  /\ End("ok") \/ (expired /\ End("killed"))

(* return 127, an exception, a crash, also while the interpreter shuts down*)
(* after the payload was printed                                           *)
HelperFails == helper \in Live /\ End("error")

(* Mutated: the helper is started without the context.                     *)
Kill_NoContext == FALSE /\ End("killed")

Kill == expired /\ helper \in Live /\ End("killed")

(* The engine, or a process of it, prints a line of its own.               *)
PrintLine(line) ==
  /\ helper \in Live \/ held
  /\ Len(SelectSeq(out, LAMBDA l : l # "payload")) < MaxNoise
  /\ out' = Append(out, line)
  /\ Stays /\ UNCHANGED <<helper, code, held, answer>>

LetsGo ==
  /\ held
  /\ held' = FALSE
  /\ Stays /\ UNCHANGED <<helper, code, out, answer>>

(* Mutated: the default timeout of zero is a deadline that has passed.     *)
Expire_AtZero ==
  /\ ~expired /\ main # "exited"
  /\ expired' = TRUE
  /\ UNCHANGED <<ovars, main, hvars, rvars>>

Expire ==
  /\ deadline /\ ~expired /\ main # "exited"
  /\ expired' = TRUE
  /\ UNCHANGED <<ovars, main, hvars, rvars>>

Exited == main = "exited" /\ UNCHANGED vars

Main == FindHelper \/ StartHelper \/ HelperReturned \/ PrintContent \/ Exit

Helper == Load \/ Generate \/ HelperExits \/ HelperFails \/ Kill
          \/ (\E line \in Noise : PrintLine(line)) \/ LetsGo

Next == Main \/ Helper \/ Expire \/ Exited

(* Ping runs, the timer fires and the kill is delivered. The engine owes   *)
(* nothing: loading may take for ever, and so may a process left behind.   *)
Fairness == WF_vars(Main) /\ WF_vars(Expire) /\ WF_vars(Kill)

Spec     == Init /\ [][Next]_vars
FairSpec == Spec /\ Fairness

-------------------------------------------------------------------------------
(* Properties *)

(* Every variable keeps its type; results, text and report are only there  *)
(* in the phases that make them (pkg/mode/offline.go:47-104).              *)
TypeOK ==
  /\ scripts \subseteq {"cwd", "exe"}
  /\ hasPython \in BOOLEAN /\ deadline \in BOOLEAN
  /\ expired \in BOOLEAN /\ (expired => deadline)
  /\ main \in {"new", "start", "wait", "print", "report", "exited"}
  /\ helper \in Live \cup {"none", "gone"}
  /\ code \in {"none", "ok", "error", "killed"}
  /\ held \in BOOLEAN
  /\ out \in Seq(Noise \cup {"payload"})
  /\ answer \in [content : Text \cup {""}, timed : BOOLEAN, tokens : BOOLEAN]
  /\ result \in {NoResult, answer}
  /\ err \in {"none", "notfound", "run", "decode"}
  /\ shown \in {<<>>, <<result.content>>}
  /\ report \in [timeline : BOOLEAN, tokens : BOOLEAN]
  /\ exitCode \in {"none", "ok", "failed"}

(* The payload is the last thing printed but for blank lines.              *)
PayloadIsLast ==
  \E i \in DOMAIN out : /\ out[i] = "payload"
                        /\ \A j \in DOMAIN out : j > i => out[j] = "blank"

(* A generation counts exactly if its helper then ended cleanly with the   *)
(* payload as the last line. Then the text and the counts shown are the    *)
(* model's; otherwise nothing of it is shown, however much of the work was *)
(* done, and the exit is a failure unless a stray JSON object has taken the*)
(* place of the payload (pkg/mode/offline.go:58-73, 91-120).               *)
GenerationCounts ==
  main = "exited" =>
    IF code = "ok" /\ PayloadIsLast
    THEN /\ exitCode = "ok"
         /\ report = [timeline |-> TRUE, tokens |-> answer.tokens]
         /\ shown = IF answer.content = "" THEN <<>> ELSE <<answer.content>>
    ELSE /\ shown = <<>> /\ report = NoReport
         /\ exitCode = "ok" => code = "ok" /\ \E i \in DOMAIN out : out[i] = "json"

(* README.md:208, "--timeout: probe timeout; offline defaults to 0": once a*)
(* deadline has passed, only a process the helper has left behind keeps the*)
(* command from ending (pkg/mode/offline.go:86-97, pkg/ping/ping.go:54-59).*)
EndsUnlessHeld == expired ~> (main = "exited" \/ held)

(* To its caller the probe is the delivery of one answer, here in one piece*)
(* (AnswerOnce.tla): the text on stdout is the content of the result of the*)
(* helper, whole or not at all (pkg/mode/offline.go:58-61).                *)
Once == INSTANCE AnswerOnce WITH
  phase   <- IF main = "exited" THEN "returned" ELSE "running",
  answer  <- shown,
  content <- IF main # "exited" \/ result.content = "" THEN <<>> ELSE <<result.content>>,
  verdict <- exitCode

ImplementsAnswerOnce == Once!Spec
===============================================================================
