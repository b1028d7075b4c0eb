----------------------------- MODULE StreamClient -----------------------------
(***************************************************************************)
(* One call of Client.StreamChatWithRetries (client/retry.go) and the      *)
(* attempts of Client.StreamChat (client/client.go) it makes: a POST, the  *)
(* response headers, then either an error body or a stream of server-sent  *)
(* events, under a context with a deadline, retried after a failure with   *)
(* capped exponential back-off.                                            *)
(*                                                                         *)
(* The server and the network are the environment: at each point where the *)
(* code waits for them they answer in any of the ways the code tells       *)
(* apart. Time is a counter; 0 is Go's zero time, so the clock starts at 1.*)
(***************************************************************************)
EXTENDS Integers, Sequences

CONSTANTS
  Retries,      \* the retries argument; never validated, may be negative
  BackoffBase,  \* backoffBase, in ticks
  BackoffCap,   \* the 4 s cap, in ticks
  MaxDuration,  \* the largest time.Duration; the shift wraps beyond it
  Deadline,     \* the tick at which ctx is done; 0 when it has no deadline
  MaxTime,      \* bound on the clock
  Statuses,     \* HTTP status codes the server may answer with
  Text,         \* non-empty pieces of generated text
  Chunks,       \* decoded chunks: sequences of choice deltas
  MaxChunks     \* bound on the well-formed chunks of one stream

NoText == ""

Delta == [content : Text \cup {NoText}, reasoning : Text \cup {NoText}]

(* client.go:149-155: reasoning text stands in for absent content, and a   *)
(* choice with neither is skipped.                                         *)
DeltaText(d) == IF d.content # NoText THEN d.content ELSE d.reasoning

Texts(chunk) ==
  LET from[i \in 1..Len(chunk) + 1] ==
        IF i > Len(chunk) THEN <<>>
        ELSE IF DeltaText(chunk[i]) = NoText THEN from[i + 1]
        ELSE <<DeltaText(chunk[i])>> \o from[i + 1]
  IN  from[1]

ASSUME IntegerConstants ==
  /\ Retries \in Int
  /\ BackoffBase \in Nat \ {0} /\ BackoffCap \in Nat \ {0}
  /\ MaxDuration \in Nat \ {0}
  /\ Deadline \in Nat /\ MaxTime \in Nat \ {0} /\ MaxChunks \in Nat
  /\ Statuses \subseteq 100..599

ASSUME TextConstants == NoText \notin Text /\ Chunks \subseteq Seq(Delta)

VARIABLES
  pc,        \* where the call is, see PCs below
  urlOK,     \* http.NewRequestWithContext accepts the URL; fixed for the call
  attempt,   \* the loop variable of StreamChatWithRetries
  calls,     \* how many times StreamChat has been entered
  result,    \* the StreamResult being filled in, or last returned
  err,       \* the error StreamChat returned, by the place it comes from
  wakeAt,    \* when the back-off timer fires
  lines,     \* retry lines written to log
  echoed,    \* the text handed to onContent, over all attempts
  now        \* the clock

vars == <<pc, urlOK, attempt, calls, result, err, wakeAt, lines, echoed, now>>

PCs == { "call",      \* about to enter StreamChat
         "wait",      \* in httpClient.Do
         "errbody",   \* reading the body of a non-2xx response
         "stream",    \* in the scanner loop
         "check",     \* StreamChat has returned; at the loop condition
         "backoff",   \* in the select on ctx.Done and the timer
         "returned" } \* StreamChatWithRetries has returned

Errors == {"none", "build", "send", "status", "read", "decode", "stream", "ctx"}

Expired == Deadline # 0 /\ now >= Deadline

Success(status) == status >= 200 /\ status < 300

-------------------------------------------------------------------------------
(* The pieces of a result *)

ZeroResult ==
  [ status |-> 0, started |-> 0, headers |-> 0, firstChunk |-> 0,
    firstToken |-> 0, done |-> 0, chunks |-> 0, deltas |-> 0, content |-> <<>> ]

(* Mutated: the result of the previous attempt is filled in again. *)
FreshResult_Reused(t) == [result EXCEPT !.started = t, !.status = 0, !.done = 0]

FreshResult(t) == [ZeroResult EXCEPT !.started = t]

(* Mutated: the IsZero test is missing, so the last chunk is stamped. *)
OrElse_Last(stamp, t) == t

OrElse(stamp, t) == IF stamp = 0 THEN t ELSE stamp

(* client.go:137-141: a data line that is not [DONE] counts as a chunk     *)
(* before it is decoded.                                                   *)
CountChunk(r, t) ==
  [r EXCEPT !.chunks = @ + 1, !.firstChunk = OrElse(@, t)]

AddTexts(r, ts, t) ==
  [r EXCEPT !.firstToken = IF ts = <<>> THEN @ ELSE OrElse(@, t),
            !.deltas     = @ + Len(ts),
            !.content    = @ \o ts]

-------------------------------------------------------------------------------
(* The back-off arithmetic, in a signed word from -MaxDuration - 1 to       *)
(* MaxDuration                                                             *)

Word(x) ==
  LET half == MaxDuration + 1
  IN  ((x + half) % (2 * half)) - half

(* Mutated: the first delay is shifted too, then cut by one doubling. *)
BackoffDelay_ShiftOffByTwo(a) ==
  LET delay == Word((BackoffBase * 2 ^ a) \div 4)
  IN  IF delay > BackoffCap THEN BackoffCap ELSE delay

BackoffDelay(a) ==
  LET delay == Word(BackoffBase * 2 ^ (a - 1))
  IN  IF delay > BackoffCap THEN BackoffCap ELSE delay

(* Mutated: any failure is retried. *)
Retryable_AnyFailure(r) == TRUE

(* retryable() *)
Retryable(r) == r.deltas = 0 /\ (r.status = 0 \/ r.status >= 500)

(* Mutated: off by one at the last retry, in either direction. *)
TryAgain_OneLess(e, a, r) == e # "none" /\ a < Retries /\ Retryable(r)
TryAgain_OneMore(e, a, r) == e # "none" /\ a <= Retries + 1 /\ Retryable(r)

(* The loop condition of StreamChatWithRetries *)
TryAgain(e, a, r) == e # "none" /\ a <= Retries /\ Retryable(r)

-------------------------------------------------------------------------------
Init ==
  /\ pc      = "call"
  /\ urlOK \in BOOLEAN
  /\ attempt = 1
  /\ calls   = 0
  /\ result  = ZeroResult
  /\ err     = "none"
  /\ wakeAt  = 0
  /\ lines   = 0
  /\ echoed  = <<>>
  /\ now     = 1

(* StreamChat returns error e after stamping DoneAt. *)
Finish(e) ==
  /\ result' = [result EXCEPT !.done = now]
  /\ err' = e
  /\ pc' = "check"
  /\ UNCHANGED <<urlOK, attempt, calls, wakeAt, lines, echoed, now>>

(* StreamChat up to the send. A URL the http package rejects returns at    *)
(* once with DoneAt still zero; a context already done fails the send.     *)
Call ==
  /\ pc = "call"
  /\ calls' = calls + 1
  /\ \/ /\ ~urlOK
        /\ result' = FreshResult(now)
        /\ err' = "build"
        /\ pc' = "check"
     \/ /\ urlOK /\ Expired
        /\ result' = [FreshResult(now) EXCEPT !.done = now]
        /\ err' = "send"
        /\ pc' = "check"
     \/ /\ urlOK /\ ~Expired
        /\ result' = FreshResult(now)
        /\ err' = "none"
        /\ pc' = "wait"
  /\ UNCHANGED <<urlOK, attempt, wakeAt, lines, echoed, now>>

(* Mutated: the request is built without the caller's context.             *)
SendFails_NoContext == pc = "wait" /\ ~Expired /\ Finish("send")

(* Do fails: no connection, a reset before the headers, or the deadline. *)
SendFails == pc = "wait" /\ Finish("send")

Headers(s) ==
  /\ pc = "wait"
  /\ result' = [result EXCEPT !.status = s, !.headers = now]
  /\ pc' = IF Success(s) THEN "stream" ELSE "errbody"
  /\ UNCHANGED <<urlOK, attempt, calls, err, wakeAt, lines, echoed, now>>

(* The error body was read, or reading it failed. *)
ErrorBody == pc = "errbody" /\ Finish("status")
ErrorBodyFails == pc = "errbody" /\ Finish("read")

(* A data line that decodes. Lines that are not data are skipped and       *)
(* change nothing.                                                         *)
Chunk(c) ==
  /\ pc = "stream"
  /\ result.chunks < MaxChunks
  /\ result' = AddTexts(CountChunk(result, now), Texts(c), now)
  /\ echoed' = echoed \o Texts(c)
  /\ UNCHANGED <<pc, urlOK, attempt, calls, err, wakeAt, lines, now>>

(* A data line that does not decode ends the attempt. *)
BadChunk ==
  /\ pc = "stream"
  /\ result' = [CountChunk(result, now) EXCEPT !.done = now]
  /\ err' = "decode"
  /\ pc' = "check"
  /\ UNCHANGED <<urlOK, attempt, calls, wakeAt, lines, echoed, now>>

(* "data: [DONE]", or a body that ends cleanly without it: the code treats *)
(* both as the end of a complete answer.                                   *)
StreamEnds == pc = "stream" /\ Finish("none")

(* The scanner stops with an error: a cut connection, a line above 1 MiB,  *)
(* or the deadline.                                                        *)
StreamFails == pc = "stream" /\ Finish("stream")

-------------------------------------------------------------------------------
(* The loop of StreamChatWithRetries *)

Retry ==
  /\ pc = "check"
  /\ TryAgain(err, attempt, result)
  /\ lines' = lines + 1
  /\ wakeAt' = now + BackoffDelay(attempt)
  /\ pc' = "backoff"
  /\ UNCHANGED <<urlOK, attempt, calls, result, err, echoed, now>>

Return ==
  /\ pc = "check"
  /\ ~TryAgain(err, attempt, result)
  /\ pc' = "returned"
  /\ UNCHANGED <<urlOK, attempt, calls, result, err, wakeAt, lines, echoed, now>>

(* The select: when ctx is done and the timer has fired, either may win. *)
BackoffElapsed ==
  /\ pc = "backoff"
  /\ now >= wakeAt
  /\ attempt' = attempt + 1
  /\ pc' = "call"
  /\ UNCHANGED <<urlOK, calls, result, err, wakeAt, lines, echoed, now>>

BackoffCancelled ==
  /\ pc = "backoff"
  /\ Expired
  /\ err' = "ctx"
  /\ pc' = "returned"
  /\ UNCHANGED <<urlOK, attempt, calls, result, wakeAt, lines, echoed, now>>

Tick ==
  /\ pc # "returned"
  /\ now < MaxTime
  /\ now' = now + 1
  /\ UNCHANGED <<pc, urlOK, attempt, calls, result, err, wakeAt, lines, echoed>>

(* The call has returned: nothing more happens. *)
Returned == pc = "returned" /\ UNCHANGED vars

Attempt ==
  \/ Call
  \/ SendFails
  \/ \E s \in Statuses : Headers(s)
  \/ ErrorBody \/ ErrorBodyFails
  \/ \E c \in Chunks : Chunk(c)
  \/ BadChunk
  \/ StreamEnds
  \/ StreamFails

Loop == Retry \/ Return \/ BackoffElapsed \/ BackoffCancelled

Next == Attempt \/ Loop \/ Tick \/ Returned

(* The goroutine runs (WF on its own steps), the clock advances, and once  *)
(* the context is done the http package fails whatever read is pending.    *)
(* The server owes nothing: no fairness on its answers.                    *)
Fairness ==
  /\ WF_vars(Call) /\ WF_vars(Loop) /\ WF_vars(Tick)
  /\ WF_vars(Expired /\ (SendFails \/ ErrorBodyFails \/ StreamFails))

Spec == Init /\ [][Next]_vars
FairSpec == Spec /\ Fairness

-------------------------------------------------------------------------------
(* Properties *)

RetryLimit == IF Retries > 0 THEN Retries ELSE 0

Stamps == {"started", "headers", "firstChunk", "firstToken", "done"}

ResultType ==
  [ status : Statuses \cup {0}, started : Nat, headers : Nat, firstChunk : Nat,
    firstToken : Nat, done : Nat, chunks : Nat, deltas : Nat, content : Seq(Text) ]

(* Every variable stays in its type, and the loop variable within the      *)
(* number of retries asked for (client/retry.go:26).                       *)
TypeOK ==
  /\ pc \in PCs
  /\ urlOK \in BOOLEAN
  /\ attempt \in 1..(RetryLimit + 1)
  /\ calls \in 0..(RetryLimit + 1)
  /\ result \in ResultType
  /\ err \in Errors
  /\ wakeAt \in Int
  /\ lines \in 0..RetryLimit
  /\ echoed \in Seq(Text)
  /\ now \in Nat \ {0}

(* The text the caller was handed over all attempts is the content of the  *)
(* one result, at every moment: a retry never restarts an answer of which  *)
(* a part has already been printed (client/retry.go:13-17).                *)
SingleAnswer ==
  /\ echoed = result.content
  /\ pc \in {"call", "backoff"} => echoed = <<>>

(* The timestamps, the counters and the status of a result belong to one   *)
(* attempt and agree with each other: headers, first chunk, first token    *)
(* and end come in this order, and each is set exactly when what it marks  *)
(* has happened (client/client.go:78-166).                                 *)
TimelineOrdered ==
  LET r == result
  IN  /\ (r.headers # 0) <=> (r.status # 0)
      /\ (r.firstChunk # 0) <=> (r.chunks > 0)
      /\ (r.firstToken # 0) <=> (r.deltas > 0)
      /\ r.deltas = Len(r.content)
      /\ r.headers # 0 => r.started <= r.headers
      /\ r.firstChunk # 0 => r.headers # 0 /\ r.headers <= r.firstChunk
      /\ r.firstToken # 0 => r.firstChunk # 0 /\ r.firstChunk <= r.firstToken
      /\ r.done # 0 => \A f \in Stamps : r[f] <= r.done

(* A call that fails in a way worth retrying has used every retry, unless  *)
(* the deadline cut it short; no call makes more requests than that.       *)
RetryBudget ==
  /\ calls <= RetryLimit + 1
  /\ pc = "returned" /\ err \notin {"none", "ctx"} /\ Retryable(result)
       => calls = RetryLimit + 1

(* Within an attempt a timestamp is written once: the first chunk and the  *)
(* first token keep the time of the first (client/client.go:139, 156).     *)
StampsStick ==
  [][calls' = calls =>
       \A f \in Stamps : result[f] # 0 => result'[f] = result[f]]_vars

(* The wait between the end of attempt a and the next request is at least  *)
(* the base doubled a - 1 times, up to the cap (client/retry.go:13-14).    *)
NominalDelay(a) ==
  LET doubled == BackoffBase * 2 ^ (a - 1)
  IN  IF doubled > BackoffCap THEN BackoffCap ELSE doubled

BackoffHonoured ==
  [][calls' # calls /\ calls > 0 /\ result.done # 0 =>
       now - result.done >= NominalDelay(attempt - 1)]_vars

(* With the retries hidden, the call is one answer delivered once.         *)
AO == INSTANCE AnswerOnce WITH
        phase   <- IF pc = "returned" THEN "returned" ELSE "running",
        answer  <- echoed,
        content <- IF pc = "returned" THEN result.content ELSE <<>>,
        verdict <- IF pc # "returned" THEN "none"
                   ELSE IF err = "none" THEN "ok" ELSE "failed"

ImplementsAnswerOnce == AO!Spec

(* Under a deadline the call returns, however silent the server is.        *)
Termination == <>(pc = "returned")

-------------------------------------------------------------------------------
(* What the comments say and the code does not do *)

(* client/retry.go:17: "log, when non-nil, receives one line per retry     *)
(* attempt": at the return there are as many lines as repeated requests.   *)
OneLinePerRetry == pc = "returned" => lines = calls - 1

(* client/retry.go:14-16: a request is retried only when the failure is a  *)
(* connection error or a 5xx response.                                     *)
OnlyTransientRetried ==
  pc = "backoff" => err = "send" \/ result.status >= 500
===============================================================================
