-------------------------- MODULE StreamClientProofs --------------------------
(***************************************************************************)
(* What StreamClient.tla states, and what BenchRequest.tla and             *)
(* PingReport.tla state of the result it returns, for every number of      *)
(* retries, back-off, deadline, word width, set of statuses and set of     *)
(* chunks. The inductive invariant is Inductive: the types, the            *)
(* bookkeeping of the retry loop and the bookkeeping of one result; for    *)
(* the reports with Closed besides.                                        *)
(***************************************************************************)
EXTENDS BenchRequest, PingReport, DataProofs

(* The loop counts in step: requests made, lines written and the loop      *)
(* variable, by where the call is.                                         *)
Counters ==
  /\ pc = "call" => calls = attempt - 1 /\ lines = attempt - 1
  /\ pc \in {"wait", "errbody", "stream", "check"} =>
       calls = attempt /\ lines = attempt - 1
  /\ pc = "backoff" =>
       /\ calls = attempt /\ lines = attempt
       /\ TryAgain(err, attempt, result)
  /\ pc = "returned" =>
       /\ calls = attempt
       /\ err # "ctx" => ~TryAgain(err, attempt, result)

(* The attempt began before the context was done. *)
InTime == Deadline = 0 \/ result.started < Deadline

(* Which fields of the result are filled in, by where the call is.         *)
Filled ==
  /\ \A f \in Stamps : result[f] <= now
  /\ pc \in {"wait", "errbody", "stream"} =>
       result.started # 0 /\ result.done = 0 /\ InTime
  /\ pc = "wait" => result.status = 0 /\ result.chunks = 0 /\ err = "none"
  /\ pc = "errbody" => result.status # 0 /\ result.chunks = 0
  /\ pc = "stream" => Success(result.status)
  /\ pc \in {"check", "returned"} /\ err = "none" =>
       Success(result.status) /\ result.started # 0 /\ result.done # 0 /\ InTime

Inductive ==
  /\ TypeOK
  /\ Counters
  /\ SingleAnswer
  /\ TimelineOrdered
  /\ Filled

-------------------------------------------------------------------------------
(* The helpers keep a result a result. *)

(* The result of a fresh attempt is a result. *)
LEMMA FreshResultType ==
  ASSUME NEW t \in Nat
  PROVE  /\ FreshResult(t) \in ResultType
         /\ [FreshResult(t) EXCEPT !.done = t] \in ResultType
  BY EmptySeq DEF FreshResult, ZeroResult, ResultType

(* A fresh result is stamped with its start and nothing else. *)
LEMMA FreshResultFields ==
  ASSUME NEW t \in Nat,
         NEW r \in {FreshResult(t), [FreshResult(t) EXCEPT !.done = t]}
  PROVE  /\ r.status = 0 /\ r.headers = 0 /\ r.started = t
         /\ r.firstChunk = 0 /\ r.firstToken = 0
         /\ r.chunks = 0 /\ r.deltas = 0 /\ r.content = <<>>
<1>1. CASE r = FreshResult(t)
  BY <1>1 DEF FreshResult, ZeroResult
<1>2. CASE r = [FreshResult(t) EXCEPT !.done = t]
  BY <1>2 DEF FreshResult, ZeroResult
<1> QED BY <1>1, <1>2

(* A result with a chunk counted is a result. *)
LEMMA CountChunkType ==
  ASSUME NEW r \in ResultType, NEW t \in Nat
  PROVE  CountChunk(r, t) \in ResultType
<1>1. r.chunks + 1 \in Nat /\ OrElse(r.firstChunk, t) \in Nat
  BY DEF OrElse, ResultType
<1> QED BY <1>1 DEF CountChunk, ResultType

(* A result with texts added is a result. *)
LEMMA AddTextsType ==
  ASSUME NEW r \in ResultType, NEW t \in Nat, NEW ts \in Seq(Text)
  PROVE  AddTexts(r, ts, t) \in ResultType
<1>1. r.content \o ts \in Seq(Text) /\ Len(ts) \in Nat
  BY ConcatProperties, LenProperties DEF ResultType
<1>2. /\ (IF ts = <<>> THEN r.firstToken ELSE OrElse(r.firstToken, t)) \in Nat
      /\ r.deltas + Len(ts) \in Nat
  BY <1>1 DEF OrElse, ResultType
<1> QED BY <1>1, <1>2 DEF AddTexts, ResultType

(* A word is an integer, so a delay is one too. *)
LEMMA DelayType ==
  ASSUME NEW a \in Nat \ {0}
  PROVE  BackoffDelay(a) \in Int
<1> DEFINE x == BackoffBase * 2 ^ (a - 1)
           half == MaxDuration + 1
<1>1. x \in Int /\ half \in Nat \ {0}
  BY IntegerConstants
<1>2. (x + half) % (2 * half) \in Int
  BY <1>1
<1>3. Word(x) \in Int
  BY <1>1, <1>2 DEF Word
<1> QED BY <1>3, IntegerConstants DEF BackoffDelay

-------------------------------------------------------------------------------
(* Every action preserves Inductive. *)

(* The invariant holds when the call begins. *)
LEMMA InitInductive == Init => Inductive
<1> SUFFICES ASSUME Init PROVE Inductive
  OBVIOUS
<1> USE IntegerConstants
<1>1. TypeOK
  BY EmptySeq DEF Init, TypeOK, ZeroResult, ResultType, PCs, Errors, RetryLimit
<1>2. Counters /\ SingleAnswer
  BY DEF Init, Counters, SingleAnswer, ZeroResult
<1>3. TimelineOrdered /\ Filled
  BY EmptySeq DEF Init, TimelineOrdered, Filled, InTime, Stamps, ZeroResult
<1> QED BY <1>1, <1>2, <1>3 DEF Inductive

(* Entering StreamChat keeps it. *)
LEMMA CallInductive == Inductive /\ Call => Inductive'
<1> SUFFICES ASSUME Inductive, Call PROVE Inductive'
  OBVIOUS
<1> USE IntegerConstants DEF Inductive
<1>1. now \in Nat \ {0}
  BY DEF TypeOK
<1>2. /\ result' \in {FreshResult(now), [FreshResult(now) EXCEPT !.done = now]}
      /\ result'.done = 0 \/ result'.done = now
      /\ pc' = "wait" => result'.done = 0 /\ err' = "none" /\ ~Expired
      /\ pc' = "check" => err' \in {"build", "send"}
      /\ pc' \in {"wait", "check"}
      /\ pc = "call" /\ calls' = calls + 1
      /\ UNCHANGED <<urlOK, attempt, wakeAt, lines, echoed, now>>
  BY DEF Call, FreshResult, ZeroResult
<1>3. /\ result'.status = 0 /\ result'.headers = 0 /\ result'.started = now
      /\ result'.firstChunk = 0 /\ result'.firstToken = 0
      /\ result'.chunks = 0 /\ result'.deltas = 0 /\ result'.content = <<>>
  BY <1>1, <1>2, FreshResultFields
<1>4. TypeOK'
  <2>1. result' \in ResultType
    BY <1>1, <1>2, FreshResultType
  <2>2. calls' \in 0..(RetryLimit + 1)
    BY <1>2 DEF TypeOK, Counters, RetryLimit
  <2> QED BY <1>2, <2>1, <2>2 DEF TypeOK, PCs, Errors
<1>5. Counters'
  BY <1>2 DEF Counters, TypeOK
<1>6. SingleAnswer'
  BY <1>2, <1>3 DEF SingleAnswer
<1>7. TimelineOrdered'
  BY <1>1, <1>2, <1>3, EmptySeq DEF TimelineOrdered, Stamps
<1>8. Filled'
  <2>1. pc' = "wait" => InTime'
    BY <1>1, <1>2, <1>3 DEF InTime, Expired
  <2> QED BY <1>1, <1>2, <1>3, <2>1 DEF Filled, Stamps
<1> QED BY <1>4, <1>5, <1>6, <1>7, <1>8

(* Every way StreamChat returns once the request is on its way. *)
LEMMA FinishInductive ==
  ASSUME NEW e \in Errors, e # "ctx", Inductive, Finish(e),
         pc \in {"wait", "errbody", "stream"},
         e = "none" => pc = "stream"
  PROVE  Inductive'
<1> USE DEF Inductive
<1>1. /\ result \in ResultType /\ now \in Nat \ {0}
      /\ result' = [result EXCEPT !.done = now] /\ err' = e /\ pc' = "check"
      /\ UNCHANGED <<urlOK, attempt, calls, wakeAt, lines, echoed, now>>
  BY DEF TypeOK, Finish
<1>2. /\ result' \in ResultType /\ result'.done = now
      /\ \A f \in Stamps \ {"done"} : result'[f] = result[f]
      /\ result'.status = result.status /\ result'.chunks = result.chunks
      /\ result'.deltas = result.deltas /\ result'.content = result.content
  BY <1>1 DEF ResultType, Stamps
<1>3. TypeOK'
  BY <1>1, <1>2 DEF TypeOK, PCs
<1>4. Counters'
  BY <1>1 DEF Counters
<1>5. SingleAnswer'
  BY <1>1, <1>2 DEF SingleAnswer
<1>6. TimelineOrdered'
  BY <1>1, <1>2 DEF TimelineOrdered, Stamps, Filled
<1>7. Filled'
  BY <1>1, <1>2 DEF Filled, InTime, Stamps, Success
<1> QED BY <1>3, <1>4, <1>5, <1>6, <1>7

(* Response headers keep it, whether they bring an error or a stream. *)
LEMMA HeadersInductive ==
  ASSUME NEW s \in Statuses, Inductive, Headers(s)
  PROVE  Inductive'
<1> USE IntegerConstants DEF Inductive
<1>1. s \in Nat \ {0} /\ s \in Statuses
  BY DEF Inductive
<1>2. /\ result \in ResultType /\ now \in Nat \ {0}
      /\ pc = "wait" /\ pc' = IF Success(s) THEN "stream" ELSE "errbody"
      /\ result' = [result EXCEPT !.status = s, !.headers = now]
      /\ UNCHANGED <<urlOK, attempt, calls, err, wakeAt, lines, echoed, now>>
  BY DEF TypeOK, Headers
<1>3. result' \in ResultType
  BY <1>1, <1>2 DEF ResultType
<1>4. /\ result' \in ResultType
      /\ result'.status = s /\ result'.headers = now
      /\ result'.started = result.started /\ result'.done = result.done
      /\ result'.firstChunk = result.firstChunk
      /\ result'.firstToken = result.firstToken
      /\ result'.chunks = result.chunks
      /\ result'.deltas = result.deltas /\ result'.content = result.content
  BY <1>2, <1>3 DEF ResultType
<1>5. TypeOK'
  BY <1>1, <1>2, <1>4 DEF TypeOK, PCs
<1>6. Counters'
  BY <1>2 DEF Counters
<1>7. SingleAnswer'
  BY <1>2, <1>4 DEF SingleAnswer
<1>8. TimelineOrdered'
  BY <1>1, <1>2, <1>4 DEF TimelineOrdered, Stamps, Filled, ResultType
<1>9. Filled'
  BY <1>1, <1>2, <1>4 DEF Filled, InTime, Stamps
<1> QED BY <1>5, <1>6, <1>7, <1>8, <1>9

(* The texts the scanner takes from a chunk are pieces of text, none of    *)
(* them empty, however many choices the chunk has (client.go:148-164).     *)
LEMMA TextsType == ASSUME NEW c \in Chunks PROVE Texts(c) \in Seq(Text)
<1> DEFINE n == Len(c)
           V == Seq(Text)
           none == <<>>
           said(i) == DeltaText(c[i])
           step == [i \in 1..n |-> [a \in V |-> [b \in V |->
                      IF said(i) = NoText THEN a ELSE <<said(i)>> \o a]]]
           From(f) == [i \in 1..n + 1 |->
                        IF i > n THEN <<>>
                        ELSE IF said(i) = NoText THEN f[i + 1]
                        ELSE <<said(i)>> \o f[i + 1]]
           from == CHOOSE f : f = From(f)
<1>1. c \in Seq(Delta) /\ n \in Nat
  BY TextConstants
<1>2. \A i \in 1..n : said(i) \in Text \cup {NoText}
  <2>1. ASSUME NEW i \in 1..n PROVE said(i) \in Text \cup {NoText}
    <3>1. c[i] \in Delta
      <4>1. c \in [1..Len(c) -> Delta]
        BY <1>1, SMT
      <4> QED BY <4>1, <2>1
    <3>2. c[i].content \in Text \cup {NoText} /\ c[i].reasoning \in Text \cup {NoText}
      <4> DEFINE d == c[i]
      <4>1. d \in Delta
        BY <3>1
      <4> HIDE DEF d
      <4>2. d.content \in Text \cup {NoText} /\ d.reasoning \in Text \cup {NoText}
        BY <4>1, Zenon DEF Delta
      <4> QED BY <4>2 DEF d
    <3> QED BY <3>2, Zenon DEF DeltaText
  <2> QED BY <2>1
<1>3. \A i \in 1..n : said(i) # NoText => \A a \in V : <<said(i)>> \o a \in V
  BY <1>2
<1>4. Texts(c) = from[1]
  BY Zenon DEF Texts
<1> HIDE DEF V, said
<1>5. \E f : f = From(f)
  <2>1. step \in [1..n -> [V -> [V -> V]]]
    BY <1>3
  <2>2. none \in V
    BY DEF V
  <2>3. PICK g \in [1..n + 2 -> V] : Backward(g, n, none, step)
    <3> HIDE DEF step, n, none
    <3> QED BY <1>1, <2>1, <2>2, BackwardRecursion, Zenon
  <2> DEFINE f == [i \in 1..n + 1 |-> g[i]]
  <2>4. ASSUME NEW i \in 1..n + 1 PROVE f[i] = From(f)[i]
    <3>1. CASE i > n
      <4>1. i \in 1..n + 2
        BY <1>1
      <4>2. g[i] = none
        <5> HIDE DEF step, n, none
        <5> QED BY <2>3, <3>1, <4>1, Zenon DEF Backward
      <4> HIDE DEF n
      <4> QED BY <3>1, <4>2
    <3>2. CASE i <= n
      <4>1. i \in 1..n /\ i \in 1..n + 2 /\ i + 1 \in 1..n + 1 /\ i + 1 \in 1..n + 2 /\ i + 2 \in 1..n + 2
        BY <1>1, <3>2
      <4>2. g[i + 1] \in V /\ g[i + 2] \in V
        BY <2>3, <4>1
      <4>3. g[i] = step[i][g[i + 1]][g[i + 2]]
        <5>1. ~(i > n)
          BY <1>1, <3>2
        <5> HIDE DEF step, n
        <5> QED BY <2>3, <4>1, <5>1, Zenon DEF Backward
      <4>4. step[i][g[i + 1]][g[i + 2]] = IF said(i) = NoText THEN g[i + 1] ELSE <<said(i)>> \o g[i + 1]
        BY <4>1, <4>2, Zenon
      <4> HIDE DEF step, n
      <4> QED BY <3>2, <4>1, <4>3, <4>4, <1>1
    <3> QED BY <1>1, <3>1, <3>2
  <2>5. f = From(f)
    BY <2>4
  <2> QED BY <2>5, Zenon
<1>6. from = From(from)
  BY <1>5, Zenon
<1> HIDE DEF from
<1>7. from[1] \in V
  <2> DEFINE B == {i \in 1..n + 1 : from[i] \notin V}
  <2>1. ASSUME B # {} PROVE FALSE
    <3>1. PICK m \in B : \A j \in B : j <= m
      <4>1. B \in SUBSET (1..n + 1) /\ n + 1 \in Nat
        BY <1>1
      <4> HIDE DEF B
      <4> QED BY <2>1, <4>1, GreatestElement
    <3>2. m \in 1..n + 1 /\ from[m] \notin V
      OBVIOUS
    <3>3. m \in 1..n
      <4>1. m > n => from[m] = <<>>
        BY <1>6, <3>2
      <4>2. <<>> \in V
        BY DEF V
      <4> QED BY <1>1, <3>2, <4>1, <4>2
    <3>4. m + 1 \in 1..n + 1 /\ m + 1 \notin B
      BY <1>1, <3>1, <3>3
    <3>5. from[m + 1] \in V
      BY <3>4
    <3>6. from[m] = IF said(m) = NoText THEN from[m + 1] ELSE <<said(m)>> \o from[m + 1]
      <4>1. ~(m > n)
        BY <1>1, <3>3
      <4> HIDE DEF n
      <4> QED BY <1>6, <3>2, <4>1
    <3> QED BY <1>3, <3>2, <3>3, <3>5, <3>6
  <2>2. 1 \in 1..n + 1
    BY <1>1
  <2> QED BY <2>1, <2>2
<1> QED BY <1>4, <1>7 DEF V

(* A chunk keeps it. *)
LEMMA ChunkInductive ==
  ASSUME NEW c \in Chunks, Inductive, Chunk(c)
  PROVE  Inductive'
<1> USE DEF Inductive
<1> DEFINE ts == Texts(c)
           r  == CountChunk(result, now)
<1>1. /\ ts \in Seq(Text) /\ Len(ts) \in Nat /\ (Len(ts) = 0 <=> ts = <<>>)
      /\ result \in ResultType /\ now \in Nat \ {0}
      /\ pc = "stream" /\ result' = AddTexts(r, ts, now) /\ echoed' = echoed \o ts
      /\ UNCHANGED <<pc, urlOK, attempt, calls, err, wakeAt, lines, now>>
  BY TextsType, LenProperties, EmptySeq DEF TypeOK, Chunk
<1> HIDE DEF ts
<1>2. /\ r \in ResultType
      /\ r.chunks = result.chunks + 1
      /\ r.firstChunk = IF result.firstChunk = 0 THEN now ELSE result.firstChunk
      /\ r.status = result.status /\ r.started = result.started
      /\ r.headers = result.headers /\ r.firstToken = result.firstToken
      /\ r.done = result.done /\ r.deltas = result.deltas
      /\ r.content = result.content
  BY <1>1, CountChunkType DEF CountChunk, OrElse, ResultType
<1> HIDE DEF r
<1>3. result' \in ResultType
  BY <1>1, <1>2, AddTextsType
<1>4. /\ result'.firstToken = IF ts = <<>> \/ r.firstToken # 0 THEN r.firstToken ELSE now
      /\ result'.deltas = r.deltas + Len(ts)
      /\ result'.content = r.content \o ts
      /\ result'.status = r.status /\ result'.started = r.started
      /\ result'.headers = r.headers /\ result'.firstChunk = r.firstChunk
      /\ result'.done = r.done /\ result'.chunks = r.chunks
  BY <1>1, <1>2 DEF AddTexts, OrElse, ResultType
<1>5. TypeOK'
  BY <1>1, <1>3, ConcatProperties DEF TypeOK
<1>6. Counters'
  BY <1>1 DEF Counters
<1>7. SingleAnswer'
  BY <1>1, <1>2, <1>4 DEF SingleAnswer
<1>8. TimelineOrdered'
  <2>1. result'.deltas = Len(result'.content)
    BY <1>1, <1>2, <1>4, ConcatProperties DEF TimelineOrdered, ResultType
  <2>2. /\ result'.status # 0 /\ result'.headers = result.headers
        /\ result'.headers # 0 /\ result'.started <= result'.headers
        /\ result'.headers <= now /\ result'.done = 0
    BY <1>1, <1>2, <1>4, IntegerConstants
       DEF Filled, Success, TimelineOrdered, Stamps, ResultType
  <2>3. /\ result'.chunks > 0 /\ result'.firstChunk # 0
        /\ result'.headers <= result'.firstChunk /\ result'.firstChunk <= now
    BY <1>1, <1>2, <1>4, <2>2 DEF Filled, TimelineOrdered, Stamps, ResultType
  <2>4. /\ (result'.firstToken # 0) <=> (result'.deltas > 0)
        /\ result'.firstToken # 0 => result'.firstChunk <= result'.firstToken
    BY <1>1, <1>2, <1>4, <2>3 DEF TimelineOrdered, ResultType
  <2> QED
    BY <2>1, <2>2, <2>3, <2>4 DEF TimelineOrdered
<1>9. Filled'
  BY <1>1, <1>2, <1>4 DEF Filled, InTime, Stamps
<1> QED BY <1>5, <1>6, <1>7, <1>8, <1>9

(* A line that is not JSON ends the attempt and keeps it. *)
LEMMA BadChunkInductive == Inductive /\ BadChunk => Inductive'
<1> SUFFICES ASSUME Inductive, BadChunk PROVE Inductive'
  OBVIOUS
<1> USE DEF Inductive
<1> DEFINE r == CountChunk(result, now)
<1>1. /\ result \in ResultType /\ now \in Nat \ {0} /\ r \in ResultType
      /\ pc = "stream" /\ pc' = "check" /\ err' = "decode"
      /\ result' = [r EXCEPT !.done = now]
      /\ UNCHANGED <<urlOK, attempt, calls, wakeAt, lines, echoed, now>>
  BY CountChunkType DEF TypeOK, BadChunk
<1>2. /\ r.chunks = result.chunks + 1
      /\ r.firstChunk = IF result.firstChunk = 0 THEN now ELSE result.firstChunk
      /\ r.status = result.status /\ r.started = result.started
      /\ r.headers = result.headers /\ r.firstToken = result.firstToken
      /\ r.deltas = result.deltas /\ r.content = result.content
  BY <1>1 DEF CountChunk, OrElse, ResultType
<1> HIDE DEF r
<1>3. /\ result' \in ResultType /\ result'.done = now
      /\ result'.status = r.status /\ result'.started = r.started
      /\ result'.headers = r.headers /\ result'.firstChunk = r.firstChunk
      /\ result'.firstToken = r.firstToken /\ result'.chunks = r.chunks
      /\ result'.deltas = r.deltas /\ result'.content = r.content
  BY <1>1 DEF ResultType
<1>4. TypeOK'
  BY <1>1, <1>3 DEF TypeOK, PCs, Errors
<1>5. Counters'
  BY <1>1 DEF Counters
<1>6. SingleAnswer'
  BY <1>1, <1>2, <1>3 DEF SingleAnswer
<1>7. TimelineOrdered'
  <2>0. /\ result.status # 0 /\ result.headers # 0 /\ result.started <= result.headers
        /\ result.started <= now /\ result.headers <= now /\ result.firstToken <= now
    <3>1. result.status # 0
      BY <1>1 DEF Filled, Success
    <3>2. result.headers # 0 /\ result.started <= result.headers
      BY <1>1, <3>1 DEF TimelineOrdered
    <3>3. /\ result.started <= now /\ result.headers <= now
          /\ result.firstToken <= now
      BY <1>1 DEF Filled, Stamps
    <3> QED BY <3>1, <3>2, <3>3
  <2>1. /\ result'.status # 0 /\ result'.headers = result.headers
        /\ result'.headers # 0 /\ result'.started <= result'.headers
        /\ result'.headers <= now /\ result'.done = now
    BY <1>2, <1>3, <2>0
  <2>2. /\ result'.chunks > 0 /\ result'.firstChunk # 0
        /\ result'.headers <= result'.firstChunk /\ result'.firstChunk <= now
    BY <1>1, <1>2, <1>3, <2>1 DEF Filled, TimelineOrdered, Stamps, ResultType
  <2>3. /\ (result'.firstToken # 0) <=> (result'.deltas > 0)
        /\ result'.deltas = Len(result'.content)
        /\ result'.firstToken # 0 => result'.firstChunk <= result'.firstToken
        /\ result'.firstToken <= now
    BY <1>1, <1>2, <1>3, <2>2 DEF Filled, TimelineOrdered, Stamps, ResultType
  <2>4. \A f \in Stamps : result'[f] <= result'.done
    <3>1. result'.started <= now /\ result'.done <= now
      BY <1>1, <1>2, <1>3, <2>0
    <3> QED BY <1>1, <2>1, <2>2, <2>3, <3>1 DEF Stamps
  <2> QED
    BY <2>1, <2>2, <2>3, <2>4 DEF TimelineOrdered
<1>8. Filled'
  BY <1>1, <1>2, <1>3 DEF Filled, InTime, Stamps
<1> QED BY <1>4, <1>5, <1>6, <1>7, <1>8

(* Deciding to try again keeps it. *)
LEMMA RetryInductive == Inductive /\ Retry => Inductive'
<1> SUFFICES ASSUME Inductive, Retry PROVE Inductive'
  OBVIOUS
<1> USE IntegerConstants DEF Inductive
<1>1. /\ result \in ResultType /\ now \in Nat \ {0} /\ attempt \in Nat \ {0}
      /\ pc = "check" /\ pc' = "backoff" /\ TryAgain(err, attempt, result)
      /\ lines' = lines + 1 /\ wakeAt' = now + BackoffDelay(attempt)
      /\ UNCHANGED <<urlOK, attempt, calls, result, err, echoed, now>>
  BY DEF TypeOK, Retry, RetryLimit
<1>2. attempt <= RetryLimit /\ lines = attempt - 1 /\ calls = attempt
  BY <1>1 DEF TryAgain, RetryLimit, Counters
<1>3. TypeOK'
  <2>1. wakeAt' \in Int
    BY <1>1, DelayType
  <2>2. lines' \in 0..RetryLimit
    BY <1>1, <1>2 DEF RetryLimit
  <2> QED BY <1>1, <2>1, <2>2 DEF TypeOK, PCs
<1>4. Counters'
  BY <1>1, <1>2 DEF Counters
<1>5. SingleAnswer'
  <2>1. result.content \in Seq(Text) /\ Len(result.content) = 0
    BY <1>1 DEF TryAgain, Retryable, TimelineOrdered, ResultType
  <2>2. result.content = <<>>
    BY <2>1, EmptySeq
  <2> QED BY <1>1, <2>2 DEF SingleAnswer
<1>6. TimelineOrdered' /\ Filled'
  BY <1>1 DEF TimelineOrdered, Filled, InTime
<1> QED BY <1>3, <1>4, <1>5, <1>6

(* Returning keeps it. *)
LEMMA ReturnInductive == Inductive /\ Return => Inductive'
<1> SUFFICES ASSUME Inductive, Return PROVE Inductive'
  OBVIOUS
<1> USE DEF Inductive
<1>1. TypeOK'
  BY DEF TypeOK, Return, PCs
<1>2. Counters' /\ SingleAnswer'
  BY DEF Counters, SingleAnswer, Return
<1>3. TimelineOrdered' /\ Filled'
  BY DEF TimelineOrdered, Filled, InTime, Return
<1> QED BY <1>1, <1>2, <1>3

(* The timer keeps it. *)
LEMMA BackoffElapsedInductive == Inductive /\ BackoffElapsed => Inductive'
<1> SUFFICES ASSUME Inductive, BackoffElapsed PROVE Inductive'
  OBVIOUS
<1> USE IntegerConstants DEF Inductive
<1>1. attempt' \in 1..(RetryLimit + 1)
  BY DEF TypeOK, BackoffElapsed, Counters, TryAgain, RetryLimit
<1>2. TypeOK'
  BY <1>1 DEF TypeOK, BackoffElapsed, PCs
<1>3. Counters' /\ SingleAnswer'
  BY DEF TypeOK, Counters, SingleAnswer, BackoffElapsed
<1>4. TimelineOrdered' /\ Filled'
  BY DEF TimelineOrdered, Filled, InTime, BackoffElapsed
<1> QED BY <1>2, <1>3, <1>4

(* The end of the context during the wait keeps it. *)
LEMMA BackoffCancelledInductive == Inductive /\ BackoffCancelled => Inductive'
<1> SUFFICES ASSUME Inductive, BackoffCancelled PROVE Inductive'
  OBVIOUS
<1> USE DEF Inductive
<1>1. TypeOK'
  BY DEF TypeOK, BackoffCancelled, PCs, Errors
<1>2. Counters' /\ SingleAnswer'
  BY DEF Counters, SingleAnswer, BackoffCancelled
<1>3. TimelineOrdered' /\ Filled'
  BY DEF TimelineOrdered, Filled, InTime, BackoffCancelled
<1> QED BY <1>1, <1>2, <1>3

(* The clock keeps it. *)
LEMMA TickInductive == Inductive /\ Tick => Inductive'
<1> SUFFICES ASSUME Inductive, Tick PROVE Inductive'
  OBVIOUS
<1> USE DEF Inductive
<1>1. TypeOK'
  BY DEF TypeOK, Tick
<1>2. Counters' /\ SingleAnswer' /\ TimelineOrdered'
  BY DEF Counters, SingleAnswer, TimelineOrdered, Tick
<1>3. Filled'
  <2>1. \A f \in Stamps : result[f] <= now /\ result[f] \in Nat
    BY DEF TypeOK, Filled, Stamps, ResultType
  <2>2. result' = result /\ now' = now + 1 /\ now \in Nat
    BY DEF Tick, TypeOK
  <2>3. \A f \in Stamps : result'[f] <= now'
    BY <2>1, <2>2
  <2> QED BY <2>3 DEF Filled, InTime, Tick
<1> QED BY <1>1, <1>2, <1>3

(* A step of anything else keeps it. *)
LEMMA StutterInductive == Inductive /\ UNCHANGED vars => Inductive'
BY DEF Inductive, TypeOK, Counters, SingleAnswer, TimelineOrdered, Filled, InTime, vars

(* Every step keeps it. *)
LEMMA StepInductive == Inductive /\ [Next]_vars => Inductive'
<1> SUFFICES ASSUME Inductive, [Next]_vars PROVE Inductive'
  OBVIOUS
<1>1. CASE Call
  BY <1>1, CallInductive
<1>2. CASE SendFails
  BY <1>2, FinishInductive DEF SendFails, Errors
<1>3. CASE \E s \in Statuses : Headers(s)
  BY <1>3, HeadersInductive
<1>4. CASE ErrorBody \/ ErrorBodyFails
  BY <1>4, FinishInductive DEF ErrorBody, ErrorBodyFails, Errors
<1>5. CASE \E c \in Chunks : Chunk(c)
  BY <1>5, ChunkInductive
<1>6. CASE BadChunk
  BY <1>6, BadChunkInductive
<1>7. CASE StreamEnds \/ StreamFails
  BY <1>7, FinishInductive DEF StreamEnds, StreamFails, Errors
<1>8. CASE Retry \/ Return
  BY <1>8, RetryInductive, ReturnInductive
<1>9. CASE BackoffElapsed \/ BackoffCancelled
  BY <1>9, BackoffElapsedInductive, BackoffCancelledInductive
<1>10. CASE Tick
  BY <1>10, TickInductive
<1>11. CASE Returned \/ UNCHANGED vars
  BY <1>11, StutterInductive DEF Returned
<1> QED
  BY <1>1, <1>2, <1>3, <1>4, <1>5, <1>6, <1>7, <1>8, <1>9, <1>10, <1>11
  DEF Next, Attempt, Loop

(* It holds in every state. *)
LEMMA InductiveHolds == Spec => []Inductive
BY InitInductive, StepInductive, PTL DEF Spec

-------------------------------------------------------------------------------
(* The theorems *)

(* Every variable keeps its type and the loop its bound, for any retries   *)
(* argument, negative ones included.                                       *)
THEOREM TypeCorrect == Spec => []TypeOK
<1>1. Inductive => TypeOK
  BY DEF Inductive
<1> QED BY <1>1, InductiveHolds, PTL

(* The caller is handed one answer, never one restarted by a retry.        *)
THEOREM OneAnswer == Spec => []SingleAnswer
<1>1. Inductive => SingleAnswer
  BY DEF Inductive
<1> QED BY <1>1, InductiveHolds, PTL

(* The fields of a result belong to one attempt and agree on its order.    *)
THEOREM TimelineCorrect == Spec => []TimelineOrdered
<1>1. Inductive => TimelineOrdered
  BY DEF Inductive
<1> QED BY <1>1, InductiveHolds, PTL

(* A call that gives up on a retryable failure has made every attempt it   *)
(* was allowed, whatever the retries argument.                             *)
THEOREM BudgetSpent == Spec => []RetryBudget
<1>1. Inductive => RetryBudget
  BY IntegerConstants
  DEF Inductive, TypeOK, Counters, RetryBudget, TryAgain, RetryLimit
<1> QED BY <1>1, InductiveHolds, PTL

(* Within an attempt no timestamp is ever overwritten.                     *)
THEOREM StampsWrittenOnce == Spec => StampsStick
<1>1. Inductive /\ [Next]_vars =>
        [calls' = calls =>
           \A f \in Stamps : result[f] # 0 => result'[f] = result[f]]_vars
  <2> SUFFICES ASSUME Inductive, Next, calls' = calls,
                      NEW f \in Stamps, result[f] # 0
               PROVE  result'[f] = result[f]
    OBVIOUS
  <2>1. result \in ResultType /\ calls \in Int
    BY IntegerConstants DEF Inductive, TypeOK, RetryLimit
  <2>2. pc \in {"wait", "errbody", "stream"} => result.done = 0
    BY DEF Inductive, Filled
  <2>3. pc = "wait" => result.headers = 0
    BY DEF Inductive, Filled, TimelineOrdered
  <2>4. CASE Call
    BY <2>1, <2>4 DEF Call
  <2>5. CASE SendFails \/ ErrorBody \/ ErrorBodyFails \/ StreamEnds \/ StreamFails
    BY <2>1, <2>2, <2>5
    DEF SendFails, ErrorBody, ErrorBodyFails, StreamEnds, StreamFails, Finish,
        Stamps, ResultType
  <2>6. CASE \E s \in Statuses : Headers(s)
    BY <2>1, <2>3, <2>6 DEF Headers, Stamps, ResultType
  <2>7. CASE \E c \in Chunks : Chunk(c)
    BY <2>1, <2>7 DEF Chunk, AddTexts, CountChunk, OrElse, Stamps, ResultType
  <2>8. CASE BadChunk
    BY <2>1, <2>2, <2>8 DEF BadChunk, CountChunk, OrElse, Stamps, ResultType
  <2>9. CASE Loop \/ Tick \/ Returned
    BY <2>9 DEF Loop, Retry, Return, BackoffElapsed, BackoffCancelled, Tick,
                Returned, vars
  <2> QED BY <2>4, <2>5, <2>6, <2>7, <2>8, <2>9 DEF Next, Attempt
<1> QED BY <1>1, InductiveHolds, PTL DEF Spec, StampsStick

-------------------------------------------------------------------------------
(* The back-off. The run BackoffOverflow shows what a long enough row of   *)
(* failures does to it; the hypothesis says the row is not that long.      *)

NoOverflow == \A a \in 1..Retries : BackoffBase * 2 ^ (a - 1) \in 0..MaxDuration

Waited ==
  /\ pc = "backoff" /\ result.done # 0 =>
       wakeAt - result.done >= NominalDelay(attempt)
  /\ pc = "call" /\ calls > 0 /\ result.done # 0 =>
       now - result.done >= NominalDelay(attempt - 1)

(* A number that fits the word is kept by it. *)
LEMMA WordOfSmall ==
  ASSUME NEW x \in 0..MaxDuration
  PROVE  Word(x) = x
<1> DEFINE half == MaxDuration + 1
<1>1. half \in Nat \ {0} /\ x + half \in Nat /\ x + half < 2 * half /\ x \in Int
  BY IntegerConstants
<1>2. (x + half) % (2 * half) = x + half
  BY <1>1
<1> QED BY <1>1, <1>2 DEF Word

(* Without overflow the delay is the nominal one. *)
LEMMA DelayIsNominal ==
  ASSUME NoOverflow, NEW a \in 1..Retries
  PROVE  BackoffDelay(a) = NominalDelay(a) /\ NominalDelay(a) \in Int
<1> DEFINE x == BackoffBase * 2 ^ (a - 1)
<1>1. x \in 0..MaxDuration /\ x \in Int
  BY DEF NoOverflow
<1>2. Word(x) = x
  BY <1>1, WordOfSmall
<1> QED BY <1>1, <1>2, IntegerConstants DEF BackoffDelay, NominalDelay

(* Every step keeps the account of the wait. *)
LEMMA StepWaited ==
  ASSUME NoOverflow
  PROVE  Inductive /\ Waited /\ [Next]_vars => Waited'
<1> SUFFICES ASSUME Inductive, Waited, [Next]_vars
             PROVE  Waited'
  OBVIOUS
<1>1. /\ result \in ResultType /\ now \in Nat /\ attempt \in Nat \ {0}
      /\ wakeAt \in Int /\ calls \in Int /\ result.done <= now
      /\ result.done \in Nat
  BY IntegerConstants DEF Inductive, TypeOK, Filled, Stamps, ResultType, RetryLimit
<1>2. CASE Retry
  <2>1. attempt \in 1..Retries
    BY <1>1, <1>2, IntegerConstants DEF Retry, TryAgain
  <2>2. wakeAt' = now + NominalDelay(attempt) /\ NominalDelay(attempt) \in Int
    BY <1>2, <2>1, DelayIsNominal DEF Retry
  <2>3. wakeAt' - result.done >= NominalDelay(attempt)
    BY <1>1, <2>2
  <2> QED BY <1>2, <2>3 DEF Waited, Retry
<1>3. CASE BackoffElapsed
  <2>1. attempt \in 1..Retries
    BY <1>1, <1>3, IntegerConstants DEF BackoffElapsed, Inductive, Counters, TryAgain
  <2>2. NominalDelay(attempt) \in Int
    BY <2>1, DelayIsNominal
  <2>3. attempt' - 1 = attempt /\ now' = now /\ result' = result
    BY <1>1, <1>3 DEF BackoffElapsed
  <2>4. result.done # 0 => now - result.done >= NominalDelay(attempt)
    BY <1>1, <1>3, <2>2 DEF BackoffElapsed, Waited
  <2> QED BY <1>3, <2>3, <2>4 DEF Waited, BackoffElapsed
<1>4. CASE Tick
  <2>1. now' = now + 1 /\ UNCHANGED <<pc, result, wakeAt, attempt, calls>>
    BY <1>4 DEF Tick
  <2>2. ASSUME pc = "call", calls > 0, result.done # 0
        PROVE  now' - result.done >= NominalDelay(attempt - 1)
    <3>1. attempt - 1 \in 1..Retries
      BY <1>1, <2>2, IntegerConstants DEF Inductive, TypeOK, Counters, RetryLimit
    <3>2. NominalDelay(attempt - 1) \in Int
      BY <3>1, DelayIsNominal
    <3> QED BY <1>1, <2>1, <2>2, <3>2 DEF Waited
  <2> QED BY <2>1, <2>2 DEF Waited
<1>5. CASE Attempt \/ Return \/ BackoffCancelled
  BY <1>5 DEF Attempt, Call, SendFails, Headers, ErrorBody, ErrorBodyFails, Chunk,
              BadChunk, StreamEnds, StreamFails, Finish, Return, BackoffCancelled,
              Waited
<1>6. CASE Returned \/ UNCHANGED vars
  BY <1>6 DEF Returned, vars, Waited
<1> QED BY <1>2, <1>3, <1>4, <1>5, <1>6 DEF Next, Loop

(* As long as no shift leaves the word, no retry comes too early.          *)
THEOREM BackoffCorrect ==
  ASSUME NoOverflow
  PROVE  Spec => BackoffHonoured
<1>1. Init => Waited
  BY DEF Init, Waited
<1>2. Inductive /\ Waited /\ [Next]_vars => Waited'
  BY StepWaited
<1>3. Inductive /\ Waited /\ [Next]_vars =>
        [calls' # calls /\ calls > 0 /\ result.done # 0 =>
           now - result.done >= NominalDelay(attempt - 1)]_vars
  BY DEF Waited, Next, Attempt, Loop, Call, SendFails, Headers, ErrorBody,
         ErrorBodyFails, Chunk, BadChunk, StreamEnds, StreamFails, Finish, Retry,
         Return, BackoffElapsed, BackoffCancelled, Tick, Returned, vars
<1> QED BY <1>1, <1>2, <1>3, InductiveHolds, PTL DEF Spec, BackoffHonoured

-------------------------------------------------------------------------------
(* The numbers of the code, in nanoseconds: half a second is doubled       *)
(* (client/retry.go:11) in a time.Duration, a signed word of 64 bits.      *)
HalfSecond == 500000000
Longest    == 9223372036854775807

(* Half a second doubled 34 times is the last product the word can hold.   *)
LastPower == 17179869184

(* Evaluated power by power. *)
LEMMA Doublings ==
  ASSUME NEW k \in 0..34
  PROVE  2 ^ k \in Nat /\ 2 ^ k <= LastPower
<1> DEFINE Fits(j) == 2 ^ j \in Nat /\ 2 ^ j <= 17179869184
<1>1. Fits(0) /\ Fits(1) /\ Fits(2) /\ Fits(3) /\ Fits(4) /\ Fits(5) /\
      Fits(6) /\ Fits(7) /\ Fits(8) /\ Fits(9) /\ Fits(10) /\ Fits(11) /\
      Fits(12) /\ Fits(13) /\ Fits(14) /\ Fits(15) /\ Fits(16) /\ Fits(17)
      /\ Fits(18) /\ Fits(19) /\ Fits(20) /\ Fits(21) /\ Fits(22) /\
      Fits(23) /\ Fits(24) /\ Fits(25) /\ Fits(26) /\ Fits(27) /\ Fits(28)
      /\ Fits(29) /\ Fits(30) /\ Fits(31) /\ Fits(32) /\ Fits(33) /\
      Fits(34)
  BY SMT
<1>2. k = 0 \/ k = 1 \/ k = 2 \/ k = 3 \/ k = 4 \/ k = 5 \/ k = 6 \/ k = 7
      \/ k = 8 \/ k = 9 \/ k = 10 \/ k = 11 \/ k = 12 \/ k = 13 \/ k = 14 \/
      k = 15 \/ k = 16 \/ k = 17 \/ k = 18 \/ k = 19 \/ k = 20 \/ k = 21 \/
      k = 22 \/ k = 23 \/ k = 24 \/ k = 25 \/ k = 26 \/ k = 27 \/ k = 28 \/
      k = 29 \/ k = 30 \/ k = 31 \/ k = 32 \/ k = 33 \/ k = 34
  BY SMT
<1> HIDE DEF Fits
<1>3. Fits(k)
  BY <1>1, <1>2, Zenon
<1> QED BY <1>3, SMT DEF Fits, LastPower

(* The product of half a second and a power up to the last one fits. *)
LEMMA ProductFits ==
  ASSUME NEW x \in Nat, x <= LastPower
  PROVE  HalfSecond * x \in 0..Longest
<1>1. HalfSecond * x \in Nat /\ HalfSecond * x <= Longest
  BY SMT DEF LastPower, HalfSecond, Longest
<1>2. Longest \in Nat
  BY SMT DEF Longest
<1> HIDE DEF HalfSecond, Longest
<1> QED BY <1>1, <1>2

(* With the numbers of the code no shift leaves the word for 35 retries. *)
LEMMA NoOverflowInCode ==
  ASSUME MaxDuration = Longest, BackoffBase = HalfSecond, Retries <= 35
  PROVE  NoOverflow
<1> SUFFICES ASSUME NEW a \in 1..Retries
             PROVE  HalfSecond * 2 ^ (a - 1) \in 0..Longest
  BY DEF NoOverflow
<1> DEFINE k == a - 1
           x == 2 ^ k
<1>1. k \in 0..34
  BY IntegerConstants
<1>2. SUFFICES HalfSecond * x \in 0..Longest
  BY <1>2
<1> HIDE DEF k
<1>3. x \in Nat /\ x <= LastPower
  BY <1>1, Doublings
<1> HIDE DEF x
<1> QED BY <1>3, ProductFits

(* The bound in the code's own numbers: with up to 35 retries every retry  *)
(* waits as long as it should (client/retry.go:31-34).                     *)
THEOREM BackoffCorrectInCode ==
  ASSUME MaxDuration = Longest, BackoffBase = HalfSecond, Retries <= 35
  PROVE  Spec => BackoffHonoured
BY NoOverflowInCode, BackoffCorrect

(* Products of large numbers, from both sides. *)
LEMMA ProductAtMost ==
  ASSUME NEW x \in Nat, x <= 34359738368
  PROVE  500000000 * x <= 17179869184000000000
BY SMT

LEMMA ProductAtLeast ==
  ASSUME NEW x \in Nat, x >= 34359738368
  PROVE  500000000 * x >= 17179869184000000000
BY SMT

(* The next doubling of half a second. *)
LEMMA NextProduct == HalfSecond * 2 ^ 35 = 17179869184000000000
<1> DEFINE x == 2 ^ 35
           y == HalfSecond * x
<1> SUFFICES y = 17179869184000000000
  OBVIOUS
<1>1. x = 34359738368
  BY SMT
<1>2. x \in Nat /\ x <= 34359738368 /\ x >= 34359738368
  BY <1>1, SMT
<1> HIDE DEF x
<1>3. y <= 17179869184000000000
  BY <1>2, ProductAtMost, SMT DEF HalfSecond
<1>4. y >= 17179869184000000000
  BY <1>2, ProductAtLeast, SMT DEF HalfSecond
<1>5. y \in Nat
  BY <1>2, SMT DEF HalfSecond
<1> HIDE DEF y
<1> QED BY <1>3, <1>4, <1>5, SMT

(* The bound is the best there is: the wait before the 36th retry is       *)
(* negative, the cap does not apply to it, and time.After fires at once    *)
(* (client/retry.go:31-34).                                                *)
THEOREM BackoffLostInCode ==
  ASSUME MaxDuration = Longest, BackoffBase = HalfSecond
  PROVE  BackoffDelay(36) < 0
<1>1. BackoffBase * 2 ^ (36 - 1) = 17179869184000000000
  <2>1. 36 - 1 = 35
    BY SMT
  <2> QED BY <2>1, NextProduct, SMT
<1>2. Longest + 1 = 9223372036854775808
  BY SMT DEF Longest
<1>3. 17179869184000000000 + 9223372036854775808 = 26403241220854775808
  BY SMT
<1>4. 2 * 9223372036854775808 = 18446744073709551616
  BY SMT
<1>5. 26403241220854775808 % 18446744073709551616 = 7956497147145224192
  BY SMT
<1>6. 7956497147145224192 - 9223372036854775808 < 0
  BY SMT
<1> QED BY <1>1, <1>2, <1>3, <1>4, <1>5, <1>6, IntegerConstants, SMT
        DEF BackoffDelay, Word

-------------------------------------------------------------------------------
(* The implementation of AnswerOnce *)

(* The call starts with nothing delivered. *)
LEMMA InitImplements == Init => AO!Init
BY DEF Init, AO!Init, ZeroResult

(* Only a chunk with text moves the answer, and the answer it leads to has *)
(* the old one as a prefix.                                                *)
LEMMA ChunkImplements ==
  ASSUME NEW c \in Chunks, Inductive, Chunk(c)
  PROVE  AO!Next \/ UNCHANGED AO!avars
<1> DEFINE ts == Texts(c)
<1>1. /\ ts \in Seq(Text) /\ echoed \in Seq(Text)
      /\ pc = "stream" /\ pc' = "stream" /\ echoed' = echoed \o ts /\ err' = err
  BY TextsType DEF Inductive, TypeOK, Chunk
<1> HIDE DEF ts
<1>2. CASE ts = <<>>
  <2>1. echoed' = echoed
    BY <1>1, <1>2, ConcatEmptySeq
  <2> QED BY <1>1, <2>1 DEF AO!avars
<1>3. CASE ts # <<>>
  <2>1. Len(ts) \in Nat /\ Len(ts) > 0 /\ Len(echoed) \in Nat
    BY <1>1, <1>3, EmptySeq, LenProperties
  <2>2. echoed' \in Seq(Text) /\ Len(echoed') = Len(echoed) + Len(ts)
    BY <1>1, ConcatProperties
  <2>3. SubSeq(echoed', 1, Len(echoed)) = echoed
    BY <1>1, SubSeqOfConcat1, SubSeqFull
  <2>4. AO!Deliver
    BY <1>1, <2>1, <2>2, <2>3 DEF AO!Deliver
  <2> QED BY <2>4 DEF AO!Next
<1> QED BY <1>2, <1>3

(* Every step delivers text, ends, or changes neither. *)
LEMMA StepImplements ==
  Inductive /\ [Next]_vars => [AO!Next]_AO!avars
<1> SUFFICES ASSUME Inductive, [Next]_vars
             PROVE  AO!Next \/ UNCHANGED AO!avars
  OBVIOUS
<1>1. CASE \E c \in Chunks : Chunk(c)
  BY <1>1, ChunkImplements
<1>2. CASE Return \/ BackoffCancelled
  BY <1>2 DEF Return, BackoffCancelled, Inductive, SingleAnswer, AO!Next, AO!Return
<1>3. CASE Call \/ SendFails \/ (\E s \in Statuses : Headers(s)) \/ ErrorBody
             \/ ErrorBodyFails \/ BadChunk \/ StreamEnds \/ StreamFails
  BY <1>3 DEF Call, SendFails, Headers, ErrorBody, ErrorBodyFails, BadChunk,
              StreamEnds, StreamFails, Finish, AO!avars
<1>4. CASE Retry \/ BackoffElapsed \/ Tick
  BY <1>4 DEF Retry, BackoffElapsed, Tick, AO!avars
<1>5. CASE Returned \/ UNCHANGED vars
  BY <1>5 DEF Returned, vars, AO!avars
<1> QED BY <1>1, <1>2, <1>3, <1>4, <1>5 DEF Next, Attempt, Loop

(* Seen from outside, a call with retries is one answer delivered once.    *)
THEOREM Refinement == Spec => ImplementsAnswerOnce
BY InitImplements, StepImplements, InductiveHolds, PTL
DEF Spec, ImplementsAnswerOnce, AO!Spec

-------------------------------------------------------------------------------
(* The sample a benchmark makes of the result *)

(* Every sample a request leaves is one Bench.tla allows for: a success    *)
(* has a 2xx status, is timed from start to end with its first token in    *)
(* between, and began before the deadline.                                 *)
THEOREM SamplesAreOutcomes == Spec => []SampleIsOutcome
<1>1. Inductive => SampleIsOutcome
  <2> SUFFICES ASSUME Inductive, pc = "returned",
                      IsSuccess(SampleOf(result, err))
               PROVE  /\ IsOutcome(SampleOf(result, err))
                      /\ Deadline = 0 \/ result.started < Deadline
    BY DEF SampleIsOutcome, IsOutcome
  <2> DEFINE sample == SampleOf(result, err)
  <2>1. err = "none" /\ result \in ResultType
    BY DEF IsSuccess, SampleOf, NoError, Inductive, TypeOK
  <2>2. /\ Success(result.status) /\ result.started # 0 /\ result.done # 0
        /\ Deadline = 0 \/ result.started < Deadline
    BY <2>1 DEF Inductive, Filled, InTime
  <2>3. \A f \in Stamps : result[f] <= result.done
    BY <2>2 DEF Inductive, TimelineOrdered
  <2>4. result.started <= result.done /\ result.firstToken <= result.done
    BY <2>3 DEF Stamps
  <2>5. result.firstToken # 0 => result.deltas # 0
    BY <2>1 DEF Inductive, TimelineOrdered, ResultType
  <2>6. result.firstToken # 0 => result.started <= result.firstToken
    BY <2>1 DEF Inductive, TimelineOrdered, ResultType
  <2>7. sample.status >= 200 /\ sample.status < 300
    BY <2>2 DEF SampleOf, Success
  <2>8. /\ sample.firstToken \in Nat /\ sample.total \in Nat
        /\ sample.firstToken <= sample.total
    BY <2>1, <2>2, <2>4, <2>6 DEF SampleOf, ResultType
  <2>9. sample.deltas = 0 => sample.firstToken = 0
    BY <2>5 DEF SampleOf
  <2> QED BY <2>2, <2>7, <2>8, <2>9 DEF IsOutcome
<1> QED BY <1>1, InductiveHolds, PTL

-------------------------------------------------------------------------------
(* What ping api prints of the result *)

(* An attempt has begun, and one that has no end has not seen any headers. *)
Closed ==
  /\ pc # "call" => result.started # 0
  /\ pc \in {"check", "backoff", "returned"} => result.done # 0 \/ result.status = 0

(* Finishing an attempt that was started stamps its end. *)
LEMMA FinishCloses ==
  ASSUME Inductive, NEW e \in Errors, Finish(e), result.started # 0
  PROVE  Closed'
<1>1. result \in ResultType /\ now \in Nat \ {0}
  BY DEF Inductive, TypeOK
<1>2. result' = [result EXCEPT !.done = now]
  BY DEF Finish
<1>3. result'.done # 0 /\ result'.started # 0
  BY <1>1, <1>2 DEF ResultType
<1> QED BY <1>3 DEF Closed

(* Entering StreamChat stamps the start and has no status yet. *)
LEMMA CallCloses == ASSUME Inductive, Call PROVE Closed'
<1>1. now \in Nat /\ now # 0
  BY DEF Inductive, TypeOK
<1>2. result' \in {FreshResult(now), [FreshResult(now) EXCEPT !.done = now]}
  BY DEF Call
<1>3. result'.started # 0 /\ result'.status = 0
  BY <1>1, <1>2, FreshResultFields
<1> QED BY <1>3 DEF Closed

(* Every step keeps the stamps of start and end. *)
LEMMA StepCloses == Inductive /\ Closed /\ [Next]_vars => Closed'
<1> SUFFICES ASSUME Inductive, Closed, [Next]_vars PROVE Closed'
  OBVIOUS
<1>0. result \in ResultType /\ now \in Nat /\ now # 0
  BY DEF Inductive, TypeOK
<1>1. CASE Call
  BY <1>1, CallCloses
<1>2. CASE SendFails \/ ErrorBody \/ ErrorBodyFails \/ StreamEnds \/ StreamFails
  BY <1>2, FinishCloses DEF SendFails, ErrorBody, ErrorBodyFails, StreamEnds, StreamFails,
                            Closed, Errors
<1>3. ASSUME NEW s \in Statuses, Headers(s) PROVE Closed'
  BY <1>0, <1>3 DEF Headers, Closed, ResultType
<1>4. ASSUME NEW c \in Chunks, Chunk(c) PROVE Closed'
  BY <1>0, <1>4 DEF Chunk, Closed, AddTexts, CountChunk, ResultType
<1>5. CASE BadChunk
  BY <1>0, <1>5 DEF BadChunk, Closed, CountChunk, ResultType
<1>6. CASE Retry \/ Return \/ BackoffElapsed \/ BackoffCancelled \/ Tick \/ Returned
  BY <1>6 DEF Retry, Return, BackoffElapsed, BackoffCancelled, Tick, Returned, Closed, vars
<1>7. CASE UNCHANGED vars
  BY <1>7 DEF vars, Closed
<1> QED BY <1>1, <1>2, <1>3, <1>4, <1>5, <1>6, <1>7 DEF Next, Attempt, Loop

(* They are there in every state. *)
LEMMA AlwaysClosed == Spec => []Closed
<1>1. Init => Closed
  BY DEF Init, Closed
<1> QED BY <1>1, StepCloses, InductiveHolds, PTL DEF Spec

-------------------------------------------------------------------------------
(* The stamps of a result that has been returned                           *)
LEMMA ReturnedStamps ==
  ASSUME Inductive, Closed, pc = "returned"
  PROVE  /\ result \in ResultType
         /\ result.started > 0
         /\ result.headers # 0 => result.started <= result.headers
         /\ result.firstChunk # 0 =>
              result.headers # 0 /\ result.headers <= result.firstChunk
         /\ result.firstToken # 0 =>
              result.firstChunk # 0 /\ result.firstChunk <= result.firstToken
         /\ result.headers <= result.done /\ result.firstChunk <= result.done
         /\ result.firstToken <= result.done
<1>1. result \in ResultType
  BY DEF Inductive, TypeOK
<1>2. result.started > 0
  BY <1>1 DEF Closed, ResultType
<1>3. /\ (result.headers # 0) <=> (result.status # 0)
      /\ result.headers # 0 => result.started <= result.headers
      /\ result.firstChunk # 0 =>
           result.headers # 0 /\ result.headers <= result.firstChunk
      /\ result.firstToken # 0 =>
           result.firstChunk # 0 /\ result.firstChunk <= result.firstToken
      /\ result.done # 0 => \A f \in Stamps : result[f] <= result.done
  BY DEF Inductive, TimelineOrdered
<1>4. CASE result.done # 0
  BY <1>1, <1>2, <1>3, <1>4 DEF Stamps
<1>5. CASE result.done = 0
  <2>1. result.headers = 0 /\ result.firstChunk = 0 /\ result.firstToken = 0
    BY <1>3, <1>5 DEF Closed
  <2> QED BY <1>1, <1>2, <1>3, <1>5, <2>1
<1> QED BY <1>4, <1>5

(* A printed duration is positive, and its length is the duration. *)
LEMMA DurationLength ==
  ASSUME NEW d \in Int
  PROVE  /\ Length(FormatDuration(d)) = IF d <= 0 THEN 0 ELSE d
         /\ FormatDuration(d) # Unavailable => d > 0
BY DEF Length, FormatDuration, Unavailable

(* The timeline is that of one interval, whatever cut the attempt short.   *)
THEOREM TimelineSound == Spec => []TimelineAddsUp
<1>1. Inductive /\ Closed => TimelineAddsUp
  <2> SUFFICES ASSUME Inductive, Closed, pc = "returned"
               PROVE  TimelineAddsUp
    BY DEF TimelineAddsUp
  <2> DEFINE r == result
             t == Timeline(result)
  <2>1. /\ r.started \in Nat /\ r.headers \in Nat /\ r.firstChunk \in Nat
        /\ r.firstToken \in Nat /\ r.done \in Nat /\ r.deltas \in Nat
    BY ReturnedStamps DEF ResultType
  <2>2. /\ t.total = FormatDuration(r.done - r.started)
        /\ t.headers = FormatSince(r.started, r.headers)
        /\ t.firstChunk = FormatSince(r.started, r.firstChunk)
        /\ t.firstToken = FormatSince(r.started, r.firstToken)
        /\ t.stream = FormatBetween(r.firstChunk, r.done)
        /\ t.rate = FormatRate(r)
    BY DEF Timeline
  <2>3. Length(t.total) = IF r.done - r.started <= 0 THEN 0 ELSE r.done - r.started
    BY <2>1, <2>2, DurationLength
  <2>4. ASSUME NEW stamp \in Nat, stamp <= r.done, stamp # 0 => r.started <= stamp
        PROVE  /\ Length(FormatSince(r.started, stamp))
                    = IF stamp = 0 THEN 0 ELSE stamp - r.started
               /\ FormatSince(r.started, stamp) # Unavailable => stamp > r.started
               /\ Length(FormatSince(r.started, stamp)) <= Length(t.total)
    <3>1. r.started > 0
      BY ReturnedStamps
    <3>2. CASE stamp = 0
      BY <2>1, <2>3, <3>2 DEF FormatSince, Length
    <3>3. CASE stamp # 0
      <4>1. FormatSince(r.started, stamp) = FormatDuration(stamp - r.started)
        BY <3>1, <3>3 DEF FormatSince
      <4>2. stamp - r.started \in Int
        BY <2>1
      <4> QED BY <2>1, <2>3, <2>4, <3>3, <4>1, <4>2, DurationLength
    <3> QED BY <3>2, <3>3
  <2>5. /\ r.headers # 0 => r.started <= r.headers
        /\ r.firstChunk # 0 => r.started <= r.firstChunk /\ r.headers <= r.firstChunk
        /\ r.firstToken # 0 => r.started <= r.firstToken /\ r.firstChunk <= r.firstToken
                               /\ r.firstChunk # 0
    BY <2>1, ReturnedStamps
  <2>6. /\ Length(t.headers) = IF r.headers = 0 THEN 0 ELSE r.headers - r.started
        /\ Length(t.headers) <= Length(t.total)
        /\ t.headers # Unavailable => r.headers > r.started
    BY <2>1, <2>2, <2>4, <2>5, ReturnedStamps
  <2>7. /\ Length(t.firstChunk) = IF r.firstChunk = 0 THEN 0 ELSE r.firstChunk - r.started
        /\ Length(t.firstChunk) <= Length(t.total)
        /\ t.firstChunk # Unavailable => r.firstChunk > r.started
    BY <2>1, <2>2, <2>4, <2>5, ReturnedStamps
  <2>8. /\ Length(t.firstToken) = IF r.firstToken = 0 THEN 0 ELSE r.firstToken - r.started
        /\ Length(t.firstToken) <= Length(t.total)
        /\ t.firstToken # Unavailable => r.firstToken > r.started
    BY <2>1, <2>2, <2>4, <2>5, ReturnedStamps
  <2>9. /\ Length(t.stream) <= Length(t.total)
        /\ t.stream # Unavailable =>
             Length(t.firstChunk) + Length(t.stream) = Length(t.total)
    <3>1. CASE r.firstChunk = 0
      <4>1. t.stream = Unavailable
        BY <2>2, <3>1 DEF FormatBetween
      <4> QED BY <4>1, <2>1, <2>3 DEF Length
    <3>2. CASE r.firstChunk # 0
      <4>1. r.firstChunk <= r.done /\ r.done # 0 /\ r.done - r.firstChunk \in Int
        BY <2>1, <3>2, ReturnedStamps
      <4>2. t.stream = FormatDuration(r.done - r.firstChunk)
        BY <2>2, <3>2, <4>1 DEF FormatBetween
      <4>3. /\ Length(t.stream)
                 = IF r.done - r.firstChunk <= 0 THEN 0 ELSE r.done - r.firstChunk
            /\ t.stream # Unavailable => r.done - r.firstChunk > 0
        BY <4>1, <4>2, DurationLength
      <4> HIDE DEF t
      <4> QED BY <2>1, <2>3, <2>5, <2>7, <3>2, <4>1, <4>3
    <3> QED BY <3>1, <3>2
  <2>10. t.rate # Unavailable =>
           t.rate = <<[ deltas |-> Len(echoed),
                        over   |-> Length(t.total) - Length(t.firstToken) ]>>
    <3> SUFFICES ASSUME t.rate # Unavailable
                 PROVE  t.rate = <<[ deltas |-> Len(echoed),
                          over |-> Length(t.total) - Length(t.firstToken) ]>>
      OBVIOUS
    <3>1. /\ t.rate = <<[deltas |-> r.deltas, over |-> r.done - r.firstToken]>>
          /\ r.firstToken # 0 /\ ~(r.done <= r.firstToken)
      BY <2>2 DEF FormatRate
    <3>2. r.deltas = Len(echoed)
      BY DEF Inductive, TimelineOrdered, SingleAnswer
    <3>3. r.done - r.firstToken = Length(t.total) - Length(t.firstToken)
      <4> HIDE DEF t
      <4> QED BY <2>1, <2>3, <2>5, <2>8, <3>1
    <3> HIDE DEF t
    <3> QED BY <3>1, <3>2, <3>3
  <2>11. /\ t.headers # Unavailable /\ t.firstChunk # Unavailable =>
              Length(t.headers) <= Length(t.firstChunk)
         /\ t.firstChunk # Unavailable /\ t.firstToken # Unavailable =>
              Length(t.firstChunk) <= Length(t.firstToken)
    <3> HIDE DEF t
    <3> QED BY <2>1, <2>5, <2>6, <2>7, <2>8
  <2>12. \A line \in {t.headers, t.firstChunk, t.firstToken, t.stream} :
           Length(line) <= Length(t.total)
    BY <2>6, <2>7, <2>8, <2>9
  <2> QED BY <2>9, <2>10, <2>11, <2>12 DEF TimelineAddsUp
<1> QED BY <1>1, InductiveHolds, AlwaysClosed, PTL

(* The diagnosis agrees with the text on stdout, the line above and the    *)
(* exit status.                                                            *)
THEOREM DiagnosisSound == Spec => []DiagnosisMatchesOutput
<1>1. Inductive /\ Closed => DiagnosisMatchesOutput
  <2> SUFFICES ASSUME Inductive, Closed, pc = "returned"
               PROVE  DiagnosisMatchesOutput
    BY DEF DiagnosisMatchesOutput
  <2>1. /\ result.started \in Nat /\ result.started > 0 /\ result.firstToken \in Nat
        /\ SlowTicks \in Nat
    BY ReturnedStamps, SlowAssumption DEF ResultType
  <2>2. result.firstToken = 0 <=> echoed = <<>>
    <3>1. echoed \in Seq(Text) /\ result.deltas = Len(echoed)
          /\ ((result.firstToken # 0) <=> (result.deltas > 0))
      BY DEF Inductive, TypeOK, TimelineOrdered, SingleAnswer
    <3> QED BY <3>1, EmptySeq
  <2>3. Timeline(result).firstToken = FormatSince(result.started, result.firstToken)
    BY DEF Timeline
  <2>4. Length(Timeline(result).firstToken) > SlowTicks <=>
          result.firstToken # 0 /\ result.firstToken - result.started > SlowTicks
    <3>1. CASE result.firstToken = 0
      BY <2>1, <2>3, <3>1 DEF FormatSince, Length
    <3>2. CASE result.firstToken # 0
      <4>1. Timeline(result).firstToken = FormatDuration(result.firstToken - result.started)
        BY <2>1, <2>3, <3>2 DEF FormatSince
      <4>2. result.firstToken - result.started \in Int
        BY <2>1
      <4> QED BY <2>1, <3>2, <4>1, <4>2, DurationLength
    <3> QED BY <3>1, <3>2
  <2>5. CASE err # "none"
    <3>1. Diagnosis(result, err) = "failed"
      BY <2>5 DEF Diagnosis
    <3> QED BY <2>5, <3>1 DEF DiagnosisMatchesOutput
  <2>6. CASE err = "none" /\ result.firstToken = 0
    <3>1. Diagnosis(result, err) = "no token"
      BY <2>6 DEF Diagnosis
    <3> QED BY <2>2, <2>4, <2>6, <3>1 DEF DiagnosisMatchesOutput
  <2>7. CASE err = "none" /\ result.firstToken # 0
    <3>1. Diagnosis(result, err)
            = IF result.firstToken - result.started > SlowTicks THEN "slow" ELSE "normal"
      BY <2>7 DEF Diagnosis
    <3> QED BY <2>2, <2>4, <2>7, <3>1 DEF DiagnosisMatchesOutput
  <2> QED BY <2>5, <2>6, <2>7
<1> QED BY <1>1, InductiveHolds, AlwaysClosed, PTL
===============================================================================
