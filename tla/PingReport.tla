------------------------------ MODULE PingReport -------------------------------
(***************************************************************************)
(* What inferlens ping api prints once its one call of the client          *)
(* (StreamClient.tla) has returned: the client timeline and the diagnosis  *)
(* (output/output.go). inferlens ping serve prints the same timeline.      *)
(*                                                                         *)
(* A tick is a whole number of milliseconds, so that rounding to           *)
(* milliseconds changes nothing. A line that says "unavailable" is empty.  *)
(***************************************************************************)
EXTENDS StreamClient

CONSTANT SlowTicks  \* the 2 s beyond which a first token is called late

ASSUME SlowAssumption == SlowTicks \in Nat

Unavailable == <<>>

FormatDuration(d) == IF d <= 0 THEN Unavailable ELSE <<d>>

FormatSince(start, end) ==
  IF start = 0 \/ end = 0 THEN Unavailable ELSE FormatDuration(end - start)

(* Mutated: the IsZero test of the first stamp is missing.                 *)
FormatBetween_NoZero(start, end) ==
  IF end = 0 THEN Unavailable ELSE FormatDuration(end - start)

FormatBetween(start, end) ==
  IF start = 0 \/ end = 0 THEN Unavailable ELSE FormatDuration(end - start)

(* Text deltas, and the time they took from the first of them to the end   *)
FormatRate(r) ==
  IF r.firstToken = 0 \/ r.done = 0 \/ r.deltas = 0 \/ r.done <= r.firstToken
  THEN Unavailable
  ELSE <<[deltas |-> r.deltas, over |-> r.done - r.firstToken]>>

(* A request that could not be built has no DoneAt: its total is negative. *)
Timeline(r) ==
  [ total      |-> FormatDuration(r.done - r.started),
    headers    |-> FormatSince(r.started, r.headers),
    firstChunk |-> FormatSince(r.started, r.firstChunk),
    firstToken |-> FormatSince(r.started, r.firstToken),
    stream     |-> FormatBetween(r.firstChunk, r.done),
    rate       |-> FormatRate(r) ]

(* Mutated: the first chunk stands in for the first token.                 *)
Diagnosis_FirstChunk(r, e) ==
  CASE e # "none"                         -> "failed"
    [] e = "none" /\ r.firstChunk = 0     -> "no token"
    [] e = "none" /\ r.firstChunk # 0     ->
         IF r.firstChunk - r.started > SlowTicks THEN "slow" ELSE "normal"

Diagnosis(r, e) ==
  CASE e # "none"                         -> "failed"
    [] e = "none" /\ r.firstToken = 0     -> "no token"
    [] e = "none" /\ r.firstToken # 0     ->
         IF r.firstToken - r.started > SlowTicks THEN "slow" ELSE "normal"

-------------------------------------------------------------------------------
(* Properties *)

Length(line) == IF line = Unavailable THEN 0 ELSE line[1]

(* Whatever cut the last attempt short, the lines of the timeline describe *)
(* one interval: what is printed lies within the total, headers, first     *)
(* chunk and first token come in this order, the stream is what the first  *)
(* chunk leaves of the total, and the rate is that of the text on stdout   *)
(* over what the first token leaves of it (output/output.go:136-147).      *)
TimelineAddsUp ==
  LET t == Timeline(result)
      InOrder(a, b) == a # Unavailable /\ b # Unavailable => Length(a) <= Length(b)
  IN  pc = "returned" =>
        /\ \A line \in {t.headers, t.firstChunk, t.firstToken, t.stream} :
             Length(line) <= Length(t.total)
        /\ InOrder(t.headers, t.firstChunk) /\ InOrder(t.firstChunk, t.firstToken)
        /\ t.stream # Unavailable =>
             Length(t.firstChunk) + Length(t.stream) = Length(t.total)
        /\ t.rate # Unavailable =>
             t.rate = <<[ deltas |-> Len(echoed),
                          over   |-> Length(t.total) - Length(t.firstToken) ]>>

(* The diagnosis is about what the user has in front of them: no token     *)
(* when a complete stream left no text on stdout, a late one when the      *)
(* first token line above says so, a failure exactly if the command exits  *)
(* with an error (output/output.go:178-193, pkg/mode/api.go:42-51).        *)
DiagnosisMatchesOutput ==
  LET d == Diagnosis(result, err)
  IN  pc = "returned" =>
        /\ d = "failed"   <=> err # "none"
        /\ d = "no token" <=> err = "none" /\ echoed = <<>>
        /\ d = "slow"     <=>
             err = "none" /\ Length(Timeline(result).firstToken) > SlowTicks
===============================================================================
