----------------------------- MODULE BenchSummary -----------------------------
(***************************************************************************)
(* The arithmetic of inferlens bench (bench/bench.go, summarize and below):*)
(* from the samples of a run to its report. No state; Bench.tla uses these *)
(* operators on the samples its workers collect.                           *)
(*                                                                         *)
(* Times are integers. An error text is the sequence of its lines; the     *)
(* empty text is no error. Rates are left out: they divide the counts      *)
(* reported here by the wall time.                                         *)
(***************************************************************************)
EXTENDS Integers, Sequences, FiniteSets, Functions, Percentiles

NoError == <<>>

(* A slot of make([]Sample, requests) that nobody has written.             *)
ZeroSample ==
  [status |-> 0, firstToken |-> 0, total |-> 0, deltas |-> 0, err |-> NoError]

(* FirstLineOf, on a text that is not empty *)
FirstLineOf(text) == Head(text)

IsSuccess(sample) == sample.err = NoError

(* What a sample may look like, as far as bench depends on it: a success   *)
(* has a 2xx status, and its first token lies within its duration and is   *)
(* there only if there is content. BenchRequest.tla shows that the client  *)
(* leaves no other sample.                                                 *)
IsOutcome(sample) ==
  IsSuccess(sample) =>
    /\ sample.status >= 200 /\ sample.status < 300
    /\ sample.firstToken \in Nat /\ sample.total \in Nat
    /\ sample.firstToken <= sample.total
    /\ sample.deltas = 0 => sample.firstToken = 0

Successes(samples) == {i \in DOMAIN samples : IsSuccess(samples[i])}
Failures(samples)  == DOMAIN samples \ Successes(samples)

(* The positive values of one field, by the slots of the successful        *)
(* samples that have one.                                                  *)
Measured(samples, field) ==
  [i \in {j \in Successes(samples) : samples[j][field] > 0} |-> samples[i][field]]

(* Mutated: errors are grouped by their whole text but reported by their   *)
(* first line, so that one group hides another.                            *)
ErrorCounts_ByText(samples) ==
  [line \in {FirstLineOf(samples[i].err) : i \in Failures(samples)} |->
     LET like == CHOOSE i \in Failures(samples) : FirstLineOf(samples[i].err) = line
     IN  Cardinality({i \in Failures(samples) : samples[i].err = samples[like].err})]

(* How often each first line occurs. The lines are printed most frequent   *)
(* first; lines with equal counts come in no particular order.             *)
ErrorCounts(samples) ==
  [line \in {FirstLineOf(samples[i].err) : i \in Failures(samples)} |->
     Cardinality({i \in Failures(samples) : FirstLineOf(samples[i].err) = line})]

Summarize(samples) ==
  [successes  |-> Cardinality(Successes(samples)),
   failures   |-> Cardinality(Failures(samples)),
   firstToken |-> PercentileSummary(Measured(samples, "firstToken")),
   total      |-> PercentileSummary(Measured(samples, "total")),
   deltas     |-> SumFunctionOnSet([i \in DOMAIN samples |-> samples[i].deltas],
                                   Successes(samples)),
   errors     |-> ErrorCounts(samples)]

-------------------------------------------------------------------------------
(* What a report promises *)

(* Every request is counted once, as a success or under one error line.    *)
RequestsCounted(samples, report) ==
  /\ report.successes + report.failures = Len(samples)
  /\ SumFunction(report.errors) = report.failures

(* The times the successes have: all of them and no other are summarised.  *)
Latencies(samples, field) ==
  LET timed == {j \in DOMAIN samples : IsSuccess(samples[j]) /\ samples[j][field] # 0}
  IN  [i \in timed |-> samples[i][field]]

LatenciesSummarized(samples, report) ==
  /\ IsSummary(Latencies(samples, "firstToken"), report.firstToken)
  /\ IsSummary(Latencies(samples, "total"), report.total)
===============================================================================
