# A formal model of inferlens

inferlens is a command-line probe for LLM inference servers (Go). It sends one
streaming chat request, or many, and reports what it saw: a timeline, latencies,
metrics of the server, the state of a KServe deployment. This directory holds
TLA+ models of the program, the configurations TLC checks them with, and proofs
TLAPS checks for every value of the constants. Paths such as
`client/retry.go:31` are relative to the repository.

## 1. The system

| component | code | state it keeps | operations |
|---|---|---|---|
| streaming client | `client/client.go` | one `StreamResult` per attempt: status, five time stamps, counters, content | `StreamChat`: build, send, headers, error body, events, end |
| client retries | `client/retry.go` | loop variable, last result and error, back-off timer | `StreamChatWithRetries`, `retryable`, the select on deadline and timer |
| benchmark run | `bench/bench.go` | shared atomic counter, slice of samples, WaitGroup, overall context | `Run`, `collect` with its workers, `oneRequest` |
| benchmark summary | `bench/bench.go`, `output/bench.go` | none | `summarize`, `percentile`, error grouping |
| KServe mode | `pkg/mode/kserve.go`, `output/kserve.go` | results and errors of two goroutines, WaitGroup | `Ping`, join, report, exit |
| KServe collector | `kserve/collector.go` | `Result`: service, Pods, two errors | two `kubectl` subprocesses, decoding, matching |
| serve mode | `pkg/mode/serve.go`, `runtime/health.go` | health, two snapshots, the first metrics error | health check, snapshot, request, snapshot, report |
| metrics | `metrics/metrics.go` | a snapshot: name to value | fetch, parse, lookup, difference |
| runtime observers | `runtime/*.go` | none | a pair of snapshots to observations, by the table of the runtime; the llama.cpp rates |
| reports | `output/*.go` | none | timeline, observation lines, diagnosis |
| API mode | `pkg/mode/api.go` | none | one call of the client and a report |
| offline mode | `pkg/mode/offline.go`, `scripts/vllm_offline_probe.py` | one subprocess and its buffered output | find and run the helper, decode its last line, report |
| configuration | `config/*.go` | a `Config` | built-in values, two files, environment, flags; validation per mode |
| ping command line | `pkg/ping/ping.go`, `pkg/mode/mode.go` | none | mode and configuration path among the arguments, the deadline |
| entry point | `cmd/inferlens/main.go` | none | dispatch, exit status |

How they interact. Every mode of `ping` and every worker of `bench` calls
`StreamChatWithRetries`; that is the core. A context with one deadline is handed
from the command line through the mode to the client and to every subprocess.
`bench` shares a counter and a slice between workers; `kserve` shares variables of
`Ping` between two goroutines and joins them on a WaitGroup; `serve` puts two
metrics snapshots around the request. Text reaches the user through the callback
`onContent` while the request runs; retry lines go to the same writer.

What is hard about it, and what correctness means:

* **Client.** The server may answer anything at any time, and the deadline may
  fall at any step. The caller must still be handed one answer, never the
  beginning of two; the stamps and counters of the returned result must belong to
  one attempt and be in order; the retries must be used and not exceeded, at the
  documented pace; the call must return after its deadline.
* **Benchmark.** Workers are unsynchronised but for one atomic counter. Each index
  must be claimed once, no slot of the slice may be outside it or left empty when
  the report is made, and the exit must follow from the samples. An untouched
  zero `Sample` has no error, so it would count as a success.
* **Summary.** Nearest-rank percentiles over small samples; every request counted
  once, also when error texts share their first line.
* **KServe.** Both sides are attempted and waited for, in either order; one
  failing, or hanging, must neither hide nor delay the other; failures must show.
* **Serve.** The server serves others, restarts and is upgraded between the two
  snapshots. What is printed must be of one counter and cover the request; health
  and metrics must stay best effort under three nested timeouts.
* **Reports.** They are computed from stamps and snapshots of which any may be
  missing. What is printed must describe one interval and one pair of values, and
  the diagnosis must agree with the lines above it and with the exit.
* **Offline.** The helper shares its output with an engine that prints, forks and
  crashes as it likes, also after the result. Text, report and exit must agree on
  whether a generation counts; the deadline must end the probe.
* **Configuration, command line.** Sequential, but the line is read three times by
  different rules and every setting may come from five places: what was meant must
  be what is read, the highest layer must win, no broken file may be passed over.

## 2. The modules

| module | models | state and actions |
|---|---|---|
| `StreamClient` | `client/retry.go`, `client/client.go` | `pc` is the place in the code; `result`, `err`, `attempt` are the variables of that name. `Call` is `StreamChat` up to the send, `SendFails`/`Headers` are `Do`, `ErrorBody…` reading a non-2xx body, `Chunk`, `BadChunk`, `StreamEnds`, `StreamFails` the scanner loop, `Retry`, `Return`, `BackoffElapsed`, `BackoffCancelled` the retry loop |
| `AnswerOnce` | abstract: what a caller may rely on | an answer that only grows, one return, with that answer |
| `Percentiles` | `percentileSummary`, `percentile`, `maxValue` | operators only: a sorted list, its nearest ranks, and what a nearest rank is, by counting |
| `BenchSummary` | `summarize` | extends `Percentiles`: operators only |
| `Bench` | `Run` and `collect` | `main`, and per worker `pc`, `slot`; `next` is the atomic counter, `wg` the WaitGroup. `Claim` is `next.Add(1)` with its test, `Send`/`Store` begin and end `oneRequest` |
| `EachOnce` | abstract: what a run promises | each request answered once, then the verdict |
| `BenchRequest` | `oneRequest` | extends `StreamClient` and `BenchSummary`: the sample made of a result |
| `KServeProbe` | `pkg/mode/kserve.go`, `kserve/collector.go`, `output/kserve.go` | `main`, `cpc` (collector), `dpc` (streaming goroutine), `kubectl` (the subprocess), `wg` |
| `Observations` | `metrics/metrics.go`, the resolution in `runtime/runtime.go` | operators only |
| `ServeProbe` | `pkg/mode/serve.go`, `runtime/health.go`, diagnosis in `output/output.go` | the probe (`pc`, `since`, `before`, `after`, …) and, as environment, the server (`tokens`, `waiting`, `alias`, `restarts`) |
| `PingReport` | timeline, rate and diagnosis in `output/output.go` | extends `StreamClient`: operators on the result it returns, as `ping api` prints it |
| `RuntimeReport` | `runtime/vllm.go`, `sglang.go`, `llamacpp.go`, the observation lines and the cache statement in `output/output.go` | extends `Observations`: operators only |
| `OfflineProbe` | `pkg/mode/offline.go`, `scripts/vllm_offline_probe.py` | `main` is the place in `Ping`; `FindHelper` … `Exit` are its steps. `helper`, `code`, `held`, `out` are the process, how it ended, whether a process it left behind holds its output, and the lines buffered; `Load`, `Generate`, `HelperExits`, `HelperFails`, `Kill`, `PrintLine`, `LetsGo` what happens to them |
| `PingArgs` | `pkg/ping/ping.go`, the readings | operators only: the configuration path, the mode and the flag values found in a command line |
| `Config` | `config/defaults.go`, `config/config.go` | operators only: the merge of the layers, and the constructors `New…` with their validation |
| `Ping` | `pkg/ping/ping.go`, `RegisterFlags` and `Config` of `pkg/mode/*.go` | extends both: from arguments, files and environment to a started probe or none |
| `MC…` | | values of the constants for TLC. `MCBenchSummary` also generates the samples, `MCReports` the scrapes of a server, `MCPingArgs` the command lines, part by part with a record of what is meant, and the worlds they are started in |
| `…Proofs` | | theorems and proofs, one module per model; `StreamClientProofs` also covers the sample and the timeline made of a result, `ReportsProofs` both reports of `MCReports`, `ConfigProofs` the command line and the configuration. `DataProofs` holds the lemmas on sums, sequences, searches and sorted lists that the others share |

How they compose. `Bench`, `KServeProbe` and `ServeProbe` take the whole of
`StreamClient` as one step with its possible verdicts: the call returns once, with
an error or without, and after the deadline it returns at all. Those are
`ImplementsAnswerOnce` and `Termination` of `StreamClient`. What `Bench` assumes
of the samples besides (`IsOutcome`) is checked and proved of the client in
`BenchRequest`. `Bench` extends `BenchSummary` (and that `Percentiles`), `ServeProbe` extends
`Observations`; in both the report of the stateful model is computed by the
operators of the other. `Ping` ends where the probe of a mode begins: what it
returns (a valid configuration, a deadline exactly if the timeout is positive) is
what the probes take as constants or choose in `Init`. `OfflineProbe` and the
client implement the same abstract delivery, `AnswerOnce`.

Abstractions that hold throughout: a piece of text is a model value; an error is
the place it came from; a duration is an integer; JSON and the wording of reports
are left out. Go's zero time is 0, so clocks start at 1 in `StreamClient`, and
"is zero" tests are kept as the code makes them. Where Go chooses (both channels
of a select ready) the model has both actions enabled. `os/exec` and the server
are external and modelled by what the code is exposed to.

## 3. What the runs show

Each run answers one question. `expect: violation` runs check one property that a
comment or the documentation states and the code does not have.

| run | bounds | shows |
|---|---|---|
| `StreamClient` | 3 retries, cap at the second doubling, deadline at tick 8, 2 chunks per stream, statuses of each class the code tells apart | types; `SingleAnswer`, `TimelineOrdered`, `RetryBudget`; `SampleIsOutcome`, where the client meets the benchmark; `TimelineAddsUp`, `DiagnosisMatchesOutput` of the report; `StampsStick`, `BackoffHonoured`; the refinement of `AnswerOnce`; `Termination` |
| `RetryLines` | 1 retry | **violation**: a retry line is written, then the deadline wins the select and no retry is made |
| `RetryBadURL` | 1 retry | **violation**: a URL that cannot be parsed is retried as if it were a connection error |
| `BackoffOverflow` | word up to 15, cap 8 bases, 6 retries | **violation**: the doubling leaves the word before it is capped; the delay is negative |
| `Bench` | 0 to 3 requests and workers, all combinations | types; `ClaimsDisjoint`, `ReportIsComplete`; the refinement of `EachOnce`; `Termination` |
| `BenchSummary` | up to 4 blocks of 1, 2 or 9 equal samples, so 1 to 36 samples; and two scrapes of a server with up to 2 tokens, 3 half milliseconds, 2 engines, 1 restart | `NearestRank` against a definition that counts and does not sort; `EveryRequestCounted`; `RateOfTheWindow`, `CacheStatementMatchesLine` |
| `KServeProbe` | 0, 1 or 2 Pods, kubectl's output may be held for ever | types; `ReportAfterBoth`, `ZeroPodsWereListed`, `ExitIsExplained`; `StreamNotBlocked`, `EndsUnlessHeld` |
| `KServeHeld` | no Pods, output may be held | **violation** of `EndsAfterTimeout`: a child of kubectl keeps the output open and the probe waiting |
| `PingArgs` | up to 5 parts in any order (a flag with its value, a mode, a stray word), each flag once, 4 flags, 2 modes of which one is also a value; and up to 6 parts in one order with 10 flags and all modes, each started under 7 default files, up to 8 named ones and 6 environments | `ReadAsMeant`: what the three readings of a line add up to is what its author meant, or the line is rejected; `LayersInOrder`, `ConfigNotIgnored` of the probe that is started |
| `OfflineProbe` | 2 texts, up to 3 lines besides the payload (blank, text, a JSON object), any deadline, output may be held for ever | types; `GenerationCounts`; `EndsUnlessHeld`; the refinement of `AnswerOnce` |
| `PingArgsDash` | 4 parts, one dash or two | **violation**: the file given as `-config` is not read |
| `ServeProbe` | 2 label sets, 1 token under each, 1 restart, inner limits of 1, deadline 3 or none | types; `NeverMixed`, `DeltaCoversProbe`, `BestEffort`, `DiagnosisGrounded`; `ProbeIsMade`, `Termination` (under a deadline) |

Why these bounds are enough to be worth running:

* `StreamClient`: three retries give a first, a middle and a last one; the third
  delay is capped. Every pc can be reached both before and after the deadline. Two
  chunks distinguish the first from a later one; a chunk may carry content, only
  reasoning, nothing, or two choices. `SlowTicks = 3` lies inside the times a
  first token can have, so it may be late, in time or on the limit.
* `BackoffOverflow`: attempt 5 plays attempt 36. The base is 500 ms, that is about
  2^29 ns, so the doubling leaves int64 at the 36th attempt. The run keeps the
  ratio of cap to base (8) and narrows the word. `MaxDuration = 1000` in the other
  runs is beyond any delay there.
* `Bench`: two workers suffice for every race on the counter, three for a worker
  that starts when another has left already.
* `BenchSummary`: P95 is the maximum up to 19 values and ceases to be it at 20;
  blocks of 9 reach both sides without enumerating lists of 20 independent values.
  The window of a rate is 1 ms, two of the half milliseconds counted, so windows of
  1, 2 and 3 lie below, on and above it. The usages of a cache are 0.89, 0.90 and
  1.00 (the statement is made from 0.90 on), none, and two engines at 0.60. One run
  holds both kinds of report; a behaviour is about one of them.
* `ServeProbe`: the deadline is one tick beyond the sum of the inner limits, the
  smallest for which the request must not start late; without one, only the inner
  limits bound the wait for the request. Two label sets are the
  smallest case of a sum. A restart under the other name is the upgrade that
  `runtime/runtime.go:94-96` is written for.
* `PingArgs`: the mode, both required flags, `--config` and one more fit in five parts,
  in every order; a value that is also a mode is what the readings can mistake. The
  ordered lines fit the mode, the required flags, `--config` and two more, so that
  any two settings meet (an endpoint and a metrics endpoint above all); every layer
  has values of its own, so that one in force names the layer it came from.
* `OfflineProbe`: three foreign lines can stand before, between and after the
  payload, with a blank one to skip and a JSON object to mistake for it.

### Fairness

`Spec` has none; `FairSpec` adds only this, and liveness is checked under it:

* a goroutine that can run does (weak fairness of the code's own steps);
* the clock advances, a timer that is due fires;
* a call under a context that is done returns: net/http and os/exec promise it.
  It is weak fairness of "expired and the call fails".

The server, the network, the API server, the engine the offline helper loads and a
process that holds an output owe nothing: no action of theirs is fair. `KServeHeld`
fails because the code depends on one that owes nothing; `EndsUnlessHeld` of both
subprocess models says that it depends on nothing else. In `OfflineProbe` the fair
actions are `Main` (the steps of `Ping`), `Expire` and `Kill`.

### Findings

1. `client/retry.go:31` shifts before it caps. From attempt 36 on the delay is
   negative, later zero, and retries follow each other at once. `--retries` has no
   upper bound. (`BackoffOverflow`)
2. `client/retry.go:28` writes the retry line before the wait that may be
   cancelled; line 17 promises one line per retry attempt. (`RetryLines`)
3. `client/retry.go:50` takes every failure without a status for a connection
   error, also that of building the request. (`RetryBadURL`)
4. `kserve/collector.go:26` runs kubectl with buffered output and no `WaitDelay`:
   after the kill at the deadline a child of kubectl that keeps the output open
   holds the probe beyond `--timeout`. (`KServeHeld`)
5. `pkg/ping/ping.go:95` knows `--config` only, the flag package also `-config`, as
   the usage text prints it: that file is accepted and never read. (`PingArgsDash`)

## 4. What is proved

| module | theorems | inductive invariant |
|---|---|---|
| `StreamClientProofs` | `TypeCorrect`, `OneAnswer`, `TimelineCorrect`, `BudgetSpent`, `StampsWrittenOnce`, `BackoffCorrect`, `BackoffCorrectInCode`, `BackoffLostInCode`, `Refinement`, `SamplesAreOutcomes`, `TimelineSound`, `DiagnosisSound` | `Inductive`, with `Closed` for the timeline |
| `BenchProofs` | `TypeCorrect`, `SlotsNeedNoLock`, `ReportComplete`, `Refinement`, `ReportIsTrue` | `Inductive` |
| `ReportsProofs` | `RequestsAreCounted`, `PercentilesAreNearestRanks`, `RateIsOfTheWindow`, `CacheStatementIsItsLine` | `ReportsInductive`, for the samples `Sampled` |
| `KServeProofs` | `TypeCorrect`, `Joined`, `ZeroIsNoFailure`, `ExitExplained` | `Inductive` |
| `ServeProofs` | `TypeCorrect`, `OneCounter`, `ProbeIsCounted`, `ExtrasAreBestEffort`, `DiagnosisIsGrounded` | `Inductive`, with `Covered` for the counter |
| `OfflineProofs` | `TypeCorrect`, `GenerationShown`, `Refinement` | `Inductive` |
| `ConfigProofs` | `LinesAreRead`, `NoConfigIgnored`, `HighestLayerInForce` | `PingInductive` |
| `ConfigProofs` | `HighestLayerWins`, `NoFileIgnored`, `StartedProbeIsValid` | none: about any arguments, files and environment |
| `DataProofs` | none listed: lemmas | |

Each holds for every value of the constants that satisfies the named assumptions
of the module: any number of retries (negative ones too: the argument is not
validated), workers, requests, any statuses, chunks, deadlines, label sets, any flags, values and
words. The assumptions are what the code justifies: counts and block sizes are
natural numbers and an outcome of a request is one it may leave (`BenchConstants`, and
`OutcomesAreOutcomes` of `Bench`; `SamplesAreOutcomes` proves it of the client's), the usage an engine exports is a ratio
(`CachesAreRatios`), the names of modes that are tried are names of modes
(`NamesAreModes`), a chunk is a sequence of deltas (`TextConstants`), and so on. Some
theorems have a hypothesis of their own, explained below: `NoOverflow`, the code's own
numbers for the back-off, `Labels # <<>>` and `Dashes = {2}`.

The argument for the client. `SingleAnswer` alone is not inductive: that a retry
starts with nothing printed follows from `Retryable`, which looks at `deltas`,
which equals the length of the content, which is what was printed. So
`Inductive` joins the types, `SingleAnswer`, `TimelineOrdered` (which ties
counters to stamps and content), `Counters` (how `attempt`, `calls` and `lines`
relate at each `pc`, and that `backoff` was entered with a retryable failure) and
`Filled` (which fields of a result are set at each `pc`). `BudgetSpent` follows
from `Counters`; `StampsWrittenOnce` from `Filled`, since `DoneAt` is zero wherever it
is written; `Refinement` maps every chunk with text to `Deliver`, the two ways to
return to `Return`, and everything else to a stutter.

`BackoffCorrect` has an assumption of its own, `NoOverflow`: the doublings up to
the last retry stay within the word. The run `BackoffOverflow` shows that it
cannot be dropped. Two theorems say what it means for the numbers of the code, which
are beyond the integers of TLC: half a second (`client/retry.go:11`) doubled in the 64
bits of a `time.Duration`. For up to 35 retries `NoOverflow` holds, so every wait is
as long as it should be (`BackoffCorrectInCode`); the delay before the 36th retry is
negative (`BackoffLostInCode`). The 35 waits before it take at least 131.5 s,
which the five minutes `bench` allows by default (`bench/bench.go:41`) leave room for.

That a chunk yields a sequence of texts, whatever choices it has, is `TextsType`. It
is a recursion over the choices, argued as below by the last position of which it
would be false.

The argument for the timeline. It is that of the last attempt, so it is about
`result` when `pc` is "returned". `TimelineOrdered` orders the stamps and
`SingleAnswer` ties the deltas to the text on stdout, but neither says that a result
that was returned has its `DoneAt`: `Closed` does, unless the result has seen no
headers and so has no later stamp either. From there each line is a difference of
ordered stamps, and the sums follow.

The argument for the offline probe. `HelperPhase` says what the helper can have
left at each of its steps, `CallerPhase` that a caller has nothing of it before it
returns and beyond its wait finds it gone and its output closed, so that the buffer
no longer changes; `Outcome` what error and result follow from exit code and buffer, and
`Shown` what follows from the result. `LastLineFound` turns the `CHOOSE` of the last
non-blank line into the line meant by `PayloadIsLast`: a non-empty set of positions
has a greatest element (`GreatestElement`, from the library's theorems on finite
sets, since an induction over data is not available).

Recursion over a position or a set is argued by an extreme element instead of an
induction. `BackwardRecursion` says that a function defined at `i` from its values at
`i + 1` and `i + 2` exists: there is a greatest number of places, counted from the end, up
to which it does, and that is all of them (`GreatestElement`). `SmallestSubset` does the
like for a sum over a finite set (`SumFunctionOnSet`, which takes elements away
one by one): if a fact about sums were false of some subset there would be a
smallest one. From it come the facts the reports need: a sum is independent of the
order, grows with its terms (`SumMonotone`, `SumIncrement`), and the sizes of the
groups of a set add up to the size of the set (`GroupsAddUp`).

A sorted list is stated without recursion: the place of a value is the number of
values ahead of it, ties going by their slots (`Precedes`). `SortedPlace` shows that
this is a sort. Of two slots one has more ahead than the other (`MoreAhead`), so no
two share a place, so every one of the n places below n is taken (`PlaceTaken`: an
injection between finite sets of one size is onto). The value with k - 1 ahead is
therefore the k-th of the list; at least k values do not exceed it, and of any
smaller value fewer than k do not. `SummaryIsRight` puts the rank in: the least k with
100 k >= p n is the index the code computes by `math.Ceil`, and it lies within 1..n.

The argument for the command line. Three readings of one line are three recursive
functions over its arguments, and the writer of `MCPingArgs` builds the line from
left to right while they search from the left for where to stop. `ParseWalk` and
`ModeWalk` describe each reading without recursion, by the set of positions it
visits and where it stops. `LineMeant` says that the line falls into parts (`Parts`:
where each flag or word begins, a value being no part), that the values meant are
those of the flags, and, as long as the line is documented, where the first stop is
and that it is the mode (`AsDocumented`). `OneArgument` and `TwoArguments` carry this over a part
written at the end, `MeantRead` turns it into the readings of `Read`. It needs
`Dashes = {2}`: with one dash the configuration path is not found, which is finding
5. A line written in order has two dashes anyhow, and only such lines are started,
so `NoConfigIgnored` and `HighestLayerInForce` need no hypothesis.

The argument for the configuration is by layer: a merge replaces exactly what a file
gives (`MergedValue`), the environment exactly two settings (`EnvApplied`), and
`HighestLayerWins` composes them. `HighestLayerInForce` puts the flags above,
through `MeantRead`, and the validation of each mode below (`ServeMade`, `APIMade`,
`KServeMade`, `OfflineMade`). `NoFileIgnored` and `StartedProbeIsValid` are about
arguments nobody wrote on purpose: any sequence, documented or not.

The argument for the benchmark. That two workers never hold one slot needs the
history of the counter: slots up to `min(next, requests)` are written or held by
exactly one worker, those beyond are untouched, and the WaitGroup counts the
workers that have not left. From these, when `wg` is zero after the last spawn,
every worker has seen the counter at its end, so every slot is written.
`ReportIsTrue` composes this with the summary: the samples a report is made of are
outcomes of requests, one for each number from 1 to `requests`, so successes and
failures add up to `requests`, the error list to the failures (`SummaryOfRequests`),
and the percentiles are the nearest ranks of the latencies of the successes
(`SummaryOfLatencies`), however many workers there were and however they interleaved.

The argument for KServe. `Counted` says the WaitGroup equals the number of
goroutines that have not come back, so a report needs both at their end; `Phases`
and `Queried` say what the errors and results are at each place of the collector;
`Printed` and `Exits` tie the report and the exit to them.

The argument for serve. `Clock` bounds the clock at each call before the request by
the timeouts so far, which is where `BestEffort` comes from. `Named` says that a
snapshot has no counter but the one the server exported when it was taken
(`PayloadNames`: the sum over labels keeps the names), and the gauge; so a name
found in both snapshots was exported both times. `Printed` says that nothing the
report was made of changes after it. `Covered` follows the tokens of the probe's own
request: they are part of the counter from the moment they are delivered, so the
second snapshot has at least the first plus them, because a sum over label sets grows
with each of them. The theorem is about a server that exports its counter
(`Labels # <<>>`); of one that does not, no difference is printed. `SourceOfTokens` and `SourceOfWaiting` are
stated for the two lists of names: that a non-empty set of positions has a smallest
one is a case split there.

The argument for the reports. `GroupsAddUp` gives `RequestsAreCounted`: the lines of the
error list are a partition of the failed samples. `SummaryIsRight` gives
`PercentilesAreNearestRanks`: the latencies that count are a list of their own, on the
slots of the successes that measured one. For the other two, `Scraped` says
what the snapshots hold: those of llama.cpp the server as noted in `seen` at the first
scrape and as it is at the second, that of vLLM the usage of its cache; `Window` says how
`seen` and the present server compare unless it restarted. `LlamaLines` and `VLLMLine` look each
line up in the table of its runtime once, so that what is printed is a difference or
a value of the two payloads.

Every invariant and action property of a passing run is stated by a theorem. Only
model-checked is what is temporal under fairness: `Termination` of `StreamClient`,
`Bench` and `ServeProbe`, `StreamNotBlocked` and `EndsUnlessHeld` of `KServeProbe`,
`ProbeIsMade`, `EndsUnlessHeld` of `OfflineProbe`. TLAPS has no rule here for fairness
and ENABLED.

## 5. Limits of the models

* `ServeProbe`: the steps of the code between two calls take no time, and a
  timeout that is due is acted upon before the clock goes on. The server counts a
  token no later than it delivers it; otherwise the second snapshot could miss the
  last tokens, which no client can know. `DeltaCoversProbe` says nothing after a
  restart: the difference of a reset counter is negative or wrong, the code prints
  it, and nothing in the repository promises otherwise. Values are integers; a
  histogram series and other lines are single lines of the payload.
* `BenchSummary`: a latency of zero counts as not measured, as in the code, so a
  success without content is left out of the first-token percentiles, and the
  report shows zeros when there is no other.
* `RuntimeReport`: values are integers (ratios in hundredths, seconds in half
  milliseconds) and a rate is the pair of what is divided. Ratio gauges are summed
  over label sets like counters: two engines at 0.60 give 1.20, which is printed as
  1.2% and called high. No text of the repository says what it should be, so
  `CacheStatementMatchesLine` is stated for one engine. After a restart a rate may be
  of a negative difference; the run shows only that it is the difference printed
  above it, over a time that is not zero.
* `metrics.ParseSnapshot` splits a sample at spaces, so one whose label values hold a
  space is dropped without a word; payloads of the models have no such labels.
* `PingReport`: a tick is a whole number of milliseconds, so the rounding of the
  printed durations is left out. The timeline covers the last attempt, as in the
  code; what the retries before it took is not on it.
* `OfflineProbe`: the chat template and the messages of the helper are left out; a
  JSON line is the payload, another object or neither. A stray object printed last
  is taken for the result, and the probe ends well with no text: `GenerationCounts`
  states that exception.
* `Config`: a text is empty, blank, a URL or another word, without spaces around it;
  a file that cannot be decoded (an unknown key, a malformed duration) is one value.
  A metrics endpoint given by a file stays in force when `--endpoint` names another
  server; that is the documented precedence, each setting on its own.
* `Bench`: a request is one step with any permitted outcome; wall-clock rates are
  left out, since they divide counts the model has by a duration it has not.
* `KServeProbe`: the Ready condition is one value; evidence lines per Pod
  (`classify`) only add wording.
* `StreamClient`: a line above 1 MiB is one of the ways a stream fails; whether a
  stream ended with `[DONE]` or with the connection is not told apart, as in the
  code.
* `PingArgs`: lines are compared only when the mode stands where README.md and
  `pkg/ping/ping.go:64-66` want it; elsewhere the code documents that it misreads.
* `Ping`: the help flag, which starts nothing; a repeated flag, of which
  `PingArgs` keeps the last value as the flag package does, is not among the lines
  the run writes.
* Not modelled: the entry point `cmd/inferlens/main.go` (a dispatch without state,
  whose exit status is the error each probe returns), the layout of reports, number
  and duration formats, the parsing of an API error body, flag parsing by the
  library beyond what `PingArgs` needs of it, the build and sample files.

## 6. Plan

Done, in this order: client and retries; benchmark with its summary; their meeting
point; KServe; serve with metrics; the command line; configuration; the offline
probe; the reports of the client's timeline and of the three runtimes; the proofs of
all of these, last the percentiles and the report of a whole benchmark run. What
could be added:

1. `Ping` with the step from a started probe to its module's `Init` stated as a
   refinement, one mode at a time.
2. The samples of a benchmark composed with the client worker by worker, now one
   step each.
