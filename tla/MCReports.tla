------------------------------- MODULE MCReports -------------------------------
(***************************************************************************)
(* The two reports that are computed from what was gathered before: the    *)
(* summary of inferlens bench (MCBenchSummary) and the observations of     *)
(* inferlens ping serve (RuntimeReport). A behaviour is about one of them. *)
(*                                                                         *)
(* The observations are those of a server that is scraped twice and goes   *)
(* on serving, may restart, rename its cache gauge, stop exporting it or   *)
(* never have exported the time it spends.                                 *)
(***************************************************************************)
EXTENDS MCBenchSummary, RuntimeReport

CONSTANTS Caches,      \* the cache usage of each engine, in hundredths
          MaxTokens,   \* bound on the tokens since the start
          MaxBusy,     \* bound on the half milliseconds since the start
          MaxRestarts  \* bound on the restarts

ASSUME CachesAreRatios == Caches \subseteq Seq(0..Whole)

VARIABLES
  subject,     \* "bench" or a runtime
  tokens, busy, cache,
  alias,       \* the name of the cache gauge
  timed,       \* the server exports the seconds counter
  restarts,
  scrapes,     \* the snapshots taken, two at most
  seen         \* history: the server at the first of them

server == <<tokens, busy, cache, alias, timed, restarts>>
rvars  == <<subject, server, scrapes, seen>>

Export(name, value) == [kind |-> "sample", name |-> name, value |-> value]

Payload ==
  LET usage(name) == [i \in DOMAIN cache |-> Export(name, cache[i])]
  IN  CASE subject = "vllm" ->
             usage(alias) \o <<Export("generation_tokens_total", tokens)>>
        [] subject = "sglang" ->
             usage("token_usage") \o <<Export("generation_tokens_total", tokens)>>
        [] subject = "llamacpp" ->
             <<Export("tokens_predicted_total", tokens)>>
             \o (IF timed THEN <<Export("tokens_predicted_seconds_total", busy)>> ELSE <<>>)

Server == [tokens |-> tokens, busy |-> busy, restarts |-> restarts, timed |-> timed]

GaugeNames == Range(VLLM.native[2].names)

ReportsInit ==
  /\ Init
  /\ subject \in {"bench", "vllm", "sglang", "llamacpp"}
  /\ tokens = 0 /\ busy = 0
  /\ IF subject = "bench" THEN cache = <<>> ELSE cache \in Caches
  /\ alias \in IF subject = "vllm" THEN GaugeNames ELSE {"none"}
  /\ timed \in IF subject = "llamacpp" THEN BOOLEAN ELSE {TRUE}
  /\ restarts = 0
  /\ scrapes = <<>> /\ seen = Server

Serve ==
  /\ tokens' \in {tokens, tokens + 1} /\ tokens' <= MaxTokens
  /\ busy' \in {busy, busy + 1} /\ busy' <= MaxBusy
  /\ cache' \in Caches
  /\ UNCHANGED <<alias, timed, restarts, scrapes, seen>>

Restart ==
  /\ restarts < MaxRestarts
  /\ restarts' = restarts + 1
  /\ tokens' = 0 /\ busy' = 0 /\ cache' \in Caches
  /\ alias' \in IF subject = "vllm" THEN GaugeNames ELSE {"none"}
  /\ timed' \in IF subject = "llamacpp" THEN BOOLEAN ELSE {TRUE}
  /\ UNCHANGED <<scrapes, seen>>

Scrape ==
  /\ scrapes' = Append(scrapes, ParseSnapshot(Payload))
  /\ seen' = IF scrapes = <<>> THEN Server ELSE seen
  /\ UNCHANGED server

Observed == Len(scrapes) = 2

ReportsNext ==
  \/ subject = "bench" /\ Next /\ UNCHANGED rvars
  \/ /\ subject # "bench" /\ ~Observed
     /\ Serve \/ Restart \/ Scrape
     /\ UNCHANGED <<svars, subject>>
  \/ Observed /\ UNCHANGED <<svars, rvars>>

ReportsSpec == ReportsInit /\ [][ReportsNext]_<<svars, rvars>>

-------------------------------------------------------------------------------
Lines == PrintObservations(subject, scrapes[1], scrapes[2])

(* While the server has not restarted, the rate of llama.cpp is the work of*)
(* the window over its time, from 1 ms on. Whatever happened, it divides   *)
(* the difference of tokens printed two sections above by a time that is   *)
(* not zero (runtime/llamacpp.go:69-97).                                   *)
RateOfTheWindow ==
  Observed /\ subject = "llamacpp" =>
    LET rate == Lines["generation_rate"]
    IN  /\ restarts = seen.restarts =>
             rate = IF timed /\ busy - seen.busy >= MinSeconds
                    THEN <<<<tokens - seen.tokens, busy - seen.busy>>>> ELSE <<>>
        /\ rate # <<>> => /\ rate[1][2] >= MinSeconds
                          /\ Lines["generated_tokens"] = <<rate[1][1]>>

(* The cache is called high exactly when vLLM has just reported at least   *)
(* 90 percent, which is then the last value on the line of the cache, under*)
(* either name of the gauge and never because of the earlier snapshot. For *)
(* several engines no such agreement is claimed: their ratios are summed   *)
(* (output/output.go:211-214, 343-348).                                    *)
CacheStatementMatchesLine ==
  Observed =>
    LET high == CacheIsHigh(subject, scrapes[1], scrapes[2])
    IN  IF subject # "vllm" \/ cache = <<>> THEN ~high
        ELSE LET line == Lines["gpu_kv_cache"]
             IN  Len(cache) = 1 =>
                   /\ high <=> cache[1] >= 90
                   /\ line[Len(line)] = 100 * cache[1]

-------------------------------------------------------------------------------
(* None, one engine on both sides of the limit, and two engines            *)
MCCaches == {<<>>, <<89>>, <<90>>, <<100>>, <<60, 60>>}
===============================================================================
