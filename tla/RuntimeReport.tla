----------------------------- MODULE RuntimeReport -----------------------------
(***************************************************************************)
(* The observations of one serve report: what the observer of a runtime    *)
(* reads from the two snapshots (runtime/vllm.go, sglang.go, llamacpp.go), *)
(* the lines printed for it and what the diagnosis says of the cache       *)
(* (output/output.go). No state.                                           *)
(*                                                                         *)
(* Names lack the prefix of their runtime. Values are integers: ratios in  *)
(* hundredths, seconds in half milliseconds; percentages on a line are in  *)
(* hundredths of a percent and a rate is the pair of what is divided.      *)
(***************************************************************************)
EXTENDS Observations

Entry(key, format, names) == [key |-> key, format |-> format, names |-> names]

Common(prompt, generated, running, waiting) ==
  << Entry("prompt_tokens", "delta", prompt),
     Entry("generated_tokens", "delta", generated),
     Entry("running_requests", "gauge", running),
     Entry("waiting_requests", "gauge", waiting) >>

VLLM ==
  [ common |-> Common(<<"prompt_tokens_total", "prompt_tokens">>,
                      <<"generation_tokens_total", "generation_tokens">>,
                      <<"num_requests_running">>, <<"num_requests_waiting">>),
    native |->
      << Entry("request_success", "delta", <<"request_success_total", "request_success">>),
         Entry("gpu_kv_cache", "ratio", <<"gpu_cache_usage_perc", "kv_cache_usage_perc">>),
         Entry("cpu_kv_cache", "ratio", <<"cpu_cache_usage_perc">>),
         Entry("preemptions", "delta", <<"num_preemptions_total", "num_preemptions">>),
         Entry("prefix_cache_hits", "delta",
               <<"prefix_cache_hits_total", "prefix_cache_hits">>),
         Entry("prefix_cache_queries", "delta",
               <<"prefix_cache_queries_total", "prefix_cache_queries">>) >> ]

SGLang ==
  [ common |-> Common(<<"prompt_tokens_total">>, <<"generation_tokens_total">>,
                      <<"num_running_reqs">>, <<"num_queue_reqs">>),
    native |-> << Entry("token_usage", "ratio", <<"token_usage">>),
                  Entry("cache_hit_rate", "ratio", <<"cache_hit_rate">>),
                  Entry("gen_throughput", "rate", <<"gen_throughput">>),
                  Entry("num_used_tokens", "gauge", <<"num_used_tokens">>) >> ]

LlamaCPP ==
  [ common |-> Common(<<"prompt_tokens_total">>, <<"tokens_predicted_total">>,
                      <<"requests_processing">>, <<"requests_deferred">>),
    native |->
      << Entry("prompt_rate", "quotient",
               <<"prompt_tokens_total", "prompt_seconds_total">>),
         Entry("generation_rate", "quotient",
               <<"tokens_predicted_total", "tokens_predicted_seconds_total">>),
         Entry("context_high_watermark", "gauge", <<"n_tokens_max">>) >> ]

NewObserver(runtime) ==
  CASE runtime = "vllm" -> VLLM [] runtime = "llamacpp" -> LlamaCPP
    [] runtime = "sglang" -> SGLang

MinSeconds == 2     \* 1 ms
Whole      == 100   \* a ratio of 1

(* Mutated: any positive time is divided by.                               *)
RateObservation_AnyWindow(before, after, names) ==
  LET tokens  == Delta(Lookup(before, names[1]), Lookup(after, names[1]))
      seconds == Delta(Lookup(before, names[2]), Lookup(after, names[2]))
  IN  [ before |-> Absent,
        after  |-> IF tokens.present /\ seconds.present /\ seconds.value > 0
                   THEN Present(<<tokens.value, seconds.value>>) ELSE Absent ]

(* Tokens over seconds, both as differences, from a window of 1 ms on      *)
RateObservation(before, after, names) ==
  LET tokens  == Delta(Lookup(before, names[1]), Lookup(after, names[1]))
      seconds == Delta(Lookup(before, names[2]), Lookup(after, names[2]))
  IN  [ before |-> Absent,
        after  |-> IF tokens.present /\ seconds.present /\ seconds.value >= MinSeconds
                   THEN Present(<<tokens.value, seconds.value>>) ELSE Absent ]

Observe(entry, before, after) ==
  IF entry.format = "quotient" THEN RateObservation(before, after, entry.names)
  ELSE Observation(before, after, entry.names)

(* A value up to 1 is taken for a ratio, a greater one for a percentage.   *)
FormatPercent(v) == IF v <= Whole THEN Whole * v ELSE v

(* One value does not say whether it is the earlier or the later one.      *)
FormatObservationValues(o) ==
  (IF o.before.present THEN <<o.before.value>> ELSE <<>>)
  \o (IF o.after.present THEN <<o.after.value>> ELSE <<>>)

(* The values on the line of an entry; none when it is unavailable         *)
PrintObservation(entry, before, after) ==
  LET o == Observe(entry, before, after)
      values == FormatObservationValues(o)
      Latest(value) == IF value.present THEN <<value.value>> ELSE <<>>
  IN  CASE entry.format = "delta" -> Latest(Delta(o.before, o.after))
        [] entry.format = "gauge" -> values
        [] entry.format = "ratio" -> [i \in DOMAIN values |-> FormatPercent(values[i])]
        [] entry.format \in {"rate", "quotient"} -> Latest(o.after)

(* The lines of both sections, by their key                                *)
PrintObservations(runtime, before, after) ==
  LET entries == NewObserver(runtime).common \o NewObserver(runtime).native
  IN  [key \in {entries[i].key : i \in DOMAIN entries} |->
         LET first == CHOOSE i \in DOMAIN entries : entries[i].key = key
         IN  PrintObservation(entries[first], before, after)]

(* Mutated: the cache is judged under the first of its names.              *)
CacheIsHigh_FirstName(runtime, before, after) ==
  /\ runtime = "vllm"
  /\ LET cache == Lookup(after, "gpu_cache_usage_perc")
     IN  10 * cache.value >= 9 * Whole

(* "gpu kv cache usage is high", from 0.9 on                               *)
CacheIsHigh(runtime, before, after) ==
  /\ runtime = "vllm"
  /\ LET cache == Observe(VLLM.native[2], before, after).after
     IN  cache.present /\ 10 * cache.value >= 9 * Whole
===============================================================================
