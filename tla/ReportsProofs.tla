----------------------------- MODULE ReportsProofs -----------------------------
(***************************************************************************)
(* What MCReports.tla promises of the two reports, for samples, payloads,  *)
(* rates and bounds of any size.                                           *)
(***************************************************************************)
EXTENDS MCReports, DataProofs

(* The samples of a bench run *)
Sampled == samples \in Seq(Outcomes)

(* A block of equal samples adds samples only. *)
LEMMA SampledHolds == ReportsSpec => []Sampled
<1>1. ReportsInit => Sampled
  BY DEF ReportsInit, Init, Sampled
<1>2. Sampled /\ [ReportsNext]_<<svars, rvars>> => Sampled'
  <2> SUFFICES ASSUME Sampled, [ReportsNext]_<<svars, rvars>> PROVE Sampled'
    OBVIOUS
  <2>1. ASSUME NEW o \in Outcomes, NEW k \in Blocks, AppendBlock(o, k) PROVE Sampled'
    <3>1. [i \in 1..k |-> o] \in Seq(Outcomes)
      BY BenchConstants
    <3> QED BY <2>1, <3>1 DEF AppendBlock, Sampled
  <2>2. CASE UNCHANGED samples
    BY <2>2 DEF Sampled
  <2> QED BY <2>1, <2>2 DEF ReportsNext, Next, Done, svars
<1> QED BY <1>1, <1>2, PTL DEF ReportsSpec

(* Every request is counted once, as a success or under one error line.    *)
THEOREM RequestsAreCounted == ReportsSpec => []EveryRequestCounted
<1>1. Sampled => EveryRequestCounted
  BY SummaryOfRequests DEF Sampled, EveryRequestCounted
<1> QED BY <1>1, SampledHolds, PTL

(* The percentiles reported are the nearest-rank ones of the latencies of  *)
(* the successes, all of them and no other, for lists of any length.       *)
THEOREM PercentilesAreNearestRanks == ReportsSpec => []NearestRank
<1>1. Sampled => NearestRank
  BY SummaryOfLatencies, BenchConstants DEF Sampled, NearestRank
<1> QED BY <1>1, SampledHolds, PTL

-------------------------------------------------------------------------------
(* The snapshots *)

Count   == "tokens_predicted_total"
Seconds == "tokens_predicted_seconds_total"

(* What llama.cpp says of itself: the tokens, and the time if it keeps it. *)
LlamaRead(s, server_) ==
  /\ DOMAIN s = IF server_.timed THEN {Count, Seconds} ELSE {Count}
  /\ s[Count] = server_.tokens
  /\ server_.timed => s[Seconds] = server_.busy

(* The sum over one line is its value. *)
LEMMA OneLine ==
  ASSUME NEW n, NEW v \in Int
  PROVE  ParseSnapshot(<<Export(n, v)>>) = [m \in {n} |-> v]
<1> DEFINE p == <<Export(n, v)>>
           value == [i \in DOMAIN p |-> p[i].value]
<1>1. DOMAIN p = {1} /\ p[1].kind = "sample" /\ p[1].name = n /\ p[1].value = v
  BY DEF Export
<1>2. Samples(p) = {1} /\ value[1] = v
  BY <1>1 DEF Samples
<1> HIDE DEF p
<1>3. {p[i].name : i \in Samples(p)} = {n} /\ {i \in Samples(p) : p[i].name = n} = {1}
  BY <1>1, <1>2
<1>4. SumFunctionOnSet(value, {1}) = v
  <2> HIDE DEF value
  <2> QED BY <1>2, SumSingle
<1>5. ParseSnapshot(p) = [m \in {p[i].name : i \in Samples(p)} |->
                            SumFunctionOnSet(value, {i \in Samples(p) : p[i].name = m})]
  BY DEF ParseSnapshot
<1> HIDE DEF value
<1>6. ParseSnapshot(p) = [m \in {n} |-> SumFunctionOnSet(value, {i \in Samples(p) : p[i].name = m})]
  BY <1>3, <1>5
<1>7. ParseSnapshot(p) = [m \in {n} |-> v]
  BY <1>3, <1>4, <1>6
<1> QED BY <1>7 DEF p

(* A snapshot of two names and their values, and the lines it comes from *)
Reads(s, n, v, o, w) == DOMAIN s = {n, o} /\ s[n] = v /\ s[o] = w

(* Two exported lines are read as two values under their names. *)
LEMMA TwoLines ==
  ASSUME NEW n, NEW v \in Int, NEW o, NEW w \in Int, n # o
  PROVE  Reads(ParseSnapshot(<<Export(n, v), Export(o, w)>>), n, v, o, w)
<1> DEFINE p == <<Export(n, v), Export(o, w)>>
           value == [i \in DOMAIN p |-> p[i].value]
<1>1. /\ DOMAIN p = {1, 2}
      /\ p[1].kind = "sample" /\ p[1].name = n /\ p[1].value = v
      /\ p[2].kind = "sample" /\ p[2].name = o /\ p[2].value = w
  BY DEF Export
<1>2. Samples(p) = {1, 2} /\ value[1] = v /\ value[2] = w
  BY <1>1 DEF Samples
<1> HIDE DEF p
<1>3. /\ {p[i].name : i \in Samples(p)} = {n, o}
      /\ {i \in Samples(p) : p[i].name = n} = {1}
      /\ {i \in Samples(p) : p[i].name = o} = {2}
  BY <1>1, <1>2
<1>4. SumFunctionOnSet(value, {1}) = v /\ SumFunctionOnSet(value, {2}) = w
  <2> HIDE DEF value
  <2> QED BY <1>2, SumSingle
<1>5. ParseSnapshot(p) = [m \in {p[i].name : i \in Samples(p)} |->
                            SumFunctionOnSet(value, {i \in Samples(p) : p[i].name = m})]
  BY DEF ParseSnapshot
<1> HIDE DEF value
<1>6. /\ SumFunctionOnSet(value, {i \in Samples(p) : p[i].name = n}) = v
      /\ SumFunctionOnSet(value, {i \in Samples(p) : p[i].name = o}) = w
  BY <1>3, <1>4
<1>7. Reads(ParseSnapshot(p), n, v, o, w)
  BY <1>3, <1>5, <1>6 DEF Reads
<1> QED BY <1>7 DEF p

(* A snapshot of llama.cpp says so. *)
LEMMA LlamaScrape ==
  ASSUME subject = "llamacpp", tokens \in Nat, busy \in Nat, timed \in BOOLEAN
  PROVE  LlamaRead(ParseSnapshot(Payload), Server)
<1>1. Payload = <<Export(Count, tokens)>>
                \o (IF timed THEN <<Export(Seconds, busy)>> ELSE <<>>)
  BY "llamacpp" # "vllm", "llamacpp" # "sglang", Zenon DEF Payload, Count, Seconds
<1>2. Count # Seconds
  BY DEF Count, Seconds
<1>0. tokens \in Int /\ busy \in Int
  OBVIOUS
<1>3. CASE timed
  <2>1. Payload = <<Export(Count, tokens), Export(Seconds, busy)>>
    BY <1>1, <1>3, PairJoined, Zenon
  <2>2. Reads(ParseSnapshot(Payload), Count, tokens, Seconds, busy)
    BY <1>0, <1>2, <2>1, TwoLines, Zenon
  <2> QED BY <1>3, <2>2 DEF LlamaRead, Server, Reads
<1>4. CASE ~timed
  <2>1. Payload = <<Export(Count, tokens)>>
    BY <1>1, <1>4
  <2>2. ParseSnapshot(Payload) = [m \in {Count} |-> tokens]
    BY <1>0, <2>1, OneLine, Zenon
  <2>3. DOMAIN ParseSnapshot(Payload) = {Count} /\ ParseSnapshot(Payload)[Count] = tokens
    BY <2>2
  <2> QED BY <1>4, <2>3 DEF LlamaRead, Server
<1> QED BY <1>3, <1>4

Generated == "generation_tokens_total"

(* What vLLM says of itself, as far as one engine or none is concerned     *)
VLLMRead(s) ==
  /\ cache = <<>> => DOMAIN s = {Generated}
  /\ Len(cache) = 1 => DOMAIN s = {alias, Generated} /\ s[alias] = cache[1]

(* A snapshot of vLLM says so. *)
LEMMA VLLMScrape ==
  ASSUME subject = "vllm", tokens \in Nat, alias \in GaugeNames, cache \in Seq(0..Whole)
  PROVE  VLLMRead(ParseSnapshot(Payload))
<1> DEFINE usage == [i \in DOMAIN cache |-> Export(alias, cache[i])]
<1>1. Payload = usage \o <<Export(Generated, tokens)>>
  BY Zenon DEF Payload, Generated
<1>2. alias # Generated
  BY DEF GaugeNames, Range, VLLM, Entry, Generated
<1>3. tokens \in Int
  OBVIOUS
<1>4. CASE cache = <<>>
  <2>1. usage = <<>>
    BY <1>4
  <2>2. Payload = <<Export(Generated, tokens)>>
    <3>1. <<>> \o <<Export(Generated, tokens)>> = <<Export(Generated, tokens)>>
      OBVIOUS
    <3> QED BY <1>1, <2>1, <3>1, Zenon
  <2>3. ParseSnapshot(Payload) = [m \in {Generated} |-> tokens]
    BY <1>3, <2>2, OneLine, Zenon
  <2>4. DOMAIN ParseSnapshot(Payload) = {Generated} /\ Len(cache) # 1
    BY <1>4, <2>3
  <2> QED BY <2>4 DEF VLLMRead
<1>5. CASE Len(cache) = 1
  <2>1. DOMAIN cache = {1} /\ cache[1] \in Int /\ cache # <<>>
    <3>1. DOMAIN cache = 1..1 /\ 1 \in 1..Len(cache)
      BY <1>5
    <3>2. cache[1] \in 0..Whole
      BY <3>1, ElementOfSeq, Zenon
    <3>3. 1..1 = {1} /\ \A x \in 0..Whole : x \in Int
      BY DEF Whole
    <3>4. cache # <<>>
      BY <1>5
    <3> QED BY <3>1, <3>2, <3>3, <3>4, Zenon
  <2>2. usage = <<Export(alias, cache[1])>>
    <3>1. usage = [i \in {1} |-> Export(alias, cache[1])]
      BY <2>1
    <3>2. \A e : [i \in {1} |-> e] = <<e>>
      OBVIOUS
    <3> QED BY <3>1, <3>2, Zenon
  <2>3. Payload = <<Export(alias, cache[1]), Export(Generated, tokens)>>
    BY <1>1, <2>2, PairJoined, Zenon
  <2>4. Reads(ParseSnapshot(Payload), alias, cache[1], Generated, tokens)
    BY <1>2, <1>3, <2>1, <2>3, TwoLines, Zenon
  <2> QED BY <2>1, <2>4 DEF VLLMRead, Reads
<1>6. CASE cache # <<>> /\ Len(cache) # 1
  BY <1>6 DEF VLLMRead
<1> QED BY <1>4, <1>5, <1>6

-------------------------------------------------------------------------------
(* The observed server *)

ServerTyped ==
  /\ subject \in {"bench", "vllm", "sglang", "llamacpp"}
  /\ tokens \in Nat /\ busy \in Nat /\ restarts \in Nat
  /\ timed \in BOOLEAN /\ cache \in Seq(0..Whole)
  /\ subject = "vllm" => alias \in GaugeNames

First(s)  == subject = "llamacpp" => LlamaRead(s, seen)
Second(s) == /\ subject = "llamacpp" => LlamaRead(s, Server)
             /\ subject = "vllm" => VLLMRead(s)

(* The snapshots are of the server noted at the first of them, and of the  *)
(* server as it is: after the second it is not looked at any more.         *)
Scraped ==
  \/ scrapes = <<>>
  \/ \E s : scrapes = <<s>> /\ First(s)
  \/ \E s, t : scrapes = <<s, t>> /\ First(s) /\ Second(t)

(* Without a restart the server keeps exporting what it exported. *)
Window ==
  /\ seen.tokens \in Nat /\ seen.busy \in Nat /\ seen.restarts \in Nat
  /\ seen.restarts <= restarts
  /\ scrapes # <<>> /\ seen.restarts = restarts => seen.timed = timed

ReportsInductive == ServerTyped /\ Scraped /\ Window

(* The server stays one, and a restarted one begins again. *)
LEMMA ServerTypedHolds ==
  ServerTyped /\ [ReportsNext]_<<svars, rvars>> => ServerTyped'
<1> SUFFICES ASSUME ServerTyped, [ReportsNext]_<<svars, rvars>> PROVE ServerTyped'
  OBVIOUS
<1>1. CASE UNCHANGED rvars
  BY <1>1 DEF rvars, server, ServerTyped
<1>2. CASE subject # "bench" /\ (Serve \/ Restart \/ Scrape) /\ UNCHANGED subject
  <2>1. tokens' \in Nat /\ busy' \in Nat /\ restarts' \in Nat
    <3>1. /\ tokens' = tokens \/ tokens' = tokens + 1 \/ tokens' = 0
          /\ busy' = busy \/ busy' = busy + 1 \/ busy' = 0
          /\ restarts' = restarts \/ restarts' = restarts + 1
      BY <1>2, Zenon DEF Serve, Restart, Scrape, server
    <3>2. tokens \in Nat /\ busy \in Nat /\ restarts \in Nat
      BY Zenon DEF ServerTyped
    <3> QED BY <3>1, <3>2
  <2>2. cache' \in Seq(0..Whole)
    BY <1>2, CachesAreRatios DEF Serve, Restart, Scrape, server, ServerTyped
  <2>3. timed' \in BOOLEAN
    <3>1. CASE Serve \/ Scrape
      BY <3>1, Zenon DEF Serve, Scrape, server, ServerTyped
    <3>2. CASE Restart
      <4>1. timed' \in BOOLEAN \/ timed' \in {TRUE}
        BY <3>2, Zenon DEF Restart
      <4> QED BY <4>1, Zenon
    <3> QED BY <1>2, <3>1, <3>2
  <2>4. subject' = "vllm" => alias' \in GaugeNames
    BY <1>2 DEF Serve, Restart, Scrape, server, ServerTyped
  <2>5. subject' \in {"bench", "vllm", "sglang", "llamacpp"}
    BY <1>2 DEF ServerTyped
  <2> QED BY <2>1, <2>2, <2>3, <2>4, <2>5, Zenon DEF ServerTyped
<1> QED BY <1>1, <1>2 DEF ReportsNext

(* Only a scrape changes what was noted, and both hold when it was taken. *)
LEMMA ScrapedHolds ==
  ReportsInductive /\ [ReportsNext]_<<svars, rvars>> => Scraped'
<1> SUFFICES ASSUME ReportsInductive, [ReportsNext]_<<svars, rvars>> PROVE Scraped'
  OBVIOUS
<1>1. CASE UNCHANGED rvars
  <2>1. UNCHANGED <<subject, tokens, busy, cache, alias, timed, restarts, scrapes, seen>>
    BY <1>1 DEF rvars, server
  <2>2. \A s : First(s)' = First(s) /\ Second(s)' = Second(s)
    BY <2>1 DEF First, Second, LlamaRead, VLLMRead, Server
  <2> QED BY <2>1, <2>2 DEF ReportsInductive, Scraped
<1>2. CASE ~Observed /\ (Serve \/ Restart) /\ UNCHANGED subject
  <2>1. UNCHANGED <<subject, scrapes, seen>>
    BY <1>2 DEF Serve, Restart
  <2>2. \A s : First(s)' = First(s)
    BY <2>1 DEF First, LlamaRead
  <2>3. scrapes = <<>> \/ \E s : scrapes = <<s>> /\ First(s)
    BY <1>2 DEF Observed, ReportsInductive, Scraped
  <2> QED BY <2>1, <2>2, <2>3 DEF Scraped
<1>3. CASE ~Observed /\ Scrape /\ UNCHANGED subject
  <2>0. PICK t : t = ParseSnapshot(Payload)
    OBVIOUS
  <2>1. /\ UNCHANGED <<subject, tokens, busy, cache, alias, timed, restarts>>
        /\ scrapes' = Append(scrapes, t)
        /\ seen' = IF scrapes = <<>> THEN Server ELSE seen
    BY <1>3, <2>0 DEF Scrape, server
  <2>2. Second(t)
    BY <2>0, LlamaScrape, VLLMScrape DEF Second, ReportsInductive, ServerTyped
  <2>3. Second(t)'
    <3>1. Server' = Server
      BY <2>1 DEF Server
    <3> QED BY <2>1, <2>2, <3>1, Zenon DEF Second, LlamaRead, VLLMRead
  <2>4. CASE scrapes = <<>>
    <3>1. scrapes' = <<t>> /\ seen' = Server
      BY <2>1, <2>4
    <3>2. First(t)'
      BY <2>1, <2>2, <3>1, Zenon DEF First, Second, LlamaRead
    <3> QED BY <3>1, <3>2, Zenon DEF Scraped
  <2>5. CASE scrapes # <<>>
    <3>1. PICK s : scrapes = <<s>> /\ First(s)
      BY <1>3, <2>5 DEF Observed, ReportsInductive, Scraped
    <3>2. scrapes' = <<s, t>> /\ seen' = seen
      <4>1. Append(<<s>>, t) = <<s>> \o <<t>>
        <5>1. <<s>> \in Seq({s}) /\ t \in {t}
          OBVIOUS
        <5> QED BY <5>1, AppendIsConcat
      <4>2. <<s>> \o <<t>> = <<s, t>>
        BY PairJoined, Zenon
      <4> QED BY <2>1, <2>5, <3>1, <4>1, <4>2, Zenon
    <3>3. First(s)'
      BY <2>1, <3>1, <3>2, Zenon DEF First, LlamaRead
    <3> QED BY <2>3, <3>2, <3>3, Zenon DEF Scraped
  <2> QED BY <2>4, <2>5
<1> QED BY <1>1, <1>2, <1>3 DEF ReportsNext

(* A restart leaves the window for good. *)
LEMMA WindowHolds ==
  ReportsInductive /\ [ReportsNext]_<<svars, rvars>> => Window'
<1> SUFFICES ASSUME ReportsInductive, [ReportsNext]_<<svars, rvars>> PROVE Window'
  OBVIOUS
<1>0. /\ tokens \in Nat /\ busy \in Nat /\ restarts \in Nat
      /\ seen.tokens \in Nat /\ seen.busy \in Nat /\ seen.restarts \in Nat
      /\ seen.restarts <= restarts
  BY Zenon DEF ReportsInductive, ServerTyped, Window
<1>1. CASE UNCHANGED rvars
  BY <1>1 DEF rvars, server, ReportsInductive, Window
<1>2. CASE Serve /\ UNCHANGED subject
  BY <1>2 DEF Serve, ReportsInductive, Window
<1>3. CASE Restart
  <2>1. restarts' = restarts + 1 /\ seen' = seen
    BY <1>3 DEF Restart
  <2>2. seen'.restarts # restarts'
    BY <1>0, <2>1
  <2>3. seen'.restarts <= restarts'
    BY <1>0, <2>1
  <2> QED BY <1>0, <2>1, <2>2, <2>3, Zenon DEF Window
<1>4. CASE Scrape
  <2>1. UNCHANGED <<restarts, timed>> /\ seen' = IF scrapes = <<>> THEN Server ELSE seen
    BY <1>4 DEF Scrape, server
  <2>2. CASE scrapes = <<>>
    <3>1. /\ seen'.tokens = tokens /\ seen'.busy = busy /\ seen'.restarts = restarts
          /\ seen'.timed = timed
      BY <2>1, <2>2 DEF Server
    <3>2. restarts <= restarts
      BY <1>0
    <3> QED BY <1>0, <2>1, <3>1, <3>2, Zenon DEF Window
  <2>3. CASE scrapes # <<>>
    <3>1. seen' = seen
      BY <2>1, <2>3
    <3> QED BY <2>1, <2>3, <3>1, Zenon DEF ReportsInductive, Window
  <2> QED BY <2>2, <2>3
<1> QED BY <1>1, <1>2, <1>3, <1>4 DEF ReportsNext

(* All of it holds throughout. *)
LEMMA ReportsInvariance == ReportsSpec => []ReportsInductive
<1>1. ReportsInit => ReportsInductive
  <2> SUFFICES ASSUME ReportsInit PROVE ReportsInductive
    OBVIOUS
  <2>1. cache \in Seq(0..Whole)
    <3>1. cache = <<>> \/ cache \in Caches
      BY Zenon DEF ReportsInit
    <3>2. <<>> \in Seq(0..Whole)
      OBVIOUS
    <3> QED BY <3>1, <3>2, CachesAreRatios
  <2>2. timed \in BOOLEAN
    <3>1. timed \in BOOLEAN \/ timed \in {TRUE}
      BY Zenon DEF ReportsInit
    <3> QED BY <3>1, Zenon
  <2>3. /\ subject \in {"bench", "vllm", "sglang", "llamacpp"}
        /\ tokens = 0 /\ busy = 0 /\ restarts = 0 /\ scrapes = <<>> /\ seen = Server
        /\ subject = "vllm" => alias \in GaugeNames
    BY Zenon DEF ReportsInit
  <2>4. tokens \in Nat /\ busy \in Nat /\ restarts \in Nat /\ restarts <= restarts
    BY <2>3
  <2>5. seen.tokens = tokens /\ seen.busy = busy /\ seen.restarts = restarts
    BY <2>3 DEF Server
  <2> QED BY <2>1, <2>2, <2>3, <2>4, <2>5, Zenon DEF ReportsInductive, ServerTyped, Scraped, Window
<1>2. ReportsInductive /\ [ReportsNext]_<<svars, rvars>> => ReportsInductive'
  BY ServerTypedHolds, ScrapedHolds, WindowHolds DEF ReportsInductive
<1> QED BY <1>1, <1>2, PTL DEF ReportsSpec

-------------------------------------------------------------------------------
(* The lines *)

Entries(runtime) == NewObserver(runtime).common \o NewObserver(runtime).native

OnlyEntry(entries, key, k) ==
  /\ k \in DOMAIN entries
  /\ \A i \in DOMAIN entries : entries[i].key = key <=> i = k

(* The line printed under a key is that of its only entry. *)
LEMMA LineOfEntry ==
  ASSUME NEW runtime, NEW b, NEW a, NEW key, NEW k, OnlyEntry(Entries(runtime), key, k)
  PROVE  PrintObservations(runtime, b, a)[key]
           = PrintObservation(Entries(runtime)[k], b, a)
<1> DEFINE entries == Entries(runtime)
           Keys == {entries[i].key : i \in DOMAIN entries}
           Position(n) == CHOOSE i \in DOMAIN entries : entries[i].key = n
           line == [n \in Keys |-> PrintObservation(entries[Position(n)], b, a)]
<1>1. PrintObservations(runtime, b, a) = line
  BY Zenon DEF PrintObservations, Entries
<1>2. key \in Keys
  BY Zenon DEF OnlyEntry
<1>3. Position(key) = k
  BY DEF OnlyEntry
<1>4. line[key] = PrintObservation(entries[Position(key)], b, a)
  BY <1>2, Zenon
<1> QED BY <1>1, <1>3, <1>4, Zenon

(* Where the two lines of llama.cpp and the line of vLLM come from *)
LEMMA LlamaLines ==
  ASSUME NEW b, NEW a
  PROVE  /\ PrintObservations("llamacpp", b, a)["generated_tokens"]
              = PrintObservation(LlamaCPP.common[2], b, a)
         /\ PrintObservations("llamacpp", b, a)["generation_rate"]
              = PrintObservation(LlamaCPP.native[2], b, a)
<1>1. NewObserver("llamacpp") = LlamaCPP
  BY "llamacpp" # "vllm", "llamacpp" # "sglang", Zenon DEF NewObserver
<1>2. Entries("llamacpp") = LlamaCPP.common \o LlamaCPP.native
  BY <1>1, Zenon DEF Entries
<1>3. /\ DOMAIN (LlamaCPP.common \o LlamaCPP.native) = 1..7
      /\ (LlamaCPP.common \o LlamaCPP.native)[2] = LlamaCPP.common[2]
      /\ (LlamaCPP.common \o LlamaCPP.native)[6] = LlamaCPP.native[2]
  BY DEF LlamaCPP, Common, Entry
<1>4. /\ \A i \in 1..7 : (LlamaCPP.common \o LlamaCPP.native)[i].key = "generated_tokens"
                           <=> i = 2
      /\ \A i \in 1..7 : (LlamaCPP.common \o LlamaCPP.native)[i].key = "generation_rate"
                           <=> i = 6
      /\ 2 \in 1..7 /\ 6 \in 1..7
  BY DEF LlamaCPP, Common, Entry
<1>5. /\ OnlyEntry(Entries("llamacpp"), "generated_tokens", 2)
      /\ OnlyEntry(Entries("llamacpp"), "generation_rate", 6)
  BY <1>2, <1>3, <1>4, Zenon DEF OnlyEntry
<1>6. /\ Entries("llamacpp")[2] = LlamaCPP.common[2]
      /\ Entries("llamacpp")[6] = LlamaCPP.native[2]
  BY <1>2, <1>3, Zenon
<1>7. \A k : OnlyEntry(Entries("llamacpp"), "generated_tokens", k) =>
             PrintObservations("llamacpp", b, a)["generated_tokens"]
               = PrintObservation(Entries("llamacpp")[k], b, a)
  BY LineOfEntry
<1>8. \A k : OnlyEntry(Entries("llamacpp"), "generation_rate", k) =>
             PrintObservations("llamacpp", b, a)["generation_rate"]
               = PrintObservation(Entries("llamacpp")[k], b, a)
  BY LineOfEntry
<1> QED BY <1>5, <1>6, <1>7, <1>8, Zenon

(* The line of the cache, likewise *)
LEMMA VLLMLine ==
  ASSUME NEW b, NEW a
  PROVE  PrintObservations("vllm", b, a)["gpu_kv_cache"]
           = PrintObservation(VLLM.native[2], b, a)
<1>1. NewObserver("vllm") = VLLM
  BY "vllm" # "llamacpp", "vllm" # "sglang", Zenon DEF NewObserver
<1>2. Entries("vllm") = VLLM.common \o VLLM.native
  BY <1>1, Zenon DEF Entries
<1>3. /\ DOMAIN (VLLM.common \o VLLM.native) = 1..10
      /\ (VLLM.common \o VLLM.native)[6] = VLLM.native[2]
  BY DEF VLLM, Common, Entry
<1>4. /\ \A i \in 1..10 : (VLLM.common \o VLLM.native)[i].key = "gpu_kv_cache" <=> i = 6
      /\ 6 \in 1..10
  BY DEF VLLM, Common, Entry
<1>5. OnlyEntry(Entries("vllm"), "gpu_kv_cache", 6)
  BY <1>2, <1>3, <1>4, Zenon DEF OnlyEntry
<1>6. Entries("vllm")[6] = VLLM.native[2]
  BY <1>2, <1>3, Zenon
<1>7. \A k : OnlyEntry(Entries("vllm"), "gpu_kv_cache", k) =>
             PrintObservations("vllm", b, a)["gpu_kv_cache"]
               = PrintObservation(Entries("vllm")[k], b, a)
  BY LineOfEntry
<1> QED BY <1>5, <1>6, <1>7, Zenon

-------------------------------------------------------------------------------
(* llama.cpp *)

(* What is read from a snapshot of llama.cpp *)
LEMMA LlamaLookups ==
  ASSUME NEW s, NEW at, LlamaRead(s, at)
  PROVE  /\ Lookup(s, Count) = Present(at.tokens)
         /\ at.timed => Lookup(s, Seconds) = Present(at.busy)
         /\ ~at.timed => Lookup(s, Seconds) = Absent
<1>1. Count \in DOMAIN s /\ s[Count] = at.tokens
  BY Zenon DEF LlamaRead
<1>2. at.timed => Seconds \in DOMAIN s /\ s[Seconds] = at.busy
  BY Zenon DEF LlamaRead
<1>3. ~at.timed => Seconds \notin DOMAIN s
  <2>1. Count # Seconds
    BY DEF Count, Seconds
  <2> QED BY <2>1, Zenon DEF LlamaRead
<1> QED BY <1>1, <1>2, <1>3, Zenon DEF Lookup

(* One name is read under that name. *)
LEMMA OnlyName ==
  ASSUME NEW b, NEW a, NEW n
  PROVE  Source(b, a, <<n>>) = n
<1>1. DOMAIN <<n>> = {1} /\ <<n>>[1] = n
  OBVIOUS
<1>2. \A s : Found(s, <<n>>) = {} \/ Found(s, <<n>>) = {1}
  BY <1>1 DEF Found
<1>3. Min({1}) = 1
  BY DEF Min
<1> QED BY <1>1, <1>2, <1>3 DEF Source

(* The two lines as the differences of what the server said *)
LlamaPrinted(b, a, t0, t1, s0, s1) ==
  /\ PrintObservation(LlamaCPP.common[2], b, a) = <<t1 - t0>>
  /\ Lookup(b, Seconds) = Present(s0) /\ Lookup(a, Seconds) = Present(s1)
     => PrintObservation(LlamaCPP.native[2], b, a)
          = IF s1 - s0 >= MinSeconds THEN <<<<t1 - t0, s1 - s0>>>> ELSE <<>>
  /\ Lookup(b, Seconds) = Absent \/ Lookup(a, Seconds) = Absent
     => PrintObservation(LlamaCPP.native[2], b, a) = <<>>

(* They are printed so when both snapshots have the tokens. *)
LEMMA LlamaPrints ==
  ASSUME NEW b, NEW a, NEW t0 \in Nat, NEW t1 \in Nat, NEW s0 \in Nat, NEW s1 \in Nat,
         Lookup(b, Count) = Present(t0), Lookup(a, Count) = Present(t1)
  PROVE  LlamaPrinted(b, a, t0, t1, s0, s1)
<1>1. /\ LlamaCPP.common[2] = Entry("generated_tokens", "delta", <<Count>>)
      /\ LlamaCPP.native[2] = Entry("generation_rate", "quotient", <<Count, Seconds>>)
  BY DEF LlamaCPP, Common, Count, Seconds
<1>2. Delta(Lookup(b, Count), Lookup(a, Count)) = Present(t1 - t0)
  BY DEF Delta, Present
<1>3. PrintObservation(LlamaCPP.common[2], b, a) = <<t1 - t0>>
  <2> DEFINE e == Entry("generated_tokens", "delta", <<Count>>)
  <2>1. e.format = "delta" /\ e.names = <<Count>>
    BY DEF Entry
  <2>2. /\ Observe(e, b, a).before = Lookup(b, Count)
        /\ Observe(e, b, a).after = Lookup(a, Count)
    BY <2>1, OnlyName DEF Observe, Observation
  <2> HIDE DEF e
  <2>3. PrintObservation(e, b, a)
          = IF Delta(Observe(e, b, a).before, Observe(e, b, a).after).present
            THEN <<Delta(Observe(e, b, a).before, Observe(e, b, a).after).value>> ELSE <<>>
    BY <2>1, Zenon DEF PrintObservation
  <2>4. PrintObservation(e, b, a) = <<t1 - t0>>
    BY <1>2, <2>2, <2>3 DEF Present
  <2> QED BY <1>1, <2>4 DEF e
<1>4. PrintObservation(LlamaCPP.native[2], b, a)
        = LET seconds == Delta(Lookup(b, Seconds), Lookup(a, Seconds))
          IN  IF seconds.present /\ seconds.value >= MinSeconds
              THEN <<<<t1 - t0, seconds.value>>>> ELSE <<>>
  <2> DEFINE e == Entry("generation_rate", "quotient", <<Count, Seconds>>)
             seconds == Delta(Lookup(b, Seconds), Lookup(a, Seconds))
  <2>1. e.format = "quotient" /\ e.names[1] = Count /\ e.names[2] = Seconds
    BY DEF Entry
  <2>2. Observe(e, b, a).after
          = IF seconds.present /\ seconds.value >= MinSeconds
            THEN Present(<<t1 - t0, seconds.value>>) ELSE Absent
    <3> HIDE DEF e
    <3>1. Observe(e, b, a) = RateObservation(b, a, e.names)
      BY <2>1 DEF Observe
    <3>2. RateObservation(b, a, e.names).after
            = LET tokens_ == Delta(Lookup(b, e.names[1]), Lookup(a, e.names[1]))
                  seconds_ == Delta(Lookup(b, e.names[2]), Lookup(a, e.names[2]))
              IN  IF tokens_.present /\ seconds_.present /\ seconds_.value >= MinSeconds
                  THEN Present(<<tokens_.value, seconds_.value>>) ELSE Absent
      BY DEF RateObservation
    <3>3. Delta(Lookup(b, Count), Lookup(a, Count)).present
          /\ Delta(Lookup(b, Count), Lookup(a, Count)).value = t1 - t0
      BY <1>2 DEF Present
    <3> QED BY <2>1, <3>1, <3>2, <3>3, Zenon
  <2> HIDE DEF e, seconds
  <2>3. PrintObservation(e, b, a)
          = IF Observe(e, b, a).after.present THEN <<Observe(e, b, a).after.value>> ELSE <<>>
    BY <2>1, "quotient" # "delta", "quotient" # "gauge", "quotient" # "ratio", Zenon
    DEF PrintObservation
  <2>4. PrintObservation(e, b, a)
          = IF seconds.present /\ seconds.value >= MinSeconds
            THEN <<<<t1 - t0, seconds.value>>>> ELSE <<>>
    BY <2>2, <2>3 DEF Present, Absent
  <2> QED BY <1>1, <2>4 DEF e, seconds
<1>5. ASSUME Lookup(b, Seconds) = Present(s0), Lookup(a, Seconds) = Present(s1)
      PROVE  PrintObservation(LlamaCPP.native[2], b, a)
               = IF s1 - s0 >= MinSeconds THEN <<<<t1 - t0, s1 - s0>>>> ELSE <<>>
  <2>1. Delta(Lookup(b, Seconds), Lookup(a, Seconds)) = Present(s1 - s0)
    BY <1>5 DEF Delta, Present
  <2> QED BY <1>4, <2>1 DEF Present
<1>6. ASSUME Lookup(b, Seconds) = Absent \/ Lookup(a, Seconds) = Absent
      PROVE  PrintObservation(LlamaCPP.native[2], b, a) = <<>>
  <2>1. Delta(Lookup(b, Seconds), Lookup(a, Seconds)) = Absent
    BY <1>6 DEF Delta, Absent
  <2> QED BY <1>4, <2>1 DEF Absent
<1> QED BY <1>3, <1>5, <1>6 DEF LlamaPrinted

(* While the server has not restarted, the rate of llama.cpp is the work of*)
(* the window over its time, and whatever happened it divides the printed  *)
(* difference of tokens by a time that is not too short.                   *)
THEOREM RateIsOfTheWindow == ReportsSpec => []RateOfTheWindow
<1>1. ReportsInductive => RateOfTheWindow
  <2> SUFFICES ASSUME ReportsInductive, Observed, subject = "llamacpp"
               PROVE  /\ restarts = seen.restarts =>
                           Lines["generation_rate"]
                             = IF timed /\ busy - seen.busy >= MinSeconds
                               THEN <<<<tokens - seen.tokens, busy - seen.busy>>>> ELSE <<>>
                      /\ Lines["generation_rate"] # <<>> =>
                           /\ Lines["generation_rate"][1][2] >= MinSeconds
                           /\ Lines["generated_tokens"] = <<Lines["generation_rate"][1][1]>>
    BY DEF RateOfTheWindow
  <2>1. PICK b, a : scrapes = <<b, a>> /\ First(b) /\ Second(a)
    BY DEF ReportsInductive, Scraped, Observed
  <2>2. LlamaRead(b, seen) /\ LlamaRead(a, Server)
    BY <2>1 DEF First, Second
  <2>3. /\ tokens \in Nat /\ busy \in Nat
        /\ seen.tokens \in Nat /\ seen.busy \in Nat
        /\ restarts = seen.restarts => seen.timed = timed
    BY <2>1, Zenon DEF ReportsInductive, ServerTyped, Window
  <2>4. Server.tokens = tokens /\ Server.busy = busy /\ Server.timed = timed
    BY DEF Server
  <2>5. Lookup(b, Count) = Present(seen.tokens) /\ Lookup(a, Count) = Present(tokens)
    BY <2>2, <2>4, LlamaLookups, Zenon
  <2>6. /\ Lookup(b, Seconds) = Present(seen.busy) \/ Lookup(b, Seconds) = Absent
        /\ Lookup(a, Seconds) = Present(busy) \/ Lookup(a, Seconds) = Absent
        /\ restarts = seen.restarts /\ timed =>
             Lookup(b, Seconds) = Present(seen.busy) /\ Lookup(a, Seconds) = Present(busy)
        /\ ~timed => Lookup(a, Seconds) = Absent
    BY <2>2, <2>3, <2>4, LlamaLookups, Zenon
  <2> DEFINE rate == PrintObservation(LlamaCPP.native[2], b, a)
             generated == PrintObservation(LlamaCPP.common[2], b, a)
  <2>7. Lines["generation_rate"] = rate /\ Lines["generated_tokens"] = generated
    <3>1. Lines = PrintObservations("llamacpp", b, a)
      BY <2>1 DEF Lines
    <3> QED BY <3>1, LlamaLines
  <2>8. /\ generated = <<tokens - seen.tokens>>
        /\ Lookup(b, Seconds) = Present(seen.busy) /\ Lookup(a, Seconds) = Present(busy)
           => rate = IF busy - seen.busy >= MinSeconds
                     THEN <<<<tokens - seen.tokens, busy - seen.busy>>>> ELSE <<>>
        /\ Lookup(b, Seconds) = Absent \/ Lookup(a, Seconds) = Absent => rate = <<>>
    <3>1. LlamaPrinted(b, a, seen.tokens, tokens, seen.busy, busy)
      BY <2>3, <2>5, LlamaPrints, Zenon
    <3> QED BY <3>1 DEF LlamaPrinted
  <2> HIDE DEF rate, generated
  <2>9. CASE Lookup(b, Seconds) = Present(seen.busy) /\ Lookup(a, Seconds) = Present(busy)
    <3>1. rate = IF busy - seen.busy >= MinSeconds
                 THEN <<<<tokens - seen.tokens, busy - seen.busy>>>> ELSE <<>>
      BY <2>8, <2>9, Zenon
    <3>2. timed
      BY <2>6, <2>9 DEF Present, Absent
    <3>3. rate # <<>> => rate[1][2] >= MinSeconds /\ rate[1][1] = tokens - seen.tokens
      BY <3>1
    <3> QED BY <2>7, <2>8, <3>1, <3>2, <3>3, Zenon
  <2>10. CASE Lookup(b, Seconds) = Absent \/ Lookup(a, Seconds) = Absent
    <3>1. rate = <<>>
      BY <2>8, <2>10, Zenon
    <3>2. restarts = seen.restarts => ~timed
      BY <2>6, <2>10 DEF Present, Absent
    <3> QED BY <2>7, <3>1, <3>2, Zenon
  <2> QED BY <2>6, <2>9, <2>10
<1> QED BY <1>1, ReportsInvariance, PTL

-------------------------------------------------------------------------------
(* vLLM *)

Gauges == <<"gpu_cache_usage_perc", "kv_cache_usage_perc">>

(* Both names of the gauge are read, and neither is the counter's. *)
LEMMA GaugesAreNames ==
  /\ VLLM.native[2] = Entry("gpu_kv_cache", "ratio", Gauges)
  /\ DOMAIN Gauges = {1, 2} /\ Gauges[1] # Gauges[2]
  /\ Gauges[1] # Generated /\ Gauges[2] # Generated
  /\ GaugeNames = {Gauges[1], Gauges[2]}
<1>1. VLLM.native[2] = Entry("gpu_kv_cache", "ratio", Gauges)
  BY DEF VLLM, Gauges
<1>2. /\ DOMAIN Gauges = {1, 2} /\ Gauges[1] # Gauges[2]
      /\ Gauges[1] # Generated /\ Gauges[2] # Generated
  BY DEF Gauges, Generated
<1>3. GaugeNames = {Gauges[1], Gauges[2]}
  BY DEF GaugeNames, VLLM, Gauges, Range, Entry
<1> QED BY <1>1, <1>2, <1>3

(* The gauge is read under a name of its own, the one the later snapshot   *)
(* has if it has one of the two.                                           *)
LEMMA GaugeSource ==
  ASSUME NEW b, NEW a
  PROVE  /\ Source(b, a, Gauges) \in GaugeNames
         /\ \A n \in GaugeNames : DOMAIN a = {n, Generated} => Source(b, a, Gauges) = n
<1>1. Min({1}) = 1 /\ Min({2}) = 2 /\ Min({1, 2}) = 1
  BY DEF Min
<1>2. \A s : Found(s, Gauges) \in {{}, {1}, {2}, {1, 2}}
  <2>1. \A s : Found(s, Gauges) \subseteq {1, 2}
    BY GaugesAreNames DEF Found
  <2> QED BY <2>1
<1>3. Source(b, a, Gauges) \in GaugeNames
  BY <1>1, <1>2, GaugesAreNames DEF Source
<1>4. ASSUME NEW n \in GaugeNames, DOMAIN a = {n, Generated}
      PROVE  Source(b, a, Gauges) = n
  <2>1. \A i \in {1, 2} : Gauges[i] \in DOMAIN a <=> Gauges[i] = n
    BY <1>4, GaugesAreNames
  <2>2. Found(a, Gauges) = {i \in {1, 2} : Gauges[i] = n}
    BY <2>1, GaugesAreNames DEF Found
  <2>3. CASE n = Gauges[1]
    <3>1. Found(a, Gauges) = {1}
      BY <2>2, <2>3, GaugesAreNames
    <3> QED BY <1>1, <2>3, <3>1 DEF Source
  <2>4. CASE n = Gauges[2]
    <3>1. Found(a, Gauges) = {2}
      BY <2>2, <2>4, GaugesAreNames
    <3> QED BY <1>1, <2>4, <3>1 DEF Source
  <2> QED BY <1>4, <2>3, <2>4, GaugesAreNames
<1> QED BY <1>3, <1>4

(* A line of one or two values ends with the later one. *)
LEMMA LastOfLine ==
  ASSUME NEW entry, entry.format = "ratio", NEW b, NEW a,
         Observe(entry, b, a).after.present
  PROVE  PrintObservation(entry, b, a)[Len(PrintObservation(entry, b, a))]
           = FormatPercent(Observe(entry, b, a).after.value)
<1> DEFINE o == Observe(entry, b, a)
           values == FormatObservationValues(o)
           line == [i \in DOMAIN values |-> FormatPercent(values[i])]
<1>1. PrintObservation(entry, b, a) = line
  BY "ratio" # "delta", "ratio" # "gauge", "ratio" # "rate", "ratio" # "quotient", Zenon
  DEF PrintObservation
<1> HIDE DEF o
<1>2. values = <<o.before.value, o.after.value>> \/ values = <<o.after.value>>
  <2>1. o.after.present
    BY DEF o
  <2>2. CASE o.before.present
    <3>1. values = <<o.before.value>> \o <<o.after.value>>
      BY <2>1, <2>2, Zenon DEF FormatObservationValues
    <3> QED BY <3>1, PairJoined, Zenon
  <2>3. CASE ~o.before.present
    <3>1. values = <<>> \o <<o.after.value>>
      BY <2>1, <2>3, Zenon DEF FormatObservationValues
    <3>2. <<>> \o <<o.after.value>> = <<o.after.value>>
      OBVIOUS
    <3> QED BY <3>1, <3>2, Zenon
  <2> QED BY <2>2, <2>3
<1> HIDE DEF values
<1>3. line[Len(line)] = FormatPercent(o.after.value)
  <2>1. CASE values = <<o.before.value, o.after.value>>
    <3>1. line = <<FormatPercent(o.before.value), FormatPercent(o.after.value)>>
      BY <2>1
    <3> QED BY <3>1
  <2>2. CASE values = <<o.after.value>>
    <3>1. line = <<FormatPercent(o.after.value)>>
      BY <2>2
    <3> QED BY <3>1
  <2> QED BY <1>2, <2>1, <2>2
<1> QED BY <1>1, <1>3 DEF o

(* The cache is called high exactly when vLLM has just reported at least   *)
(* 90 percent, under either name of the gauge, and that is then the last   *)
(* value on the line of the cache.                                         *)
THEOREM CacheStatementIsItsLine == ReportsSpec => []CacheStatementMatchesLine
<1>1. ReportsInductive => CacheStatementMatchesLine
  <2> SUFFICES ASSUME ReportsInductive, Observed PROVE CacheStatementMatchesLine
    BY DEF CacheStatementMatchesLine
  <2>1. PICK b, a : scrapes = <<b, a>> /\ First(b) /\ Second(a)
    BY DEF ReportsInductive, Scraped, Observed
  <2> DEFINE e == VLLM.native[2]
             o == Observe(e, b, a)
             high == CacheIsHigh(subject, scrapes[1], scrapes[2])
             line == Lines["gpu_kv_cache"]
             source == Source(b, a, Gauges)
  <2>2. high <=> subject = "vllm" /\ o.after.present /\ 10 * o.after.value >= 900
    BY <2>1 DEF CacheIsHigh, Whole
  <2>3. o.after = Lookup(a, source)
    <3>1. e.format = "ratio" /\ e.names = Gauges
      BY GaugesAreNames DEF Entry
    <3> HIDE DEF e
    <3>2. o = Observation(b, a, Gauges)
      BY <3>1 DEF Observe
    <3> QED BY <3>2 DEF Observation
  <2>4. subject = "vllm" => VLLMRead(a) /\ alias \in GaugeNames
    BY <2>1, Zenon DEF Second, ReportsInductive, ServerTyped
  <2>5. CASE subject = "vllm" /\ cache = <<>>
    <3>1. source \notin DOMAIN a
      BY <2>4, <2>5, GaugeSource, GaugesAreNames DEF VLLMRead
    <3>2. ~o.after.present
      BY <2>3, <3>1 DEF Lookup, Absent
    <3> QED BY <2>2, <2>5, <3>2 DEF CacheStatementMatchesLine
  <2>6. CASE subject = "vllm" /\ Len(cache) = 1
    <3>1. cache[1] \in 0..100
      <4>1. cache \in Seq(0..Whole)
        BY Zenon DEF ReportsInductive, ServerTyped
      <4>2. 1 \in 1..Len(cache)
        BY <2>6
      <4>3. cache[1] \in 0..Whole
        BY <4>1, <4>2, ElementOfSeq, Zenon
      <4> QED BY <4>3 DEF Whole
    <3>2. DOMAIN a = {alias, Generated} /\ a[alias] = cache[1] /\ alias \in GaugeNames
      BY <2>4, <2>6 DEF VLLMRead
    <3>3. source = alias
      BY <3>2, GaugeSource
    <3>4. o.after = Present(cache[1])
      BY <2>3, <3>2, <3>3 DEF Lookup
    <3>5. o.after.present /\ o.after.value = cache[1]
      BY <3>4 DEF Present
    <3>6. Lines = PrintObservations("vllm", b, a)
      BY <2>1, <2>6 DEF Lines
    <3>7. line = PrintObservation(e, b, a)
      BY <3>6, VLLMLine
    <3>8. line[Len(line)] = FormatPercent(cache[1])
      <4>1. e.format = "ratio"
        BY GaugesAreNames DEF Entry
      <4> HIDE DEF e, line
      <4> QED BY <3>5, <3>7, <4>1, LastOfLine, Zenon
    <3>9. FormatPercent(cache[1]) = 100 * cache[1]
      BY <3>1 DEF FormatPercent, Whole
    <3>10. high <=> cache[1] >= 90
      <4> HIDE DEF high, o
      <4> QED BY <2>2, <2>6, <3>1, <3>5
    <3> HIDE DEF high, line
    <3>11. cache # <<>>
      BY <2>6
    <3> QED BY <2>6, <3>8, <3>9, <3>10, <3>11, Zenon DEF CacheStatementMatchesLine, high, line
  <2>7. CASE subject # "vllm"
    BY <2>2, <2>7 DEF CacheStatementMatchesLine
  <2>8. CASE subject = "vllm" /\ cache # <<>> /\ Len(cache) # 1
    BY <2>8 DEF CacheStatementMatchesLine
  <2> QED BY <2>5, <2>6, <2>7, <2>8
<1> QED BY <1>1, ReportsInvariance, PTL
===============================================================================
