------------------------------ MODULE Percentiles ------------------------------
(***************************************************************************)
(* The percentiles of a list of latencies (bench/bench.go, percentileSum-  *)
(* mary and below). The list is a function on the slots its values come    *)
(* from; a sort orders them.                                               *)
(***************************************************************************)
EXTENDS Integers, Sequences, FiniteSets

(* Mutated: the values stay in the order of their slots.                   *)
Precedes_BySlot(values, i, j) == i < j

(* sort.Float64s puts value i before value j. Which of two equal values    *)
(* comes first makes no difference; here it is that of the lower slot.     *)
Precedes(values, i, j) ==
  values[i] < values[j] \/ (values[i] = values[j] /\ i < j)

Sorted(values) ==
  LET before == [i \in DOMAIN values |->
                   Cardinality({j \in DOMAIN values : Precedes(values, j, i)})]
  IN  [k \in 1..Cardinality(DOMAIN values) |->
         values[CHOOSE i \in DOMAIN values : before[i] = k - 1]]

(* Nearest rank: Ceil(p / 100 * n), kept within 1..n.                      *)
Percentile(sorted, p) ==
  IF sorted = <<>> THEN 0
  ELSE LET n    == Len(sorted)
           rank == (p * n + 99) \div 100
       IN  sorted[IF rank < 1 THEN 1 ELSE IF rank > n THEN n ELSE rank]

MaxValue(sorted) == IF sorted = <<>> THEN 0 ELSE sorted[Len(sorted)]

PercentileSummary(values) ==
  LET sorted == Sorted(values)
  IN  [p50 |-> Percentile(sorted, 50),
       p95 |-> Percentile(sorted, 95),
       max |-> MaxValue(sorted)]

-------------------------------------------------------------------------------
(* What is promised *)

AtMost(values, v) == Cardinality({i \in DOMAIN values : values[i] <= v})

(* v is the least of the values that at least p percent of them do not     *)
(* exceed.                                                                 *)
IsNearestRank(values, p, v) ==
  LET n == Cardinality(DOMAIN values)
  IN  /\ \E i \in DOMAIN values : values[i] = v
      /\ 100 * AtMost(values, v) >= p * n
      /\ \A i \in DOMAIN values :
           values[i] < v => 100 * AtMost(values, values[i]) < p * n

(* Zero stands for the percentiles of nothing.                             *)
IsSummary(values, s) ==
  IF DOMAIN values = {} THEN s.p50 = 0 /\ s.p95 = 0 /\ s.max = 0
  ELSE /\ IsNearestRank(values, 50, s.p50)
       /\ IsNearestRank(values, 95, s.p95)
       /\ IsNearestRank(values, 100, s.max)
===============================================================================
