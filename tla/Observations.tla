----------------------------- MODULE Observations -----------------------------
(***************************************************************************)
(* From two Prometheus payloads to an observation (metrics/metrics.go,     *)
(* runtime/runtime.go). No state; ServeProbe.tla uses these operators on   *)
(* the payloads it fetches.                                                *)
(*                                                                         *)
(* A payload is a sequence of lines. A line is a "sample" of a name, under *)
(* some labels, with a value; or a sample of a histogram "series" (_bucket,*)
(* _sum, _count); or anything "else": blank, a comment, malformed. Values  *)
(* are integers.                                                           *)
(***************************************************************************)
EXTENDS Integers, Sequences, FiniteSets, Functions, FiniteSetsExt

Absent == [present |-> FALSE, value |-> 0]
Present(v) == [present |-> TRUE, value |-> v]

Samples(payload) == {i \in DOMAIN payload : payload[i].kind = "sample"}

(* Mutated: the last line of a name wins.                                  *)
ParseSnapshot_LastWins(payload) ==
  [n \in {payload[i].name : i \in Samples(payload)} |->
     payload[Max({i \in Samples(payload) : payload[i].name = n})].value]

(* The samples of a name are summed over their labels.                     *)
ParseSnapshot(payload) ==
  LET value == [i \in DOMAIN payload |-> payload[i].value]
  IN  [n \in {payload[i].name : i \in Samples(payload)} |->
         SumFunctionOnSet(value, {i \in Samples(payload) : payload[i].name = n})]

Lookup(snapshot, name) ==
  IF name \in DOMAIN snapshot THEN Present(snapshot[name]) ELSE Absent

(* first(): the position of the first of these names in the snapshot       *)
Found(snapshot, names) == {i \in DOMAIN names : names[i] \in DOMAIN snapshot}

(* The name both snapshots are read under: the first the later one has,    *)
(* else the first the earlier one has, else the first.                     *)
Source(before, after, names) ==
  LET later == Found(after, names)
      early == Found(before, names)
  IN  IF later # {} THEN names[Min(later)]
      ELSE IF early # {} THEN names[Min(early)]
      ELSE names[1]

(* Mutated: each snapshot is read under the first name it has itself.      *)
Observation_EachItsOwn(before, after, names) ==
  [source |-> Source(before, after, names),
   before |-> Lookup(before, Source(before, before, names)),
   after  |-> Lookup(after, Source(after, after, names))]

Observation(before, after, names) ==
  LET source == Source(before, after, names)
  IN  [source |-> source,
       before |-> Lookup(before, source),
       after  |-> Lookup(after, source)]

Delta(before, after) ==
  IF before.present /\ after.present
  THEN Present(after.value - before.value) ELSE Absent
===============================================================================
