------------------------------ MODULE DataProofs -------------------------------
(***************************************************************************)
(* Lemmas on the data the models are built from: the length of sequences   *)
(* that are joined, and sums of a function over a finite set, as           *)
(* SumFunctionOnSet computes them. Such a sum is a recursive function on   *)
(* the subsets of the set; what is true of it is shown by looking at a     *)
(* smallest subset of which it would not be. Last, the sorted list of the  *)
(* benchmark's latencies and what is reported of it.                       *)
(***************************************************************************)
EXTENDS Integers, Sequences, FiniteSets, Functions, BenchSummary, SequenceTheorems,
        FiniteSetTheorems, WellFoundedInduction, TLAPS

(* Joined sequences are as long as both. *)
LEMMA LenOfJoined ==
  ASSUME NEW S, NEW s \in Seq(S), NEW t \in Seq(S)
  PROVE  DOMAIN (s \o t) = 1..(Len(s) + Len(t))
OBVIOUS

(* Two single elements make a pair. *)
LEMMA PairJoined == ASSUME NEW a, NEW b PROVE <<a>> \o <<b>> = <<a, b>>
<1> DEFINE S == {a, b}
<1>1. <<a>> \in Seq(S) /\ <<b>> \in Seq(S) /\ <<a, b>> \in Seq(S)
  OBVIOUS
<1>2. <<a>> \o <<b>> \in Seq(S) /\ Len(<<a>> \o <<b>>) = Len(<<a, b>>)
  BY <1>1
<1>3. ASSUME NEW i \in 1..Len(<<a>> \o <<b>>) PROVE (<<a>> \o <<b>>)[i] = <<a, b>>[i]
  <2>1. i \in 1..2
    BY <1>1
  <2>2. i = 1 \/ i = 2
    BY <2>1
  <2> QED BY <1>1, <2>2
<1> QED BY <1>1, <1>2, <1>3, SeqEqual

(* The first n numbers are n numbers. *)
LEMMA CountTo ==
  ASSUME NEW n \in Nat PROVE IsFiniteSet(1..n) /\ Cardinality(1..n) = n
<1>1. 1 \in Int /\ n \in Int
  OBVIOUS
<1>2. IsFiniteSet(1..n) /\ Cardinality(1..n) = IF 1 > n THEN 0 ELSE n - 1 + 1
  BY <1>1, FS_Interval, Zenon
<1> QED BY <1>2

(* A non-empty set of positions has a greatest element: the positions from *)
(* an element on form a strictly smaller set than those from a lesser one, *)
(* and strict inclusion of finite sets is well-founded.                    *)
LEMMA GreatestElement ==
  ASSUME NEW n \in Nat, NEW S \in SUBSET (1..n), S # {}
  PROVE  \E k \in S : \A j \in S : j <= k
<1> DEFINE From(i) == {j \in S : j >= i}
           T == {From(i) : i \in S}
<1>1. IsFiniteSet(S)
  BY 1 \in Int, n \in Int, FS_Interval, FS_Subset
<1>2. IsWellFoundedOn(StrictSubsetOrdering(S), FiniteSubsetsOf(S))
  BY FS_StrictSubsetOrderingWellFounded
<1>3. T \subseteq FiniteSubsetsOf(S) /\ T # {}
  <2>1. \A i \in S : From(i) \in SUBSET S
    OBVIOUS
  <2>2. \A i \in S : IsFiniteSet(From(i))
    BY <1>1, <2>1, FS_Subset
  <2> QED BY <2>1, <2>2 DEF FiniteSubsetsOf
<1>4. \E x \in T : \A y \in T : <<y, x>> \notin StrictSubsetOrdering(S)
  <2> HIDE DEF T
  <2> QED BY <1>2, <1>3, WFMin
<1>5. PICK k \in S : \A j \in S : <<From(j), From(k)>> \notin StrictSubsetOrdering(S)
  BY <1>4
<1>6. S \subseteq Int
  OBVIOUS
<1>7. ASSUME NEW j \in S, j > k
      PROVE  <<From(j), From(k)>> \in StrictSubsetOrdering(S)
  <2>1. ASSUME NEW i \in From(j) PROVE i \in From(k)
    <3>1. i \in Int /\ j \in Int /\ k \in Int /\ i \in S /\ i >= j
      BY <1>6, <2>1
    <3> QED BY <3>1, <1>7
  <2>2. k \in From(k) /\ k \notin From(j)
    BY <1>6, <1>7
  <2> QED BY <2>1, <2>2 DEF StrictSubsetOrdering
<1>8. \A j \in S : ~(j > k)
  BY <1>5, <1>7
<1> QED BY <1>6, <1>8

-------------------------------------------------------------------------------
(* A definition by recursion from the end of a sequence of length n, where *)
(* a position looks at the two behind it                                   *)
Backward(f, n, base, step) ==
  \A i \in 1..n + 2 : f[i] = IF i > n THEN base ELSE step[i][f[i + 1]][f[i + 2]]

(* It has a solution. *)
LEMMA BackwardRecursion ==
  ASSUME NEW n \in Nat, NEW V, NEW base \in V, NEW step \in [1..n -> [V -> [V -> V]]]
  PROVE  \E f \in [1..n + 2 -> V] : Backward(f, n, base, step)
<1> DEFINE Solves(f, k) ==
             \A i \in 1..n + 2 :
               i > k => f[i] = IF i > n THEN base ELSE step[i][f[i + 1]][f[i + 2]]
           B == {m \in 1..n + 1 : \E f \in [1..n + 2 -> V] : Solves(f, n + 1 - m)}
<1>1. 1 \in B
  <2> DEFINE f == [i \in 1..n + 2 |-> base]
  <2>1. f \in [1..n + 2 -> V] /\ Solves(f, n)
    OBVIOUS
  <2>2. 1 \in 1..n + 1 /\ n + 1 - 1 = n
    OBVIOUS
  <2> HIDE DEF f, Solves
  <2> QED BY <2>1, <2>2
<1>2. PICK m \in B : \A j \in B : j <= m
  <2>1. B \in SUBSET (1..n + 1) /\ n + 1 \in Nat
    OBVIOUS
  <2> HIDE DEF B
  <2> QED BY <1>1, <2>1, GreatestElement
<1>3. PICK f \in [1..n + 2 -> V] : Solves(f, n + 1 - m)
  BY <1>2, Zenon
<1>4. m \in 1..n + 1
  BY <1>2
<1>5. ASSUME m < n + 1 PROVE FALSE
  <2> DEFINE k == n + 1 - m
             g == [f EXCEPT ![k] = step[k][f[k + 1]][f[k + 2]]]
  <2>1. k \in 1..n /\ k + 1 \in 1..n + 2 /\ k + 2 \in 1..n + 2
    BY <1>4, <1>5
  <2>2. step[k][f[k + 1]][f[k + 2]] \in V
    BY <2>1
  <2>3. g \in [1..n + 2 -> V]
    BY <2>2
  <2>4. g[k] = step[k][f[k + 1]][f[k + 2]] /\ \A i \in 1..n + 2 : i # k => g[i] = f[i]
    BY <2>1
  <2>5. Solves(f, k)
    BY <1>3
  <2>6. Solves(g, k - 1)
    <3> SUFFICES ASSUME NEW i \in 1..n + 2, i > k - 1
                 PROVE  g[i] = IF i > n THEN base ELSE step[i][g[i + 1]][g[i + 2]]
      OBVIOUS
    <3> HIDE DEF g, k
    <3>1. CASE i = k
      <4>1. k + 1 # k /\ k + 2 # k /\ ~(i > n)
        BY <2>1, <3>1
      <4>2. g[k + 1] = f[k + 1] /\ g[k + 2] = f[k + 2]
        BY <2>1, <2>4, <4>1
      <4> QED BY <2>4, <3>1, <4>1, <4>2
    <3>2. CASE i > k
      <4>1. g[i] = f[i] /\ f[i] = IF i > n THEN base ELSE step[i][f[i + 1]][f[i + 2]]
        BY <2>1, <2>4, <2>5, <3>2
      <4>2. CASE i <= n
        <5>1. i + 1 \in 1..n + 2 /\ i + 2 \in 1..n + 2 /\ i + 1 # k /\ i + 2 # k
          BY <2>1, <3>2, <4>2
        <5>2. g[i + 1] = f[i + 1] /\ g[i + 2] = f[i + 2]
          BY <2>4, <5>1
        <5> QED BY <4>1, <5>2
      <4>3. CASE i > n
        BY <4>1, <4>3
      <4> QED BY <4>2, <4>3
    <3>3. i = k \/ i > k
      BY <2>1
    <3> QED BY <3>1, <3>2, <3>3
  <2>7. m + 1 \in 1..n + 1 /\ n + 1 - (m + 1) = k - 1
    BY <1>4, <1>5
  <2> HIDE DEF g, k, Solves
  <2>8. m + 1 \in B
    BY <2>3, <2>6, <2>7, Zenon
  <2> HIDE DEF B
  <2> QED BY <1>2, <1>4, <2>8
<1>6. n + 1 - m = 0
  BY <1>4, <1>5
<1>7. Solves(f, 0)
  BY <1>3, <1>6
<1>8. Backward(f, n, base, step)
  BY <1>7 DEF Backward
<1> QED BY <1>8, Zenon

-------------------------------------------------------------------------------
(* The element an unordered sum takes out of a set first *)
Pick(s) == CHOOSE x \in s : TRUE

(* f sums v over every subset of S, in the order in which Pick takes the   *)
(* elements.                                                               *)
IsSum(v, S, f) ==
  f = [s \in SUBSET S |-> IF s = {} THEN 0 ELSE v[Pick(s)] + f[s \ {Pick(s)}]]

SumOf(v, S) == CHOOSE f : IsSum(v, S, f)

Total(v, S) == SumOf(v, S)[S]

-------------------------------------------------------------------------------
(* What is not true of all subsets fails for a smallest one. *)
LEMMA SmallestSubset ==
  ASSUME NEW S, IsFiniteSet(S), NEW B \in SUBSET (SUBSET S), B # {}
  PROVE  \E m \in B : \A u \in SUBSET m : u # m => u \notin B
<1>1. IsWellFoundedOn(StrictSubsetOrdering(S), FiniteSubsetsOf(S))
  BY FS_StrictSubsetOrderingWellFounded
<1>2. B \subseteq FiniteSubsetsOf(S)
  BY FS_Subset DEF FiniteSubsetsOf
<1>3. PICK m \in B : \A u \in B : <<u, m>> \notin StrictSubsetOrdering(S)
  BY <1>1, <1>2, WFMin
<1> QED BY <1>3 DEF StrictSubsetOrdering

(* Something is picked from a set that is not empty.                       *)
LEMMA PickIsElement == ASSUME NEW s, s # {} PROVE Pick(s) \in s
BY DEF Pick

(* Two sums of one function agree where both are defined. *)
LEMMA SumsAgree ==
  ASSUME NEW v, NEW S, IsFiniteSet(S), NEW T \in SUBSET S,
         NEW f, IsSum(v, S, f), NEW g, IsSum(v, T, g)
  PROVE  \A s \in SUBSET T : f[s] = g[s]
<1> DEFINE B == {s \in SUBSET T : f[s] # g[s]}
<1>1. SUFFICES ASSUME B # {} PROVE FALSE
  OBVIOUS
<1>2. IsFiniteSet(T)
  BY FS_Subset
<1>3. PICK m \in B : \A u \in SUBSET m : u # m => u \notin B
  <2>1. B \in SUBSET (SUBSET T)
    OBVIOUS
  <2> HIDE DEF B
  <2> QED BY <2>1, <1>1, <1>2, SmallestSubset
<1>4. m \in SUBSET T /\ m \in SUBSET S /\ f[m] # g[m]
  BY <1>3
<1>5. /\ f[m] = IF m = {} THEN 0 ELSE v[Pick(m)] + f[m \ {Pick(m)}]
      /\ g[m] = IF m = {} THEN 0 ELSE v[Pick(m)] + g[m \ {Pick(m)}]
  BY <1>4 DEF IsSum
<1>6. m # {} /\ f[m \ {Pick(m)}] # g[m \ {Pick(m)}]
  BY <1>4, <1>5
<1>7. m \ {Pick(m)} \in SUBSET m /\ m \ {Pick(m)} # m
  BY <1>6, PickIsElement
<1> QED BY <1>3, <1>4, <1>6, <1>7

(* Every finite set has a sum. *)
LEMMA SumExists ==
  ASSUME NEW v, NEW S, IsFiniteSet(S)
  PROVE  IsSum(v, S, SumOf(v, S))
<1> DEFINE B == {T \in SUBSET S : ~ \E f : IsSum(v, T, f)}
<1>1. SUFFICES ASSUME B # {} PROVE FALSE
  <2>1. B = {} => \E f : IsSum(v, S, f)
    OBVIOUS
  <2> QED BY <2>1 DEF SumOf
<1>2. PICK m \in B : \A u \in SUBSET m : u # m => u \notin B
  <2>1. B \in SUBSET (SUBSET S)
    OBVIOUS
  <2> HIDE DEF B
  <2> QED BY <2>1, <1>1, SmallestSubset
<1>3. m \in SUBSET S /\ ~ \E f : IsSum(v, m, f)
  BY <1>2
<1>4. IsFiniteSet(m)
  BY <1>3, FS_Subset
<1>5. ASSUME NEW u \in SUBSET m, u # m PROVE IsSum(v, u, SumOf(v, u))
  BY <1>2, <1>3, <1>5 DEF SumOf
<1>6. ASSUME NEW u \in SUBSET m, u # m, NEW w \in SUBSET u
      PROVE  SumOf(v, u)[w] = Total(v, w)
  <2>1. w \in SUBSET m /\ w # m /\ IsFiniteSet(u)
    BY <1>6, <1>4, FS_Subset
  <2>2. IsSum(v, u, SumOf(v, u)) /\ IsSum(v, w, SumOf(v, w))
    BY <1>5, <1>6, <2>1
  <2> QED BY <2>1, <2>2, SumsAgree DEF Total
<1> DEFINE Step(g, s) == IF s = {} THEN 0 ELSE v[Pick(s)] + g[s \ {Pick(s)}]
           smaller == [s \in SUBSET m |-> Total(v, s)]
           f == [s \in SUBSET m |-> Step(smaller, s)]
<1>7. ASSUME NEW u \in SUBSET m, u # m PROVE f[u] = Total(v, u)
  <2>1. SumOf(v, u)[u] = Step(SumOf(v, u), u)
    BY <1>5, <1>7 DEF IsSum
  <2>2. u # {} => SumOf(v, u)[u \ {Pick(u)}] = smaller[u \ {Pick(u)}]
    BY <1>6, <1>7
  <2> QED BY <2>1, <2>2 DEF Total
<1>8. ASSUME NEW s \in SUBSET m PROVE Step(smaller, s) = Step(f, s)
  <2>1. CASE s = {}
    BY <2>1
  <2>2. CASE s # {}
    <3>1. s \ {Pick(s)} \in SUBSET m /\ s \ {Pick(s)} # m
      BY <2>2, PickIsElement
    <3> QED BY <2>2, <3>1, <1>7
  <2> QED BY <2>1, <2>2
<1>9. IsSum(v, m, f)
  BY <1>8 DEF IsSum
<1> QED BY <1>3, <1>9

(* The library's sum is this one. *)
LEMMA SumIsTotal ==
  ASSUME NEW v, NEW S PROVE SumFunctionOnSet(v, S) = Total(v, S)
BY DEF SumFunctionOnSet, FoldFunctionOnSet, MapThenFoldSet, Total, SumOf, IsSum, Pick

-------------------------------------------------------------------------------
(* The empty sum, and the sum with the picked element taken out first. *)
LEMMA SumEmpty == ASSUME NEW v PROVE SumFunctionOnSet(v, {}) = 0
<1>1. IsSum(v, {}, SumOf(v, {}))
  BY SumExists, FS_EmptySet
<1>2. SumOf(v, {})[{}] = 0
  BY <1>1 DEF IsSum
<1> QED BY <1>2, SumIsTotal DEF Total

(* A sum is what is picked and the sum of the rest.                        *)
LEMMA SumPicked ==
  ASSUME NEW v, NEW S, IsFiniteSet(S), S # {}
  PROVE  SumFunctionOnSet(v, S) = v[Pick(S)] + SumFunctionOnSet(v, S \ {Pick(S)})
<1> DEFINE rest == S \ {Pick(S)}
<1>1. IsFiniteSet(rest) /\ rest \in SUBSET S
  BY FS_Subset
<1>2. IsSum(v, S, SumOf(v, S)) /\ IsSum(v, rest, SumOf(v, rest))
  BY <1>1, SumExists
<1>3. SumOf(v, S)[S] = v[Pick(S)] + SumOf(v, S)[rest]
  BY <1>2 DEF IsSum
<1>4. SumOf(v, S)[rest] = SumOf(v, rest)[rest]
  BY <1>1, <1>2, SumsAgree
<1> QED BY <1>3, <1>4, SumIsTotal DEF Total

(* A sum of integers is an integer. *)
LEMMA SumType ==
  ASSUME NEW v, NEW S, IsFiniteSet(S), \A i \in S : v[i] \in Int
  PROVE  SumFunctionOnSet(v, S) \in Int
<1> DEFINE B == {T \in SUBSET S : SumFunctionOnSet(v, T) \notin Int}
<1>1. SUFFICES ASSUME B # {} PROVE FALSE
  OBVIOUS
<1>2. PICK m \in B : \A u \in SUBSET m : u # m => u \notin B
  <2>1. B \in SUBSET (SUBSET S)
    OBVIOUS
  <2> HIDE DEF B
  <2> QED BY <2>1, <1>1, SmallestSubset
<1>3. m \in SUBSET S /\ SumFunctionOnSet(v, m) \notin Int /\ IsFiniteSet(m)
  BY <1>2, FS_Subset
<1>4. m # {}
  BY <1>3, SumEmpty
<1>5. Pick(m) \in m
  BY <1>4, PickIsElement
<1>6. SumFunctionOnSet(v, m \ {Pick(m)}) \in Int
  BY <1>2, <1>3, <1>5
<1>7. SumFunctionOnSet(v, m) = v[Pick(m)] + SumFunctionOnSet(v, m \ {Pick(m)})
  BY <1>3, <1>4, SumPicked
<1>8. v[Pick(m)] \in Int
  BY <1>3, <1>5
<1> QED BY <1>3, <1>6, <1>7, <1>8

(* Any element may be taken out first: the sum does not depend on the order.*)
LEMMA SumElement ==
  ASSUME NEW v, NEW S, IsFiniteSet(S), \A i \in S : v[i] \in Int, NEW a \in S
  PROVE  SumFunctionOnSet(v, S) = v[a] + SumFunctionOnSet(v, S \ {a})
<1> DEFINE Sum(T) == SumFunctionOnSet(v, T)
           B == {T \in SUBSET S : \E x \in T : Sum(T) # v[x] + Sum(T \ {x})}
<1>1. SUFFICES ASSUME B # {} PROVE FALSE
  OBVIOUS
<1>2. PICK m \in B : \A u \in SUBSET m : u # m => u \notin B
  <2>1. B \in SUBSET (SUBSET S)
    OBVIOUS
  <2> HIDE DEF B
  <2> QED BY <2>1, <1>1, SmallestSubset
<1>3. PICK x \in m : Sum(m) # v[x] + Sum(m \ {x})
  BY <1>2
<1>4. m \in SUBSET S /\ IsFiniteSet(m) /\ m # {}
  BY <1>2, <1>3, FS_Subset
<1> DEFINE p == Pick(m)
           rest == m \ {p}
<1>5. p \in m /\ Sum(m) = v[p] + Sum(rest)
  BY <1>4, SumPicked, PickIsElement
<1>6. x # p
  BY <1>3, <1>5
<1>7. Sum(rest) = v[x] + Sum(rest \ {x})
  <2>1. rest \in SUBSET m /\ rest # m /\ x \in rest
    BY <1>3, <1>5, <1>6
  <2>2. rest \notin B /\ rest \in SUBSET S
    BY <2>1, <1>2, <1>4
  <2> QED BY <2>1, <2>2
<1>8. Sum(m \ {x}) = v[p] + Sum((m \ {x}) \ {p})
  <2>1. m \ {x} \in SUBSET m /\ m \ {x} # m /\ p \in m \ {x}
    BY <1>3, <1>5, <1>6
  <2>2. m \ {x} \notin B /\ m \ {x} \in SUBSET S
    BY <2>1, <1>2, <1>4
  <2> QED BY <2>1, <2>2
<1>9. Sum((m \ {x}) \ {p}) = Sum(rest \ {x})
  <2>1. (m \ {x}) \ {p} = rest \ {x}
    OBVIOUS
  <2> QED BY <2>1, Zenon
<1>10. v[x] \in Int /\ v[p] \in Int /\ Sum(rest \ {x}) \in Int
  <2>1. rest \ {x} \in SUBSET S /\ IsFiniteSet(rest \ {x})
    BY <1>4, FS_Subset
  <2> QED BY <2>1, <1>3, <1>4, <1>5, SumType
<1>11. v[p] + (v[x] + Sum(rest \ {x})) = v[x] + (v[p] + Sum(rest \ {x}))
  <2> DEFINE a1 == v[x]  a2 == v[p]  a3 == Sum(rest \ {x})
  <2>1. a1 \in Int /\ a2 \in Int /\ a3 \in Int
    BY <1>10
  <2> HIDE DEF a1, a2, a3
  <2>2. a2 + (a1 + a3) = a1 + (a2 + a3)
    BY <2>1
  <2> QED BY <2>2 DEF a1, a2, a3
<1> QED BY <1>3, <1>5, <1>7, <1>8, <1>9, <1>11, Zenon

(* The same, for an element that is added. *)
LEMMA SumAdded ==
  ASSUME NEW v, NEW S, IsFiniteSet(S), NEW a, a \notin S,
         \A i \in S \cup {a} : v[i] \in Int
  PROVE  SumFunctionOnSet(v, S \cup {a}) = v[a] + SumFunctionOnSet(v, S)
<1>1. IsFiniteSet(S \cup {a}) /\ (S \cup {a}) \ {a} = S
  BY FS_AddElement
<1> QED BY <1>1, SumElement

(* The sum over one element is its value.                                  *)
LEMMA SumSingle ==
  ASSUME NEW v, NEW a, v[a] \in Int PROVE SumFunctionOnSet(v, {a}) = v[a]
<1>1. SumFunctionOnSet(v, {} \cup {a}) = v[a] + SumFunctionOnSet(v, {})
  BY SumAdded, FS_EmptySet
<1> QED BY <1>1, SumEmpty

(* Sums are compared element by element. *)
LEMMA SumMonotone ==
  ASSUME NEW S, IsFiniteSet(S), NEW v, NEW w,
         \A i \in S : v[i] \in Int /\ w[i] \in Int /\ v[i] <= w[i]
  PROVE  SumFunctionOnSet(v, S) <= SumFunctionOnSet(w, S)
<1> DEFINE B == {T \in SUBSET S : ~ SumFunctionOnSet(v, T) <= SumFunctionOnSet(w, T)}
<1>1. SUFFICES ASSUME B # {} PROVE FALSE
  OBVIOUS
<1>2. PICK m \in B : \A u \in SUBSET m : u # m => u \notin B
  <2>1. B \in SUBSET (SUBSET S)
    OBVIOUS
  <2> HIDE DEF B
  <2> QED BY <2>1, <1>1, SmallestSubset
<1>3. m \in SUBSET S /\ ~ SumFunctionOnSet(v, m) <= SumFunctionOnSet(w, m) /\ IsFiniteSet(m)
  BY <1>2, FS_Subset
<1>4. m # {}
  BY <1>3, SumEmpty
<1> DEFINE p == Pick(m)
           rest == m \ {p}
<1>5. p \in m
  BY <1>4, PickIsElement
<1>6. SumFunctionOnSet(v, rest) <= SumFunctionOnSet(w, rest)
  BY <1>2, <1>3, <1>5
<1>7. /\ SumFunctionOnSet(v, m) = v[p] + SumFunctionOnSet(v, rest)
      /\ SumFunctionOnSet(w, m) = w[p] + SumFunctionOnSet(w, rest)
  BY <1>3, <1>4, SumPicked
<1>8. /\ v[p] \in Int /\ w[p] \in Int /\ v[p] <= w[p]
      /\ SumFunctionOnSet(v, rest) \in Int /\ SumFunctionOnSet(w, rest) \in Int
  <2>1. rest \in SUBSET S /\ IsFiniteSet(rest)
    BY <1>3, FS_Subset
  <2> QED BY <2>1, <1>3, <1>5, SumType
<1> HIDE DEF p, rest
<1> QED BY <1>3, <1>6, <1>7, <1>8

(* Only the values on the set matter. *)
LEMMA SumSame ==
  ASSUME NEW S, IsFiniteSet(S), NEW v, NEW w, \A i \in S : v[i] \in Int /\ w[i] = v[i]
  PROVE  SumFunctionOnSet(w, S) = SumFunctionOnSet(v, S)
<1>1. /\ SumFunctionOnSet(v, S) <= SumFunctionOnSet(w, S)
      /\ SumFunctionOnSet(w, S) <= SumFunctionOnSet(v, S)
  BY SumMonotone
<1>2. SumFunctionOnSet(v, S) \in Int /\ SumFunctionOnSet(w, S) \in Int
  BY SumType
<1> QED BY <1>1, <1>2

(* A sum of natural numbers is one. *)
LEMMA SumNat ==
  ASSUME NEW S, IsFiniteSet(S), NEW v, \A i \in S : v[i] \in Nat
  PROVE  SumFunctionOnSet(v, S) \in Nat
<1> DEFINE B == {T \in SUBSET S : SumFunctionOnSet(v, T) \notin Nat}
<1>1. SUFFICES ASSUME B # {} PROVE FALSE
  OBVIOUS
<1>2. PICK m \in B : \A u \in SUBSET m : u # m => u \notin B
  <2>1. B \in SUBSET (SUBSET S)
    OBVIOUS
  <2> HIDE DEF B
  <2> QED BY <2>1, <1>1, SmallestSubset
<1>3. m \in SUBSET S /\ SumFunctionOnSet(v, m) \notin Nat /\ IsFiniteSet(m)
  BY <1>2, FS_Subset
<1>4. m # {} /\ Pick(m) \in m
  BY <1>3, SumEmpty, PickIsElement
<1>5. SumFunctionOnSet(v, m \ {Pick(m)}) \in Nat
  BY <1>2, <1>3, <1>4
<1>6. SumFunctionOnSet(v, m) = v[Pick(m)] + SumFunctionOnSet(v, m \ {Pick(m)})
  BY <1>3, <1>4, SumPicked
<1> QED BY <1>3, <1>4, <1>5, <1>6

(* One more at one element is one more in the sum. *)
LEMMA SumIncrement ==
  ASSUME NEW S, IsFiniteSet(S), NEW v \in [S -> Int], NEW a \in S
  PROVE  SumFunctionOnSet([v EXCEPT ![a] = @ + 1], S) = SumFunctionOnSet(v, S) + 1
<1> DEFINE w == [v EXCEPT ![a] = @ + 1]
           rest == S \ {a}
<1>1. IsFiniteSet(rest)
  BY FS_Subset
<1>2. \A i \in S : v[i] \in Int /\ w[i] \in Int
  OBVIOUS
<1>3. SumFunctionOnSet(w, rest) = SumFunctionOnSet(v, rest)
  BY <1>1, SumSame
<1>4. /\ SumFunctionOnSet(v, S) = v[a] + SumFunctionOnSet(v, rest)
      /\ SumFunctionOnSet(w, S) = w[a] + SumFunctionOnSet(w, rest)
  <2> HIDE DEF w
  <2> QED BY <1>2, SumElement
<1>5. w[a] = v[a] + 1 /\ v[a] \in Int /\ SumFunctionOnSet(v, rest) \in Int
  BY <1>1, SumType
<1> HIDE DEF w, rest
<1> QED BY <1>3, <1>4, <1>5 DEF w
-------------------------------------------------------------------------------
(* The image of a finite set is finite. *)
LEMMA FiniteImage ==
  ASSUME NEW F, IsFiniteSet(F), NEW key
  PROVE  IsFiniteSet({key[i] : i \in F})
<1> DEFINE keys == {key[i] : i \in F}
           f == [i \in F |-> key[i]]
<1>1. f \in Surjection(F, keys)
  BY DEF Surjection
<1> HIDE DEF f
<1> QED BY <1>1, FS_Surjection

(* The sizes of the groups a key divides a finite set into add up to the   *)
(* size of the set.                                                        *)
LEMMA GroupsAddUp ==
  ASSUME NEW F, IsFiniteSet(F), NEW key
  PROVE  LET keys == {key[i] : i \in F}
         IN  SumFunctionOnSet([k \in keys |-> Cardinality({i \in F : key[i] = k})], keys)
               = Cardinality(F)
<1> DEFINE keys == {key[i] : i \in F}
           size == [k \in keys |-> Cardinality({i \in F : key[i] = k})]
           Under(T) == {i \in F : key[i] \in T}
           B == {T \in SUBSET keys : SumFunctionOnSet(size, T) # Cardinality(Under(T))}
<1>1. IsFiniteSet(keys)
  BY FiniteImage
<1>2. SUFFICES ASSUME B # {} PROVE FALSE
  <2>1. B = {} => SumFunctionOnSet(size, keys) = Cardinality(Under(keys))
    OBVIOUS
  <2>2. Under(keys) = F
    OBVIOUS
  <2> QED BY <2>1, <2>2
<1>3. PICK m \in B : \A u \in SUBSET m : u # m => u \notin B
  <2>1. B \in SUBSET (SUBSET keys)
    OBVIOUS
  <2> HIDE DEF B, keys
  <2> QED BY <1>1, <1>2, <2>1, SmallestSubset
<1>4. m \in SUBSET keys /\ SumFunctionOnSet(size, m) # Cardinality(Under(m)) /\ IsFiniteSet(m)
  <2>1. m \in SUBSET keys
    BY <1>3
  <2>2. IsFiniteSet(m)
    <3> HIDE DEF keys
    <3> QED BY <1>1, <2>1, FS_Subset
  <2> QED BY <1>3, <2>1, <2>2
<1>5. PICK a \in m : TRUE
  <2>1. Under({}) = {}
    OBVIOUS
  <2>2. m # {}
    BY <1>4, <2>1, SumEmpty, FS_EmptySet
  <2> QED BY <2>2
<1> DEFINE rest == m \ {a}
<1>6. \A T : IsFiniteSet(Under(T)) /\ Cardinality(Under(T)) \in Nat
  <2>1. \A T : Under(T) \in SUBSET F
    OBVIOUS
  <2> HIDE DEF Under
  <2> QED BY <2>1, FS_Subset, FS_CardinalityType
<1>7. \A k \in keys : size[k] = Cardinality(Under({k}))
  <2>1. \A k : {i \in F : key[i] = k} = Under({k})
    OBVIOUS
  <2> QED BY <2>1
<1>8. SumFunctionOnSet(size, m) = size[a] + SumFunctionOnSet(size, rest)
  <2>1. \A k \in m : size[k] \in Int
    <3>1. ASSUME NEW k \in m PROVE size[k] = Cardinality(Under({k}))
      BY <1>4, <1>7
    <3>2. ASSUME NEW k \in m PROVE Cardinality(Under({k})) \in Nat
      BY <1>6, Zenon
    <3>3. \A k \in m : size[k] \in Nat
      BY <3>1, <3>2, Zenon
    <3> HIDE DEF size
    <3> QED BY <3>3
  <2> HIDE DEF size
  <2> QED BY <1>4, <1>5, <2>1, SumElement
<1>9. SumFunctionOnSet(size, rest) = Cardinality(Under(rest))
  <2>1. rest \in SUBSET m /\ rest # m /\ rest \in SUBSET keys
    BY <1>4, <1>5
  <2> QED BY <1>3, <2>1
<1>10. Cardinality(Under(m)) = Cardinality(Under({a})) + Cardinality(Under(rest))
  <2>1. Under(m) = Under({a}) \cup Under(rest) /\ Under({a}) \cap Under(rest) = {}
    BY <1>5
  <2> HIDE DEF Under, rest
  <2>2. Cardinality(Under(m)) = Cardinality(Under({a})) + Cardinality(Under(rest)) - Cardinality({})
    BY <1>6, <2>1, FS_Union
  <2> QED BY <1>6, <2>2, FS_EmptySet
<1>11. size[a] = Cardinality(Under({a}))
  BY <1>4, <1>5, <1>7
<1> QED BY <1>4, <1>8, <1>9, <1>10, <1>11

-------------------------------------------------------------------------------
(* The values that stand before one of them in the sorted list: fewer than *)
(* there are values.                                                       *)
Ahead(values, i) == {j \in DOMAIN values : Precedes(values, j, i)}

(* They are finitely many, and the value itself is not among them. *)
LEMMA AheadIsFinite ==
  ASSUME NEW D, IsFiniteSet(D), D \subseteq Int, NEW values \in [D -> Int], NEW i \in D
  PROVE  /\ IsFiniteSet(Ahead(values, i))
         /\ Cardinality(Ahead(values, i)) \in 0..Cardinality(D) - 1
<1>1. Ahead(values, i) \subseteq D \ {i}
  BY DEF Ahead, Precedes
<1>2. IsFiniteSet(D \ {i}) /\ Cardinality(D \ {i}) = Cardinality(D) - 1
  BY FS_RemoveElement
<1>3. IsFiniteSet(Ahead(values, i)) /\ Cardinality(Ahead(values, i)) <= Cardinality(D \ {i})
  BY <1>1, <1>2, FS_Subset
<1>4. Cardinality(Ahead(values, i)) \in Nat /\ Cardinality(D) \in Nat
  BY <1>3, FS_CardinalityType
<1> QED BY <1>2, <1>3, <1>4

(* More values stand before a later one. *)
LEMMA MoreAhead ==
  ASSUME NEW D, IsFiniteSet(D), D \subseteq Int, NEW values \in [D -> Int],
         NEW i \in D, NEW j \in D, Precedes(values, i, j)
  PROVE  Cardinality(Ahead(values, i)) < Cardinality(Ahead(values, j))
<1>1. Ahead(values, i) \cup {i} \subseteq Ahead(values, j)
  <2>1. \A d \in D : d \in Int /\ values[d] \in Int
    OBVIOUS
  <2>2. ASSUME NEW d \in Ahead(values, i) PROVE d \in Ahead(values, j)
    BY <2>1, <2>2 DEF Ahead, Precedes
  <2>3. i \in Ahead(values, j)
    BY DEF Ahead
  <2> QED BY <2>2, <2>3
<1>2. i \notin Ahead(values, i)
  BY DEF Ahead, Precedes
<1>3. IsFiniteSet(Ahead(values, i)) /\ IsFiniteSet(Ahead(values, j))
  BY AheadIsFinite
<1>0. Cardinality(Ahead(values, i)) \in Nat /\ Cardinality(Ahead(values, j)) \in Nat
  BY <1>3, FS_CardinalityType
<1>4. Cardinality(Ahead(values, i) \cup {i}) = Cardinality(Ahead(values, i)) + 1
  BY <1>2, <1>3, FS_AddElement, Zenon
<1>5. Cardinality(Ahead(values, i) \cup {i}) <= Cardinality(Ahead(values, j))
  BY <1>1, <1>3, FS_Subset
<1> QED BY <1>0, <1>4, <1>5

(* Each place of the sorted list is that of one value. *)
LEMMA PlaceTaken ==
  ASSUME NEW D, IsFiniteSet(D), D \subseteq Int, NEW values \in [D -> Int],
         NEW k \in 1..Cardinality(D)
  PROVE  \E i \in D : Cardinality(Ahead(values, i)) = k - 1
<1> DEFINE n == Cardinality(D)
           before == [i \in D |-> Cardinality(Ahead(values, i))]
<1>1. n \in Nat
  BY FS_CardinalityType
<1>2. before \in [D -> 0..n - 1]
  BY AheadIsFinite
<1>3. ASSUME NEW i \in D, NEW j \in D, i # j PROVE before[i] # before[j]
  <2>1. Precedes(values, i, j) \/ Precedes(values, j, i)
    BY <1>3 DEF Precedes
  <2>2. before[i] \in Int /\ before[j] \in Int
    BY <1>2
  <2>3. before[i] < before[j] \/ before[j] < before[i]
    BY <2>1, MoreAhead
  <2> QED BY <2>2, <2>3
<1>4. before \in Injection(D, 0..n - 1)
  <2> HIDE DEF before
  <2> QED BY <1>2, <1>3 DEF Injection, IsInjective
<1>5. IsFiniteSet(0..n - 1) /\ Cardinality(0..n - 1) = n
  <2> HIDE DEF n
  <2>1. 0 \in Int /\ n - 1 \in Int /\ (0 > n - 1 => n = 0)
    BY <1>1
  <2>2. /\ IsFiniteSet(0..n - 1)
        /\ Cardinality(0..n - 1) = IF 0 > n - 1 THEN 0 ELSE n - 1 - 0 + 1
    BY <2>1, FS_Interval
  <2> QED BY <1>1, <2>1, <2>2
<1>6. before \in Surjection(D, 0..n - 1)
  <2> HIDE DEF before
  <2> QED BY <1>4, <1>5, FS_Injection
<1>7. k - 1 \in 0..n - 1
  BY <1>1
<1>8. \E i \in D : before[i] = k - 1
  <2> HIDE DEF before
  <2> QED BY <1>6, <1>7 DEF Surjection
<1> QED BY <1>8

(* What stands at place k of the sorted list is a value that at least k of *)
(* the values do not exceed, and fewer than k are below it.                *)
LEMMA SortedPlace ==
  ASSUME NEW D, IsFiniteSet(D), D \subseteq Int, NEW values \in [D -> Int],
         NEW k \in 1..Cardinality(D)
  PROVE  LET v == Sorted(values)[k]
         IN  /\ \E i \in D : values[i] = v
             /\ AtMost(values, v) \in Int /\ AtMost(values, v) >= k
             /\ \A i \in D : values[i] < v =>
                  AtMost(values, values[i]) \in Int /\ AtMost(values, values[i]) < k
<1>1. PICK i \in D : /\ Cardinality(Ahead(values, i)) = k - 1
                     /\ Sorted(values)[k] = values[i]
  <2> DEFINE before   == [i \in DOMAIN values |->
                            Cardinality({j \in DOMAIN values : Precedes(values, j, i)})]
             there(q) == CHOOSE i \in DOMAIN values : before[i] = q - 1
  <2>1. DOMAIN values = D /\ \A i \in D : before[i] = Cardinality(Ahead(values, i))
    BY DEF Ahead
  <2>2. Sorted(values) = [q \in 1..Cardinality(DOMAIN values) |-> values[there(q)]]
    BY Zenon DEF Sorted
  <2> HIDE DEF before
  <2>3. \E i \in DOMAIN values : before[i] = k - 1
    BY <2>1, PlaceTaken
  <2>4. there(k) \in D /\ before[there(k)] = k - 1
    BY <2>1, <2>3
  <2> HIDE DEF there
  <2>5. Sorted(values)[k] = values[there(k)]
    BY <2>1, <2>2
  <2> QED BY <2>1, <2>4, <2>5
<1> DEFINE v == values[i]
           Upto(w) == {j \in D : values[j] <= w}
<1>2. k \in Int /\ i \in Int
  BY FS_CardinalityType
<1>3. \A w : IsFiniteSet(Upto(w)) /\ AtMost(values, w) = Cardinality(Upto(w))
             /\ Cardinality(Upto(w)) \in Int
  BY FS_Subset, FS_CardinalityType DEF AtMost
<1>4. AtMost(values, v) >= k
  <2>1. Ahead(values, i) \cup {i} \subseteq Upto(v)
    <3>1. \A d \in D : values[d] \in Int
      OBVIOUS
    <3>2. ASSUME NEW d \in Ahead(values, i) PROVE d \in Upto(v)
      BY <3>1, <3>2 DEF Ahead, Precedes
    <3>3. i \in Upto(v)
      BY <3>1
    <3> QED BY <3>2, <3>3
  <2>2. i \notin Ahead(values, i)
    BY DEF Ahead, Precedes
  <2>0. IsFiniteSet(Ahead(values, i))
    BY AheadIsFinite
  <2> HIDE DEF v, Upto
  <2>5. Cardinality(Ahead(values, i) \cup {i}) = Cardinality(Ahead(values, i)) + 1
    BY <2>0, <2>2, FS_AddElement, Zenon
  <2>3. Cardinality(Ahead(values, i) \cup {i}) = k
    BY <1>1, <1>2, <2>5
  <2>4. Cardinality(Ahead(values, i) \cup {i}) <= Cardinality(Upto(v))
    BY <1>3, <2>1, FS_Subset, Zenon
  <2> QED BY <1>2, <1>3, <2>3, <2>4
<1>5. ASSUME NEW j \in D, values[j] < v PROVE AtMost(values, values[j]) < k
  <2>1. Upto(values[j]) \subseteq Ahead(values, i)
    <3>1. \A d \in D : values[d] \in Int
      OBVIOUS
    <3>2. ASSUME NEW d \in Upto(values[j]) PROVE d \in Ahead(values, i)
      BY <1>5, <3>1, <3>2 DEF Ahead, Precedes
    <3> QED BY <3>2
  <2>2. IsFiniteSet(Ahead(values, i))
    BY AheadIsFinite
  <2> HIDE DEF v, Upto
  <2>3. Cardinality(Upto(values[j])) <= Cardinality(Ahead(values, i))
    BY <2>1, <2>2, FS_Subset, Zenon
  <2> QED BY <1>1, <1>2, <1>3, <2>3
<1> QED BY <1>1, <1>3, <1>4, <1>5

(* percentile and maxValue take the place a nearest rank is at. *)
LEMMA SummaryIsRight ==
  ASSUME NEW D, IsFiniteSet(D), D \subseteq Int, NEW values \in [D -> Int]
  PROVE  IsSummary(values, PercentileSummary(values))
<1> DEFINE n == Cardinality(D)
           sorted == Sorted(values)
           At(k) == LET v == sorted[k]
                    IN  /\ \E i \in D : values[i] = v
                        /\ AtMost(values, v) \in Int /\ AtMost(values, v) >= k
                        /\ \A i \in D : values[i] < v =>
                             AtMost(values, values[i]) \in Int /\ AtMost(values, values[i]) < k
<1>0. \A k \in 1..n : At(k)
  BY SortedPlace
<1>1. n \in Nat /\ sorted \in Seq({values[i] : i \in D}) /\ Len(sorted) = n
  <2>1. n \in Nat
    BY FS_CardinalityType
  <2>2. DOMAIN sorted = 1..n /\ sorted = [k \in 1..n |-> sorted[k]]
    BY DEF Sorted
  <2>3. \A k \in 1..n : sorted[k] \in {values[i] : i \in D}
    BY <1>0
  <2> HIDE DEF sorted
  <2> QED BY <2>1, <2>2, <2>3
<1>2. CASE D = {}
  <2>1. n = 0
    BY <1>2, FS_EmptySet
  <2>2. sorted = <<>>
    BY <1>1, <2>1
  <2> QED BY <1>2, <2>2 DEF PercentileSummary, Percentile, MaxValue, IsSummary
<1>3. CASE D # {}
  <2>1. n >= 1 /\ sorted # <<>>
    <3>1. n # 0
      BY <1>3, FS_EmptySet
    <3> QED BY <1>1, <3>1
  <2>2. ASSUME NEW p \in {50, 95} PROVE IsNearestRank(values, p, Percentile(sorted, p))
    <3> DEFINE rank == (p * n + 99) \div 100
    <3>1. /\ rank \in 1..n
          /\ 100 * rank >= p * n /\ 100 * (rank - 1) < p * n
      BY <1>1, <2>1
    <3>2. Percentile(sorted, p) = sorted[rank]
      <4> HIDE DEF sorted
      <4> QED BY <1>1, <2>1, <3>1 DEF Percentile
    <3>3. At(rank)
      <4> HIDE DEF rank, At
      <4> QED BY <1>0, <3>1
    <3> DEFINE q == sorted[rank]
               x == p * n
    <3>4. x \in Int /\ rank \in Int
      BY <1>1, <3>1
    <3> HIDE DEF rank, sorted, x
    <3>5. 100 * AtMost(values, q) >= x
      BY <3>1, <3>3, <3>4 DEF x
    <3>6. ASSUME NEW i \in D, values[i] < q PROVE 100 * AtMost(values, values[i]) < x
      <4>1. AtMost(values, values[i]) \in Int /\ AtMost(values, values[i]) <= rank - 1
        BY <3>3, <3>4, <3>6
      <4>2. 100 * (rank - 1) < x
        BY <3>1 DEF x
      <4> QED BY <3>4, <4>1, <4>2
    <3> QED BY <3>2, <3>3, <3>5, <3>6 DEF IsNearestRank, x
  <2>3. IsNearestRank(values, 100, MaxValue(sorted))
    <3>1. MaxValue(sorted) = sorted[n]
      <4> HIDE DEF sorted
      <4> QED BY <1>1, <2>1 DEF MaxValue
    <3>2. At(n)
      <4> HIDE DEF n, At
      <4> QED BY <1>0, <1>1, <2>1
    <3> HIDE DEF sorted
    <3> QED BY <1>1, <2>1, <3>1, <3>2 DEF IsNearestRank
  <2> QED BY <1>3, <2>2, <2>3 DEF PercentileSummary, IsSummary
<1> QED BY <1>2, <1>3

(* A report summarises the latencies there are, if the samples are ones a  *)
(* request may leave.                                                      *)
LEMMA SummaryOfLatencies ==
  ASSUME NEW S, \A o \in S : IsOutcome(o), NEW samples \in Seq(S)
  PROVE  LatenciesSummarized(samples, Summarize(samples))
<1>1. ASSUME NEW field \in {"firstToken", "total"}
      PROVE  /\ Measured(samples, field) = Latencies(samples, field)
             /\ IsSummary(Latencies(samples, field), PercentileSummary(Latencies(samples, field)))
  <2> DEFINE D == {j \in DOMAIN samples : IsSuccess(samples[j]) /\ samples[j][field] # 0}
             values == [i \in D |-> samples[i][field]]
  <2>1. DOMAIN samples = 1..Len(samples) /\ Len(samples) \in Nat
    OBVIOUS
  <2>2. \A i \in DOMAIN samples : samples[i] \in S
    OBVIOUS
  <2>3. \A i \in DOMAIN samples : IsSuccess(samples[i]) => samples[i][field] \in Nat
    BY <2>2 DEF IsOutcome
  <2>4. \A i \in DOMAIN samples :
          IsSuccess(samples[i]) => (samples[i][field] > 0 <=> samples[i][field] # 0)
    BY <2>3
  <2>5. D = {j \in Successes(samples) : samples[j][field] > 0}
    BY <2>4 DEF Successes
  <2>6. D \subseteq Int /\ IsFiniteSet(D)
    <3>1. IsFiniteSet(1..Len(samples))
      BY <2>1, FS_Interval
    <3> QED BY <2>1, <3>1, FS_Subset
  <2>7. values \in [D -> Int]
    BY <2>3
  <2>8. IsSummary(values, PercentileSummary(values))
    <3> HIDE DEF D, values
    <3> QED BY <2>6, <2>7, SummaryIsRight
  <2> QED BY <2>5, <2>8 DEF Measured, Latencies
<1> QED BY <1>1 DEF LatenciesSummarized, Summarize

(* A report counts every sample once: the error lines divide the failures. *)
LEMMA SummaryOfRequests ==
  ASSUME NEW S, NEW samples \in Seq(S)
  PROVE  RequestsCounted(samples, Summarize(samples))
<1> DEFINE all == DOMAIN samples
           good == Successes(samples)
           bad == Failures(samples)
           line == [i \in bad |-> FirstLineOf(samples[i].err)]
           lines == {line[i] : i \in bad}
<1>1. IsFiniteSet(all) /\ Cardinality(all) = Len(samples)
  <2>1. all = 1..Len(samples) /\ Len(samples) \in Nat
    OBVIOUS
  <2>2. IsFiniteSet(1..Len(samples)) /\ Cardinality(1..Len(samples)) = Len(samples)
    BY <2>1, CountTo, Zenon
  <2> QED BY <2>1, <2>2
<1>2. good \in SUBSET all /\ bad = all \ good
  BY DEF Successes, Failures
<1>3. Cardinality(good) + Cardinality(bad) = Len(samples)
  <2>1. good \cup bad = all /\ good \cap bad = {} /\ bad \in SUBSET all
    BY <1>2
  <2> HIDE DEF all, good, bad
  <2>2. IsFiniteSet(good) /\ IsFiniteSet(bad)
    BY <1>1, <1>2, <2>1, FS_Subset
  <2>3. Cardinality(all) = Cardinality(good) + Cardinality(bad) - Cardinality({})
    BY <2>1, <2>2, FS_Union
  <2> QED BY <1>1, <2>2, <2>3, FS_EmptySet, FS_CardinalityType
<1>4. ErrorCounts(samples) = [k \in lines |-> Cardinality({i \in bad : line[i] = k})]
  BY DEF ErrorCounts
<1>5. DOMAIN ErrorCounts(samples) = lines
  BY <1>4
<1>6. SumFunction(ErrorCounts(samples)) = Cardinality(bad)
  <2>1. IsFiniteSet(bad)
    <3>1. bad \in SUBSET all
      BY <1>2
    <3> HIDE DEF all, bad
    <3> QED BY <1>1, <3>1, FS_Subset
  <2> HIDE DEF bad, line
  <2>2. SumFunctionOnSet([k \in lines |-> Cardinality({i \in bad : line[i] = k})], lines)
          = Cardinality(bad)
    BY <2>1, GroupsAddUp
  <2> QED BY <1>4, <1>5, <2>2 DEF SumFunction
<1> QED BY <1>3, <1>6 DEF RequestsCounted, Summarize
===============================================================================
