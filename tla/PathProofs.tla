------------------------------ MODULE PathProofs ------------------------------
(***************************************************************************)
(* Induction, recursion and chains of links, for every set of nodes.       *)
(*                                                                         *)
(* The induction is over sets: a set of numbers that is not empty has a    *)
(* least element, so a set that holds 0 and the successor of each of its   *)
(* members holds every number.                                             *)
(***************************************************************************)
EXTENDS Paths, FiniteSetTheorems, WellFoundedInduction, TLAPS

LEMMA LeastElement ==
  ASSUME NEW S \in SUBSET Nat, S # {}
  PROVE  \E n \in S : \A m \in S : n <= m
<1> DEFINE R == OpToRel(<, Nat)
<1>1. IsWellFoundedOn(R, Nat)
  BY NatLessThanWellFounded, Zenon
<1>2. \A m, n \in Nat : m < n => <<m, n>> \in R
  BY DEF OpToRel
<1> HIDE DEF R
<1>3. PICK n \in S : \A m \in S : <<m, n>> \notin R
  BY <1>1, WFMin
<1>4. n \in Nat /\ \A m \in S : m \in Nat /\ ~(m < n)
  BY <1>2, <1>3
<1>5. QED
  BY <1>4

LEMMA Induction ==
  ASSUME NEW S, 0 \in S, \A n \in Nat : n \in S => n + 1 \in S
  PROVE  Nat \subseteq S
<1> SUFFICES ASSUME Nat \ S # {} PROVE FALSE
  OBVIOUS
<1>1. PICK n \in Nat \ S : \A m \in Nat \ S : n <= m
  BY LeastElement
<1>2. n - 1 \in Nat /\ n - 1 \in S
  BY <1>1
<1>3. QED
  BY <1>1, <1>2

\* The same, from 1 to n.
LEMMA InductionUpTo ==
  ASSUME NEW n \in Nat, NEW S, 1 \in S, \A i \in 1..(n - 1) : i \in S => i + 1 \in S
  PROVE  1..n \subseteq S
<1> DEFINE T == {k \in Nat : k < n => k + 1 \in S}
<1>1. 0 \in T
  OBVIOUS
<1>2. ASSUME NEW k \in Nat, k \in T PROVE k + 1 \in T
  <2> SUFFICES ASSUME k + 1 < n PROVE (k + 1) + 1 \in S
    OBVIOUS
  <2>1. k + 1 \in 1..(n - 1) /\ k + 1 \in S
    BY <1>2
  <2>2. QED
    BY <2>1
<1> HIDE DEF T
<1>3. Nat \subseteq T
  BY <1>1, <1>2, Induction
<1>4. ASSUME NEW i \in 1..n PROVE i \in S
  <2>1. i - 1 \in T /\ i - 1 < n
    BY <1>3
  <2>2. (i - 1) + 1 \in S
    BY <2>1 DEF T
  <2>3. QED
    BY <2>2
<1>5. QED
  BY <1>4

\* And from n down to 1.
LEMMA InductionDown ==
  ASSUME NEW n \in Nat, NEW S, n \in S, \A i \in 1..(n - 1) : i + 1 \in S => i \in S
  PROVE  1..n \subseteq S
<1> DEFINE T == {k \in Nat : k < n => n - k \in S}
<1>1. 0 \in T
  OBVIOUS
<1>2. ASSUME NEW k \in Nat, k \in T PROVE k + 1 \in T
  <2> SUFFICES ASSUME k + 1 < n PROVE n - (k + 1) \in S
    OBVIOUS
  <2>1. n - (k + 1) \in 1..(n - 1) /\ (n - (k + 1)) + 1 = n - k /\ n - k \in S
    BY <1>2
  <2>2. QED
    BY <2>1
<1> HIDE DEF T
<1>3. Nat \subseteq T
  BY <1>1, <1>2, Induction
<1>4. ASSUME NEW i \in 1..n PROVE i \in S
  <2>1. n - i \in T /\ n - i < n
    BY <1>3
  <2>2. n - (n - i) \in S
    BY <2>1 DEF T
  <2>3. QED
    BY <2>2
<1>5. QED
  BY <1>4

\* g starts with one value and goes on step by step.
StepsIn(T) == [Nat \X T -> T]

Unrolls(g, T, first, step) ==
  g \in [Nat -> T] /\ g[0] = first /\ \A k \in Nat : g[k + 1] = step[<<k, g[k]>>]

\* There is such a function: its beginnings exist for every length, and agree.
LEMMA Recursion ==
  ASSUME NEW T, NEW first \in T, NEW step \in StepsIn(T)
  PROVE  \E g : Unrolls(g, T, first, step)
<1> USE DEF StepsIn
<1> DEFINE Beginning(n, h) == h[0] = first /\ \A k \in 0..(n - 1) : h[k + 1] = step[<<k, h[k]>>]
           S == {n \in Nat : \E h \in [Nat -> T] : Beginning(n, h)}
<1>1. Nat \subseteq S
  <2>1. 0 \in S
    <3>1. [k \in Nat |-> first] \in [Nat -> T] /\ Beginning(0, [k \in Nat |-> first])
      OBVIOUS
    <3>2. QED
      BY <3>1
  <2>2. ASSUME NEW n \in Nat, n \in S PROVE n + 1 \in S
    <3>1. PICK h \in [Nat -> T] : Beginning(n, h)
      BY <2>2
    <3> DEFINE j == [h EXCEPT ![n + 1] = step[<<n, h[n]>>]]
    <3>2. step[<<n, h[n]>>] \in T
      OBVIOUS
    <3>3. j \in [Nat -> T] /\ j[n + 1] = step[<<n, h[n]>>] /\ \A k \in 0..n : j[k] = h[k]
      BY <3>2
    <3> HIDE DEF j
    <3>4. Beginning(n + 1, j)
      <4>1. j[0] = first
        BY <3>1, <3>3
      <4>2. ASSUME NEW k \in 0..((n + 1) - 1) PROVE j[k + 1] = step[<<k, j[k]>>]
        <5>1. CASE k = n
          BY <5>1, <3>3
        <5>2. CASE k # n
          <6>1. k \in 0..(n - 1) /\ k \in 0..n /\ k + 1 \in 0..n
            BY <5>2
          <6>2. QED
            BY <6>1, <3>1, <3>3
        <5>3. QED
          BY <5>1, <5>2
      <4>3. QED
        BY <4>1, <4>2
    <3>5. QED
      BY <3>3, <3>4
  <2> HIDE DEF S
  <2>3. QED
    BY <2>1, <2>2, Induction
<1>2. ASSUME NEW m \in Nat, NEW n \in Nat, m <= n, NEW h, NEW j, Beginning(m, h), Beginning(n, j)
      PROVE  h[m] = j[m]
  <2> DEFINE Same == {k \in Nat : k <= m => h[k] = j[k]}
  <2>1. 0 \in Same
    BY <1>2
  <2>2. ASSUME NEW k \in Nat, k \in Same PROVE k + 1 \in Same
    <3> SUFFICES ASSUME k + 1 <= m PROVE h[k + 1] = j[k + 1]
      OBVIOUS
    <3>1. k \in 0..(m - 1) /\ k \in 0..(n - 1) /\ h[k] = j[k]
      BY <1>2, <2>2
    <3>2. QED
      BY <1>2, <3>1
  <2> HIDE DEF Same
  <2>3. m \in Same
    BY <2>1, <2>2, Induction
  <2>4. QED
    BY <2>3 DEF Same
<1> DEFINE upTo(n) == CHOOSE h \in [Nat -> T] : Beginning(n, h)
           g == [n \in Nat |-> upTo(n)[n]]
<1>3. \A n \in Nat : upTo(n) \in [Nat -> T] /\ Beginning(n, upTo(n))
  BY <1>1
<1> HIDE DEF upTo
<1>4. g \in [Nat -> T]
  BY <1>3
<1>5. g[0] = first
  BY <1>3
<1>6. ASSUME NEW k \in Nat PROVE g[k + 1] = step[<<k, g[k]>>]
  <2>1. upTo(k + 1)[k + 1] = step[<<k, upTo(k + 1)[k]>>]
    BY <1>3
  <2>2. upTo(k)[k] = upTo(k + 1)[k]
    <3>1. Beginning(k, upTo(k)) /\ Beginning(k + 1, upTo(k + 1)) /\ k <= k + 1 /\ k + 1 \in Nat
      BY <1>3
    <3> HIDE DEF Beginning
    <3>2. QED
      BY <3>1, <1>2
  <2>3. QED
    BY <2>1, <2>2
<1> HIDE DEF g
<1>7. QED
  BY <1>4, <1>5, <1>6 DEF Unrolls

-----------------------------------------------------------------------------
(* Chains of links. *)

\* What makes p, of length n, a chain.
Chain(p, n, nodes, rows) ==
  /\ n \in Nat /\ n >= 2 /\ Len(p) = n
  /\ p \in [1..n -> nodes]
  /\ \A i \in 1..(n - 1) : rows[p[i]][p[i + 1]] # NoLink

\* Its links have costs that can be added.
Priced(p, n, rows) ==
  n \in Nat \ {0} /\ Len(p) = n /\ \A i \in 1..(n - 1) : rows[p[i]][p[i + 1]] \in Int

\* What it costs up to each of its nodes.
PartialSums(c, p, n, rows) ==
  /\ c \in [1..n -> Int]
  /\ c[1] = 0
  /\ \A i \in 1..(n - 1) : c[i + 1] = c[i] + rows[p[i]][p[i + 1]]

LEMMA PathFacts ==
  ASSUME NEW nodes, NEW rows, NEW a, NEW b, NEW p \in Paths(nodes, rows, a, b)
  PROVE  Chain(p, Len(p), nodes, rows) /\ p[1] = a /\ p[Len(p)] = b /\ IsInjective(p)
<1>1. PICK len \in 2..Cardinality(nodes) : p \in [1..len -> nodes]
  BY DEF Paths
<1>2. len \in Nat /\ len >= 2
  BY <1>1
<1>3. Len(p) = len
  BY <1>1, <1>2
<1>4. QED
  BY <1>1, <1>2, <1>3 DEF Paths, Chain

\* A sequence without repetitions is no longer than there are values.
LEMMA InjectiveLength ==
  ASSUME NEW S, IsFiniteSet(S), NEW n \in Nat, NEW p \in [1..n -> S], IsInjective(p)
  PROVE  n <= Cardinality(S)
<1>1. IsFiniteSet(1..n) /\ Cardinality(1..n) = n
  BY FS_Interval
<1>2. Cardinality(S) \in Nat
  BY FS_CardinalityType
<1> SUFFICES ASSUME Cardinality(S) < Cardinality(1..n) PROVE FALSE
  BY <1>1, <1>2
<1>3. PICK i, j \in 1..n : i # j /\ p[i] = p[j]
  BY <1>1, FS_PigeonHole
<1>4. QED
  BY <1>3 DEF IsInjective

\* A sequence along which some rank increases has no repetitions.
LEMMA RankedIsInjective ==
  ASSUME NEW S, NEW rank \in [S -> Nat], NEW n \in Nat, NEW p \in [1..n -> S],
         \A i \in 1..(n - 1) : rank[p[i]] < rank[p[i + 1]]
  PROVE  IsInjective(p)
<1> DEFINE T == {j \in 1..n : \A i \in 1..(j - 1) : rank[p[i]] < rank[p[j]]}
<1>1. 1..n \subseteq T
  <2> SUFFICES ASSUME n >= 1 PROVE 1..n \subseteq T
    OBVIOUS
  <2>1. 1 \in T
    OBVIOUS
  <2>2. ASSUME NEW j \in 1..(n - 1), j \in T PROVE j + 1 \in T
    <3> SUFFICES ASSUME NEW i \in 1..j PROVE rank[p[i]] < rank[p[j + 1]]
      OBVIOUS
    <3>1. rank[p[i]] \in Nat /\ rank[p[j]] \in Nat /\ rank[p[j + 1]] \in Nat
      OBVIOUS
    <3>2. rank[p[j]] < rank[p[j + 1]] /\ (i = j \/ rank[p[i]] < rank[p[j]])
      BY <2>2
    <3>3. QED
      BY <3>1, <3>2
  <2> HIDE DEF T
  <2>3. QED
    BY <2>1, <2>2, InductionUpTo
<1>2. ASSUME NEW i \in 1..n, NEW j \in 1..n, i < j PROVE p[i] # p[j]
  <2>1. rank[p[i]] < rank[p[j]] /\ rank[p[i]] \in Nat
    BY <1>1, <1>2
  <2>2. QED
    BY <2>1
<1>3. QED
  BY <1>2 DEF IsInjective

\* A loop-free chain is one of Paths: it is no longer than there are nodes.
LEMMA IsPath ==
  ASSUME NEW nodes, IsFiniteSet(nodes), NEW rows, NEW p, NEW n, Chain(p, n, nodes, rows),
         IsInjective(p)
  PROVE  p \in Paths(nodes, rows, p[1], p[n])
<1>1. Cardinality(nodes) \in Nat
  BY FS_CardinalityType
<1>2. n <= Cardinality(nodes)
  BY InjectiveLength DEF Chain
<1>3. n \in 2..Cardinality(nodes) /\ p \in [1..n -> nodes]
  BY <1>1, <1>2 DEF Chain
<1>4. QED
  BY <1>3 DEF Paths, Chain

\* The cost of a chain is the last of its partial sums.
LEMMA CostOfChain ==
  ASSUME NEW rows, NEW p, NEW n, Priced(p, n, rows)
  PROVE  \E c : PartialSums(c, p, n, rows) /\ PathCost(rows, p) = c[n]
<1> USE DEF Priced
<1> DEFINE Sums(h) == h = [i \in 1..n |-> IF i = 1 THEN 0 ELSE h[i - 1] + rows[p[i - 1]][p[i]]]
           step == [x \in Nat \X Int |->
                      IF x[1] + 1 < n THEN x[2] + rows[p[x[1] + 1]][p[x[1] + 2]] ELSE x[2]]
<1>1. \E h : Sums(h)
  <2>1. step \in [Nat \X Int -> Int]
    <3> SUFFICES ASSUME NEW k \in Nat, NEW s \in Int
                 PROVE  (IF k + 1 < n THEN s + rows[p[k + 1]][p[k + 2]] ELSE s) \in Int
      OBVIOUS
    <3>1. k + 1 < n => k + 1 \in 1..(n - 1) /\ (k + 1) + 1 = k + 2
      OBVIOUS
    <3>2. QED
      BY <3>1
  <2>8. \A k \in Nat, s \in Int :
          step[<<k, s>>] = IF k + 1 < n THEN s + rows[p[k + 1]][p[k + 2]] ELSE s
    OBVIOUS
  <2>9. 0 \in Int
    OBVIOUS
  <2> HIDE DEF step
  <2>2. PICK g \in [Nat -> Int] : g[0] = 0 /\ \A k \in Nat : g[k + 1] = step[<<k, g[k]>>]
    <3>1. PICK g : Unrolls(g, Int, 0, step)
      BY <2>1, <2>9, Recursion DEF StepsIn
    <3>2. QED
      BY <3>1 DEF Unrolls
  <2> DEFINE h == [i \in 1..n |-> g[i - 1]]
  <2>3. ASSUME NEW i \in 1..n, i # 1 PROVE h[i] = h[i - 1] + rows[p[i - 1]][p[i]]
    <3>1. i - 2 \in Nat /\ (i - 2) + 1 = i - 1 /\ (i - 2) + 2 = i /\ i - 1 < n /\ i - 1 \in 1..n
          /\ (i - 1) - 1 = i - 2
      BY <2>3
    <3>2. g[i - 1] = step[<<i - 2, g[i - 2]>>]
      BY <2>2, <3>1
    <3>3. step[<<i - 2, g[i - 2]>>] = g[i - 2] + rows[p[i - 1]][p[i]]
      <4> DEFINE k == i - 2
                 s == g[k]
      <4>1. k \in Nat /\ s \in Int /\ k + 1 = i - 1 /\ k + 2 = i /\ k + 1 < n
        BY <3>1
      <4> HIDE DEF k, s
      <4>2. step[<<k, s>>] = s + rows[p[i - 1]][p[i]]
        BY <2>8, <4>1
      <4>3. QED
        BY <4>2 DEF k, s
    <3>4. QED
      BY <3>1, <3>2, <3>3
  <2>4. h[1] = 0
    BY <2>2
  <2> HIDE DEF h
  <2>5. h = [i \in 1..n |-> h[i]]
    BY DEF h
  <2>6. Sums(h)
    BY <2>3, <2>4, <2>5
  <2>7. QED
    BY <2>6
<1> DEFINE c == CHOOSE h : Sums(h)
<1>2. Sums(c)
  BY <1>1
<1>3. PathCost(rows, p) = c[n]
  BY DEF PathCost
<1> HIDE DEF c
<1>4. c[1] = 0 /\ \A i \in 1..(n - 1) : c[i + 1] = c[i] + rows[p[i]][p[i + 1]]
  <2>1. c[1] = 0
    BY <1>2
  <2>2. ASSUME NEW i \in 1..(n - 1) PROVE c[i + 1] = c[i] + rows[p[i]][p[i + 1]]
    <3>1. i + 1 \in 1..n /\ i + 1 # 1 /\ (i + 1) - 1 = i
      OBVIOUS
    <3>2. QED
      BY <1>2, <3>1
  <2>3. QED
    BY <2>1, <2>2
<1>5. c \in [1..n -> Int]
  <2> DEFINE S == {i \in 1..n : c[i] \in Int}
  <2>1. n \in Nat /\ 1 \in S
    BY <1>4
  <2>2. ASSUME NEW i \in 1..(n - 1), i \in S PROVE i + 1 \in S
    <3>1. c[i + 1] = c[i] + rows[p[i]][p[i + 1]] /\ c[i] \in Int /\ rows[p[i]][p[i + 1]] \in Int
      BY <1>4, <2>2
    <3>2. i + 1 \in 1..n /\ c[i + 1] \in Int
      BY <3>1
    <3>3. QED
      BY <3>2
  <2> HIDE DEF S
  <2>3. 1..n \subseteq S
    BY <2>1, <2>2, InductionUpTo
  <2>4. QED
    BY <2>3, <1>2 DEF S
<1>6. QED
  BY <1>3, <1>4, <1>5 DEF PartialSums

\* Where no link offers a shortcut, no chain does.
LEMMA NoChainIsCheaper ==
  ASSUME NEW nodes, NEW rows, NEW reached, NEW cost, NEW a \in reached, cost[a] = 0,
         \A u \in reached : cost[u] \in Int,
         \A u \in reached, v \in nodes : rows[u][v] # NoLink =>
            v \in reached /\ rows[u][v] \in Int /\ cost[v] <= cost[u] + rows[u][v],
         NEW b, NEW p \in Paths(nodes, rows, a, b)
  PROVE  b \in reached /\ cost[b] <= PathCost(rows, p)
<1> DEFINE n == Len(p)
<1>1. Chain(p, n, nodes, rows) /\ p[1] = a /\ p[n] = b
  BY PathFacts
<1> USE DEF Chain, PartialSums
<1> HIDE DEF n
<1>2. 1..n \subseteq {i \in 1..n : p[i] \in reached}
  <2> DEFINE S == {i \in 1..n : p[i] \in reached}
  <2>1. 1 \in S
    BY <1>1
  <2>2. ASSUME NEW i \in 1..(n - 1), i \in S PROVE i + 1 \in S
    <3>1. i \in 1..n /\ i + 1 \in 1..n /\ p[i + 1] \in nodes /\ p[i] \in reached
      BY <1>1, <2>2
    <3>2. QED
      BY <3>1, <1>1
  <2> HIDE DEF S
  <2>3. QED
    BY <1>1, <2>1, <2>2, InductionUpTo DEF S
<1>3. ASSUME NEW i \in 1..(n - 1)
      PROVE  /\ i \in 1..n /\ i + 1 \in 1..n
             /\ cost[p[i]] \in Int /\ cost[p[i + 1]] \in Int
             /\ rows[p[i]][p[i + 1]] \in Int
             /\ cost[p[i + 1]] <= cost[p[i]] + rows[p[i]][p[i + 1]]
  <2>1. i \in 1..n /\ i + 1 \in 1..n /\ p[i + 1] \in nodes
    BY <1>1
  <2>2. p[i] \in reached /\ p[i + 1] \in reached
    BY <2>1, <1>2
  <2>3. QED
    BY <2>1, <2>2, <1>1
<1>4. PICK c : PartialSums(c, p, n, rows) /\ PathCost(rows, p) = c[n]
  <2>1. Priced(p, n, rows)
    BY <1>1, <1>3 DEF Priced
  <2> HIDE DEF PartialSums, Chain
  <2>2. QED
    BY <2>1, CostOfChain
<1>5. 1..n \subseteq {i \in 1..n : cost[p[i]] <= c[i]}
  <2> DEFINE S == {i \in 1..n : cost[p[i]] <= c[i]}
  <2>1. 1 \in S
    BY <1>1, <1>4
  <2>2. ASSUME NEW i \in 1..(n - 1), i \in S PROVE i + 1 \in S
    <3>1. cost[p[i]] <= c[i] /\ c[i] \in Int /\ c[i + 1] = c[i] + rows[p[i]][p[i + 1]]
      BY <1>3, <1>4, <2>2
    <3>2. QED
      BY <3>1, <1>3
  <2> HIDE DEF S
  <2>3. QED
    BY <1>1, <2>1, <2>2, InductionUpTo DEF S
<1>6. n \in 1..n
  BY <1>1
<1>7. QED
  BY <1>1, <1>2, <1>4, <1>5, <1>6

\* Each link of p, of length n, accounts for the difference of its ends.
AddsUp(cost, p, n, rows) ==
  /\ n \in Nat \ {0} /\ Len(p) = n
  /\ cost[p[1]] = 0 /\ \A i \in 1..n : cost[p[i]] \in Int
  /\ \A i \in 1..(n - 1) :
       rows[p[i]][p[i + 1]] \in Int /\ cost[p[i + 1]] = cost[p[i]] + rows[p[i]][p[i + 1]]

\* Then the chain costs what its last node does.
LEMMA CostAddsUp ==
  ASSUME NEW rows, NEW cost, NEW p, NEW n, AddsUp(cost, p, n, rows)
  PROVE  PathCost(rows, p) = cost[p[n]]
<1>1. PICK c : PartialSums(c, p, n, rows) /\ PathCost(rows, p) = c[n]
  <2>1. Priced(p, n, rows)
    BY DEF AddsUp, Priced
  <2>2. QED
    BY <2>1, CostOfChain
<1> USE DEF AddsUp, PartialSums
<1> DEFINE S == {i \in 1..n : cost[p[i]] = c[i]}
<1>2. 1 \in S
  BY <1>1
<1>3. ASSUME NEW i \in 1..(n - 1), i \in S PROVE i + 1 \in S
  <2>1. c[i + 1] = c[i] + rows[p[i]][p[i + 1]] /\ cost[p[i]] = c[i] /\ i + 1 \in 1..n
    BY <1>1, <1>3
  <2>2. QED
    BY <2>1
<1> HIDE DEF S
<1>4. n \in Nat /\ 1..n \subseteq S
  BY <1>2, <1>3, InductionUpTo
<1>5. QED
  BY <1>1, <1>4 DEF S

\* From the nodes of read, links lead only to nodes of read, which other knows
\* with the same costs.
CarriesOver(nodes, rows, other, otherRows, read) ==
  \A u \in read, v \in nodes : rows[u][v] # NoLink =>
    v \in read /\ v \in other /\ rows[u][v] \in Int /\ otherRows[u][v] = rows[u][v]

\* Then chains that start there are chains of the other graph, at the same cost.
LEMMA PathsCarryOver ==
  ASSUME NEW nodes, NEW rows, NEW other, NEW otherRows, NEW read, IsFiniteSet(other),
         CarriesOver(nodes, rows, other, otherRows, read),
         NEW a \in read, a \in other, NEW b, NEW p \in Paths(nodes, rows, a, b)
  PROVE  p \in Paths(other, otherRows, a, b) /\ PathCost(otherRows, p) = PathCost(rows, p)
<1> DEFINE n == Len(p)
<1>1. Chain(p, n, nodes, rows) /\ p[1] = a /\ p[n] = b /\ IsInjective(p)
  BY PathFacts
<1> HIDE DEF n
<1>2. n \in Nat /\ n >= 2 /\ n \in Nat \ {0} /\ Len(p) = n
  BY <1>1 DEF Chain
<1>3. ASSUME NEW i \in 1..(n - 1), p[i] \in read
      PROVE  /\ i + 1 \in 1..n /\ p[i + 1] \in read /\ p[i + 1] \in other
             /\ rows[p[i]][p[i + 1]] \in Int /\ rows[p[i]][p[i + 1]] # NoLink
             /\ otherRows[p[i]][p[i + 1]] = rows[p[i]][p[i + 1]]
  <2>1. i + 1 \in 1..n
    BY <1>2
  <2>2. p[i + 1] \in nodes /\ rows[p[i]][p[i + 1]] # NoLink
    BY <1>1, <2>1 DEF Chain
  <2>3. QED
    BY <1>3, <2>1, <2>2 DEF CarriesOver
<1>4. \A i \in 1..n : p[i] \in read /\ p[i] \in other
  <2> DEFINE S == {i \in 1..n : p[i] \in read /\ p[i] \in other}
  <2>1. n \in Nat /\ 1 \in S
    BY <1>1, <1>2
  <2>2. ASSUME NEW i \in 1..(n - 1), i \in S PROVE i + 1 \in S
    BY <1>3, <2>2
  <2> HIDE DEF S
  <2>3. 1..n \subseteq S
    BY <2>1, <2>2, InductionUpTo
  <2>4. QED
    BY <2>3 DEF S
<1>5. \A i \in 1..(n - 1) : i \in 1..n
  BY <1>2
<1>6. /\ Priced(p, n, rows) /\ Priced(p, n, otherRows)
      /\ \A i \in 1..(n - 1) : otherRows[p[i]][p[i + 1]] = rows[p[i]][p[i + 1]]
  BY <1>2, <1>3, <1>4, <1>5 DEF Priced
<1>7. Chain(p, n, other, otherRows)
  BY <1>1, <1>2, <1>3, <1>4, <1>5 DEF Chain
<1>8. PathCost(otherRows, p) = PathCost(rows, p)
  <2>1. PICK c : PartialSums(c, p, n, rows) /\ PathCost(rows, p) = c[n]
    BY <1>6, CostOfChain
  <2>2. PICK d : PartialSums(d, p, n, otherRows) /\ PathCost(otherRows, p) = d[n]
    BY <1>6, CostOfChain
  <2> DEFINE S == {i \in 1..n : c[i] = d[i]}
  <2>3. n \in Nat /\ 1 \in S
    BY <1>2, <2>1, <2>2 DEF PartialSums
  <2>4. ASSUME NEW i \in 1..(n - 1), i \in S PROVE i + 1 \in S
    <3>1. c[i + 1] = c[i] + rows[p[i]][p[i + 1]] /\ d[i + 1] = d[i] + otherRows[p[i]][p[i + 1]]
      BY <2>1, <2>2 DEF PartialSums
    <3>2. QED
      BY <3>1, <2>4, <1>3, <1>4, <1>5, <1>6
  <2> HIDE DEF S
  <2>5. n \in S
    BY <2>3, <2>4, <1>2, InductionUpTo
  <2>6. QED
    BY <2>1, <2>2, <2>5 DEF S
<1>9. QED
  BY <1>1, <1>7, <1>8, IsPath

-----------------------------------------------------------------------------
(* Routers with the same topology. *)

\* The costs of all links are natural numbers, from some number on.
CostsFrom(low, nodes, rows) ==
  \A u, v \in nodes : rows[u][v] # NoLink => rows[u][v] \in Nat /\ rows[u][v] >= low

LEMMA CostIsNatural ==
  ASSUME NEW nodes, NEW rows, CostsFrom(0, nodes, rows), NEW a, NEW b, NEW p \in Paths(nodes, rows, a, b)
  PROVE  Priced(p, Len(p), rows) /\ PathCost(rows, p) \in Nat
<1> DEFINE n == Len(p)
<1>1. Chain(p, n, nodes, rows)
  BY PathFacts
<1> HIDE DEF n
<1>2. n \in Nat /\ n >= 2 /\ Len(p) = n
  BY <1>1 DEF Chain
<1>3. \A i \in 1..(n - 1) : i \in 1..n /\ i + 1 \in 1..n
  BY <1>2
<1>4. \A i \in 1..(n - 1) : rows[p[i]][p[i + 1]] \in Nat
  BY <1>1, <1>3 DEF Chain, CostsFrom
<1>5. Priced(p, n, rows)
  BY <1>2, <1>4 DEF Priced
<1>6. PICK c : PartialSums(c, p, n, rows) /\ PathCost(rows, p) = c[n]
  BY <1>5, CostOfChain
<1> DEFINE S == {i \in 1..n : c[i] \in Nat}
<1>7. 1 \in S
  BY <1>2, <1>6 DEF PartialSums
<1>8. ASSUME NEW i \in 1..(n - 1), i \in S PROVE i + 1 \in S
  <2>1. c[i + 1] = c[i] + rows[p[i]][p[i + 1]]
    BY <1>6 DEF PartialSums
  <2>2. QED
    BY <2>1, <1>3, <1>4, <1>8
<1> HIDE DEF S
<1>9. n \in Nat /\ 1..n \subseteq S
  BY <1>2, <1>7, <1>8, InductionUpTo
<1>10. n \in 1..n
  BY <1>2
<1>11. QED
  BY <1>5, <1>6, <1>9, <1>10 DEF S, n

\* A chain of more than one link goes on, from its second node, as a chain that
\* costs the first link less.
LEMMA PathGoesOn ==
  ASSUME NEW nodes, IsFiniteSet(nodes), NEW rows, CostsFrom(0, nodes, rows),
         NEW a, NEW b, NEW p \in Paths(nodes, rows, a, b), p[2] # b
  PROVE  /\ a \in nodes /\ p[2] \in nodes /\ rows[a][p[2]] # NoLink
         /\ \E q \in Paths(nodes, rows, p[2], b) :
              PathCost(rows, p) = rows[a][p[2]] + PathCost(rows, q)
<1> DEFINE n == Len(p)
<1>1. Chain(p, n, nodes, rows) /\ p[1] = a /\ p[n] = b /\ IsInjective(p)
  BY PathFacts
<1>2. Priced(p, n, rows)
  BY CostIsNatural
<1> HIDE DEF n
<1>3. n \in Nat /\ n > 2
  BY <1>1 DEF Chain
<1>4. p \in [1..n -> nodes] /\ \A i \in 1..(n - 1) : rows[p[i]][p[i + 1]] # NoLink
  BY <1>1 DEF Chain
<1>5. a \in nodes /\ p[2] \in nodes /\ rows[a][p[2]] # NoLink
  <2>1. 1 \in 1..(n - 1) /\ 1 \in 1..n /\ 2 \in 1..n
    BY <1>3
  <2>2. p[1] \in nodes /\ p[2] \in nodes /\ rows[p[1]][p[1 + 1]] # NoLink
    BY <1>4, <2>1
  <2>3. QED
    BY <1>1, <2>2
<1> DEFINE m == n - 1
           q == [i \in 1..m |-> p[i + 1]]
<1>6. m \in Nat /\ m >= 2 /\ \A i \in 1..m : i + 1 \in 1..n /\ i \in 1..(n - 1)
  BY <1>3
<1>7. \A i \in 1..(m - 1) : i \in 1..m /\ i + 1 \in 1..m
  BY <1>3
<1>8. \A i \in 1..m : q[i] = p[i + 1]
  OBVIOUS
<1>9. q \in [1..m -> nodes] /\ Len(q) = m
  BY <1>4, <1>6
<1>10. m + 1 = n
  BY <1>3
<1> HIDE DEF q, m
<1>11. 1 \in 1..m /\ m \in 1..m
  BY <1>6
<1>12. q[1] = p[2] /\ q[m] = b
  BY <1>1, <1>8, <1>10, <1>11
<1>13. Chain(q, m, nodes, rows)
  <2>1. ASSUME NEW i \in 1..(m - 1) PROVE rows[q[i]][q[i + 1]] # NoLink
    <3>1. i + 1 \in 1..(n - 1) /\ q[i] = p[i + 1] /\ q[i + 1] = p[(i + 1) + 1]
      BY <1>6, <1>7, <1>8
    <3>2. QED
      BY <1>4, <3>1
  <2>2. QED
    BY <1>6, <1>9, <2>1 DEF Chain
<1>14. IsInjective(q)
  <2>1. DOMAIN q = 1..m /\ DOMAIN p = 1..n
    BY <1>4, <1>9
  <2>2. ASSUME NEW i \in 1..m, NEW j \in 1..m, q[i] = q[j] PROVE i = j
    <3>1. p[i + 1] = p[j + 1] /\ i + 1 \in 1..n /\ j + 1 \in 1..n
      BY <2>2, <1>6, <1>8
    <3>2. i + 1 = j + 1
      BY <3>1, <2>1, <1>1 DEF IsInjective
    <3>3. QED
      BY <3>2
  <2>3. QED
    BY <2>1, <2>2 DEF IsInjective
<1>15. q \in Paths(nodes, rows, p[2], b)
  BY <1>12, <1>13, <1>14, IsPath
<1>16. PathCost(rows, p) = rows[a][p[2]] + PathCost(rows, q)
  <2>1. Priced(q, m, rows)
    BY <1>9, <1>15, CostIsNatural
  <2>2. PICK c : PartialSums(c, p, n, rows) /\ PathCost(rows, p) = c[n]
    BY <1>2, CostOfChain
  <2>3. PICK e : PartialSums(e, q, m, rows) /\ PathCost(rows, q) = e[m]
    BY <2>1, CostOfChain
  <2>4. rows[a][p[2]] \in Nat
    BY <1>5 DEF CostsFrom
  <2>5. c[1] = 0 /\ e[1] = 0
    BY <2>2, <2>3 DEF PartialSums
  <2>6. 1 \in 1..(n - 1) /\ 1 + 1 = 2
    BY <1>3
  <2>7. c[1 + 1] = c[1] + rows[p[1]][p[1 + 1]]
    BY <2>2, <2>6 DEF PartialSums
  <2>8. c[2] = rows[a][p[2]]
    BY <2>4, <2>5, <2>6, <2>7, <1>1
  <2> DEFINE S == {i \in 1..m : c[i + 1] = rows[a][p[2]] + e[i]}
  <2>9. 1 \in S
    BY <1>11, <2>4, <2>5, <2>6, <2>8
  <2>10. ASSUME NEW i \in 1..(m - 1), i \in S PROVE i + 1 \in S
    <3>1. i \in 1..m /\ i + 1 \in 1..m /\ i + 1 \in 1..(n - 1)
      BY <1>6, <1>7
    <3>2. c[(i + 1) + 1] = c[i + 1] + rows[p[i + 1]][p[(i + 1) + 1]]
      BY <2>2, <3>1 DEF PartialSums
    <3>3. e[i + 1] = e[i] + rows[q[i]][q[i + 1]]
      BY <2>3 DEF PartialSums
    <3>4. rows[q[i]][q[i + 1]] \in Int
      BY <2>1 DEF Priced
    <3>5. q[i] = p[i + 1] /\ q[i + 1] = p[(i + 1) + 1]
      BY <1>8, <3>1
    <3>6. e[i] \in Int
      BY <2>3, <3>1 DEF PartialSums
    <3>7. QED
      BY <2>10, <2>4, <3>1, <3>2, <3>3, <3>4, <3>5, <3>6
  <2> HIDE DEF S
  <2>11. m \in S
    BY <1>6, <1>11, <2>9, <2>10, InductionUpTo
  <2>12. QED
    BY <2>2, <2>3, <2>11, <1>10 DEF S
<1>17. QED
  BY <1>5, <1>15, <1>16

\* h begins a chain of links from r to d than which none is cheaper.
ShortestHop(nodes, rows, r, d, h) ==
  \E p \in Paths(nodes, rows, r, d) :
    p[2] = h /\ \A q \in Paths(nodes, rows, r, d) : PathCost(rows, p) <= PathCost(rows, q)

\* Routers whose tables are shortest for one topology do not pass packets round
\* among themselves, whichever of several shortest chains each of them found:
\* every hop leaves less to go. Links that cost nothing would spoil it
\* (forward_manager.go: nothing but the tables decides where a packet goes).
THEOREM OneTopologyFormsNoCircle ==
  ASSUME NEW nodes, IsFiniteSet(nodes), NEW rows, CostsFrom(1, nodes, rows),
         NEW d, NEW rs \in SUBSET (nodes \ {d}), NEW hop,
         \A r \in rs : hop[r] \in rs /\ ShortestHop(nodes, rows, r, d, hop[r])
  PROVE  rs = {}
<1> SUFFICES ASSUME rs # {} PROVE FALSE
  OBVIOUS
<1> DEFINE Best(r, p) ==
             /\ p \in Paths(nodes, rows, r, d) /\ p[2] = hop[r]
             /\ \A q \in Paths(nodes, rows, r, d) : PathCost(rows, p) <= PathCost(rows, q)
           S == {c \in Nat : \E r \in rs : \E p : Best(r, p) /\ PathCost(rows, p) = c}
<1>1. CostsFrom(0, nodes, rows)
  BY DEF CostsFrom
<1>2. \A r \in rs : \A p \in Paths(nodes, rows, r, d) : PathCost(rows, p) \in Nat
  BY <1>1, CostIsNatural
<1>3. \A r \in rs : hop[r] \in rs /\ \E p : Best(r, p)
  BY DEF ShortestHop
<1>4. \A r \in rs : \A p : Best(r, p) => PathCost(rows, p) \in S
  BY <1>2
<1>5. S \in SUBSET Nat /\ S # {}
  BY <1>3, <1>4
<1>6. PICK least \in S : \A c \in S : least <= c
  BY <1>5, LeastElement
<1>7. PICK r \in rs : \E p : Best(r, p) /\ PathCost(rows, p) = least
  BY <1>6
<1>8. PICK p : Best(r, p) /\ PathCost(rows, p) = least
  BY <1>7
<1>9. p \in Paths(nodes, rows, r, d) /\ p[2] = hop[r] /\ p[2] # d /\ hop[r] \in rs
  BY <1>3, <1>8
<1>10. r \in nodes /\ p[2] \in nodes /\ rows[r][p[2]] # NoLink
  BY <1>1, <1>9, PathGoesOn
<1>11. PICK q \in Paths(nodes, rows, p[2], d) : PathCost(rows, p) = rows[r][p[2]] + PathCost(rows, q)
  BY <1>1, <1>9, PathGoesOn
<1>12. PICK s : Best(hop[r], s)
  BY <1>3, <1>9
<1>13. PathCost(rows, s) <= PathCost(rows, q)
  BY <1>9, <1>11, <1>12
<1>14. PathCost(rows, s) \in S /\ PathCost(rows, s) \in Nat /\ PathCost(rows, q) \in Nat
  BY <1>2, <1>4, <1>5, <1>9, <1>11, <1>12
<1>15. rows[r][p[2]] \in Nat /\ rows[r][p[2]] >= 1
  BY <1>10 DEF CostsFrom
<1>16. least <= PathCost(rows, s) /\ least = rows[r][p[2]] + PathCost(rows, q) /\ least \in Nat
  BY <1>5, <1>6, <1>8, <1>11, <1>14
<1>17. QED
  BY <1>13, <1>14, <1>15, <1>16

=============================================================================
