--------------------------- MODULE TopologyProofs ---------------------------
(***************************************************************************)
(* Facts about distances in any topology, for the proofs about the routing *)
(* tables and about the registration.                                      *)
(*                                                                         *)
(* The nodes within k hops are defined by recursion on k.  What is proved  *)
(* of them by induction is proved of a set of numbers: one that has 0, and *)
(* with every number the next, has them all.                               *)
(***************************************************************************)
EXTENDS Topology, FiniteSetTheorems, WellFoundedInduction, TLAPS

Less == {p \in Nat \X Nat : p[1] < p[2]}

\* A set of numbers has a least one.
LEMMA LeastExists ==
  ASSUME NEW V \in SUBSET Nat, V # {}
  PROVE  \E i \in V : \A j \in V : i <= j
<1>1. Less = OpToRel(<, Nat)
  BY Zenon DEF Less, OpToRel
<1>2. IsWellFoundedOn(Less, Nat)
  BY <1>1, NatLessThanWellFounded, Zenon
<1>3. PICK i \in V : \A j \in V : ~(<<j, i>> \in Less)
  BY <1>2, WFMin
<1>4. ASSUME NEW j \in V PROVE i <= j
  <2>1. i \in Nat /\ j \in Nat /\ ~(j < i)
    BY <1>3 DEF Less
  <2> QED BY <2>1
<1> QED BY <1>4

\* Induction over a set of numbers.
LEMMA AllNumbers ==
  ASSUME NEW V \in SUBSET Nat, 0 \in V, \A n \in V : n + 1 \in V
  PROVE  V = Nat
<1>1. SUFFICES ASSUME Nat \ V # {} PROVE FALSE
  OBVIOUS
<1>2. Nat \ V \in SUBSET Nat
  OBVIOUS
<1>3. PICK n \in Nat \ V : \A m \in Nat \ V : n <= m
  BY <1>1, <1>2, LeastExists
<1>4. n # 0 /\ n - 1 \in Nat /\ ~(n <= n - 1)
  BY <1>3
<1>5. n - 1 \in V
  BY <1>3, <1>4
<1>6. (n - 1) + 1 \in V
  BY <1>5
<1> QED BY <1>3, <1>4, <1>6

\* A part of a finite set.
LEMMA PartOfFinite ==
  ASSUME NEW S, NEW T, IsFiniteSet(S), T \subseteq S
  PROVE  /\ IsFiniteSet(T) /\ Cardinality(T) \in Nat /\ Cardinality(S) \in Nat
         /\ Cardinality(T) <= Cardinality(S)
         /\ Cardinality(T) = Cardinality(S) => T = S
BY FS_Subset, FS_CardinalityType

-----------------------------------------------------------------------------
\* W lists the nodes within 0 to n hops of d.
ListsWithin(W, n, nodes, adjacent, d) ==
  W = [k \in 0 .. n |-> IF k = 0 THEN {d} ELSE Around(nodes, adjacent, W[k - 1])]

\* There is such a list.
LEMMA WithinExists ==
  ASSUME NEW nodes, NEW adjacent, NEW d, NEW n \in Nat
  PROVE  \E W : ListsWithin(W, n, nodes, adjacent, d)
<1> DEFINE Step(S) == Around(nodes, adjacent, S)
           V == {m \in Nat : \E W : W = [k \in 0 .. m |-> IF k = 0 THEN {d} ELSE Step(W[k - 1])]}
<1> HIDE DEF Step
<1>1. 0 \in V
  <2> DEFINE W == [k \in 0 .. 0 |-> {d}]
  <2>1. W = [k \in 0 .. 0 |-> IF k = 0 THEN {d} ELSE Step(W[k - 1])]
    OBVIOUS
  <2> HIDE DEF W
  <2> QED BY <2>1
<1>2. ASSUME NEW m \in V PROVE m + 1 \in V
  <2>1. PICK W : W = [k \in 0 .. m |-> IF k = 0 THEN {d} ELSE Step(W[k - 1])]
    OBVIOUS
  <2> DEFINE U == [k \in 0 .. m + 1 |-> IF k \in 0 .. m THEN W[k] ELSE Step(W[m])]
  <2>2. m \in Nat /\ m + 1 \in Nat
    OBVIOUS
  <2>3. ASSUME NEW k \in 0 .. m + 1
        PROVE  U[k] = IF k = 0 THEN {d} ELSE Step(U[k - 1])
    <3>1. CASE k \in 0 .. m
      <4>1. U[k] = W[k] /\ W[k] = IF k = 0 THEN {d} ELSE Step(W[k - 1])
        BY <2>1, <2>2, <3>1
      <4>2. k # 0 => k - 1 \in 0 .. m + 1 /\ k - 1 \in 0 .. m
        BY <2>2, <3>1
      <4>3. k # 0 => U[k - 1] = W[k - 1]
        BY <4>2
      <4> QED BY <4>1, <4>3
    <3>2. CASE k \notin 0 .. m
      <4>1. k = m + 1 /\ k # 0 /\ k - 1 = m /\ m \in 0 .. m + 1 /\ m \in 0 .. m
        BY <2>2, <3>2
      <4>2. U[k] = Step(W[m]) /\ U[m] = W[m]
        BY <3>2, <4>1
      <4> QED BY <4>1, <4>2
    <3> QED BY <3>1, <3>2
  <2>4. U = [k \in 0 .. m + 1 |-> U[k]]
    OBVIOUS
  <2> HIDE DEF U
  <2>5. U = [k \in 0 .. m + 1 |-> IF k = 0 THEN {d} ELSE Step(U[k - 1])]
    BY <2>3, <2>4
  <2> QED BY <2>2, <2>5
<1>3. V \in SUBSET Nat
  OBVIOUS
<1> HIDE DEF V
<1>4. V = Nat
  BY <1>1, <1>2, <1>3, AllNumbers
<1> QED BY <1>4 DEF V, Step, ListsWithin

\* The equations by which Within is defined.
LEMMA WithinEquations ==
  ASSUME NEW nodes, NEW adjacent, NEW d, Cardinality(nodes) \in Nat
  PROVE  LET W == Within(nodes, adjacent, d)
             N == Cardinality(nodes)
         IN  /\ DOMAIN W = 0 .. N
             /\ W[0] = {d}
             /\ \A k \in 0 .. N : k # 0 =>
                  W[k] = W[k - 1] \cup {u \in nodes : adjacent[u] \cap W[k - 1] # {}}
<1> DEFINE N == Cardinality(nodes)
           W == Within(nodes, adjacent, d)
<1>1. W = CHOOSE U : ListsWithin(U, N, nodes, adjacent, d)
  BY DEF Within, ListsWithin
<1> HIDE DEF N, W
<1>2. \E U : ListsWithin(U, N, nodes, adjacent, d)
  BY WithinExists DEF N
<1>3. ListsWithin(W, N, nodes, adjacent, d)
  BY <1>1, <1>2
<1>4. N \in Nat
  BY DEF N
<1>5. W = [k \in 0 .. N |-> IF k = 0 THEN {d} ELSE Around(nodes, adjacent, W[k - 1])]
  BY <1>3 DEF ListsWithin
<1>6. /\ DOMAIN W = 0 .. N
      /\ \A k \in 0 .. N : W[k] = IF k = 0 THEN {d} ELSE Around(nodes, adjacent, W[k - 1])
  BY <1>5
<1>7. 0 \in 0 .. N
  BY <1>4
<1>8. DOMAIN W = 0 .. N /\ W[0] = {d}
      /\ \A k \in 0 .. N : k # 0 =>
           W[k] = W[k - 1] \cup {u \in nodes : adjacent[u] \cap W[k - 1] # {}}
  BY <1>6, <1>7 DEF Around
<1> QED BY <1>8 DEF N, W

-----------------------------------------------------------------------------
\* D hops are the fewest from s to d, or d is out of reach of s.
FewestHops(D, nodes, adjacent, s, d) ==
  LET W == Within(nodes, adjacent, d)
      N == Cardinality(nodes)
  IN  \/ D = MAXHOP /\ \A k \in 0 .. N : s \notin W[k]
      \/ D \in 0 .. N /\ s \in W[D] /\ \A k \in 0 .. N : s \in W[k] => D <= k

\* The distance is what its name says.
LEMMA DistanceIsFewest ==
  ASSUME NEW nodes, NEW adjacent, NEW s, NEW d, Cardinality(nodes) \in Nat
  PROVE  FewestHops(Distance(nodes, adjacent, s, d), nodes, adjacent, s, d)
<1> DEFINE N == Cardinality(nodes)
           W == Within(nodes, adjacent, d)
           Near == {k \in 0 .. N : s \in W[k]}
           D == Distance(nodes, adjacent, s, d)
<1>1. DOMAIN W = 0 .. N
  BY WithinEquations
<1>2. D = IF Near = {} THEN MAXHOP ELSE CHOOSE k \in Near : \A j \in Near : k <= j
  BY <1>1 DEF Distance
<1> HIDE DEF W, D
<1>3. CASE Near = {}
  BY <1>2, <1>3 DEF FewestHops, W, D
<1>4. CASE Near # {}
  <2>1. Near \in SUBSET Nat
    OBVIOUS
  <2> HIDE DEF Near
  <2>2. \E k \in Near : \A j \in Near : k <= j
    BY <1>4, <2>1, LeastExists
  <2>3. D \in Near /\ \A j \in Near : D <= j
    BY <1>2, <1>4, <2>2
  <2> QED BY <2>3 DEF FewestHops, Near, W, D
<1> QED BY <1>3, <1>4

\* A destination is no hop from itself.
LEMMA NoHopToItself ==
  ASSUME NEW nodes, NEW adjacent, NEW d, Cardinality(nodes) \in Nat
  PROVE  Distance(nodes, adjacent, d, d) = 0
<1> DEFINE N == Cardinality(nodes)
           W == Within(nodes, adjacent, d)
           D == Distance(nodes, adjacent, d, d)
<1>1. W[0] = {d} /\ 0 \in 0 .. N
  BY WithinEquations
<1>2. FewestHops(D, nodes, adjacent, d, d)
  BY DistanceIsFewest
<1> HIDE DEF N, W, D
<1>3. D \in 0 .. N /\ D <= 0
  BY <1>1, <1>2 DEF FewestHops, N, W
<1>4. D = 0
  BY <1>3
<1> QED BY <1>4 DEF D

\* The node next to a destination is one hop from it.
LEMMA NeighbourInReach ==
  ASSUME NEW nodes, NEW adjacent, IsFiniteSet(nodes), NEW s \in nodes, NEW d \in adjacent[s]
  PROVE  Distance(nodes, adjacent, s, d) \in {0, 1}
<1> DEFINE N == Cardinality(nodes)
           W == Within(nodes, adjacent, d)
           D == Distance(nodes, adjacent, s, d)
<1>1. N \in Nat /\ N # 0
  BY FS_CardinalityType, FS_EmptySet
<1>2. W[0] = {d} /\ \A k \in 0 .. N : k # 0 =>
                     W[k] = W[k - 1] \cup {u \in nodes : adjacent[u] \cap W[k - 1] # {}}
  BY <1>1, WithinEquations
<1>3. FewestHops(D, nodes, adjacent, s, d)
  BY <1>1, DistanceIsFewest
<1> HIDE DEF N, W, D
<1>4. 1 \in 0 .. N /\ 1 # 0 /\ 1 - 1 = 0
  BY <1>1
<1>5. W[1] = W[0] \cup {u \in nodes : adjacent[u] \cap W[0] # {}}
  BY <1>2, <1>4
<1>6. s \in W[1]
  BY <1>2, <1>5
<1>7. D \in 0 .. N /\ D <= 1
  BY <1>3, <1>4, <1>6 DEF FewestHops, N, W
<1>8. D \in {0, 1}
  BY <1>1, <1>7
<1> QED BY <1>8 DEF D

\* A node with its destination in reach has a neighbour one hop nearer.
LEMMA NearerNeighbour ==
  ASSUME NEW nodes, NEW adjacent, Cardinality(nodes) \in Nat, NEW s, NEW d, s # d,
         Distance(nodes, adjacent, s, d) # MAXHOP
  PROVE  \E h \in adjacent[s] :
           Distance(nodes, adjacent, h, d) + 1 = Distance(nodes, adjacent, s, d)
<1> DEFINE N == Cardinality(nodes)
           W == Within(nodes, adjacent, d)
           D == Distance(nodes, adjacent, s, d)
<1>1. W[0] = {d} /\ \A k \in 0 .. N : k # 0 =>
                     W[k] = W[k - 1] \cup {u \in nodes : adjacent[u] \cap W[k - 1] # {}}
  BY WithinEquations
<1>2. FewestHops(D, nodes, adjacent, s, d)
  BY DistanceIsFewest
<1>3. N \in Nat
  OBVIOUS
<1> HIDE DEF N, W, D
<1>4. D \in 0 .. N /\ s \in W[D] /\ \A k \in 0 .. N : s \in W[k] => D <= k
  BY <1>2 DEF FewestHops, N, W, D
<1>5. D # 0 /\ D - 1 \in 0 .. N /\ ~(D <= D - 1) /\ D \in Nat
  BY <1>1, <1>3, <1>4
<1>6. s \notin W[D - 1]
  BY <1>4, <1>5
<1>7. s \in nodes /\ adjacent[s] \cap W[D - 1] # {}
  BY <1>1, <1>4, <1>5, <1>6
<1>8. PICK h \in adjacent[s] : h \in W[D - 1]
  BY <1>7
<1> DEFINE E == Distance(nodes, adjacent, h, d)
<1>9. FewestHops(E, nodes, adjacent, h, d)
  BY DistanceIsFewest
<1> HIDE DEF E
<1>10. E \in 0 .. N /\ h \in W[E] /\ E <= D - 1
  BY <1>5, <1>8, <1>9 DEF FewestHops, N, W
<1>11. ASSUME E # D - 1 PROVE FALSE
  <2>1. E + 1 \in 0 .. N /\ E + 1 # 0 /\ (E + 1) - 1 = E /\ ~(D <= E + 1)
    BY <1>3, <1>4, <1>10, <1>11
  <2>2. s \in W[E + 1]
    BY <1>1, <1>7, <1>8, <1>10, <2>1
  <2> QED BY <1>4, <2>1, <2>2
<1>12. E + 1 = D
  BY <1>5, <1>11
<1> QED BY <1>8, <1>12 DEF E, D
=============================================================================
