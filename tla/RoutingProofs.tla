--------------------------- MODULE RoutingProofs ---------------------------
(***************************************************************************)
(* Proof, for every topology file and every source, that the router table  *)
(* is exact.  Three invariants, one on top of the other:                   *)
(*                                                                         *)
(* IInv: a node's entry lists exactly the neighbours one hop nearer among  *)
(* those chosen so far.  Nodes are chosen in the order of their distances  *)
(* (Ordered), so that the entry is still empty when a node is reached by a *)
(* shorter path; and no chosen node has a neighbour more than one hop      *)
(* farther (NoShortcut), so that the shorter path is the only one when it  *)
(* is found.                                                               *)
(*                                                                         *)
(* Found: every distance was offered by a node one hop nearer.  With       *)
(* NoShortcut it follows that the distances are those of shortest paths.   *)
(*                                                                         *)
(* TInv: the hops that are traced back are the nodes of one distance that  *)
(* lie on shortest paths (Level); a round goes one level back.             *)
(***************************************************************************)
EXTENDS Routing, TopologyProofs

Types ==
  /\ chosen \subseteq Index /\ index \in chosen
  /\ dist \in [Index -> Nat]
  /\ preTable \in [Index -> Seq(Index)]

Ordered ==
  /\ \A c \in chosen : dist[c] <= dist[index]
  /\ \A u \in Index \ chosen : dist[index] <= dist[u]

NoShortcut == \A c \in Offered : \A i \in Neighbours(c) : dist[i] <= dist[c] + 1

IInv ==
  /\ nodeSet \in Seq(RoleID)
  /\ phase \in {"file", "relax", "choose", "trace", "done"}
  /\ IF phase = "file" THEN preTable = <<>>
     ELSE Types /\ Ordered /\ NoShortcut /\ PredecessorsExact

-----------------------------------------------------------------------------
(* The sequences that the predecessors of a node are. *)

\* p has the elements of S, each once.
IsSetOf(p, S) ==
  /\ {p[k] : k \in DOMAIN p} = S
  /\ \A j, k \in DOMAIN p : p[j] = p[k] => j = k

\* The entry of a node that no neighbour has reached.
LEMMA EmptySetOf == IsSetOf(<<>>, {})
BY DEF IsSetOf

\* The entry of a node just reached by a shorter path.
LEMMA SingleSetOf ==
  ASSUME NEW c
  PROVE  IsSetOf(<<c>>, {c})
<1>1. DOMAIN <<c>> = {1} /\ <<c>>[1] = c
  OBVIOUS
<1> QED BY <1>1 DEF IsSetOf

\* An entry without predecessors is empty: resize(1, c) puts c into it.
LEMMA EmptyIsEmpty ==
  ASSUME NEW T, NEW p \in Seq(T), IsSetOf(p, {})
  PROVE  p = <<>>
<1>1. Len(p) \in Nat /\ DOMAIN p = 1 .. Len(p)
  OBVIOUS
<1>2. Len(p) = 0
  <2>1. SUFFICES ASSUME Len(p) # 0 PROVE FALSE
    OBVIOUS
  <2>2. 1 \in DOMAIN p
    BY <1>1, <2>1
  <2> QED BY <2>2 DEF IsSetOf
<1> QED BY <1>2

\* The entry of a node reached by one more path of the same length.
LEMMA AppendSetOf ==
  ASSUME NEW T, NEW p \in Seq(T), NEW S, NEW c \in T, c \notin S, IsSetOf(p, S)
  PROVE  IsSetOf(Append(p, c), S \cup {c})
<1> DEFINE q == Append(p, c)
<1>1. /\ Len(p) \in Nat /\ DOMAIN p = 1 .. Len(p)
      /\ DOMAIN q = DOMAIN p \cup {Len(p) + 1} /\ Len(p) + 1 \notin DOMAIN p
      /\ q[Len(p) + 1] = c /\ \A k \in DOMAIN p : q[k] = p[k]
  OBVIOUS
<1>2. \A k \in DOMAIN p : p[k] \in S
  BY DEF IsSetOf
<1> HIDE DEF q
<1>3. {q[k] : k \in DOMAIN q} = S \cup {c}
  BY <1>1 DEF IsSetOf
<1>4. ASSUME NEW j \in DOMAIN q, NEW k \in DOMAIN q, q[j] = q[k]
      PROVE  j = k
  BY <1>1, <1>2, <1>4 DEF IsSetOf
<1> QED BY <1>3, <1>4 DEF IsSetOf, q

-----------------------------------------------------------------------------
(* The relaxation. *)

Nearer(i) == {c \in Offered : i \in Neighbours(c) /\ dist[c] + 1 = dist[i]}

\* PredecessorsExact, entry by entry.
LEMMA ExactEntries ==
  PredecessorsExact <=> \A i \in DOMAIN preTable : IsSetOf(preTable[i], Nearer(i))
BY DEF PredecessorsExact, IsSetOf, Nearer

\* ... and after a step.
LEMMA ExactEntriesNext ==
  PredecessorsExact' <=> \A i \in DOMAIN preTable' : IsSetOf(preTable'[i], Nearer(i)')
BY DEF PredecessorsExact, IsSetOf, Nearer

\* The next entry of a node: the shorter path is the first that is found,
\* a path as short is a new one, and any other offer is no shortest path.
LEMMA RelaxEntry ==
  ASSUME IInv, Relax, NEW i \in Index
  PROVE  /\ dist'[i] \in Nat /\ dist'[i] <= dist[i]
         /\ i \in chosen => dist'[i] = dist[i]
         /\ i \in Index \ chosen => dist[index] <= dist'[i]
         /\ i \in Neighbours(index) => dist'[i] <= dist[index] + 1
         /\ preTable'[i] \in Seq(Index)
         /\ IsSetOf(preTable'[i], Nearer(i)')
<1> USE DEF Relax
<1>1. /\ phase = "relax" /\ chosen \subseteq Index /\ index \in chosen /\ index \in Index
      /\ dist \in [Index -> Nat] /\ preTable \in [Index -> Seq(Index)]
      /\ Ordered /\ NoShortcut /\ PredecessorsExact
  BY DEF IInv, Types
<1>2. Index' = Index /\ (\A c : Neighbours(c)' = Neighbours(c)) /\ chosen' = chosen
      /\ Offered = chosen \ {index} /\ Offered' = chosen /\ index' = index
  BY <1>1 DEF Index, Neighbours, Offered, graph
<1>3. IsSetOf(preTable[i], Nearer(i))
  BY <1>1, ExactEntries
<1>4. \A c \in Offered : dist[c] \in Nat /\ dist[c] <= dist[index]
  BY <1>1, <1>2 DEF Ordered
<1>5. \A c \in chosen : dist'[c] = dist[c]
  BY <1>1 DEF Relaxed
<1>6. dist[i] \in Nat /\ dist[index] \in Nat
  BY <1>1
<1>7. i \in chosen => dist[i] <= dist[index]
  BY <1>1 DEF Ordered
<1>8. i \notin chosen => dist[index] <= dist[i]
  BY <1>1 DEF Ordered
<1>9. i \in Relaxed <=> i \in Neighbours(index) /\ i \notin chosen
  BY DEF Relaxed
<1>13. preTable'[i] = Offer(i)
  OBVIOUS
<1>10. CASE i \in Relaxed /\ dist[i] > dist[index] + 1
  <2>1. dist'[i] = dist[index] + 1
    BY <1>10
  <2>2. Nearer(i) = {}
    BY <1>4, <1>6, <1>10 DEF Nearer
  <2>3. preTable[i] = <<>>
    BY <1>1, <1>3, <2>2, EmptyIsEmpty
  <2>4. preTable'[i] = ResizeToOne(preTable[i], index)
    BY <1>6, <1>10, <1>13 DEF Offer
  <2>7. preTable'[i] = <<index>>
    BY <2>3, <2>4 DEF ResizeToOne
  <2>8. preTable'[i] \in Seq(Index)
    <3> HIDE DEF Relax
    <3> QED BY <1>1, <2>7
  <2>5. \A c \in Offered : i \in Neighbours(c) => dist[c] # dist[index]
    BY <1>1, <1>6, <1>10 DEF NoShortcut
  <2>6. Nearer(i)' = {index}
    BY <1>1, <1>2, <1>4, <1>5, <1>6, <1>9, <1>10, <2>1, <2>5 DEF Nearer
  <2>9. IsSetOf(preTable'[i], Nearer(i)')
    BY <2>6, <2>7, SingleSetOf
  <2> HIDE DEF Relax
  <2> QED BY <1>6, <1>9, <1>10, <2>1, <2>8, <2>9
<1>11. CASE i \in Relaxed /\ dist[i] = dist[index] + 1
  <2>1. dist'[i] = dist[i] /\ preTable'[i] = Append(preTable[i], index)
    BY <1>6, <1>11, <1>13 DEF Offer
  <2>2. index \notin Nearer(i) /\ Nearer(i)' = Nearer(i) \cup {index}
    BY <1>1, <1>2, <1>5, <1>9, <1>11, <2>1 DEF Nearer
  <2>3. IsSetOf(preTable'[i], Nearer(i)')
    <3> HIDE DEF Relax
    <3>1. preTable[i] \in Seq(Index) /\ index \in Index
      BY <1>1
    <3>2. IsSetOf(Append(preTable[i], index), Nearer(i) \cup {index})
      BY <1>3, <2>2, <3>1, AppendSetOf
    <3> QED BY <2>1, <2>2, <3>2
  <2>4. preTable'[i] \in Seq(Index)
    <3> HIDE DEF Relax
    <3>1. preTable[i] \in Seq(Index) /\ index \in Index
      BY <1>1
    <3> QED BY <2>1, <3>1
  <2> HIDE DEF Relax
  <2> QED BY <1>6, <1>9, <1>11, <2>1, <2>3, <2>4
<1>12. CASE ~(i \in Relaxed /\ dist[i] >= dist[index] + 1)
  <2>1. dist'[i] = dist[i] /\ preTable'[i] = preTable[i]
    BY <1>6, <1>12, <1>13 DEF Offer
  <2>2. i \in Neighbours(index) => dist[index] + 1 # dist[i] /\ dist[i] <= dist[index] + 1
    BY <1>6, <1>7, <1>9, <1>12
  <2>3. Nearer(i)' = Nearer(i)
    BY <1>1, <1>2, <1>5, <2>1, <2>2 DEF Nearer
  <2> QED BY <1>1, <1>3, <1>6, <1>8, <2>1, <2>2, <2>3
<1> QED BY <1>6, <1>10, <1>11, <1>12

-----------------------------------------------------------------------------
(* The steps. *)

\* Relaxation keeps the order and the entries, and closes the chosen node.
LEMMA RelaxInv == IInv /\ Relax => IInv'
<1> SUFFICES ASSUME IInv, Relax PROVE IInv'
  OBVIOUS
<1>1. /\ phase = "relax" /\ phase' = "choose" /\ nodeSet \in Seq(RoleID) /\ nodeSet' = nodeSet
      /\ index' = index /\ chosen' = chosen /\ UNCHANGED graph
      /\ Types /\ Ordered /\ NoShortcut
  BY DEF Relax, IInv, graph
<1>2. Index' = Index /\ (\A c : Neighbours(c)' = Neighbours(c))
      /\ Offered = chosen \ {index} /\ Offered' = chosen
  BY <1>1 DEF Index, Neighbours, Offered, graph
<1>3. DOMAIN dist' = Index /\ dist' = [i \in Index |-> dist'[i]]
      /\ DOMAIN preTable' = Index /\ preTable' = [i \in Index |-> preTable'[i]]
  BY DEF Relax
<1>4. Types'
  BY <1>1, <1>2, <1>3, RelaxEntry DEF Types
<1>5. Ordered'
  BY <1>1, <1>2, RelaxEntry DEF Ordered, Types
<1>6. NoShortcut'
  <2>1. SUFFICES ASSUME NEW c \in chosen, NEW i \in Neighbours(c) PROVE dist'[i] <= dist'[c] + 1
    BY <1>2 DEF NoShortcut
  <2>2. i \in Index /\ c \in Index /\ dist'[c] = dist[c] /\ dist'[i] <= dist[i]
        /\ dist[i] \in Nat /\ dist[c] \in Nat /\ dist'[i] \in Nat
    BY <1>1, RelaxEntry DEF Types, Neighbours
  <2>3. CASE c = index
    BY <2>1, <2>2, <2>3, RelaxEntry
  <2>4. CASE c # index
    BY <1>1, <1>2, <2>1, <2>2, <2>4 DEF NoShortcut
  <2> QED BY <2>3, <2>4
<1>7. PredecessorsExact'
  BY <1>3, RelaxEntry, ExactEntriesNext
<1> QED BY <1>1, <1>4, <1>5, <1>6, <1>7 DEF IInv

\* The nearest node that is left comes next in the order.
LEMMA ChooseInv == ASSUME IInv, NEW i \in Index, Choose(i) PROVE IInv'
<1>1. /\ phase = "choose" /\ phase' = "relax" /\ i \in Index \ chosen
      /\ index' = i /\ chosen' = chosen \cup {i} /\ UNCHANGED <<graph, dist, preTable>>
      /\ nodeSet \in Seq(RoleID) /\ nodeSet' = nodeSet
      /\ Types /\ Ordered /\ NoShortcut /\ PredecessorsExact
      /\ \A j \in Index \ chosen : dist[i] <= dist[j]
  <2>1. \A j \in Index \ chosen : dist[i] \in Nat /\ dist[j] \in Nat
    BY DEF Choose, IInv, Types
  <2> QED BY <2>1 DEF Choose, IInv, graph
<1>2. Index' = Index /\ (\A c : Neighbours(c)' = Neighbours(c)) /\ Offered' = Offered
  BY <1>1 DEF Index, Neighbours, Offered, graph
<1>3. Types'
  BY <1>1, <1>2 DEF Types
<1>4. Ordered'
  <2>1. \A c \in chosen : dist[c] \in Nat /\ dist[c] <= dist[index] /\ dist[index] \in Nat
        /\ dist[i] \in Nat /\ dist[index] <= dist[i]
    BY <1>1 DEF Types, Ordered
  <2>2. \A c \in chosen : dist[c] <= dist[i]
    BY <2>1
  <2> QED BY <1>1, <1>2, <2>1, <2>2 DEF Ordered
<1>5. NoShortcut' /\ PredecessorsExact'
  BY <1>1, <1>2 DEF NoShortcut, PredecessorsExact
<1> QED BY <1>1, <1>3, <1>4, <1>5 DEF IInv

\* The last chosen node would offer nothing new: all others are as near.
LEMMA FinishInv == IInv /\ Finish => IInv'
<1> SUFFICES ASSUME IInv, Finish PROVE IInv'
  OBVIOUS
<1>1. /\ phase = "relax" /\ phase' = "trace" /\ chosen = Index
      /\ UNCHANGED <<graph, dist, preTable, chosen, index, nodeSet>>
      /\ nodeSet \in Seq(RoleID)
      /\ Types /\ Ordered /\ NoShortcut /\ PredecessorsExact
  BY DEF Finish, IInv, graph, dijkstra
<1>2. Index' = Index /\ (\A c : Neighbours(c)' = Neighbours(c))
      /\ Offered = chosen \ {index} /\ Offered' = chosen
  BY <1>1 DEF Index, Neighbours, Offered, graph
<1>3. Types' /\ Ordered'
  BY <1>1, <1>2 DEF Types, Ordered
<1>4. \A i \in Index : dist[i] \in Nat /\ dist[index] \in Nat /\ dist[i] <= dist[index]
  BY <1>1 DEF Types, Ordered
<1>5. NoShortcut'
  BY <1>1, <1>2, <1>4 DEF NoShortcut, Neighbours
<1>6. ASSUME NEW i \in Index PROVE Nearer(i)' = Nearer(i)
  <2>1. dist[index] + 1 # dist[i]
    BY <1>4
  <2> QED BY <1>1, <1>2, <2>1 DEF Nearer
<1>7. DOMAIN preTable = Index
  BY <1>1 DEF Types
<1>8. PredecessorsExact'
  BY <1>1, <1>6, <1>7, ExactEntries, ExactEntriesNext
<1> QED BY <1>1, <1>3, <1>5, <1>8 DEF IInv

\* At the start the source is chosen, and nobody has offered anything.
LEMMA StartInv == ASSUME IInv, NEW s \in Index, Start(s) PROVE IInv'
<1>1. /\ phase' = "relax" /\ nodeSet \in Seq(RoleID) /\ nodeSet' = nodeSet /\ Index' = Index
      /\ index' = s /\ chosen' = {s}
      /\ dist' = [i \in Index |-> IF i = s THEN 0 ELSE MAXHOP]
      /\ preTable' = [i \in Index |-> <<>>]
  BY DEF Start, IInv, Index
<1>2. Types'
  BY <1>1 DEF Types, MAXHOP
<1>3. Ordered'
  BY <1>1 DEF Ordered, MAXHOP
<1>4. Offered' = {}
  BY <1>1 DEF Offered
<1>5. NoShortcut'
  BY <1>4 DEF NoShortcut
<1>6. PredecessorsExact'
  BY <1>1, <1>4 DEF PredecessorsExact
<1> QED BY <1>1, <1>2, <1>3, <1>5, <1>6 DEF IInv

\* The tracing only reads the entries.
LEMMA TracingInv == IInv /\ (Back \/ Record) => IInv'
<1> SUFFICES ASSUME IInv, Back \/ Record PROVE IInv'
  OBVIOUS
<1>1. /\ phase = "trace" /\ phase' \in {"trace", "done"}
      /\ UNCHANGED <<graph, nodeSet, adjacent, dist, preTable, chosen, index>>
  BY DEF Back, Record, graph, dijkstra
<1>2. Index' = Index /\ (\A c : Neighbours(c)' = Neighbours(c)) /\ Offered' = Offered
  BY <1>1 DEF Index, Neighbours, Offered
<1> QED BY <1>1, <1>2 DEF IInv, Types, Ordered, NoShortcut, PredecessorsExact

\* A line of the file adds at most two nodes, both from the file.
LEMMA AddLinkInv ==
  ASSUME IInv, NEW r1 \in RoleID, NEW r2 \in RoleID, AddLink(r1, r2)
  PROVE  IInv'
<1>1. \A q \in Seq(RoleID) : \A r \in RoleID : AddNode(q, r) \in Seq(RoleID)
  BY DEF AddNode
<1> QED BY <1>1 DEF AddLink, IInv, dijkstra

-----------------------------------------------------------------------------
\* The invariant holds in every state.
THEOREM Invariant == Spec => []IInv
<1>1. Init => IInv
  BY DEF Init, IInv
<1>2. IInv /\ [Next]_vars => IInv'
  <2> SUFFICES ASSUME IInv, [Next]_vars PROVE IInv'
    OBVIOUS
  <2>1. ASSUME NEW line \in Lines, AddLink(line[1], line[2]) PROVE IInv'
    <3>1. line[1] \in RoleID /\ line[2] \in RoleID
      BY LinesAssumption
    <3> QED BY <2>1, <3>1, AddLinkInv
  <2>2. ASSUME NEW s \in Index, Start(s) PROVE IInv'
    BY <2>2, StartInv
  <2>3. ASSUME Compute PROVE IInv'
    BY <2>3, RelaxInv, ChooseInv, FinishInv, TracingInv DEF Compute
  <2>4. CASE UNCHANGED vars
    <3>1. UNCHANGED <<phase, nodeSet, adjacent, index, dist, chosen, preTable>>
      BY <2>4 DEF vars, graph, dijkstra
    <3>2. Index' = Index /\ (\A c : Neighbours(c)' = Neighbours(c)) /\ Offered' = Offered
      BY <3>1 DEF Index, Neighbours, Offered
    <3> QED BY <3>1, <3>2 DEF IInv, Types, Ordered, NoShortcut, PredecessorsExact
  <2> QED BY <2>1, <2>2, <2>3, <2>4 DEF Next
<1> QED BY <1>1, <1>2, PTL DEF Spec

\* Each node's entry lists exactly the neighbours one hop nearer that have
\* been chosen, each once, for every topology and source (Topology.cpp:346).
THEOREM PredecessorsCorrect == Spec => []PredecessorsExact
<1>1. IInv => PredecessorsExact
  BY DEF IInv, PredecessorsExact
<1> QED BY <1>1, Invariant, PTL

\* Nodes are chosen in the order of their distances, and no chosen node has a
\* neighbour more than one hop farther (Topology.cpp:357).
THEOREM OrderCorrect == Spec => [](phase # "file" => Ordered /\ NoShortcut)
<1>1. IInv => (phase # "file" => Ordered /\ NoShortcut)
  BY DEF IInv
<1> QED BY <1>1, Invariant, PTL

-----------------------------------------------------------------------------
(* The distances.  What was found of each node on the way: the source is   *)
(* at 0, nothing else is; a distance other than MAXHOP was offered by a    *)
(* node one hop nearer, and is at most the number of nodes that offered.   *)

FoundInv ==
  /\ source \in Index /\ source \in chosen
  /\ IsFiniteSet(chosen)
  /\ \A i \in Index :
       /\ dist[i] <= MAXHOP
       /\ dist[i] = 0 <=> i = source
       /\ dist[i] \notin {0, MAXHOP} =>
            \E c \in Offered : i \in Neighbours(c) /\ dist[c] + 1 = dist[i]
       /\ dist[i] # MAXHOP => dist[i] <= Cardinality(Offered \ {i})
  /\ phase \in {"trace", "done"} => chosen = Index

Found == phase # "file" => FoundInv

\* At the start.
LEMMA StartFound == ASSUME IInv, NEW s \in Index, Start(s) PROVE FoundInv'
<1>1. /\ phase' = "relax" /\ nodeSet' = nodeSet /\ Index' = Index
      /\ index' = s /\ chosen' = {s} /\ source' = s
      /\ dist' = [i \in Index |-> IF i = s THEN 0 ELSE MAXHOP]
  BY DEF Start, Index
<1>2. Offered' = {}
  BY <1>1 DEF Offered
<1>3. IsFiniteSet({s})
  BY FS_Singleton
<1>4. \A i \in Index : Cardinality(Offered' \ {i}) = 0
  <2>1. \A i \in Index : Offered' \ {i} = {}
    BY <1>2
  <2> QED BY <2>1, FS_EmptySet
<1>5. \A i \in Index :
        /\ dist'[i] <= MAXHOP
        /\ dist'[i] = 0 <=> i = s
        /\ dist'[i] \in {0, MAXHOP}
        /\ dist'[i] # MAXHOP => dist'[i] <= Cardinality(Offered' \ {i})
  BY <1>1, <1>4 DEF MAXHOP
<1> QED BY <1>1, <1>3, <1>5 DEF FoundInv

\* A node reached by the chosen one is as far as one more has offered.
LEMMA RelaxFound == ASSUME IInv, FoundInv, Relax PROVE FoundInv'
<1>1. /\ phase = "relax" /\ phase' = "choose" /\ source' = source
      /\ chosen \subseteq Index /\ index \in chosen /\ index \in Index
      /\ dist \in [Index -> Nat] /\ Ordered
  BY DEF Relax, IInv, Types, graph
<1>2. Index' = Index /\ (\A c : Neighbours(c)' = Neighbours(c)) /\ chosen' = chosen
      /\ Offered = chosen \ {index} /\ Offered' = chosen /\ index' = index
  BY <1>1 DEF Index, Neighbours, Offered, graph, Relax
<1>3. IsFiniteSet(chosen) /\ IsFiniteSet(Offered)
  <2>1. IsFiniteSet(chosen)
    BY DEF FoundInv
  <2> QED BY <1>2, <2>1, PartOfFinite
<1>4. \A i \in Index : dist'[i] = IF i \in Neighbours(index) /\ i \notin chosen /\ dist[i] > dist[index] + 1
                                 THEN dist[index] + 1 ELSE dist[i]
  BY DEF Relax, Relaxed
<1>5. \A c \in chosen : c \in Index /\ dist'[c] = dist[c]
  BY <1>1, <1>4
<1>6. ASSUME NEW i \in Index, dist'[i] # dist[i]
      PROVE  /\ dist'[i] = dist[index] + 1 /\ dist[index] + 1 < dist[i] /\ i \notin chosen
             /\ i \in Neighbours(index) /\ dist[index] + 1 < MAXHOP
             /\ dist[index] + 1 <= Cardinality(chosen)
  <2>1. /\ dist'[i] = dist[index] + 1 /\ dist[index] + 1 < dist[i] /\ i \notin chosen
        /\ i \in Neighbours(index)
    BY <1>1, <1>4, <1>6
  <2>2. dist[i] <= MAXHOP /\ dist[i] \in Nat /\ dist[index] \in Nat
    BY <1>1 DEF FoundInv
  <2>3. dist[index] + 1 < MAXHOP /\ dist[index] # MAXHOP
    BY <2>1, <2>2 DEF MAXHOP
  <2>4. dist[index] <= Cardinality(chosen \ {index})
    <3>1. Offered \ {index} = chosen \ {index}
      BY <1>2
    <3>2. dist[index] <= Cardinality(Offered \ {index})
      BY <1>1, <2>3 DEF FoundInv
    <3> QED BY <3>1, <3>2
  <2>5. Cardinality(chosen \ {index}) = Cardinality(chosen) - 1 /\ Cardinality(chosen) \in Nat
    BY <1>1, <1>3, FS_RemoveElement, FS_CardinalityType
  <2> QED BY <2>1, <2>2, <2>3, <2>4, <2>5
<1>7. ASSUME NEW i \in Index
      PROVE  /\ dist'[i] <= MAXHOP
             /\ dist'[i] = 0 <=> i = source
             /\ dist'[i] \notin {0, MAXHOP} =>
                  \E c \in chosen : i \in Neighbours(c) /\ dist'[c] + 1 = dist'[i]
             /\ dist'[i] # MAXHOP => dist'[i] <= Cardinality(chosen \ {i})
  <2>1. dist[i] \in Nat /\ dist[index] \in Nat
    BY <1>1
  <2>2. CASE dist'[i] # dist[i]
    <3>1. chosen \ {i} = chosen
      BY <1>6, <2>2
    <3>2. i # source /\ dist'[i] # 0 /\ dist'[i] <= MAXHOP
      BY <1>6, <2>1, <2>2 DEF FoundInv, MAXHOP
    <3> QED BY <1>1, <1>5, <1>6, <2>2, <3>1, <3>2
  <2>3. CASE dist'[i] = dist[i]
    <3>1. /\ Cardinality(Offered \ {i}) <= Cardinality(chosen \ {i})
          /\ Cardinality(Offered \ {i}) \in Nat /\ Cardinality(chosen \ {i}) \in Nat
      <4>1. IsFiniteSet(chosen \ {i})
        BY <1>3, FS_RemoveElement
      <4>2. Offered \ {i} \subseteq chosen \ {i}
        BY <1>2
      <4> QED BY <4>1, <4>2, PartOfFinite
    <3>2. /\ dist[i] <= MAXHOP
          /\ dist[i] = 0 <=> i = source
          /\ dist[i] \notin {0, MAXHOP} =>
               \E c \in Offered : i \in Neighbours(c) /\ dist[c] + 1 = dist[i]
          /\ dist[i] # MAXHOP => dist[i] <= Cardinality(Offered \ {i})
      BY DEF FoundInv
    <3>4. dist[i] # MAXHOP => dist[i] <= Cardinality(chosen \ {i})
      BY <2>1, <3>1, <3>2
    <3>5. \A c \in Offered : c \in chosen /\ dist'[c] = dist[c]
      BY <1>2, <1>5
    <3> QED BY <2>3, <3>2, <3>4, <3>5
  <2> QED BY <2>2, <2>3
<1>8. source \in Index /\ source \in chosen
  BY DEF FoundInv
<1> QED BY <1>1, <1>2, <1>3, <1>7, <1>8 DEF FoundInv

\* The other steps find nothing new.
LEMMA OtherFound ==
  ASSUME IInv, FoundInv, phase # "file", UNCHANGED <<nodeSet, adjacent, source, dist>>, Offered \subseteq Offered',
         IsFiniteSet(chosen'), chosen \subseteq chosen',
         phase' \in {"trace", "done"} => chosen' = Index
  PROVE  FoundInv'
<1>1. Index' = Index /\ (\A c : Neighbours(c)' = Neighbours(c))
  BY DEF Index, Neighbours
<1>2. IsFiniteSet(Offered')
  <2>1. Offered' \subseteq chosen'
    BY DEF Offered
  <2> QED BY <2>1, PartOfFinite
<1>3. ASSUME NEW i \in Index, dist[i] # MAXHOP PROVE dist[i] <= Cardinality(Offered' \ {i})
  <2>1. Offered \ {i} \subseteq Offered' \ {i} /\ IsFiniteSet(Offered' \ {i})
    BY <1>2, FS_RemoveElement
  <2>2. /\ Cardinality(Offered \ {i}) <= Cardinality(Offered' \ {i})
        /\ Cardinality(Offered' \ {i}) \in Nat /\ Cardinality(Offered \ {i}) \in Nat
    BY <2>1, PartOfFinite
  <2>3. dist[i] <= Cardinality(Offered \ {i})
    BY <1>3 DEF FoundInv
  <2>4. dist[i] \in Int
    BY DEF IInv, Types
  <2> QED BY <2>2, <2>3, <2>4
<1> QED BY <1>1, <1>3 DEF FoundInv

-----------------------------------------------------------------------------
(* ... are those of shortest paths, once all nodes are chosen. *)

Adj == [k \in Index |-> Neighbours(k)]

\* The nodes within k hops of their destination d.
Near(d, k) == Within(Index, Adj, d)[k]

\* All nodes are chosen.
Closed == IInv /\ FoundInv /\ phase \in {"trace", "done"}

LEMMA NearFacts ==
  ASSUME nodeSet \in Seq(RoleID), NEW d
  PROVE  /\ Len(nodeSet) \in Nat /\ IsFiniteSet(Index) /\ Cardinality(Index) = Len(nodeSet)
         /\ Near(d, 0) = {d}
         /\ \A k \in 0 .. Len(nodeSet) : k # 0 =>
              Near(d, k) = Near(d, k - 1) \cup {u \in Index : Neighbours(u) \cap Near(d, k - 1) # {}}
<1>1. Len(nodeSet) \in Nat
  OBVIOUS
<1>2. IsFiniteSet(Index) /\ Cardinality(Index) = Len(nodeSet)
  BY <1>1, FS_Interval DEF Index
<1>3. \A u \in Index : Adj[u] = Neighbours(u)
  BY DEF Adj
<1>4. /\ Within(Index, Adj, d)[0] = {d}
      /\ \A k \in 0 .. Len(nodeSet) : k # 0 =>
           Within(Index, Adj, d)[k] = Within(Index, Adj, d)[k - 1]
             \cup {u \in Index : Adj[u] \cap Within(Index, Adj, d)[k - 1] # {}}
  BY <1>1, <1>2, WithinEquations
<1> QED BY <1>1, <1>2, <1>3, <1>4 DEF Near

\* What holds of the distances when all nodes are chosen.
LEMMA ClosedFacts ==
  ASSUME Closed
  PROVE  /\ nodeSet \in Seq(RoleID) /\ chosen = Index /\ Offered = Index
         /\ source \in Index /\ dist[source] = 0
         /\ \A i \in Index :
              /\ dist[i] \in Nat /\ dist[i] <= MAXHOP
              /\ dist[i] = 0 <=> i = source
              /\ dist[i] \notin {0, MAXHOP} =>
                   \E c \in Index : i \in Neighbours(c) /\ dist[c] + 1 = dist[i]
              /\ dist[i] # MAXHOP => dist[i] < Len(nodeSet)
              /\ \A j \in Neighbours(i) : j \in Index /\ dist[j] <= dist[i] + 1
<1>1. /\ nodeSet \in Seq(RoleID) /\ chosen = Index /\ Offered = chosen
      /\ dist \in [Index -> Nat] /\ NoShortcut
  BY DEF Closed, IInv, FoundInv, Types, Offered
<1>2. IsFiniteSet(Index) /\ Cardinality(Index) = Len(nodeSet) /\ Len(nodeSet) \in Nat
  BY <1>1, NearFacts
<1>3. ASSUME NEW i \in Index, dist[i] # MAXHOP PROVE dist[i] < Len(nodeSet)
  <2>1. Cardinality(Index \ {i}) = Len(nodeSet) - 1
    BY <1>2, FS_RemoveElement
  <2>2. dist[i] <= Cardinality(Index \ {i}) /\ dist[i] \in Nat
    BY <1>1, <1>3 DEF Closed, FoundInv
  <2> QED BY <1>2, <2>1, <2>2
<1>4. \A i \in Index : \A j \in Neighbours(i) : j \in Index /\ dist[j] <= dist[i] + 1
  BY <1>1 DEF NoShortcut, Neighbours
<1> QED BY <1>1, <1>3, <1>4 DEF Closed, FoundInv

\* No node is found farther from the source than a path through another says.
LEMMA NotFarther ==
  ASSUME Closed, NEW d \in Index, NEW k \in 0 .. Len(nodeSet),
         NEW p \in Index, p \in Near(d, k)
  PROVE  dist[d] <= dist[p] + k
<1> DEFINE V == {m \in Nat : m <= Len(nodeSet) =>
                   \A u \in Index : u \in Near(d, m) => dist[d] <= dist[u] + m}
<1>1. /\ Len(nodeSet) \in Nat /\ Near(d, 0) = {d}
      /\ \A m \in 0 .. Len(nodeSet) : m # 0 =>
           Near(d, m) = Near(d, m - 1) \cup {u \in Index : Neighbours(u) \cap Near(d, m - 1) # {}}
  BY ClosedFacts, NearFacts
<1>2. \A i \in Index : dist[i] \in Nat /\ \A j \in Neighbours(i) : j \in Index /\ dist[j] <= dist[i] + 1
  BY ClosedFacts
<1>3. 0 \in V
  BY <1>1, <1>2
<1>4. ASSUME NEW m \in V PROVE m + 1 \in V
  <2> SUFFICES ASSUME m + 1 <= Len(nodeSet), NEW u \in Index, u \in Near(d, m + 1)
               PROVE  dist[d] <= dist[u] + (m + 1)
    OBVIOUS
  <2>1. m \in Nat /\ m <= Len(nodeSet) /\ m + 1 \in 0 .. Len(nodeSet) /\ m + 1 # 0 /\ (m + 1) - 1 = m
    BY <1>1
  <2>2. u \in Near(d, m) \/ \E h \in Neighbours(u) : h \in Near(d, m)
    BY <1>1, <2>1
  <2>3. CASE u \in Near(d, m)
    BY <1>2, <2>1, <2>3
  <2>4. ASSUME NEW h \in Neighbours(u), h \in Near(d, m) PROVE dist[d] <= dist[u] + (m + 1)
    <3>1. h \in Index /\ dist[h] <= dist[u] + 1 /\ dist[h] \in Nat /\ dist[u] \in Nat /\ dist[d] \in Nat
      BY <1>2
    <3>2. dist[d] <= dist[h] + m
      BY <2>1, <2>4, <3>1
    <3> QED BY <2>1, <3>1, <3>2
  <2> QED BY <2>2, <2>3, <2>4
<1>5. V \in SUBSET Nat
  OBVIOUS
<1> HIDE DEF V
<1>6. V = Nat
  BY <1>3, <1>4, <1>5, AllNumbers
<1>7. k \in Nat /\ k <= Len(nodeSet)
  BY <1>1
<1> QED BY <1>6, <1>7 DEF V

\* ... and none nearer than there is a path: its predecessors lead back.
LEMMA NotNearer ==
  ASSUME Closed, NEW d \in Index, dist[d] # MAXHOP
  PROVE  source \in Near(d, dist[d])
<1> DEFINE V == {m \in Nat : m <= dist[d] =>
                   \E u \in Index : dist[u] + m = dist[d] /\ u \in Near(d, m)}
<1>1. /\ Len(nodeSet) \in Nat /\ Near(d, 0) = {d}
      /\ \A m \in 0 .. Len(nodeSet) : m # 0 =>
           Near(d, m) = Near(d, m - 1) \cup {u \in Index : Neighbours(u) \cap Near(d, m - 1) # {}}
  BY ClosedFacts, NearFacts
<1>2. /\ dist[d] \in Nat /\ dist[d] < Len(nodeSet) /\ dist[d] < MAXHOP
      /\ \A i \in Index : /\ dist[i] \in Nat
                          /\ dist[i] = 0 <=> i = source
                          /\ dist[i] \notin {0, MAXHOP} =>
                               \E c \in Index : i \in Neighbours(c) /\ dist[c] + 1 = dist[i]
  BY ClosedFacts DEF MAXHOP
<1>3. 0 \in V
  BY <1>1, <1>2
<1>4. ASSUME NEW m \in V PROVE m + 1 \in V
  <2> SUFFICES ASSUME m + 1 <= dist[d]
               PROVE  \E u \in Index : dist[u] + (m + 1) = dist[d] /\ u \in Near(d, m + 1)
    OBVIOUS
  <2>1. m \in Nat /\ m <= dist[d] /\ m + 1 \in 0 .. Len(nodeSet) /\ m + 1 # 0 /\ (m + 1) - 1 = m
    BY <1>1, <1>2
  <2>2. PICK u \in Index : dist[u] + m = dist[d] /\ u \in Near(d, m)
    BY <2>1
  <2>3. dist[u] \notin {0, MAXHOP}
    BY <1>2, <2>1, <2>2 DEF MAXHOP
  <2>4. PICK c \in Index : u \in Neighbours(c) /\ dist[c] + 1 = dist[u]
    BY <1>2, <2>3
  <2>5. c \in Near(d, m + 1)
    <3>1. Near(d, m + 1) = Near(d, m) \cup {v \in Index : Neighbours(v) \cap Near(d, m) # {}}
      BY <1>1, <2>1
    <3>2. Neighbours(c) \cap Near(d, m) # {}
      BY <2>2, <2>4
    <3> QED BY <3>1, <3>2
  <2>6. dist[c] + (m + 1) = dist[d]
    <3>1. dist[c] \in Nat /\ dist[u] \in Nat /\ dist[d] \in Nat
      BY <1>2
    <3> QED BY <2>1, <2>2, <2>4, <3>1
  <2> QED BY <2>5, <2>6
<1>5. V \in SUBSET Nat
  OBVIOUS
<1> HIDE DEF V
<1>6. V = Nat
  BY <1>3, <1>4, <1>5, AllNumbers
<1>7. PICK u \in Index : dist[u] + dist[d] = dist[d] /\ u \in Near(d, dist[d])
  BY <1>2, <1>6 DEF V
<1>8. dist[u] = 0
  BY <1>2, <1>7
<1> QED BY <1>2, <1>7, <1>8

\* The distance between any two nodes.
LEMMA HopsAreFewest ==
  ASSUME nodeSet \in Seq(RoleID), NEW p, NEW d
  PROVE  \/ Hops(p, d) = MAXHOP /\ \A k \in 0 .. Len(nodeSet) : p \notin Near(d, k)
         \/ /\ Hops(p, d) \in 0 .. Len(nodeSet) /\ p \in Near(d, Hops(p, d))
            /\ \A k \in 0 .. Len(nodeSet) : p \in Near(d, k) => Hops(p, d) <= k
<1>1. Cardinality(Index) = Len(nodeSet) /\ Len(nodeSet) \in Nat
  BY NearFacts
<1>2. FewestHops(Hops(p, d), Index, Adj, p, d)
  BY <1>1, DistanceIsFewest DEF Hops, Adj
<1> QED BY <1>1, <1>2 DEF FewestHops, Near

\* The distances found are right, in a topology of no more than MAXHOP nodes.
LEMMA ClosedDistances ==
  ASSUME Closed, Len(nodeSet) <= MAXHOP, NEW d \in Index
  PROVE  dist[d] = Hops(source, d)
<1>1. /\ nodeSet \in Seq(RoleID) /\ Len(nodeSet) \in Nat
      /\ source \in Index /\ dist[source] = 0
      /\ dist[d] \in Nat /\ dist[d] <= MAXHOP /\ (dist[d] # MAXHOP => dist[d] < Len(nodeSet))
  BY ClosedFacts, NearFacts
<1>2. dist[d] # MAXHOP => dist[d] \in 0 .. Len(nodeSet) /\ source \in Near(d, dist[d])
  BY <1>1, NotNearer
<1>3. ASSUME NEW k \in 0 .. Len(nodeSet), source \in Near(d, k) PROVE dist[d] <= k
  <2>1. dist[d] <= dist[source] + k
    BY <1>1, <1>3, NotFarther
  <2> QED BY <1>1, <2>1
<1>4. CASE Hops(source, d) = MAXHOP /\ \A k \in 0 .. Len(nodeSet) : source \notin Near(d, k)
  BY <1>2, <1>4
<1>5. CASE /\ Hops(source, d) \in 0 .. Len(nodeSet) /\ source \in Near(d, Hops(source, d))
           /\ \A k \in 0 .. Len(nodeSet) : source \in Near(d, k) => Hops(source, d) <= k
  <2>1. dist[d] <= Hops(source, d) /\ Hops(source, d) <= MAXHOP /\ Hops(source, d) \in Nat
    BY <1>1, <1>3, <1>5 DEF MAXHOP
  <2>2. dist[d] # MAXHOP => Hops(source, d) <= dist[d]
    BY <1>2, <1>5
  <2> QED BY <1>1, <2>1, <2>2 DEF MAXHOP
<1> QED BY <1>1, <1>4, <1>5, HopsAreFewest

-----------------------------------------------------------------------------
(* The tracing. *)

\* The nodes j hops from the source on shortest paths from it to d.
Level(d, j) == {u \in Index : dist[u] = j /\ u \in Near(d, dist[d] - j)}

\* What the hops are while destination d is traced back.
HopsInv(d, H) ==
  /\ d = source => H = {}
  /\ d # source /\ dist[d] = MAXHOP => H = {d}
  /\ d # source /\ dist[d] # MAXHOP =>
       H # {} /\ \E j \in 1 .. dist[d] : H = Level(d, j)

Traced ==
  /\ table \in Seq(SUBSET Index)
  /\ phase = "trace" => dest \in Index /\ Len(table) = dest - 1 /\ HopsInv(dest, hops)
  /\ TableExact

Untraced == phase \in {"file", "relax", "choose"} => table = <<>>

\* A destination is traced from itself.
LEMMA FirstHopsLevel ==
  ASSUME IInv, FoundInv, phase # "file", NEW d \in Index
  PROVE  HopsInv(d, FirstHops(d))
<1>0. nodeSet \in Seq(RoleID) /\ dist[d] \in Nat /\ (dist[d] = 0 <=> d = source)
  BY DEF IInv, Types, FoundInv
<1>1. CASE d = source \/ dist[d] = MAXHOP
  BY <1>0, <1>1 DEF HopsInv, FirstHops
<1>2. CASE d # source /\ dist[d] # MAXHOP
  <2>1. dist[d] \in Nat /\ dist[d] # 0 /\ dist[d] - dist[d] = 0 /\ Near(d, 0) = {d}
    BY <1>0, <1>2, NearFacts
  <2>2. Level(d, dist[d]) = {d} /\ dist[d] \in 1 .. dist[d]
    BY <2>1 DEF Level
  <2> QED BY <1>2, <2>2 DEF HopsInv, FirstHops
<1> QED BY <1>1, <1>2

\* The entry of a node, when all nodes are chosen.
LEMMA EntryIsNearer ==
  ASSUME Closed, NEW i \in Index
  PROVE  /\ preTable[i] \in Seq(Index)
         /\ {preTable[i][k] : k \in 1 .. Len(preTable[i])}
              = {c \in Index : i \in Neighbours(c) /\ dist[c] + 1 = dist[i]}
         /\ Inner(i) => \E c \in Index : i \in Neighbours(c) /\ dist[c] + 1 = dist[i]
         /\ dist[i] \notin {0, MAXHOP} => (Inner(i) <=> dist[i] # 1)
<1>1. /\ preTable \in [Index -> Seq(Index)] /\ Offered = Index /\ PredecessorsExact
  BY ClosedFacts DEF Closed, IInv, Types
<1> DEFINE p == preTable[i]
           S == {c \in Index : i \in Neighbours(c) /\ dist[c] + 1 = dist[i]}
<1>2. p \in Seq(Index)
  BY <1>1
<1>3. IsSetOf(p, S)
  BY <1>1, ExactEntries DEF Nearer
<1>4. DOMAIN p = 1 .. Len(p) /\ Len(p) \in Nat
  BY <1>2
<1>5. {p[k] : k \in 1 .. Len(p)} = S
  BY <1>3, <1>4 DEF IsSetOf
<1>6. p = <<>> <=> S = {}
  <2> HIDE DEF p, S
  <2>1. p # <<>> => 1 \in 1 .. Len(p)
    BY <1>2, <1>4
  <2>2. p = <<>> => S = {}
    BY <1>5
  <2> QED BY <1>5, <2>1, <2>2
<1>7. p # <<>> => p[1] \in S
  <2> HIDE DEF p, S
  <2>1. p # <<>> => 1 \in 1 .. Len(p)
    BY <1>2, <1>4
  <2> QED BY <1>5, <2>1
<1>8. Inner(i) => S # {}
  BY <1>6 DEF Inner
<1>9. dist[i] \notin {0, MAXHOP} => (Inner(i) <=> dist[i] # 1)
  <2> SUFFICES ASSUME dist[i] \notin {0, MAXHOP} PROVE Inner(i) <=> dist[i] # 1
    OBVIOUS
  <2>1. S # {}
    BY ClosedFacts
  <2>2. p # <<>> /\ p[1] \in S
    BY <1>6, <1>7, <2>1
  <2>3. dist[p[1]] + 1 = dist[i] /\ p[1] \in Index
    BY <2>2
  <2>4. dist[p[1]] \in Nat /\ (dist[p[1]] = 0 <=> p[1] = source) /\ dist[i] \in Nat
    BY <2>3, ClosedFacts
  <2>5. p[1] = source <=> dist[i] = 1
    BY <2>3, <2>4
  <2> QED BY <2>2, <2>5 DEF Inner
<1>10. Inner(i) => \E c \in Index : i \in Neighbours(c) /\ dist[c] + 1 = dist[i]
  BY <1>8
<1> QED BY <1>2, <1>5, <1>9, <1>10

\* One round takes every node of a level to its predecessors, which are the
\* level before.
LEMMA BackLevel ==
  ASSUME Closed, Len(nodeSet) < MAXHOP, NEW d \in Index, NEW H, HopsInv(d, H),
         \E i \in H : Inner(i)
  PROVE  HopsInv(d, UNION {Preceding(i) : i \in H})
<1>1. /\ nodeSet \in Seq(RoleID) /\ Len(nodeSet) \in Nat
      /\ \A i \in Index :
              /\ dist[i] \in Nat /\ dist[i] <= MAXHOP
              /\ dist[i] = 0 <=> i = source
              /\ dist[i] # MAXHOP => dist[i] < Len(nodeSet)
              /\ \A j \in Neighbours(i) : j \in Index /\ dist[j] <= dist[i] + 1
      /\ \A k \in 0 .. Len(nodeSet) : k # 0 =>
           Near(d, k) = Near(d, k - 1) \cup {u \in Index : Neighbours(u) \cap Near(d, k - 1) # {}}
  BY ClosedFacts, NearFacts
<1>2. CASE d = source
  BY <1>2 DEF HopsInv
<1>3. CASE d # source /\ dist[d] = MAXHOP
  <2>1. Inner(d)
    BY <1>3 DEF HopsInv
  <2>2. PICK c \in Index : dist[c] + 1 = dist[d]
    BY <2>1, EntryIsNearer
  <2>3. dist[c] # MAXHOP /\ dist[c] < Len(nodeSet) /\ dist[c] \in Nat
    BY <1>1, <1>3, <2>2 DEF MAXHOP
  <2> QED BY <1>1, <1>3, <2>2, <2>3 DEF MAXHOP
<1>4. CASE d # source /\ dist[d] # MAXHOP
  <2>1. H # {} /\ \E j \in 1 .. dist[d] : H = Level(d, j)
    BY <1>4 DEF HopsInv
  <2>2. PICK j \in 1 .. dist[d] : H = Level(d, j)
    BY <2>1
  <2>3. /\ dist[d] \in Nat /\ dist[d] < Len(nodeSet) /\ dist[d] < MAXHOP
        /\ j \in Nat /\ 1 <= j /\ j <= dist[d]
    BY <1>1, <1>4 DEF MAXHOP
  <2>4. \A i \in H : i \in Index /\ dist[i] = j /\ dist[i] \notin {0, MAXHOP}
    BY <2>2, <2>3 DEF Level, MAXHOP
  <2>5. j # 1
    BY <2>4, EntryIsNearer
  <2>6. \A i \in H : Preceding(i) = {c \in Index : i \in Neighbours(c) /\ dist[c] + 1 = j}
    BY <2>4, <2>5, EntryIsNearer DEF Preceding
  <2> DEFINE K == dist[d] - j
  <2>7. /\ K \in 0 .. Len(nodeSet) /\ K + 1 \in 0 .. Len(nodeSet) /\ K + 1 # 0 /\ (K + 1) - 1 = K
        /\ dist[d] - (j - 1) = K + 1 /\ j - 1 \in 1 .. dist[d]
    BY <1>1, <2>3, <2>5
  <2>8. Near(d, K + 1) = Near(d, K) \cup {u \in Index : Neighbours(u) \cap Near(d, K) # {}}
    BY <1>1, <2>7
  <2>9. ASSUME NEW c \in Index, NEW i \in H, i \in Neighbours(c), dist[c] + 1 = j
        PROVE  c \in Level(d, j - 1)
    <3>1. i \in Near(d, K)
      BY <2>2 DEF Level
    <3>2. c \in Near(d, K + 1)
      BY <2>8, <2>9, <3>1
    <3>3. dist[c] = j - 1
      BY <1>1, <2>3, <2>9
    <3> QED BY <2>7, <3>2, <3>3 DEF Level
  <2>10. ASSUME NEW c \in Level(d, j - 1)
         PROVE  \E i \in H : i \in Neighbours(c) /\ dist[c] + 1 = j
    <3>1. c \in Index /\ dist[c] = j - 1 /\ c \in Near(d, K + 1) /\ dist[c] \in Nat
      BY <1>1, <2>7 DEF Level
    <3>2. c \notin Near(d, K)
      <4>1. SUFFICES ASSUME c \in Near(d, K) PROVE FALSE
        OBVIOUS
      <4>2. dist[d] <= dist[c] + K
        BY <2>7, <3>1, <4>1, NotFarther
      <4> QED BY <2>3, <3>1, <4>2
    <3>3. PICK i \in Neighbours(c) : i \in Near(d, K)
      BY <2>8, <3>1, <3>2
    <3>4. i \in Index /\ dist[i] <= dist[c] + 1 /\ dist[i] \in Nat
      BY <1>1, <3>1
    <3>5. dist[d] <= dist[i] + K
      BY <2>7, <3>3, <3>4, NotFarther
    <3>6. dist[i] = j
      BY <2>3, <3>1, <3>4, <3>5
    <3>7. i \in H
      BY <2>2, <3>3, <3>4, <3>6 DEF Level
    <3> QED BY <2>3, <3>1, <3>7
  <2> HIDE DEF K
  <2>11. UNION {Preceding(i) : i \in H} = Level(d, j - 1)
    <3>1. ASSUME NEW c \in UNION {Preceding(i) : i \in H} PROVE c \in Level(d, j - 1)
      BY <2>6, <2>9
    <3>2. ASSUME NEW c \in Level(d, j - 1) PROVE c \in UNION {Preceding(i) : i \in H}
      <4>1. PICK i \in H : i \in Neighbours(c) /\ dist[c] + 1 = j
        BY <2>10
      <4>2. c \in Index
        BY DEF Level
      <4> QED BY <2>6, <4>1, <4>2
    <3> QED BY <3>1, <3>2
  <2>12. Level(d, j - 1) # {}
    <3>1. PICK i \in H : TRUE
      BY <2>1
    <3>2. PICK c \in Index : i \in Neighbours(c) /\ dist[c] + 1 = dist[i]
      BY <2>4, ClosedFacts
    <3> QED BY <2>4, <2>9, <3>2
  <2> QED BY <1>4, <2>7, <2>11, <2>12 DEF HopsInv
<1> QED BY <1>2, <1>3, <1>4

\* When no node of the level has predecessors but the source, they are the
\* next hops.
LEMMA RecordExact ==
  ASSUME Closed, Len(nodeSet) < MAXHOP, NEW d \in Index, NEW H, HopsInv(d, H),
         \A i \in H : ~Inner(i)
  PROVE  H = NextHops(Index, Adj, source, d) /\ H \subseteq Index
<1>1. /\ nodeSet \in Seq(RoleID) /\ Len(nodeSet) \in Nat /\ Len(nodeSet) <= MAXHOP
      /\ source \in Index /\ dist[source] = 0
      /\ \A i \in Index :
              /\ dist[i] \in Nat /\ dist[i] <= MAXHOP
              /\ dist[i] = 0 <=> i = source
              /\ dist[i] # MAXHOP => dist[i] < Len(nodeSet)
              /\ \A j \in Neighbours(i) : j \in Index /\ dist[j] <= dist[i] + 1
  BY ClosedFacts, NearFacts DEF MAXHOP
<1>2. dist[d] = Hops(source, d)
  BY <1>1, ClosedDistances
<1>3. LET nexts == NextHops(Index, Adj, source, d) IN
        /\ d = source => nexts = {}
        /\ d # source /\ dist[d] = MAXHOP => nexts = {d}
        /\ d # source /\ dist[d] # MAXHOP =>
             nexts = {h \in Neighbours(source) : Hops(h, d) + 1 = dist[d]}
  <2>1. dist[d] = Distance(Index, Adj, source, d) /\ Adj[source] = Neighbours(source)
        /\ dist[source] # MAXHOP
        /\ \A h : Hops(h, d) = Distance(Index, Adj, h, d)
    BY <1>1, <1>2 DEF Hops, Adj, MAXHOP
  <2>2. d = source => NextHops(Index, Adj, source, d) = {}
    BY <1>1, <2>1, Zenon DEF NextHops
  <2>3. d # source /\ dist[d] = MAXHOP => NextHops(Index, Adj, source, d) = {d}
    BY <2>1, Zenon DEF NextHops
  <2>4. d # source /\ dist[d] # MAXHOP =>
          NextHops(Index, Adj, source, d) = {h \in Neighbours(source) : Hops(h, d) + 1 = dist[d]}
    BY <2>1, Zenon DEF NextHops
  <2> QED BY <2>2, <2>3, <2>4
<1>4. CASE d = source
  BY <1>3, <1>4 DEF HopsInv
<1>5. CASE d # source /\ dist[d] = MAXHOP
  BY <1>3, <1>5 DEF HopsInv
<1>6. CASE d # source /\ dist[d] # MAXHOP
  <2>1. H # {} /\ \E j \in 1 .. dist[d] : H = Level(d, j)
    BY <1>6 DEF HopsInv
  <2>2. PICK j \in 1 .. dist[d] : H = Level(d, j)
    BY <2>1
  <2>3. /\ dist[d] \in Nat /\ dist[d] < Len(nodeSet) /\ dist[d] < MAXHOP
        /\ j \in Nat /\ 1 <= j /\ j <= dist[d]
    BY <1>1, <1>6 DEF MAXHOP
  <2>4. \A i \in H : i \in Index /\ dist[i] = j /\ dist[i] \notin {0, MAXHOP}
    BY <2>2, <2>3 DEF Level, MAXHOP
  <2>5. j = 1
    <3>1. PICK i \in H : TRUE
      BY <2>1
    <3>2. ~Inner(i) /\ i \in Index /\ dist[i] = j /\ dist[i] \notin {0, MAXHOP}
      BY <2>4
    <3> QED BY <3>2, EntryIsNearer
  <2> DEFINE K == dist[d] - 1
  <2>6. K \in 0 .. Len(nodeSet) /\ K + 1 = dist[d] /\ K < MAXHOP
    BY <1>1, <2>3, <2>5 DEF MAXHOP
  <2>7. ASSUME NEW u \in H PROVE u \in Neighbours(source) /\ Hops(u, d) + 1 = dist[d]
    <3>1. u \in Index /\ dist[u] = 1 /\ u \in Near(d, K)
      BY <2>2, <2>5 DEF Level
    <3>2. u \in Neighbours(source)
      <4>1. PICK c \in Index : u \in Neighbours(c) /\ dist[c] + 1 = dist[u]
        BY <2>4, ClosedFacts
      <4>2. dist[c] = 0
        BY <1>1, <3>1, <4>1
      <4> QED BY <1>1, <4>1, <4>2
    <3>3. Hops(u, d) \in 0 .. Len(nodeSet) /\ u \in Near(d, Hops(u, d)) /\ Hops(u, d) <= K
      BY <1>1, <2>6, <3>1, HopsAreFewest
    <3>4. dist[d] <= dist[u] + Hops(u, d)
      BY <3>1, <3>3, NotFarther
    <3> QED BY <2>3, <2>6, <3>1, <3>2, <3>3, <3>4
  <2>8. ASSUME NEW h \in Neighbours(source), Hops(h, d) + 1 = dist[d] PROVE h \in H
    <3>1. h \in Index /\ dist[h] <= 1 /\ dist[h] \in Nat
      BY <1>1
    <3>2. Hops(h, d) # MAXHOP
      BY <2>3, <2>8 DEF MAXHOP
    <3>3. Hops(h, d) \in 0 .. Len(nodeSet) /\ h \in Near(d, Hops(h, d))
      BY <1>1, <3>2, HopsAreFewest
    <3>4. Hops(h, d) = K
      BY <2>3, <2>8, <3>3
    <3>5. dist[d] <= dist[h] + K
      BY <2>6, <3>1, <3>3, <3>4, NotFarther
    <3>6. dist[h] = 1
      BY <2>3, <3>1, <3>5
    <3> QED BY <2>2, <2>5, <3>1, <3>3, <3>4, <3>6 DEF Level
  <2> HIDE DEF K
  <2>9. H = {h \in Neighbours(source) : Hops(h, d) + 1 = dist[d]}
    BY <2>7, <2>8
  <2> QED BY <1>3, <1>6, <2>4, <2>9
<1> QED BY <1>4, <1>5, <1>6

-----------------------------------------------------------------------------
\* A distance other than MAXHOP was offered by a nearer node, in every state.
THEOREM FoundInvariant == Spec => [](IInv /\ Found)
<1>1. Init => IInv /\ Found
  BY DEF Init, IInv, Found
<1>2. IInv /\ IInv' /\ Found /\ [Next]_vars => Found'
  <2> SUFFICES ASSUME IInv, IInv', Found, [Next]_vars PROVE Found'
    OBVIOUS
  <2>1. ASSUME NEW line \in Lines, AddLink(line[1], line[2]) PROVE Found'
    BY <2>1 DEF AddLink, Found
  <2>2. ASSUME NEW s \in Index, Start(s) PROVE Found'
    BY <2>2, StartFound DEF Found
  <2>3. ASSUME Relax PROVE Found'
    <3>1. FoundInv
      BY <2>3 DEF Relax, Found
    <3> QED BY <2>3, <3>1, RelaxFound DEF Found
  <2>4. ASSUME NEW i \in Index, Choose(i) PROVE Found'
    <3>1. FoundInv /\ phase # "file" /\ IsFiniteSet(chosen)
      BY <2>4 DEF Choose, Found, FoundInv
    <3>2. UNCHANGED <<nodeSet, adjacent, source, dist>> /\ chosen' = chosen \cup {i}
      BY <2>4 DEF Choose, graph
    <3>3. Offered \subseteq Offered'
      BY <2>4 DEF Choose, Offered
    <3>4. IsFiniteSet(chosen')
      BY <3>1, <3>2, FS_AddElement
    <3>5. phase' = "relax"
      BY <2>4 DEF Choose
    <3> QED BY <3>1, <3>2, <3>3, <3>4, <3>5, OtherFound DEF Found
  <2>5. ASSUME Finish \/ Back \/ Record PROVE Found'
    <3>1. FoundInv /\ phase # "file" /\ IsFiniteSet(chosen)
      BY <2>5 DEF Finish, Back, Record, Found, FoundInv
    <3>2. UNCHANGED <<nodeSet, adjacent, source, dist, chosen, index>>
      BY <2>5 DEF Finish, Back, Record, graph, dijkstra
    <3>3. Offered \subseteq Offered'
      BY <2>5, <3>2 DEF Finish, Back, Record, Offered
    <3>4. chosen' = Index
      BY <2>5, <3>1, <3>2 DEF Finish, Back, Record, FoundInv
    <3> QED BY <3>1, <3>2, <3>3, <3>4, OtherFound DEF Found
  <2>6. CASE UNCHANGED vars
    <3>1. UNCHANGED <<phase, nodeSet, adjacent, source, dist, chosen, index>>
      BY <2>6 DEF vars, graph, dijkstra
    <3>2. Offered' = Offered /\ Index' = Index /\ \A c : Neighbours(c)' = Neighbours(c)
      BY <3>1 DEF Offered, Index, Neighbours
    <3> QED BY <3>1, <3>2 DEF Found, FoundInv
  <2> QED BY <2>1, <2>2, <2>3, <2>4, <2>5, <2>6 DEF Next, Compute
<1>3. Spec => []IInv
  BY Invariant
<1> QED BY <1>1, <1>2, <1>3, PTL DEF Spec

\* When all nodes are chosen every distance is that of a shortest path, for
\* every topology of no more than MAXHOP nodes, which the code takes for the
\* distance of a node out of reach (Topology.cpp:341).
THEOREM DistancesCorrect == Spec => [](Len(nodeSet) <= MAXHOP => DistancesExact)
<1>1. IInv /\ Found => (Len(nodeSet) <= MAXHOP => DistancesExact)
  <2> SUFFICES ASSUME IInv, Found, Len(nodeSet) <= MAXHOP, phase \in {"trace", "done"},
                      NEW i \in Index
               PROVE  dist[i] = Hops(source, i)
    BY DEF DistancesExact
  <2>1. Closed
    BY DEF Closed, Found
  <2> QED BY <2>1, ClosedDistances
<1> QED BY <1>1, FoundInvariant, PTL

-----------------------------------------------------------------------------
\* Nothing that the hops are measured by changes while they are traced.
LEMMA SameMeasure ==
  ASSUME UNCHANGED <<nodeSet, adjacent, source, dist>>, NEW d, NEW H
  PROVE  /\ Index' = Index /\ Adj' = Adj /\ HopsInv(d, H)' = HopsInv(d, H)
         /\ NextHops(Index, Adj, source, d)' = NextHops(Index, Adj, source, d)
<1>1. Index' = Index /\ \A c : Neighbours(c)' = Neighbours(c)
  BY DEF Index, Neighbours
<1>2. Adj' = Adj
  BY <1>1 DEF Adj
<1>3. \A k : Near(d, k)' = Near(d, k)
  BY <1>1, <1>2 DEF Near
<1>4. \A j : Level(d, j)' = Level(d, j)
  BY <1>1, <1>3 DEF Level
<1> QED BY <1>1, <1>2, <1>4 DEF HopsInv

\* The table, entry by entry.
LEMMA TableEntries ==
  TableExact <=> \A d \in DOMAIN table : table[d] = NextHops(Index, Adj, source, d)
BY DEF TableExact, Adj

LEMMA TableEntriesNext ==
  TableExact' <=> \A d \in DOMAIN table' : table'[d] = NextHops(Index, Adj, source, d)'
BY DEF TableExact, Adj

\* One destination after the other gets its entry.
TInv == Untraced /\ (Len(nodeSet) < MAXHOP => Traced)

\* The tracing begins with the first node.
LEMMA FinishTraced == ASSUME IInv, FoundInv, Untraced, Finish PROVE TInv'
<1>1. /\ phase = "relax" /\ phase' = "trace" /\ dest' = 1 /\ hops' = FirstHops(1)
      /\ table' = table /\ table = <<>>
      /\ UNCHANGED <<nodeSet, adjacent, source, dist>>
  BY DEF Finish, graph, dijkstra, Untraced
<1>2. 1 \in Index
  BY DEF IInv, FoundInv, Index
<1>3. HopsInv(1, FirstHops(1))
  BY <1>1, <1>2, FirstHopsLevel
<1>4. HopsInv(1, FirstHops(1))'
  <2>1. FirstHops(1)' = FirstHops(1)
    BY <1>1 DEF FirstHops
  <2>2. \A H : HopsInv(1, H)' = HopsInv(1, H)
    BY <1>1, SameMeasure
  <2> QED BY <1>3, <2>1, <2>2
<1>5. HopsInv(dest, hops)'
  <2>1. hops' = FirstHops(1)'
    BY <1>1 DEF FirstHops
  <2> QED BY <1>1, <1>4, <2>1
<1>6. Index' = Index
  BY <1>1 DEF Index
<1>7. TableExact' /\ table' \in Seq(SUBSET Index)' /\ Len(table') = dest' - 1
  BY <1>1 DEF TableExact
<1> QED BY <1>1, <1>2, <1>5, <1>6, <1>7 DEF TInv, Untraced, Traced

\* A round leaves the table as it is.
LEMMA BackTraced == ASSUME IInv, FoundInv, TInv, Back PROVE TInv'
<1>1. /\ phase = "trace" /\ phase' = "trace" /\ dest' = dest /\ table' = table
      /\ hops' = UNION {Preceding(i) : i \in hops} /\ \E i \in hops : Inner(i)
      /\ UNCHANGED <<nodeSet, adjacent, source, dist>>
  BY DEF Back, graph, dijkstra
<1>2. SUFFICES ASSUME Len(nodeSet) < MAXHOP PROVE Traced'
  BY <1>1 DEF TInv, Untraced
<1>3. Closed /\ Traced
  BY <1>1, <1>2 DEF Closed, TInv
<1>4. dest \in Index /\ HopsInv(dest, hops)
  BY <1>1, <1>3 DEF Traced
<1>5. HopsInv(dest, hops')
  BY <1>1, <1>2, <1>3, <1>4, BackLevel
<1>6. HopsInv(dest, hops)'
  BY <1>1, <1>5, SameMeasure
<1>7. Index' = Index /\ TableExact'
  BY <1>1, <1>3, SameMeasure, TableEntries, TableEntriesNext DEF Traced
<1> QED BY <1>1, <1>3, <1>4, <1>6, <1>7 DEF Traced

\* The hops left are the next hops, and the next destination is begun.
LEMMA RecordTraced == ASSUME IInv, FoundInv, TInv, Record PROVE TInv'
<1>1. /\ phase = "trace" /\ phase' \in {"trace", "done"}
      /\ \A i \in hops : ~Inner(i)
      /\ table' = Append(table, hops)
      /\ phase' = "trace" => dest # Len(nodeSet) /\ dest' = dest + 1 /\ hops' = FirstHops(dest + 1)
      /\ UNCHANGED <<nodeSet, adjacent, source, dist>>
  BY DEF Record, graph, dijkstra
<1>2. SUFFICES ASSUME Len(nodeSet) < MAXHOP PROVE Traced'
  BY <1>1 DEF TInv, Untraced
<1>3. Closed /\ Traced
  BY <1>1, <1>2 DEF Closed, TInv
<1>4. /\ dest \in Index /\ HopsInv(dest, hops) /\ Len(table) = dest - 1
      /\ table \in Seq(SUBSET Index) /\ Index' = Index
      /\ \A d \in DOMAIN table : table[d] = NextHops(Index, Adj, source, d)
  BY <1>1, <1>3, SameMeasure, TableEntries DEF Traced
<1>5. hops = NextHops(Index, Adj, source, dest) /\ hops \in SUBSET Index
  BY <1>1, <1>2, <1>3, <1>4, RecordExact
<1>6. /\ table' \in Seq(SUBSET Index) /\ Len(table') = dest
      /\ DOMAIN table' = DOMAIN table \cup {dest}
      /\ table'[dest] = hops /\ \A d \in DOMAIN table : table'[d] = table[d]
  <2> DEFINE S == SUBSET Index
  <2>1. hops \in S /\ table \in Seq(S) /\ Len(table) + 1 = dest
    BY <1>4, <1>5 DEF Index
  <2> HIDE DEF S
  <2>2. /\ table' \in Seq(S) /\ Len(table') = Len(table) + 1
        /\ DOMAIN table' = DOMAIN table \cup {Len(table) + 1}
        /\ table'[Len(table) + 1] = hops /\ \A d \in DOMAIN table : table'[d] = table[d]
    BY <1>1, <2>1
  <2> QED BY <2>1, <2>2 DEF S
<1>7. TableExact'
  <2>1. \A d \in DOMAIN table' : table'[d] = NextHops(Index, Adj, source, d)
    BY <1>4, <1>5, <1>6
  <2> QED BY <1>1, <2>1, SameMeasure, TableEntriesNext
<1>8. ASSUME phase' = "trace" PROVE dest' \in Index /\ HopsInv(dest, hops)'
  <2>1. dest + 1 \in Index /\ dest' = dest + 1 /\ hops' = FirstHops(dest + 1)
    BY <1>1, <1>4, <1>8 DEF Index
  <2>2. HopsInv(dest + 1, FirstHops(dest + 1))
    BY <1>1, <2>1, FirstHopsLevel
  <2>3. HopsInv(dest', hops')
    BY <2>1, <2>2
  <2> QED BY <1>1, <2>1, <2>3, SameMeasure
<1>9. dest = dest' - 1 \/ phase' # "trace"
  BY <1>1, <1>4 DEF Index
<1> QED BY <1>4, <1>6, <1>7, <1>8, <1>9 DEF Traced

\* The table is traced entry by entry, in every state.
THEOREM TraceInvariant == Spec => []TInv
<1>1. Init => TInv
  <2>1. <<>> \in Seq(SUBSET Index)
    OBVIOUS
  <2> QED BY <2>1 DEF Init, TInv, Untraced, Traced, TableExact
<1>2. IInv /\ Found /\ TInv /\ [Next]_vars => TInv'
  <2> SUFFICES ASSUME IInv, Found, TInv, [Next]_vars PROVE TInv'
    OBVIOUS
  <2>1. ASSUME phase' \in {"file", "relax", "choose"}, table' = table,
               phase \in {"file", "relax", "choose"}
        PROVE  TInv'
    <3>1. table = <<>>
      BY <2>1 DEF TInv, Untraced
    <3>2. <<>> \in Seq(SUBSET Index)'
      OBVIOUS
    <3> QED BY <2>1, <3>1, <3>2 DEF TInv, Untraced, Traced, TableExact
  <2>2. ASSUME NEW line \in Lines, AddLink(line[1], line[2]) PROVE TInv'
    BY <2>1, <2>2 DEF AddLink, tracing
  <2>3. ASSUME NEW s \in Index, Start(s) PROVE TInv'
    BY <2>1, <2>3 DEF Start, tracing
  <2>4. ASSUME Relax \/ \E i \in Index : Choose(i) PROVE TInv'
    BY <2>1, <2>4 DEF Relax, Choose, tracing
  <2>5. ASSUME Finish PROVE TInv'
    BY <2>5, FinishTraced DEF Finish, Found, TInv
  <2>6. ASSUME Back PROVE TInv'
    BY <2>6, BackTraced DEF Back, Found
  <2>7. ASSUME Record PROVE TInv'
    BY <2>7, RecordTraced DEF Record, Found
  <2>8. CASE UNCHANGED vars
    <3>1. UNCHANGED <<phase, nodeSet, adjacent, source, dist, dest, hops, table>>
      BY <2>8 DEF vars, graph, dijkstra, tracing
    <3>2. Index' = Index /\ (TableExact <=> TableExact') /\ (HopsInv(dest, hops) <=> HopsInv(dest, hops)')
      BY <3>1, SameMeasure, TableEntries, TableEntriesNext
    <3> QED BY <3>1, <3>2 DEF TInv, Untraced, Traced
  <2> QED BY <2>2, <2>3, <2>4, <2>5, <2>6, <2>7, <2>8 DEF Next, Compute
<1> QED BY <1>1, <1>2, FoundInvariant, PTL DEF Spec

\* The table lists for each destination exactly the neighbours on shortest
\* paths, the destination itself for one out of reach, for every topology of
\* less than MAXHOP nodes and every source (Topology.cpp:269).
THEOREM TableCorrect == Spec => [](Len(nodeSet) < MAXHOP => TableExact)
<1>1. TInv => (Len(nodeSet) < MAXHOP => TableExact)
  BY DEF TInv, Traced
<1> QED BY <1>1, TraceInvariant, PTL
=============================================================================
