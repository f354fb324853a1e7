------------------------------ MODULE Routing ------------------------------
(***************************************************************************)
(* How the controller reads its topology (Topology::initFromFile) and      *)
(* computes the router table of one node (getRouterTable): the multi-path  *)
(* Dijkstra algorithm finds the predecessors of every node, then each      *)
(* destination is traced back to the hops next to the source.              *)
(*                                                                         *)
(* Nodes are numbered by their places in m_nodeSet, the order in which the *)
(* file names them first.  The order of the neighbours of a node does not  *)
(* matter here, so they are a set.  A relaxation of all neighbours is one  *)
(* step; so is one round of the tracing, whose vectors are sets because    *)
(* doubles are removed at the end.                                         *)
(***************************************************************************)
EXTENDS Sequences, Topology

CONSTANTS
  RoleID,  \* the nodes a topology file may name
  Lines    \* the links it may have

ASSUME LinesAssumption == Lines \subseteq RoleID \X RoleID

VARIABLES
  phase,     \* which loop the controller is in
  nodeSet,   \* m_nodeSet: the nodes in order
  adjacent,  \* the neighbours of each node
  source,    \* the node whose table is computed
  index,     \* the node chosen last
  dist, chosen, preTable,  \* as in multiPathDijkstra
  dest,      \* the destination being traced back
  hops,      \* nextIndex of translatePreToNextTable
  table      \* the router table, as far as it is computed

graph == <<nodeSet, adjacent, source>>
dijkstra == <<index, dist, chosen, preTable>>
tracing == <<dest, hops, table>>
vars == <<phase, graph, dijkstra, tracing>>

Index == 1 .. Len(nodeSet)
Neighbours(i) == {j \in Index : nodeSet[j] \in adjacent[nodeSet[i]]}

-----------------------------------------------------------------------------
(* Reading the file. *)

AddNode(seq, r) == IF \E i \in 1 .. Len(seq) : seq[i] = r THEN seq ELSE Append(seq, r)

Init ==
  /\ phase = "file"
  /\ nodeSet = <<>>
  /\ adjacent = [r \in RoleID |-> {}]
  /\ source = 0 /\ index = 0
  /\ dist = <<>> /\ chosen = {} /\ preTable = <<>>
  /\ dest = 0 /\ hops = {} /\ table = <<>>

\* A line of the file; a link that is there already is reported and ignored.
AddLink(r1, r2) ==
  /\ phase = "file"
  /\ nodeSet' = AddNode(AddNode(nodeSet, r1), r2)
  /\ adjacent' = [r \in RoleID |->
                    adjacent[r] \cup (IF r = r1 THEN {r2} ELSE {})
                                \cup (IF r = r2 THEN {r1} ELSE {})]
  /\ UNCHANGED <<phase, source, dijkstra, tracing>>

\* getRouterTable of node s, at the start of multiPathDijkstra.
Start(s) ==
  /\ phase = "file"
  /\ source' = s /\ index' = s
  /\ dist' = [i \in Index |-> IF i = s THEN 0 ELSE MAXHOP]
  /\ chosen' = {s}
  /\ preTable' = [i \in Index |-> <<>>]
  /\ phase' = "relax"
  /\ UNCHANGED <<nodeSet, adjacent, tracing>>

-----------------------------------------------------------------------------
(* multiPathDijkstra *)

\* resize(1, c) of a vector fills an empty one; of another it keeps the first.
ResizeToOne(p, c) == IF p = <<>> THEN <<c>> ELSE <<p[1]>>

Relaxed == Neighbours(index) \ chosen

\* With only the first of several predecessors.
RelaxFirstOnly ==
  /\ phase = "relax" /\ chosen # Index
  /\ dist' = [i \in Index |-> IF i \in Relaxed /\ dist[i] > dist[index] + 1
                              THEN dist[index] + 1 ELSE dist[i]]
  /\ preTable' = [i \in Index |-> IF i \in Relaxed /\ dist[i] > dist[index] + 1
                                  THEN ResizeToOne(preTable[i], index) ELSE preTable[i]]
  /\ phase' = "choose"
  /\ UNCHANGED <<graph, index, chosen, tracing>>

Offer(i) ==
  CASE i \in Relaxed /\ dist[i] > dist[index] + 1 -> ResizeToOne(preTable[i], index)
    [] i \in Relaxed /\ dist[i] = dist[index] + 1 -> Append(preTable[i], index)
    [] OTHER                                      -> preTable[i]

\* The chosen node offers its neighbours a path, shorter or as short.
Relax ==
  /\ phase = "relax" /\ chosen # Index
  /\ dist' = [i \in Index |-> IF i \in Relaxed /\ dist[i] > dist[index] + 1
                              THEN dist[index] + 1 ELSE dist[i]]
  /\ preTable' = [i \in Index |-> Offer(i)]
  /\ phase' = "choose"
  /\ UNCHANGED <<graph, index, chosen, tracing>>

\* isChoiced is not set.
ChooseUnmarked(i) ==
  /\ phase = "choose"
  /\ i \in Index \ chosen
  /\ \A j \in Index \ chosen : dist[i] < dist[j] \/ (dist[i] = dist[j] /\ j <= i)
  /\ index' = i
  /\ phase' = "relax"
  /\ UNCHANGED <<graph, dist, chosen, preTable, tracing>>

\* The nearest node that is left, the last one of several.
Choose(i) ==
  /\ phase = "choose"
  /\ i \in Index \ chosen
  /\ \A j \in Index \ chosen : dist[i] < dist[j] \/ (dist[i] = dist[j] /\ j <= i)
  /\ index' = i /\ chosen' = chosen \cup {i}
  /\ phase' = "relax"
  /\ UNCHANGED <<graph, dist, preTable, tracing>>

-----------------------------------------------------------------------------
(* translatePreToNextTable, for one destination after the other *)

FirstHops(d) == IF d = source THEN {} ELSE {d}

Finish ==
  /\ phase = "relax" /\ chosen = Index
  /\ phase' = "trace"
  /\ dest' = 1 /\ hops' = FirstHops(1)
  /\ UNCHANGED <<graph, dijkstra, table>>

\* A node is replaced by its predecessors unless the source is the first.
Inner(i) == preTable[i] # <<>> /\ preTable[i][1] # source

\* One path only.
PrecedingFirst(i) == IF Inner(i) THEN {preTable[i][1]} ELSE {i}

Preceding(i) ==
  IF Inner(i) THEN {preTable[i][k] : k \in 1 .. Len(preTable[i])} ELSE {i}

Back ==
  /\ phase = "trace"
  /\ \E i \in hops : Inner(i)
  /\ hops' = UNION {Preceding(i) : i \in hops}
  /\ UNCHANGED <<phase, graph, dijkstra, dest, table>>

Record ==
  /\ phase = "trace"
  /\ \A i \in hops : ~Inner(i)
  /\ table' = Append(table, hops)
  /\ IF dest = Len(nodeSet)
     THEN phase' = "done" /\ UNCHANGED <<dest, hops>>
     ELSE phase' = phase /\ dest' = dest + 1 /\ hops' = FirstHops(dest + 1)
  /\ UNCHANGED <<graph, dijkstra>>

-----------------------------------------------------------------------------
Compute ==
  \/ Relax
  \/ \E i \in Index : Choose(i)
  \/ Finish
  \/ Back
  \/ Record

Next ==
  \/ \E line \in Lines : AddLink(line[1], line[2])
  \/ \E s \in Index : Start(s)
  \/ Compute

Spec == Init /\ [][Next]_vars

\* Once the controller computes a table nothing holds it up.
FairSpec == Spec /\ WF_vars(Compute)

-----------------------------------------------------------------------------
(* Properties *)

\* The distances found, numbered as in the topology.
Hops(i, j) == Distance(Index, [k \in Index |-> Neighbours(k)], i, j)

\* When all nodes are chosen every distance is that of a shortest path,
\* MAXHOP for nodes out of reach (Topology.cpp:341): the order of choice and
\* the ties never close a node too early.
DistancesExact ==
  phase \in {"trace", "done"} => \A i \in Index : dist[i] = Hops(source, i)

\* The nodes that have offered their neighbours a path.
Offered == IF phase = "relax" THEN chosen \ {index} ELSE chosen

\* The predecessors of a node are all its neighbours one hop nearer, among
\* those chosen so far, each once, whatever the order of choice; above all
\* resize(1, index) never keeps a stale entry (Topology.cpp:346).
PredecessorsExact ==
  \A i \in DOMAIN preTable :
    /\ {preTable[i][k] : k \in DOMAIN preTable[i]}
         = {c \in Offered : i \in Neighbours(c) /\ dist[c] + 1 = dist[i]}
    /\ \A j, k \in DOMAIN preTable[i] : preTable[i][j] = preTable[i][k] => j = k

\* The table lists, for each destination, exactly the neighbours on shortest
\* paths; none for the node itself, the destination for one out of reach
\* (Topology.cpp:269).
TableExact ==
  \A d \in DOMAIN table :
    table[d] = NextHops(Index, [k \in Index |-> Neighbours(k)], source, d)

\* The choice and the tracing end (Topology.cpp:265, 328), also where nodes
\* are out of reach.
TableGetsDone == phase = "relax" ~> phase = "done"

=============================================================================
