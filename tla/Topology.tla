------------------------------ MODULE Topology ------------------------------
(***************************************************************************)
(* Distances and next hops in the topology of the controller, as           *)
(* getRouterTable defines them: the next hops to a destination are all the *)
(* neighbours on a shortest path.  Module Routing has the algorithm that   *)
(* computes them; the registration of the nodes uses the result.           *)
(*                                                                         *)
(* A topology is given by its nodes and the set of neighbours of each.     *)
(***************************************************************************)
EXTENDS Naturals, FiniteSets

\* The distance of a node that cannot be reached.
MAXHOP == 100

\* The nodes of a set and those next to one of them.
Around(nodes, adjacent, S) == S \cup {u \in nodes : adjacent[u] \cap S # {}}

\* The nodes at most k hops from their destination d.
Within(nodes, adjacent, d) ==
  LET W[k \in 0 .. Cardinality(nodes)] ==
        IF k = 0 THEN {d} ELSE Around(nodes, adjacent, W[k - 1])
  IN  W

Distance(nodes, adjacent, s, d) ==
  LET W == Within(nodes, adjacent, d)
      Near == {k \in DOMAIN W : s \in W[k]}
  IN  IF Near = {} THEN MAXHOP ELSE CHOOSE k \in Near : \A j \in Near : k <= j

\* No next hop to itself; a node out of reach stands for its own next hop.
NextHops(nodes, adjacent, s, d) ==
  CASE s = d -> {}
    [] Distance(nodes, adjacent, s, d) = MAXHOP -> {d}
    [] OTHER -> {h \in adjacent[s] : Distance(nodes, adjacent, h, d) + 1
                                       = Distance(nodes, adjacent, s, d)}

=============================================================================
