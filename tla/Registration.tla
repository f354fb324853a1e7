---------------------------- MODULE Registration ----------------------------
(***************************************************************************)
(* The controller (Controller.cpp) and the control panels of the nodes     *)
(* (ControlPanel.cpp) while the nodes register: a node tells its role and  *)
(* gets an identifier; when as many nodes have registered as the topology  *)
(* has, the controller sends every node its adjacent table and its router  *)
(* table, from which the control panel makes the FIB of its data panel.    *)
(*                                                                         *)
(* The controller knows a node by the face it gave it at registration, and *)
(* takes the face of a node for its place among the registered nodes.  A   *)
(* node takes the first message for its identifier, the second for the     *)
(* adjacent table and the third for the router table, whatever they are.   *)
(* It copies the whole message over its identifier, past the end of that;  *)
(* what else it overwrites is left out, and a process that dies of it is   *)
(* one that takes no further step.                                         *)
(*                                                                         *)
(* Between a node and the controller messages keep their order; a lost     *)
(* acknowledgement doubles one, after ten tries one is given up.           *)
(***************************************************************************)
EXTENDS Integers, Sequences, Topology

CONSTANTS
  Node,      \* the programs that are started
  RoleOf,    \* the role each is started with
  NodeSet,   \* m_nodeSet: the nodes of the topology, as [role, id]
  Adjacent,  \* the neighbours of each, in the order of the file
  Doubles,   \* the types of messages that may be doubled
  Loses,     \* ... and given up
  MaxFaults, \* bound: messages doubled or given up
  Garbage    \* tables read from a message of another type

RoleIDs == {NodeSet[i] : i \in 1 .. Len(NodeSet)}
Neighbours == [r \in RoleIDs |-> {Adjacent[r][f] : f \in 1 .. Len(Adjacent[r])}]
Nobody == "nobody"

ASSUME RegistrationAssumption ==
  /\ Nobody \notin Node
  /\ NodeSet \in Seq([role : {RoleOf[n] : n \in Node}, id : Nat])
  /\ \A i, j \in 1 .. Len(NodeSet) : NodeSet[i] = NodeSet[j] => i = j
  /\ \A r \in RoleIDs : Adjacent[r] \in Seq(RoleIDs)
  /\ MaxFaults \in Nat
  /\ Garbage \notin Seq([roleID : RoleIDs, addr : Node \cup {Nobody}])

VARIABLES
  assigned,     \* the node that has each place of NodeSet
  registed,     \* m_registedSet
  faces,        \* the face table of the controller
  toCtl,        \* messages from each node to the controller
  toNode,       \* ... and back
  pc,           \* where the control panel of each node stands
  myId,         \* the identifier each node has got
  adjTable,     \* m_adjacentTable
  fib,          \* the FIB of the data panel, by the id of rendezvous routers
  faulty,       \* faults of the transport so far
  harmed,       \* history: the nodes that a fault may have misled
  unanswered    \* history: those whose identifier was given up on its way

controller == <<assigned, registed, faces>>
links == <<toCtl, toNode>>
panels == <<pc, myId, adjTable, fib>>
faults == <<faulty, harmed, unanswered>>
rvars == <<controller, links, panels, faults>>

RInit ==
  /\ assigned = [i \in 1 .. Len(NodeSet) |-> Nobody]
  /\ registed = <<>> /\ faces = <<>>
  /\ toCtl = [n \in Node |-> <<>>] /\ toNode = [n \in Node |-> <<>>]
  /\ pc = [n \in Node |-> "off"]
  /\ myId = [n \in Node |-> 0]
  /\ adjTable = [n \in Node |-> <<>>] /\ fib = [n \in Node |-> <<>>]
  /\ faulty = 0 /\ harmed = {} /\ unanswered = {}

-----------------------------------------------------------------------------
(* The controller. *)

\* The node that took a place is forgotten.
VacantAny(role) == {i \in 1 .. Len(NodeSet) : NodeSet[i].role = role}
\* The places of the topology that a node of this role may take.
Vacant(role) == {i \in 1 .. Len(NodeSet) : assigned[i] = Nobody /\ NodeSet[i].role = role}

\* applyNode: the first of them.
Applied(role) == CHOOSE i \in Vacant(role) : \A j \in Vacant(role) : i <= j

AdjacentTable(r, owner) ==
  [type |-> "AdjacentTable", roleID |-> r,
   items |-> [f \in 1 .. Len(Adjacent[r]) |->
                [roleID |-> Adjacent[r][f],
                 addr |-> owner[CHOOSE i \in 1 .. Len(NodeSet) : NodeSet[i] = Adjacent[r][f]]]]]

\* getRouterTable of each node, which Routing shows to be these tables.
RouterItems == [r \in RoleIDs |-> [d \in RoleIDs |-> NextHops(RoleIDs, Neighbours, r, d)]]

RouterTable(r) == [type |-> "RouterTable", items |-> RouterItems[r]]

\* The last face is taken for that of the first node.
FacesOfReversed(n, table) ==
  SelectSeq([i \in 1 .. Len(table) |-> i], LAMBDA i : table[Len(table) + 1 - i] = n)
\* The faces that lead to a node.
FacesOf(n, table) ==
  LET F[i \in 0 .. Len(table)] ==
        IF i = 0 THEN <<>>
        ELSE IF table[i] = n THEN Append(F[i - 1], i) ELSE F[i - 1]
  IN  F[Len(table)]

\* The tables of the i-th registered node go out by the i-th face: all
\* adjacent tables, then all router tables (distributeAllTable).
TablesFor(n, regs, table, owner) ==
  LET mine == FacesOf(n, SubSeq(table, 1, Len(regs)))
  IN  [k \in 1 .. Len(mine) |-> AdjacentTable(regs[mine[k]], owner)]
        \o [k \in 1 .. Len(mine) |-> RouterTable(regs[mine[k]])]

CompleteOver(regs) == Len(regs) > Len(NodeSet)
\* Whether as many nodes have registered as the topology has: again true at
\* every later registration.
Complete(regs) == Len(regs) = Len(NodeSet)

HandleRegist(n) ==
  LET role == RoleOf[n]
      known == Vacant(role) # {}
      owner == IF known THEN [assigned EXCEPT ![Applied(role)] = n] ELSE assigned
      regs == IF known THEN Append(registed, NodeSet[Applied(role)]) ELSE registed
      table == Append(faces, n)
      reply == [type |-> "IDAssigned", id |-> IF known THEN NodeSet[Applied(role)].id ELSE -1]
  IN  /\ toCtl[n] # <<>> /\ Head(toCtl[n]).type = "Regist"
      /\ toCtl' = [toCtl EXCEPT ![n] = Tail(@)]
      /\ assigned' = owner /\ registed' = regs /\ faces' = table
      /\ toNode' = [m \in Node |->
           toNode[m] \o (IF m = n THEN <<reply>> ELSE <<>>)
                     \o (IF Complete(regs) THEN TablesFor(m, regs, table, owner) ELSE <<>>)]
      /\ harmed' = IF known THEN harmed ELSE Node
      /\ UNCHANGED <<panels, faulty, unanswered>>

-----------------------------------------------------------------------------
(* The control panel of a node: running. *)

Regist(n) ==
  /\ pc[n] = "off"
  /\ pc' = [pc EXCEPT ![n] = "id"]
  /\ toCtl' = [toCtl EXCEPT ![n] = Append(@, [type |-> "Regist"])]
  /\ UNCHANGED <<controller, toNode, myId, adjTable, fib, faults>>

\* recevMsg
Take(n, from, to) ==
  /\ pc[n] = from /\ toNode[n] # <<>>
  /\ toNode' = [toNode EXCEPT ![n] = Tail(@)]
  /\ pc' = [pc EXCEPT ![n] = to]
  /\ UNCHANGED <<controller, toCtl, faults>>

\* What the panel reads as a table of a type.
Read(n, type, value) == IF Head(toNode[n]).type = type THEN value ELSE Garbage

\* enum Role
RoleNo == [Ctlr |-> 0, Rot |-> 1, Sub |-> 2, RRot |-> 3, Pub |-> 4, ERot |-> 5]

\* The four bytes behind the type of a message: the identifier, CurrentRole
\* or NumOfItem.  Nothing else gets to a node without an identifier.
FirstWord(m) ==
  CASE m.type = "IDAssigned"    -> m.id
    [] m.type = "AdjacentTable" -> RoleNo[m.roleID.role]
    [] m.type = "RouterTable"   -> Cardinality(DOMAIN m.items)

SetRoleID(n) ==
  /\ Take(n, "id", "adjacent")
  /\ myId' = [myId EXCEPT ![n] = FirstWord(Head(toNode[n]))]
  /\ UNCHANGED <<adjTable, fib>>

HandleAdjacentTable(n) ==
  /\ Take(n, "adjacent", "router")
  /\ adjTable' = [adjTable EXCEPT ![n] = Read(n, "AdjacentTable", @ \o Head(toNode[n]).items)]
  /\ UNCHANGED <<myId, fib>>

\* The place of a next hop in the router table is taken for its face.
FIBOfHops(adj, router) ==
  [d \in {r \in RoleIDs : r.role = "RRot"} |->
     {f \in 1 .. Len(adj) : \E i \in 1 .. Len(NodeSet) : NodeSet[i] \in router[d] /\ f = i}]

\* injectFIBToDataPanel: the faces of the next hops to each rendezvous router.
FIB(adj, router) ==
  [d \in {r \in RoleIDs : r.role = "RRot"} |->
     {f \in 1 .. Len(adj) : adj[f].roleID \in router[d]}]

\* handleRouterTable, and both tables are injected before the data panel starts.
HandleRouterTable(n) ==
  /\ Take(n, "router", "run")
  /\ fib' = [fib EXCEPT ![n] =
       IF adjTable[n] = Garbage THEN Garbage
       ELSE Read(n, "RouterTable", FIB(adjTable[n], Head(toNode[n]).items))]
  /\ UNCHANGED <<myId, adjTable>>

-----------------------------------------------------------------------------
(* The transport. *)

\* Before the tables are there each message must come once.  A registration
\* in excess takes a face of its own, which misleads all; later on only what
\* a downloader waits for must not be lost.
Misled(n, type) ==
  CASE type = "Regist" -> Node
    [] type \in {"IDAssigned", "AdjacentTable", "RouterTable"} -> {n}
    [] OTHER -> {}

Doubled(n, link) ==
  /\ faulty < MaxFaults /\ faulty' = faulty + 1
  /\ link[n] # <<>> /\ Head(link[n]).type \in Doubles
  /\ harmed' = harmed \cup Misled(n, Head(link[n]).type)
  /\ UNCHANGED <<controller, panels, unanswered>>

Lost(n, link) ==
  /\ faulty < MaxFaults /\ faulty' = faulty + 1
  /\ link[n] # <<>> /\ Head(link[n]).type \in Loses
  /\ harmed' = harmed \cup Misled(n, Head(link[n]).type)
       \cup (IF Head(link[n]).type \in {"SubListRequest", "SubListDownload"} THEN {n} ELSE {})
  /\ unanswered' = IF Head(link[n]).type = "IDAssigned" THEN unanswered \cup {n} ELSE unanswered
  /\ UNCHANGED <<controller, panels>>

DoubleToCtl(n) ==
  /\ Doubled(n, toCtl)
  /\ toCtl' = [toCtl EXCEPT ![n] = <<Head(@)>> \o @]
  /\ UNCHANGED toNode

DoubleToNode(n) ==
  /\ Doubled(n, toNode)
  /\ toNode' = [toNode EXCEPT ![n] = <<Head(@)>> \o @]
  /\ UNCHANGED toCtl

LoseToCtl(n) ==
  /\ Lost(n, toCtl)
  /\ toCtl' = [toCtl EXCEPT ![n] = Tail(@)]
  /\ UNCHANGED toNode

LoseToNode(n) ==
  /\ Lost(n, toNode)
  /\ toNode' = [toNode EXCEPT ![n] = Tail(@)]
  /\ UNCHANGED toCtl

-----------------------------------------------------------------------------
PanelStep(n) == SetRoleID(n) \/ HandleAdjacentTable(n) \/ HandleRouterTable(n)

RNext ==
  \E n \in Node :
    \/ Regist(n)
    \/ HandleRegist(n)
    \/ PanelStep(n)
    \/ DoubleToCtl(n) \/ DoubleToNode(n) \/ LoseToCtl(n) \/ LoseToNode(n)

RSpec == RInit /\ [][RNext]_rvars

-----------------------------------------------------------------------------
(* Properties *)

RoleIDOf(n) == [role |-> RoleOf[n], id |-> myId[n]]

\* The place in the topology that the controller holds for taken by n.
Owns(n, r) == \E i \in 1 .. Len(NodeSet) : NodeSet[i] = r /\ assigned[i] = n

\* A program that the controller has not refused has an identifier.
Identified(n) == pc[n] \notin {"off", "id"} /\ myId[n] # -1

\* What a panel reads for its identifier in a table: the number of a role, or
\* that of the nodes.
TableWords == {RoleNo[r.role] : r \in RoleIDs} \cup {Cardinality(RoleIDs)}

\* A node runs under an identifier that the controller holds for its own, and
\* so no two under the same, although registrations are doubled and given up,
\* programs register in excess and tables come by wrong faces.  Only when the
\* very message with the identifier was given up, the node may take the word
\* of a table for it, which may be the identifier of another: README.md:112 of
\* the repository has each node get its own (Controller.cpp:100,
\* ControlPanel.cpp:358).
IdentifiersUnique ==
  \A n \in Node : Identified(n) =>
    Owns(n, RoleIDOf(n)) \/ (n \in unanswered /\ myId[n] \in TableWords)

\* The tables a node runs with are those of its own place: the face of an
\* entry leads to the node that took the neighbour's place, although the
\* controller tells faces and registered nodes apart by position only
\* (Controller.cpp:263, 345).
TablesOwn ==
  \A n \in Node \ harmed : pc[n] = "run" =>
    /\ RoleIDOf(n) \in RoleIDs
    /\ Len(adjTable[n]) = Len(Adjacent[RoleIDOf(n)])
    /\ \A f \in 1 .. Len(adjTable[n]) :
         /\ adjTable[n][f].roleID = Adjacent[RoleIDOf(n)][f]
         /\ Owns(adjTable[n][f].addr, adjTable[n][f].roleID)

Far == [x \in RoleIDs |-> [r \in RoleIDs |-> Distance(RoleIDs, Neighbours, x, r)]]

\* Every face of the FIB leads to a node one hop nearer the rendezvous router,
\* also when the next node took its tables from another computation: what is
\* forwarded by them comes to an end there (ControlPanel.cpp:88).
EachHopNearer ==
  \A n \in Node \ harmed : pc[n] = "run" => \A r \in DOMAIN fib[n] :
    /\ RoleIDOf(n) # r /\ Far[RoleIDOf(n)][r] < MAXHOP => fib[n][r] # {}
    /\ \A f \in fib[n][r] : \A m \in Node \ harmed :
         adjTable[n][f].addr = m /\ pc[m] = "run" => Far[RoleIDOf(m)][r] + 1 = Far[RoleIDOf(n)][r]

\* When all nodes of the topology have been started, all run in the end,
\* unless the transport doubled or gave up a message.
AllRun ==
  (\A n \in Node : pc[n] # "off") ~> (harmed # {} \/ \A n \in Node : pc[n] = "run")

\* The first faces are those of the nodes that were accepted, in their order.
InStep == \A i \in 1 .. Len(registed) : i <= Len(faces) /\ Owns(faces[i], registed[i])

\* As long as no refused registration came between, every table on its way goes
\* to the node that has its place, also when tables are sent again at a later
\* registration, and when nodes have registered twice or messages were given
\* up (Controller.cpp:163, 260).
TablesGoToOwners ==
  InStep =>
    \A n \in Node : \A i \in 1 .. Len(toNode[n]) :
      toNode[n][i].type \in {"AdjacentTable", "RouterTable"} =>
        \E r \in RoleIDs : Owns(n, r) /\ toNode[n][i] \in {AdjacentTable(r, assigned), RouterTable(r)}

\* README.md:114 of the repository: the controller makes an adjacent table for
\* every node and sends it to that node.
TablesToTheirNodes ==
  \A n \in Node : \A i \in 1 .. Len(toNode[n]) :
    toNode[n][i].type = "AdjacentTable" =>
      \E r \in RoleIDs : Owns(n, r) /\ toNode[n][i] = AdjacentTable(r, assigned)

=============================================================================
