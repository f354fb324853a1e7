------------------------- MODULE RegistrationProofs -------------------------
(***************************************************************************)
(* Proofs about the registration of the nodes and the exchange of the      *)
(* subscription list that comes after it, for any topology, any programs   *)
(* started and any number of doubled and lost messages: no two nodes whose *)
(* identifiers were not given up run under the same one; a node which no   *)
(* fault has misled runs with the tables of its own place, by which every  *)
(* hop is nearer a rendezvous router; and publishers and subscribers choose *)
(* the same ones.                                                          *)
(*                                                                         *)
(* Identifiers: the controller never takes a place back, and every         *)
(* identifier on its way to a node is -1 or that of a place the node has   *)
(* taken (IInv).  A node whose identifier was not given up finds it in     *)
(* front of everything else sent to it, so that it takes no table for it   *)
(* (NamesInv); what comes to any node before it has an identifier is an    *)
(* identifier of its own or a table of a place, so that a node whose       *)
(* identifier was given up runs, at worst, under the first word of a table *)
(* (WordsInv).                                                             *)
(*                                                                         *)
(* Tables (SInv): as long as some node is not misled, each registered node *)
(* has one face, and exactly as many places are taken as nodes registered. *)
(* So the tables go out once, when all places are taken, and their owners  *)
(* do not change any more.  Each node that is not misled has read the      *)
(* first messages of what was sent to it, and the rest are on their way.   *)
(* Messages of the list share these links: to the controller they come     *)
(* after the registration, to a node after its tables, since only a node   *)
(* that runs asks for the list.                                            *)
(*                                                                         *)
(* Lists (LInv): publishers list names that have ids, and only subscribers *)
(* that run wait for a list.                                               *)
(***************************************************************************)
EXTENDS SubList, TopologyProofs

Place == 1 .. Len(NodeSet)

\* The identifiers of the places that a node has taken.
Ids(n, owner) == {NodeSet[i].id : i \in {p \in Place : owner[p] = n /\ NodeSet[p].role = RoleOf[n]}}

\* A message for n that tells it no identifier but its own.
OwnReply(m, n, owner) == m.type = "IDAssigned" => m.id \in Ids(n, owner) \cup {-1}

\* ... and a sequence of such messages.
OwnReplies(s, n, owner) == \E S : s \in Seq(S) /\ \A m \in S : OwnReply(m, n, owner)

IInv ==
  /\ assigned \in [Place -> Node \cup {Nobody}]
  /\ DOMAIN toNode = Node /\ DOMAIN pc = Node /\ DOMAIN myId = Node
  /\ \A n \in Node : OwnReplies(toNode[n], n, assigned)

-----------------------------------------------------------------------------
\* applyNode finds a vacant place of the role if there is one.
LEMMA AppliedIsVacant ==
  ASSUME NEW role, Vacant(role) # {}
  PROVE  /\ Applied(role) \in Place
         /\ assigned[Applied(role)] = Nobody /\ NodeSet[Applied(role)].role = role
<1>1. Len(NodeSet) \in Nat
  BY RegistrationAssumption
<1>2. Vacant(role) \in SUBSET Nat
  BY <1>1 DEF Vacant
<1>3. \E i \in Vacant(role) : \A j \in Vacant(role) : i <= j
  BY <1>2, LeastExists
<1>4. Applied(role) \in Vacant(role)
  BY <1>3 DEF Applied
<1> QED BY <1>4 DEF Vacant, Place

-----------------------------------------------------------------------------
(* Sequences of replies. *)

\* A sequence of messages of which each is fit.
LEMMA AllOwn ==
  ASSUME NEW s, NEW S, NEW n, NEW owner, s \in Seq(S), \A m \in S : OwnReply(m, n, owner)
  PROVE  OwnReplies(s, n, owner)
BY DEF OwnReplies

\* No message, no identifier.
LEMMA NoReplies == ASSUME NEW n, NEW owner PROVE OwnReplies(<<>>, n, owner)
<1> DEFINE s == <<>>
<1>1. s \in Seq({}) /\ \A m \in {} : OwnReply(m, n, owner)
  OBVIOUS
<1> HIDE DEF s
<1>2. OwnReplies(s, n, owner)
  BY <1>1, AllOwn
<1> QED BY <1>2 DEF s

\* One message.
LEMMA OneReply ==
  ASSUME NEW m, NEW n, NEW owner, OwnReply(m, n, owner)
  PROVE  OwnReplies(<<m>>, n, owner)
<1> DEFINE s == <<m>>
<1>1. s \in Seq({m}) /\ \A r \in {m} : OwnReply(r, n, owner)
  OBVIOUS
<1> HIDE DEF s
<1>2. OwnReplies(s, n, owner)
  BY <1>1, AllOwn
<1> QED BY <1>2 DEF s

\* What is left when the first is taken, and that one.
LEMMA TailOfReplies ==
  ASSUME NEW s, NEW n, NEW owner, OwnReplies(s, n, owner), s # <<>>
  PROVE  OwnReplies(Tail(s), n, owner) /\ OwnReply(Head(s), n, owner)
<1>1. PICK S : s \in Seq(S) /\ \A m \in S : OwnReply(m, n, owner)
  BY DEF OwnReplies
<1>2. Tail(s) \in Seq(S) /\ Head(s) \in S
  BY <1>1
<1> QED BY <1>1, <1>2 DEF OwnReplies

\* One sequence after the other.
LEMMA MoreReplies ==
  ASSUME NEW s, NEW t, NEW n, NEW owner, OwnReplies(s, n, owner), OwnReplies(t, n, owner)
  PROVE  OwnReplies(s \o t, n, owner)
<1>1. PICK S : s \in Seq(S) /\ \A m \in S : OwnReply(m, n, owner)
  BY DEF OwnReplies
<1>2. PICK T : t \in Seq(T) /\ \A m \in T : OwnReply(m, n, owner)
  BY DEF OwnReplies
<1>3. s \in Seq(S \cup T) /\ t \in Seq(S \cup T)
  BY <1>1, <1>2
<1>4. s \o t \in Seq(S \cup T)
  BY <1>3
<1> QED BY <1>1, <1>2, <1>4 DEF OwnReplies

\* A node that takes more places keeps those it had.
LEMMA LaterReplies ==
  ASSUME NEW s, NEW n, NEW o1, NEW o2, Ids(n, o1) \subseteq Ids(n, o2), OwnReplies(s, n, o1)
  PROVE  OwnReplies(s, n, o2)
<1>1. \A m : OwnReply(m, n, o1) => OwnReply(m, n, o2)
  BY DEF OwnReply
<1> QED BY <1>1 DEF OwnReplies

\* The tables carry no identifier.
LEMMA TablesAreNoReplies ==
  ASSUME NEW n, NEW m, NEW regs, NEW table, NEW o1, NEW o2
  PROVE  OwnReplies(TablesFor(m, regs, table, o1), n, o2)
<1> DEFINE mine == FacesOf(m, SubSeq(table, 1, Len(regs)))
           K == 1 .. Len(mine)
           A == {AdjacentTable(regs[mine[k]], o1) : k \in K}
           R == {RouterTable(regs[mine[k]]) : k \in K}
           f == [k \in K |-> AdjacentTable(regs[mine[k]], o1)]
           g == [k \in K |-> RouterTable(regs[mine[k]])]
<1>1. Len(mine) \in Nat
  OBVIOUS
<1>2. f \in [K -> A] /\ g \in [K -> R]
  OBVIOUS
<1>3. \A x \in A \cup R : x.type # "IDAssigned"
  <2>1. \A r : AdjacentTable(r, o1).type = "AdjacentTable" /\ RouterTable(r).type = "RouterTable"
    BY DEF AdjacentTable, RouterTable
  <2> HIDE DEF mine, K
  <2> QED BY <2>1
<1>4. TablesFor(m, regs, table, o1) = f \o g
  BY DEF TablesFor
<1> HIDE DEF f, g, A, R, mine
<1>5. f \in Seq(A) /\ g \in Seq(R)
  BY <1>1, <1>2
<1>6. OwnReplies(f, n, o2) /\ OwnReplies(g, n, o2)
  BY <1>3, <1>5 DEF OwnReplies, OwnReply
<1> QED BY <1>4, <1>6, MoreReplies

-----------------------------------------------------------------------------
(* The steps. *)

\* A step that takes or doubles messages leaves the places and identifiers.
LEMMA LinkInv ==
  ASSUME IInv, UNCHANGED <<assigned, myId>>, DOMAIN toNode' = Node, DOMAIN pc' = Node,
         \A n \in Node : OwnReplies(toNode'[n], n, assigned)
  PROVE  IInv'
BY DEF IInv, Place

\* A node keeps its places.
LEMMA PlacesKept ==
  ASSUME IInv, NEW n \in Node, HandleRegist(n), NEW m \in Node
  PROVE  Ids(m, assigned) \subseteq Ids(m, assigned')
<1> DEFINE p == Applied(RoleOf[n])
<1>1. /\ Vacant(RoleOf[n]) # {} => p \in Place /\ assigned[p] = Nobody
      /\ assigned' = IF Vacant(RoleOf[n]) # {} THEN [assigned EXCEPT ![p] = n] ELSE assigned
      /\ assigned \in [Place -> Node \cup {Nobody}] /\ Nobody \notin Node
  BY AppliedIsVacant, RegistrationAssumption DEF HandleRegist, IInv
<1> HIDE DEF p
<1>2. \A i \in Place : assigned[i] = m => assigned'[i] = m
  BY <1>1
<1> QED BY <1>2 DEF Ids

\* The controller gives away only vacant places, and replies with the one.
LEMMA HandleRegistInv == ASSUME IInv, NEW n \in Node, HandleRegist(n) PROVE IInv'
<1> DEFINE role == RoleOf[n]
           known == Vacant(role) # {}
           p == Applied(role)
           reply == [type |-> "IDAssigned", id |-> IF known THEN NodeSet[p].id ELSE -1]
<1>1. /\ assigned' = IF known THEN [assigned EXCEPT ![p] = n] ELSE assigned
      /\ \A m \in Node : \E regs :
           toNode'[m] = toNode[m] \o (IF m = n THEN <<reply>> ELSE <<>>)
             \o (IF Complete(regs) THEN TablesFor(m, regs, faces', assigned') ELSE <<>>)
      /\ DOMAIN toNode' = Node
      /\ UNCHANGED <<pc, myId>>
  BY DEF HandleRegist, panels
<1>2. known => p \in Place /\ assigned[p] = Nobody /\ NodeSet[p].role = role
  BY AppliedIsVacant
<1>3. assigned \in [Place -> Node \cup {Nobody}] /\ Nobody \notin Node
  BY RegistrationAssumption DEF IInv
<1>4. assigned' \in [Place -> Node \cup {Nobody}]
  BY <1>1, <1>3
<1>5. ASSUME NEW m \in Node PROVE Ids(m, assigned) \subseteq Ids(m, assigned')
  BY PlacesKept
<1>6. reply.type = "IDAssigned" /\ reply.id \in Ids(n, assigned') \cup {-1}
  <2>1. CASE known
    <3>1. assigned'[p] = n
      BY <1>1, <1>2, <1>3, <2>1
    <3> QED BY <1>2, <2>1, <3>1 DEF Ids
  <2>2. CASE ~known
    BY <2>2
  <2> QED BY <2>1, <2>2
<1> HIDE DEF reply, known
<1>7. ASSUME NEW m \in Node PROVE OwnReplies(toNode'[m], m, assigned')
  <2>1. OwnReplies(toNode[m], m, assigned')
    BY <1>5, LaterReplies DEF IInv
  <2>2. OwnReplies(IF m = n THEN <<reply>> ELSE <<>>, m, assigned')
    BY <1>6, OneReply, NoReplies DEF OwnReply
  <2>3. PICK regs :
          toNode'[m] = toNode[m] \o (IF m = n THEN <<reply>> ELSE <<>>)
             \o (IF Complete(regs) THEN TablesFor(m, regs, faces', assigned') ELSE <<>>)
    BY <1>1
  <2>4. OwnReplies(IF Complete(regs) THEN TablesFor(m, regs, faces', assigned') ELSE <<>>,
                   m, assigned')
    BY TablesAreNoReplies, NoReplies
  <2> QED BY <2>1, <2>2, <2>3, <2>4, MoreReplies
<1> QED BY <1>1, <1>4, <1>7 DEF IInv, Place

\* A panel takes what is at the head of its link.
LEMMA PanelInv == ASSUME IInv, NEW n \in Node, PanelStep(n) PROVE IInv'
<1>1. /\ pc[n] \in {"id", "adjacent", "router"} /\ toNode[n] # <<>>
      /\ toNode' = [toNode EXCEPT ![n] = Tail(@)]
      /\ \E to : pc' = [pc EXCEPT ![n] = to]
      /\ assigned' = assigned
      /\ \/ UNCHANGED myId /\ pc[n] # "id"
         \/ \E id : myId' = [myId EXCEPT ![n] = id]
  BY DEF PanelStep, SetRoleID, HandleAdjacentTable, HandleRouterTable, Take, controller
<1>2. DOMAIN toNode' = Node /\ DOMAIN pc' = Node /\ DOMAIN myId' = Node
  BY <1>1 DEF IInv
<1>3. /\ OwnReplies(Tail(toNode[n]), n, assigned)
      /\ OwnReply(Head(toNode[n]), n, assigned)
  BY <1>1, TailOfReplies DEF IInv
<1>4. \A m \in Node : OwnReplies(toNode'[m], m, assigned)
  BY <1>1, <1>3 DEF IInv
<1> QED BY <1>1, <1>2, <1>4 DEF IInv, Place

\* What the transport doubles or gives up was there before.
LEMMA FaultInv ==
  ASSUME IInv, NEW n \in Node,
         DoubleToCtl(n) \/ DoubleToNode(n) \/ LoseToCtl(n) \/ LoseToNode(n)
  PROVE  IInv'
<1>1. UNCHANGED <<assigned, myId, pc>>
  BY DEF DoubleToCtl, DoubleToNode, LoseToCtl, LoseToNode, Doubled, Lost, controller, panels
<1>2. CASE DoubleToCtl(n) \/ LoseToCtl(n)
  BY <1>1, <1>2, LinkInv DEF DoubleToCtl, LoseToCtl, IInv
<1>3. CASE DoubleToNode(n)
  <2>1. toNode[n] # <<>> /\ toNode' = [toNode EXCEPT ![n] = <<Head(@)>> \o @]
    BY <1>3 DEF DoubleToNode, Doubled
  <2>2. OwnReplies(<<Head(toNode[n])>> \o toNode[n], n, assigned)
    <3>1. OwnReplies(toNode[n], n, assigned)
      BY DEF IInv
    <3>2. OwnReplies(<<Head(toNode[n])>>, n, assigned)
      BY <2>1, <3>1, TailOfReplies, OneReply
    <3> QED BY <3>1, <3>2, MoreReplies
  <2>3. DOMAIN toNode' = Node /\ \A m \in Node : OwnReplies(toNode'[m], m, assigned)
    BY <2>1, <2>2 DEF IInv
  <2> QED BY <1>1, <2>3, LinkInv DEF IInv
<1>4. CASE LoseToNode(n)
  <2>1. toNode[n] # <<>> /\ toNode' = [toNode EXCEPT ![n] = Tail(@)]
    BY <1>4 DEF LoseToNode, Lost
  <2>2. OwnReplies(Tail(toNode[n]), n, assigned)
    BY <2>1, TailOfReplies DEF IInv
  <2>3. DOMAIN toNode' = Node /\ \A m \in Node : OwnReplies(toNode'[m], m, assigned)
    BY <2>1, <2>2 DEF IInv
  <2> QED BY <1>1, <2>3, LinkInv DEF IInv
<1> QED BY <1>2, <1>3, <1>4

\* The exchange of the subscription list.
ListStep(n) ==
  \/ \E x \in Name : EditFile(n, x)
  \/ Upload(n) \/ HandleSubListUpload(n)
  \/ Request(n) \/ HandleSubListRequest(n) \/ SetSubList(n)

\* A step is one of the registration, or one of that exchange.
LEMMA TwoKinds ==
  ASSUME [Next]_vars
  PROVE  ([RNext]_rvars /\ UNCHANGED lists) \/ \E n \in Node : ListStep(n)
BY DEF Next, Control, ListStep, vars

\* No message of the exchange tells an identifier.
LEMMA ListsInv == ASSUME IInv, NEW n \in Node, ListStep(n) PROVE IInv'
<1>1. UNCHANGED <<assigned, myId, pc>>
  BY DEF ListStep, EditFile, Upload, HandleSubListUpload, Request, HandleSubListRequest,
         SetSubList, rvars, controller, panels
<1>2. CASE UNCHANGED toNode
  BY <1>1, <1>2, LinkInv DEF IInv
<1>3. CASE HandleSubListRequest(n)
  <2> DEFINE m == [type |-> "SubListDownload", names |-> allSubList]
  <2>1. toNode' = [toNode EXCEPT ![n] = Append(@, m)]
    BY <1>3 DEF HandleSubListRequest
  <2>2. OwnReply(m, n, assigned)
    BY DEF OwnReply
  <2> HIDE DEF m
  <2>3. OwnReplies(Append(toNode[n], m), n, assigned)
    <3>1. PICK S : toNode[n] \in Seq(S) /\ \A r \in S : OwnReply(r, n, assigned)
      BY DEF IInv, OwnReplies
    <3> DEFINE T == S \cup {m}
    <3>2. Append(toNode[n], m) \in Seq(T) /\ \A r \in T : OwnReply(r, n, assigned)
      BY <2>2, <3>1
    <3> HIDE DEF T
    <3> QED BY <3>2, AllOwn
  <2>4. DOMAIN toNode' = Node /\ \A k \in Node : OwnReplies(toNode'[k], k, assigned)
    BY <2>1, <2>3 DEF IInv
  <2> QED BY <1>1, <2>4, LinkInv DEF IInv
<1>4. CASE SetSubList(n)
  <2>1. toNode[n] # <<>> /\ toNode' = [toNode EXCEPT ![n] = Tail(@)]
    BY <1>4 DEF SetSubList
  <2>2. OwnReplies(Tail(toNode[n]), n, assigned)
    BY <2>1, TailOfReplies DEF IInv
  <2>3. DOMAIN toNode' = Node /\ \A k \in Node : OwnReplies(toNode'[k], k, assigned)
    BY <2>1, <2>2 DEF IInv
  <2> QED BY <1>1, <2>3, LinkInv DEF IInv
<1> QED BY <1>2, <1>3, <1>4 DEF ListStep, EditFile, Upload, HandleSubListUpload, Request, rvars, links

-----------------------------------------------------------------------------
\* The invariant holds in every state.
THEOREM Invariant == Spec => []IInv
<1>1. Init => IInv
  BY NoReplies DEF Init, RInit, IInv, Place
<1>2. IInv /\ [Next]_vars => IInv'
  <2> SUFFICES ASSUME IInv, [Next]_vars PROVE IInv'
    OBVIOUS
  <2>1. ASSUME NEW n \in Node, Regist(n) PROVE IInv'
    <3>1. UNCHANGED <<assigned, toNode, myId>> /\ DOMAIN pc' = DOMAIN pc
      BY <2>1 DEF Regist, controller, IInv
    <3> QED BY <3>1, LinkInv DEF IInv
  <2>2. ASSUME NEW n \in Node, HandleRegist(n) PROVE IInv'
    BY <2>2, HandleRegistInv
  <2>3. ASSUME NEW n \in Node, PanelStep(n) PROVE IInv'
    BY <2>3, PanelInv
  <2>4. ASSUME NEW n \in Node,
               DoubleToCtl(n) \/ DoubleToNode(n) \/ LoseToCtl(n) \/ LoseToNode(n)
        PROVE  IInv'
    BY <2>4, FaultInv
  <2>5. CASE UNCHANGED rvars
    BY <2>5 DEF rvars, controller, links, panels, IInv, Place
  <2>6. ASSUME NEW n \in Node, ListStep(n) PROVE IInv'
    BY <2>6, ListsInv
  <2> QED BY <2>1, <2>2, <2>3, <2>4, <2>5, <2>6, TwoKinds DEF RNext
<1> QED BY <1>1, <1>2, PTL DEF Spec

-----------------------------------------------------------------------------
(* What a node gets when the last one registers. *)

\* A recursive list of faces, for a node that has at most one, i.
FaceList(F, n, table) ==
  F = [k \in 0 .. Len(table) |->
         IF k = 0 THEN <<>> ELSE IF table[k] = n THEN Append(F[k - 1], k) ELSE F[k - 1]]

LEMMA FacesOfFew ==
  ASSUME NEW table, Len(table) \in Nat, NEW n, NEW i \in Nat, i # 0,
         \A j \in 1 .. Len(table) : table[j] = n <=> j = i
  PROVE  FacesOf(n, table) = IF i <= Len(table) THEN <<i>> ELSE <<>>
<1> DEFINE N == Len(table)
           W == [k \in 0 .. N |-> IF k < i THEN <<>> ELSE <<i>>]
           F == CHOOSE G : FaceList(G, n, table)
<1>1. FacesOf(n, table) = F[N]
  BY DEF FacesOf, FaceList
<1>2. \E G : FaceList(G, n, table)
  <2>1. ASSUME NEW k \in 0 .. N
        PROVE  W[k] = IF k = 0 THEN <<>> ELSE IF table[k] = n THEN Append(W[k - 1], k) ELSE W[k - 1]
    <3>1. CASE k = 0
      BY <3>1
    <3>2. CASE k # 0
      <4>1. k \in 1 .. N /\ k - 1 \in 0 .. N /\ N \in Nat
        BY <3>2
      <4>2. W[k] = (IF k < i THEN <<>> ELSE <<i>>) /\ W[k - 1] = IF k - 1 < i THEN <<>> ELSE <<i>>
        BY <4>1
      <4>3. table[k] = n <=> k = i
        BY <4>1
      <4>4. k = i => W[k - 1] = <<>> /\ W[k] = <<k>> /\ Append(<<>>, k) = <<k>>
        BY <4>1, <4>2
      <4>5. k # i => W[k] = W[k - 1]
        <5>1. k # i => (k < i <=> k - 1 < i)
          BY <4>1
        <5> QED BY <4>2, <5>1
      <4> HIDE DEF W
      <4> QED BY <3>2, <4>3, <4>4, <4>5
    <3> QED BY <3>1, <3>2
  <2>2. W = [k \in 0 .. N |-> W[k]]
    OBVIOUS
  <2> HIDE DEF W
  <2>3. FaceList(W, n, table)
    BY <2>1, <2>2 DEF FaceList
  <2> QED BY <2>3
<1>3. FaceList(F, n, table)
  BY <1>2
<1> HIDE DEF F
<1>4. \A k \in 0 .. N : F[k] = IF k = 0 THEN <<>> ELSE IF table[k] = n THEN Append(F[k - 1], k) ELSE F[k - 1]
  BY <1>3 DEF FaceList
<1> DEFINE V == {k \in Nat : k <= N => F[k] = IF i <= k THEN <<i>> ELSE <<>>}
<1>5. 0 \in V
  BY <1>4
<1>6. ASSUME NEW k \in V PROVE k + 1 \in V
  <2> SUFFICES ASSUME k + 1 <= N PROVE F[k + 1] = IF i <= k + 1 THEN <<i>> ELSE <<>>
    OBVIOUS
  <2>1. k \in Nat /\ k <= N /\ k + 1 \in 1 .. N /\ k + 1 \in 0 .. N /\ k + 1 # 0 /\ (k + 1) - 1 = k
    OBVIOUS
  <2>2. F[k] = IF i <= k THEN <<i>> ELSE <<>>
    BY <2>1
  <2>3. F[k + 1] = IF table[k + 1] = n THEN Append(F[k], k + 1) ELSE F[k]
    BY <1>4, <2>1
  <2>4. table[k + 1] = n <=> k + 1 = i
    BY <2>1
  <2>5. CASE k + 1 = i
    <3>1. ~(i <= k) /\ i <= k + 1
      BY <2>1, <2>5
    <3>2. F[k] = <<>>
      BY <2>2, <3>1
    <3>3. F[k + 1] = Append(<<>>, i)
      BY <2>3, <2>4, <2>5, <3>2
    <3> QED BY <3>1, <3>3
  <2>6. CASE k + 1 # i
    <3>1. i <= k <=> i <= k + 1
      BY <2>1, <2>6
    <3> QED BY <2>2, <2>3, <2>4, <2>6, <3>1
  <2> QED BY <2>5, <2>6
<1>7. V \in SUBSET Nat
  OBVIOUS
<1> HIDE DEF V
<1>8. V = Nat
  BY <1>5, <1>6, <1>7, AllNumbers
<1>9. F[N] = IF i <= N THEN <<i>> ELSE <<>>
  BY <1>8 DEF V
<1> QED BY <1>1, <1>9

\* Two sequences of one message each.
LEMMA TwoInOne == ASSUME NEW x, NEW y PROVE <<x>> \o <<y>> = <<x, y>>
<1> DEFINE T == {x, y}
<1>1. <<x>> \in Seq(T) /\ <<y>> \in Seq(T) /\ <<x, y>> \in Seq(T)
  OBVIOUS
<1>2. Len(<<x>> \o <<y>>) = 2 /\ (<<x>> \o <<y>>)[1] = x /\ (<<x>> \o <<y>>)[2] = y
  BY <1>1
<1>3. Len(<<x, y>>) = 2 /\ <<x, y>>[1] = x /\ <<x, y>>[2] = y
  OBVIOUS
<1>4. <<x>> \o <<y>> \in Seq(T)
  BY <1>1
<1>5. ASSUME NEW s \in Seq(T), Len(s) = 2 PROVE s = [k \in {1, 2} |-> s[k]]
  <2>1. DOMAIN s = {1, 2} /\ s = [k \in DOMAIN s |-> s[k]]
    BY <1>5
  <2> QED BY <2>1
<1> DEFINE s == <<x>> \o <<y>>
           t == <<x, y>>
<1>6. s = [k \in {1, 2} |-> s[k]] /\ t = [k \in {1, 2} |-> t[k]]
  BY <1>1, <1>2, <1>3, <1>4, <1>5
<1>7. s[1] = t[1] /\ s[2] = t[2]
  BY <1>2, <1>3
<1> HIDE DEF s, t
<1>8. s = t
  BY <1>6, <1>7
<1> QED BY <1>8 DEF s, t

\* The tables of a node that has one face, i, and of one that has none.
LEMMA TablesOfOne ==
  ASSUME NEW S, NEW table \in Seq(S), NEW regs, Len(regs) = Len(table), NEW m, NEW owner,
         NEW i \in DOMAIN table, \A j \in DOMAIN table : table[j] = m <=> j = i
  PROVE  TablesFor(m, regs, table, owner)
           = <<AdjacentTable(regs[i], owner), RouterTable(regs[i])>>
<1> DEFINE mine == FacesOf(m, SubSeq(table, 1, Len(regs)))
           A(r) == AdjacentTable(r, owner)
           R(r) == RouterTable(r)
<1>1. Len(table) \in Nat /\ DOMAIN table = 1 .. Len(table) /\ SubSeq(table, 1, Len(regs)) = table
  OBVIOUS
<1>2. mine = <<i>>
  <2>1. i \in Nat /\ i # 0 /\ i <= Len(table)
    BY <1>1
  <2>2. FacesOf(m, table) = IF i <= Len(table) THEN <<i>> ELSE <<>>
    BY <1>1, <2>1, FacesOfFew
  <2> QED BY <1>1, <2>1, <2>2
<1>3. TablesFor(m, regs, table, owner)
        = [k \in 1 .. Len(mine) |-> A(regs[mine[k]])] \o [k \in 1 .. Len(mine) |-> R(regs[mine[k]])]
  BY DEF TablesFor
<1> HIDE DEF A, R, mine
<1>4. Len(mine) = 1 /\ mine[1] = i
  BY <1>2
<1>5. [k \in 1 .. Len(mine) |-> A(regs[mine[k]])] = <<A(regs[i])>>
  BY <1>4
<1>6. [k \in 1 .. Len(mine) |-> R(regs[mine[k]])] = <<R(regs[i])>>
  BY <1>4
<1> QED BY <1>3, <1>5, <1>6, TwoInOne DEF A, R

LEMMA TablesOfNone ==
  ASSUME NEW S, NEW table \in Seq(S), NEW regs, Len(regs) = Len(table), NEW m, NEW owner,
         \A j \in DOMAIN table : table[j] # m
  PROVE  TablesFor(m, regs, table, owner) = <<>>
<1> DEFINE mine == FacesOf(m, SubSeq(table, 1, Len(regs)))
           A(r) == AdjacentTable(r, owner)
           R(r) == RouterTable(r)
           i == Len(table) + 1
<1>1. /\ Len(table) \in Nat /\ DOMAIN table = 1 .. Len(table) /\ SubSeq(table, 1, Len(regs)) = table
      /\ i \in Nat /\ i # 0 /\ ~(i <= Len(table))
  OBVIOUS
<1>2. \A j \in 1 .. Len(table) : table[j] = m <=> j = i
  BY <1>1
<1> HIDE DEF i
<1>3. mine = <<>>
  BY <1>1, <1>2, FacesOfFew
<1>4. TablesFor(m, regs, table, owner)
        = [k \in 1 .. Len(mine) |-> A(regs[mine[k]])] \o [k \in 1 .. Len(mine) |-> R(regs[mine[k]])]
  BY DEF TablesFor
<1> HIDE DEF A, R, mine
<1>5. /\ [k \in 1 .. Len(mine) |-> A(regs[mine[k]])] = <<>>
      /\ [k \in 1 .. Len(mine) |-> R(regs[mine[k]])] = <<>>
  BY <1>3
<1> QED BY <1>4, <1>5
-----------------------------------------------------------------------------
(* Links without a message of some types. *)

NoneOf(ts, s) == \E S : s \in Seq(S) /\ \A m \in S : m.type \notin ts

LEMMA NoneAtFirst == ASSUME NEW ts PROVE NoneOf(ts, <<>>)
<1> DEFINE S == {}
<1>1. <<>> \in Seq(S) /\ \A m \in S : m.type \notin ts
  OBVIOUS
<1> HIDE DEF S
<1> QED BY <1>1 DEF NoneOf

LEMMA NoneTaken ==
  ASSUME NEW ts, NEW s, NoneOf(ts, s), s # <<>>
  PROVE  NoneOf(ts, Tail(s)) /\ Head(s).type \notin ts
<1>1. PICK S : s \in Seq(S) /\ \A m \in S : m.type \notin ts
  BY DEF NoneOf
<1>2. Head(s) \in S /\ Tail(s) \in Seq(S)
  BY <1>1
<1> QED BY <1>1, <1>2 DEF NoneOf

LEMMA NoneAdded ==
  ASSUME NEW ts, NEW s, NoneOf(ts, s), NEW x, x.type \notin ts
  PROVE  NoneOf(ts, Append(s, x))
<1>1. PICK S : s \in Seq(S) /\ \A m \in S : m.type \notin ts
  BY DEF NoneOf
<1> DEFINE T == S \cup {x}
<1>2. Append(s, x) \in Seq(T) /\ \A m \in T : m.type \notin ts
  BY <1>1
<1> HIDE DEF T
<1> QED BY <1>2 DEF NoneOf

LEMMA NoneDoubled ==
  ASSUME NEW ts, NEW s, NoneOf(ts, s), s # <<>>
  PROVE  NoneOf(ts, <<Head(s)>> \o s)
<1>1. PICK S : s \in Seq(S) /\ \A m \in S : m.type \notin ts
  BY DEF NoneOf
<1>2. <<Head(s)>> \in Seq(S)
  BY <1>1
<1>3. <<Head(s)>> \o s \in Seq(S)
  BY <1>1, <1>2
<1> QED BY <1>1, <1>3 DEF NoneOf

-----------------------------------------------------------------------------
(* The way of the tables to the nodes that no fault has reached. *)

\* Some node is still out of every fault's reach.
Sound == \E n \in Node : n \notin harmed

\* The controller has registered the node.
HasFace(n) == \E i \in DOMAIN faces : faces[i] = n

\* The places that are taken.
Seats(owner) == {p \in Place : owner[p] # Nobody}

\* Each registered node has one face, the one in the place of its registration.
FacesInv ==
  /\ faces \in Seq(Node) /\ registed \in Seq(RoleIDs) /\ Len(faces) = Len(registed)
  /\ \A i, j \in DOMAIN faces : faces[i] = faces[j] => i = j
  /\ \A i \in DOMAIN faces : \E p \in Place :
       NodeSet[p] = registed[i] /\ NodeSet[p].role = RoleOf[faces[i]] /\ assigned[p] = faces[i]
  /\ \A p \in Seats(assigned) : \E i \in DOMAIN faces :
       registed[i] = NodeSet[p] /\ faces[i] = assigned[p]
  /\ IsFiniteSet(Seats(assigned)) /\ Cardinality(Seats(assigned)) = Len(registed)

\* Each node registers once, and before it is registered nothing else goes to
\* the controller nor anything back.
OnceInv == \A n \in Node :
  /\ pc[n] = "off" => toCtl[n] = <<>> /\ ~HasFace(n)
  /\ ~HasFace(n) => pc[n] \in {"off", "id"} /\ toNode[n] = <<>>
  /\ \/ toCtl[n] = <<[type |-> "Regist"]>> /\ ~HasFace(n)
     \/ NoneOf({"Regist"}, toCtl[n])

\* A node asks for the subscription list when it runs.
AsksInv == \A n \in Node : pc[n] # "run" => NoneOf({"SubListRequest"}, toCtl[n])

\* What a control panel takes for its identifier and its tables.
Setup == {"IDAssigned", "AdjacentTable", "RouterTable"}

\* The tables on the way to the node with identifier r.
Given(r) == IF Complete(registed) THEN <<AdjacentTable(r, assigned), RouterTable(r)>> ELSE <<>>

\* The stages of a node: it has not been answered yet,
Fresh(n) ==
  /\ pc[n] \in {"off", "id"} /\ ~HasFace(n)
  /\ toNode[n] = <<>> /\ adjTable[n] = <<>>

\* its identifier is on the way, and the tables behind it,
Replied(n, r) ==
  /\ pc[n] = "id" /\ adjTable[n] = <<>>
  /\ toNode[n] = <<[type |-> "IDAssigned", id |-> r.id]>> \o Given(r)

\* it has the identifier,
Named(n, r) ==
  /\ pc[n] = "adjacent" /\ myId[n] = r.id /\ adjTable[n] = <<>>
  /\ toNode[n] = Given(r)

\* the adjacent table,
Linked(n, r) ==
  /\ pc[n] = "router" /\ myId[n] = r.id /\ Complete(registed)
  /\ adjTable[n] = AdjacentTable(r, assigned).items
  /\ toNode[n] = <<RouterTable(r)>>

\* and the router table.
Running(n, r) ==
  /\ pc[n] = "run" /\ myId[n] = r.id /\ Complete(registed)
  /\ adjTable[n] = AdjacentTable(r, assigned).items
  /\ fib[n] = FIB(adjTable[n], RouterTable(r).items)
  /\ NoneOf(Setup, toNode[n])

\* A node that no fault has reached is at one of them.
PanelInvOf(n) ==
  \/ Fresh(n)
  \/ \E i \in DOMAIN faces :
       faces[i] = n /\ LET r == registed[i]
                       IN  Replied(n, r) \/ Named(n, r) \/ Linked(n, r) \/ Running(n, r)

SInv ==
  /\ DOMAIN toCtl = Node /\ DOMAIN adjTable = Node /\ DOMAIN fib = Node
  /\ AsksInv
  /\ Sound => FacesInv /\ OnceInv
  /\ \A n \in Node \ harmed : PanelInvOf(n)

-----------------------------------------------------------------------------
(* The registration of a node, when a node is left that is not misled. *)

\* The identifiers of the topology are records.
LEMMA RoleIDsAreRecords ==
  ASSUME NEW r \in RoleIDs
  PROVE  r = [role |-> r.role, id |-> r.id] /\ Adjacent[r] \in Seq(RoleIDs)
<1> DEFINE Entry == [role : {RoleOf[m] : m \in Node}, id : Nat]
<1>1. PICK i \in 1 .. Len(NodeSet) : r = NodeSet[i]
  BY DEF RoleIDs
<1>2. NodeSet \in Seq(Entry)
  BY RegistrationAssumption
<1>3. r \in Entry
  <2> HIDE DEF Entry
  <2> QED BY <1>1, <1>2
<1>4. Adjacent[r] \in Seq(RoleIDs)
  BY RegistrationAssumption
<1> QED BY <1>3, <1>4

\* What the controller does with it: the node takes a vacant place, and the
\* tables had not gone out before.
LEMMA Registering ==
  ASSUME IInv, SInv, NEW n \in Node, HandleRegist(n), Sound'
  PROVE  LET role == RoleOf[n]
             p == Applied(role)
             reply == [type |-> "IDAssigned", id |-> NodeSet[p].id]
         IN  /\ Sound /\ FacesInv /\ OnceInv /\ harmed' = harmed
             /\ p \in Place /\ assigned[p] = Nobody /\ NodeSet[p].role = role
             /\ toCtl[n] = <<[type |-> "Regist"]>> /\ ~HasFace(n) /\ pc[n] # "off"
             /\ toCtl' = [toCtl EXCEPT ![n] = <<>>]
             /\ assigned' = [assigned EXCEPT ![p] = n]
             /\ registed' = Append(registed, NodeSet[p]) /\ faces' = Append(faces, n)
             /\ Len(registed) < Len(NodeSet)
             /\ \A m \in Node : toNode'[m] =
                  toNode[m] \o (IF m = n THEN <<reply>> ELSE <<>>)
                     \o (IF Complete(registed') THEN TablesFor(m, registed', faces', assigned') ELSE <<>>)
<1> DEFINE role == RoleOf[n]
           p == Applied(role)
           reply == [type |-> "IDAssigned", id |-> NodeSet[p].id]
<1>1. Vacant(role) # {} /\ harmed' = harmed
  <2>1. harmed' = IF Vacant(role) # {} THEN harmed ELSE Node
    BY DEF HandleRegist
  <2> QED BY <2>1 DEF Sound
<1>2. Sound /\ FacesInv /\ OnceInv
  BY <1>1 DEF Sound, SInv
<1>3. p \in Place /\ assigned[p] = Nobody /\ NodeSet[p].role = role
  BY <1>1, AppliedIsVacant
<1>4. toCtl[n] # <<>> /\ toCtl' = [toCtl EXCEPT ![n] = Tail(@)]
  BY DEF HandleRegist
<1>5. toCtl[n] = <<[type |-> "Regist"]>> /\ ~HasFace(n) /\ pc[n] # "off"
  <2>1. Head(toCtl[n]).type = "Regist"
    BY DEF HandleRegist
  <2> QED BY <1>2, <1>4, <2>1, NoneTaken DEF OnceInv
<1>6. toCtl' = [toCtl EXCEPT ![n] = <<>>]
  <2>1. Tail(toCtl[n]) = <<>>
    BY <1>5
  <2> QED BY <1>4, <2>1
<1>7. /\ assigned' = [assigned EXCEPT ![p] = n]
      /\ registed' = Append(registed, NodeSet[p]) /\ faces' = Append(faces, n)
      /\ \A m \in Node : toNode'[m] =
           toNode[m] \o (IF m = n THEN <<reply>> ELSE <<>>)
             \o (IF Complete(registed') THEN TablesFor(m, registed', faces', assigned') ELSE <<>>)
  BY <1>1 DEF HandleRegist
<1>8. Len(registed) < Len(NodeSet)
  <2>1. Len(NodeSet) \in Nat
    BY RegistrationAssumption
  <2>2. IsFiniteSet(Place) /\ Cardinality(Place) = Len(NodeSet)
    <3>1. \A N \in Nat : IsFiniteSet(1 .. N) /\ Cardinality(1 .. N) = N
      BY FS_Interval
    <3> QED BY <2>1, <3>1 DEF Place
  <2>3. Seats(assigned) \subseteq Place /\ p \notin Seats(assigned)
    BY <1>3 DEF Seats
  <2>4. Cardinality(Seats(assigned)) # Cardinality(Place)
    BY <1>3, <2>2, <2>3, PartOfFinite
  <2>5. Cardinality(Seats(assigned)) <= Cardinality(Place) /\ Cardinality(Seats(assigned)) \in Nat
    BY <2>2, <2>3, PartOfFinite
  <2> QED BY <1>2, <2>1, <2>2, <2>4, <2>5 DEF FacesInv
<1> QED BY <1>1, <1>2, <1>3, <1>5, <1>6, <1>7, <1>8

\* It gets the face in the place of its registration.
LEMMA RegisteringFaces ==
  ASSUME IInv, SInv, NEW n \in Node, HandleRegist(n), Sound'
  PROVE  FacesInv'
<1> DEFINE p == Applied(RoleOf[n])
           r == NodeSet[p]
           k == Len(faces) + 1
<1>1. /\ FacesInv /\ ~HasFace(n)
      /\ p \in Place /\ assigned[p] = Nobody /\ r.role = RoleOf[n]
      /\ assigned' = [assigned EXCEPT ![p] = n]
      /\ registed' = Append(registed, r) /\ faces' = Append(faces, n)
  BY Registering
<1>2. /\ faces \in Seq(Node) /\ registed \in Seq(RoleIDs) /\ Len(faces) = Len(registed)
      /\ assigned \in [Place -> Node \cup {Nobody}] /\ n # Nobody
  BY <1>1, RegistrationAssumption DEF FacesInv, IInv
<1>3. r \in RoleIDs
  BY <1>1 DEF RoleIDs, Place
<1>4. assigned'[p] = n /\ \A q \in Place : q # p => assigned'[q] = assigned[q]
  BY <1>1, <1>2
<1> HIDE DEF p, r
<1>5. /\ faces' \in Seq(Node) /\ Len(faces') = Len(faces) + 1
      /\ DOMAIN faces' = DOMAIN faces \cup {k} /\ k \notin DOMAIN faces
      /\ faces'[k] = n /\ \A i \in DOMAIN faces : faces'[i] = faces[i]
  BY <1>1, <1>2
<1>6. /\ registed' \in Seq(RoleIDs) /\ Len(registed') = Len(registed) + 1
      /\ registed'[k] = r /\ \A i \in DOMAIN faces : registed'[i] = registed[i]
  BY <1>1, <1>2, <1>3
<1> HIDE DEF k
<1>7. \A i, j \in DOMAIN faces' : faces'[i] = faces'[j] => i = j
  BY <1>1, <1>5 DEF FacesInv, HasFace
<1>8. ASSUME NEW i \in DOMAIN faces'
      PROVE  \E q \in Place : NodeSet[q] = registed'[i] /\ NodeSet[q].role = RoleOf[faces'[i]]
                                /\ assigned'[q] = faces'[i]
  <2>1. CASE i = k
    BY <1>1, <1>4, <1>5, <1>6, <2>1 DEF r
  <2>2. CASE i \in DOMAIN faces
    <3>1. PICK q \in Place : NodeSet[q] = registed[i] /\ NodeSet[q].role = RoleOf[faces[i]]
                               /\ assigned[q] = faces[i]
      BY <1>1, <2>2 DEF FacesInv
    <3>2. q # p
      BY <1>1, <1>2, <2>2, <3>1, RegistrationAssumption
    <3> QED BY <1>4, <1>5, <1>6, <2>2, <3>1, <3>2
  <2> QED BY <1>5, <2>1, <2>2
<1>9. Seats(assigned') = Seats(assigned) \cup {p} /\ p \notin Seats(assigned)
  BY <1>1, <1>2, <1>4 DEF Seats
<1>10. ASSUME NEW q \in Seats(assigned')
       PROVE  \E i \in DOMAIN faces' : registed'[i] = NodeSet[q] /\ faces'[i] = assigned'[q]
  <2>1. CASE q = p
    BY <1>4, <1>5, <1>6, <2>1 DEF r
  <2>2. CASE q # p
    <3>1. q \in Seats(assigned) /\ q \in Place
      BY <1>9, <2>2 DEF Seats
    <3>2. PICK i \in DOMAIN faces : registed[i] = NodeSet[q] /\ faces[i] = assigned[q]
      BY <1>1, <3>1 DEF FacesInv
    <3> QED BY <1>4, <1>5, <1>6, <2>2, <3>1, <3>2
  <2> QED BY <2>1, <2>2
<1>11. IsFiniteSet(Seats(assigned')) /\ Cardinality(Seats(assigned')) = Len(registed')
  <2>1. IsFiniteSet(Seats(assigned)) /\ Cardinality(Seats(assigned)) = Len(registed)
    BY <1>1 DEF FacesInv
  <2> QED BY <1>6, <1>9, <2>1, FS_AddElement
<1>12. Len(faces') = Len(registed')
  BY <1>2, <1>5, <1>6
<1> QED BY <1>5, <1>6, <1>7, <1>8, <1>10, <1>11, <1>12 DEF FacesInv, Place

\* Its registration is the only one on the way.
LEMMA RegisteringOnce ==
  ASSUME IInv, SInv, NEW n \in Node, HandleRegist(n), Sound'
  PROVE  OnceInv'
<1>1. /\ OnceInv /\ pc[n] # "off" /\ faces' = Append(faces, n)
      /\ toCtl' = [toCtl EXCEPT ![n] = <<>>] /\ faces \in Seq(Node)
  BY Registering DEF FacesInv
<1>0. ASSUME NEW m \in Node, m # n
      PROVE  toNode'[m] = (toNode[m] \o <<>>)
               \o (IF Complete(registed') THEN TablesFor(m, registed', faces', assigned') ELSE <<>>)
  BY <1>0, Registering
<1>2. pc' = pc /\ DOMAIN toCtl = Node
  BY DEF HandleRegist, panels, SInv
<1>3. ASSUME NEW m \in Node, m # n PROVE HasFace(m)' => HasFace(m)
  <2> SUFFICES ASSUME NEW i \in DOMAIN faces', faces'[i] = m PROVE HasFace(m)
    BY DEF HasFace
  <2>1. i \in DOMAIN faces /\ faces[i] = m
    BY <1>1, <1>3
  <2> QED BY <2>1 DEF HasFace
<1>5. ASSUME NEW m \in Node, m # n, ~HasFace(m)' PROVE ~HasFace(m) /\ toNode'[m] = <<>>
  <2>1. ~HasFace(m)
    <3> SUFFICES ASSUME NEW i \in DOMAIN faces, faces[i] = m PROVE HasFace(m)'
      BY <1>5 DEF HasFace
    <3>1. i \in DOMAIN faces' /\ faces'[i] = m
      BY <1>1
    <3> QED BY <3>1 DEF HasFace
  <2>2. (IF Complete(registed') THEN TablesFor(m, registed', faces', assigned') ELSE <<>>) = <<>>
    <3>1. FacesInv'
      BY RegisteringFaces
    <3>2. faces' \in Seq(Node) /\ Len(registed') = Len(faces') /\ \A j \in DOMAIN faces' : faces'[j] # m
      BY <1>5, <3>1 DEF FacesInv, HasFace
    <3> QED BY <3>2, TablesOfNone
  <2>3. toNode[m] = <<>>
    BY <1>1, <2>1 DEF OnceInv
  <2>4. <<>> \o <<>> = <<>>
    OBVIOUS
  <2>5. toNode'[m] = (toNode[m] \o <<>>) \o <<>>
    BY <1>0, <1>5, <2>2
  <2> QED BY <2>1, <2>3, <2>4, <2>5
<1>6. HasFace(n)'
  <2>1. Len(faces) + 1 \in DOMAIN faces' /\ faces'[Len(faces) + 1] = n
    BY <1>1
  <2> QED BY <2>1 DEF HasFace
<1>4. ASSUME NEW m \in Node
      PROVE  /\ pc'[m] = "off" => toCtl'[m] = <<>> /\ ~HasFace(m)'
             /\ ~HasFace(m)' => pc'[m] \in {"off", "id"} /\ toNode'[m] = <<>>
             /\ \/ toCtl'[m] = <<[type |-> "Regist"]>> /\ ~HasFace(m)'
                \/ NoneOf({"Regist"}, toCtl'[m])
  <2>1. CASE m = n
    <3>1. toCtl'[n] = <<>>
      BY <1>1, <1>2
    <3> QED BY <1>1, <1>2, <1>6, <2>1, <3>1, NoneAtFirst
  <2>2. CASE m # n
    <3>1. toCtl'[m] = toCtl[m]
      BY <1>1, <1>2, <2>2
    <3>2. /\ pc[m] = "off" => toCtl[m] = <<>> /\ ~HasFace(m)
          /\ ~HasFace(m) => pc[m] \in {"off", "id"}
          /\ \/ toCtl[m] = <<[type |-> "Regist"]>> /\ ~HasFace(m)
             \/ NoneOf({"Regist"}, toCtl[m])
      BY <1>1 DEF OnceInv
    <3> QED BY <1>2, <1>3, <1>5, <2>2, <3>1, <3>2
  <2> QED BY <2>1, <2>2
<1> QED BY <1>4 DEF OnceInv

\* The tables of a node with the i-th face, that get to it as the last one
\* registers.
LEMMA TablesOnce ==
  ASSUME FacesInv', NEW i \in DOMAIN faces'
  PROVE  (IF Complete(registed') THEN TablesFor(faces'[i], registed', faces', assigned') ELSE <<>>)
           = Given(registed[i])'
<1>1. /\ faces' \in Seq(Node) /\ Len(registed') = Len(faces')
      /\ \A j \in DOMAIN faces' : faces'[j] = faces'[i] <=> j = i
  BY DEF FacesInv
<1>2. TablesFor(faces'[i], registed', faces', assigned')
        = <<AdjacentTable(registed'[i], assigned'), RouterTable(registed'[i])>>
  <2>1. ASSUME NEW table \in Seq(Node), NEW regs, Len(regs) = Len(table), NEW owner, NEW m,
               i \in DOMAIN table, \A j \in DOMAIN table : table[j] = m <=> j = i
        PROVE  TablesFor(m, regs, table, owner)
                 = <<AdjacentTable(regs[i], owner), RouterTable(regs[i])>>
    BY <2>1, TablesOfOne
  <2> QED BY <1>1, <2>1
<1> QED BY <1>2 DEF Given

\* Every node gets its tables then, the one that registers its identifier.
LEMMA RegisteringPanels ==
  ASSUME IInv, SInv, NEW n \in Node, HandleRegist(n), NEW m \in Node \ harmed'
  PROVE  PanelInvOf(m)'
<1> DEFINE p == Applied(RoleOf[n])
           reply == [type |-> "IDAssigned", id |-> NodeSet[p].id]
           tables == IF Complete(registed') THEN TablesFor(m, registed', faces', assigned') ELSE <<>>
<1>1. Sound'
  BY DEF Sound
<1>2. /\ FacesInv /\ OnceInv /\ harmed' = harmed
      /\ ~HasFace(n) /\ pc[n] # "off"
      /\ registed' = Append(registed, NodeSet[p]) /\ faces' = Append(faces, n)
      /\ Len(registed) < Len(NodeSet)
      /\ toNode'[m] = toNode[m] \o (IF m = n THEN <<reply>> ELSE <<>>) \o tables
  BY <1>1, Registering
<1>3. UNCHANGED <<pc, myId, adjTable, fib>>
  BY DEF HandleRegist, panels
<1>4. PanelInvOf(m) /\ ~Complete(registed)
  BY <1>2 DEF SInv, Complete
<1>5. FacesInv'
  BY <1>1, RegisteringFaces
<1>6. /\ faces \in Seq(Node) /\ registed \in Seq(RoleIDs) /\ Len(faces) = Len(registed)
  BY <1>2 DEF FacesInv
<1>0. PICK k \in Nat : k = Len(faces) + 1
  BY <1>6
<1>7. /\ DOMAIN faces' = DOMAIN faces \cup {k}
      /\ faces'[k] = n /\ registed'[k] = NodeSet[p]
      /\ \A i \in DOMAIN faces : faces'[i] = faces[i] /\ registed'[i] = registed[i]
  <2>1. Len(registed) + 1 = k /\ DOMAIN registed = DOMAIN faces
    BY <1>0, <1>6
  <2> HIDE DEF p
  <2> QED BY <1>0, <1>2, <1>6, <2>1
<1> HIDE DEF p, reply, tables
<1>8. ASSUME NEW r PROVE Given(r)' \in Seq({AdjacentTable(r, assigned'), RouterTable(r)})
  <2>1. \A x, y : <<x, y>> \in Seq({x, y}) /\ <<>> \in Seq({x, y})
    OBVIOUS
  <2> QED BY <2>1 DEF Given
<1>9. CASE m = n
  <2>1. Fresh(n)
    BY <1>2, <1>4, <1>9 DEF PanelInvOf, HasFace
  <2>2. tables = Given(registed[k])'
    <3>1. k \in DOMAIN faces' /\ faces'[k] = m
      BY <1>7, <1>9
    <3> QED BY <1>5, <3>1, TablesOnce DEF tables
  <2>3. toNode'[n] = <<reply>> \o Given(registed[k])'
    <3>1. PICK T : tables \in Seq(T)
      BY <1>8, <2>2
    <3>2. toNode'[n] = (<<>> \o <<reply>>) \o tables
      BY <1>2, <1>9, <2>1 DEF Fresh
    <3>3. <<>> \o <<reply>> = <<reply>>
      OBVIOUS
    <3> QED BY <2>2, <3>2, <3>3
  <2>4. reply = [type |-> "IDAssigned", id |-> registed'[k].id]
    BY <1>7 DEF reply
  <2>5. pc'[n] = "id" /\ adjTable'[n] = <<>>
    BY <1>2, <1>3, <2>1 DEF Fresh
  <2>6. Replied(n, registed[k])'
    BY <2>3, <2>4, <2>5 DEF Replied
  <2> QED BY <1>7, <1>9, <2>6 DEF PanelInvOf
<1>10. CASE m # n
  <2>1. toNode'[m] = (toNode[m] \o <<>>) \o tables
    BY <1>2, <1>10
  <2>2. CASE Fresh(m)
    <3>1. ~HasFace(m)'
      BY <1>7, <1>10, <2>2 DEF Fresh, HasFace
    <3>2. tables = <<>>
      <4>1. faces' \in Seq(Node) /\ Len(registed') = Len(faces') /\ \A j \in DOMAIN faces' : faces'[j] # m
        BY <1>5, <3>1 DEF FacesInv, HasFace
      <4> QED BY <4>1, TablesOfNone DEF tables
    <3>3. toNode'[m] = <<>>
      BY <2>1, <2>2, <3>2 DEF Fresh
    <3>4. Fresh(m)'
      BY <1>3, <2>2, <3>1, <3>3 DEF Fresh
    <3> QED BY <3>4 DEF PanelInvOf
  <2>3. ASSUME NEW i \in DOMAIN faces, faces[i] = m,
               Replied(m, registed[i]) \/ Named(m, registed[i])
               \/ Linked(m, registed[i]) \/ Running(m, registed[i])
        PROVE  PanelInvOf(m)'
    <3>1. i \in DOMAIN faces' /\ faces'[i] = m /\ registed'[i] = registed[i]
      BY <1>7, <2>3
    <3>2. tables = Given(registed[i])'
      BY <1>5, <3>1, TablesOnce DEF tables
    <3>3. PICK T : tables \in Seq(T)
      BY <1>8, <3>2
    <3>4. CASE Replied(m, registed[i])
      <4> DEFINE first == [type |-> "IDAssigned", id |-> registed[i].id]
      <4>1. toNode[m] = <<first>> \o <<>>
        BY <1>4, <3>4 DEF Replied, Given
      <4> HIDE DEF first
      <4>2. toNode'[m] = <<first>> \o tables
        BY <2>1, <3>3, <4>1
      <4>3. Replied(m, registed[i])'
        BY <1>3, <3>1, <3>2, <3>4, <4>2 DEF Replied, first
      <4> QED BY <3>1, <4>3 DEF PanelInvOf
    <3>5. CASE Named(m, registed[i])
      <4>1. toNode[m] = <<>>
        BY <1>4, <3>5 DEF Named, Given
      <4>2. toNode'[m] = tables
        BY <2>1, <3>3, <4>1
      <4>3. Named(m, registed[i])'
        BY <1>3, <3>1, <3>2, <3>5, <4>2 DEF Named
      <4> QED BY <3>1, <4>3 DEF PanelInvOf
    <3> QED BY <1>4, <2>3, <3>4, <3>5 DEF Linked, Running
  <2> QED BY <1>4, <2>2, <2>3 DEF PanelInvOf
<1> QED BY <1>9, <1>10

-----------------------------------------------------------------------------
(* The other steps. *)

\* A node that a step leaves alone, as it leaves the controller.
LEMMA PanelSame ==
  ASSUME NEW m \in Node, PanelInvOf(m), UNCHANGED <<assigned, registed, faces>>,
         UNCHANGED <<pc[m], myId[m], adjTable[m], fib[m], toNode[m]>>
  PROVE  PanelInvOf(m)'
<1>1. HasFace(m)' = HasFace(m) /\ Complete(registed') = Complete(registed)
  BY DEF HasFace
<1>2. \A r : Given(r)' = Given(r)
  BY <1>1 DEF Given
<1>3. Fresh(m) => Fresh(m)'
  BY <1>1 DEF Fresh
<1>4. ASSUME NEW i \in DOMAIN faces
      PROVE  /\ Replied(m, registed[i]) => Replied(m, registed[i])'
             /\ Named(m, registed[i]) => Named(m, registed[i])'
             /\ Linked(m, registed[i]) => Linked(m, registed[i])'
             /\ Running(m, registed[i]) => Running(m, registed[i])'
  BY <1>1, <1>2 DEF Replied, Named, Linked, Running
<1> QED BY <1>3, <1>4 DEF PanelInvOf

\* The link of one message and the others.
LEMMA FirstAndRest ==
  ASSUME NEW x, NEW T, NEW g \in Seq(T)
  PROVE  /\ <<x>> \o g # <<>> /\ Head(<<x>> \o g) = x /\ Tail(<<x>> \o g) = g
<1> DEFINE U == T \cup {x}
           s == <<x>> \o g
<1>1. <<x>> \in Seq(U) /\ g \in Seq(U)
  OBVIOUS
<1>2. /\ s \in Seq(U) /\ Len(s) = Len(g) + 1 /\ s[1] = x
      /\ \A k \in 1 .. Len(g) : s[k + 1] = g[k]
  BY <1>1
<1> HIDE DEF s
<1>3. Head(s) = x /\ s # <<>> /\ Tail(s) = g
  <2>1. s # <<>> /\ Head(s) = x /\ Tail(s) \in Seq(U)
    BY <1>2
  <2>2. Len(Tail(s)) = Len(g) /\ \A k \in 1 .. Len(g) : Tail(s)[k] = g[k]
    BY <1>2
  <2>3. Tail(s) = [k \in 1 .. Len(g) |-> Tail(s)[k]] /\ g = [k \in 1 .. Len(g) |-> g[k]]
    <3>1. ASSUME NEW q \in Seq(U) PROVE q = [k \in 1 .. Len(q) |-> q[k]]
      <4>1. DOMAIN q = 1 .. Len(q)
        OBVIOUS
      <4> QED BY <4>1
    <3> QED BY <1>1, <2>1, <2>2, <3>1
  <2> QED BY <2>1, <2>2, <2>3
<1> QED BY <1>3 DEF s

\* The tables on the way are a sequence, and all entries have an address.
LEMMA GivenSeq == \A r : \E T : Given(r) \in Seq(T)
<1>1. \A x, y : <<x, y>> \in Seq({x, y}) /\ <<>> \in Seq({x, y})
  OBVIOUS
<1> QED BY <1>1 DEF Given

LEMMA EntriesHaveAddresses ==
  ASSUME assigned \in [Place -> Node \cup {Nobody}], NEW r \in RoleIDs
  PROVE  /\ AdjacentTable(r, assigned).items \in Seq([roleID : RoleIDs, addr : Node \cup {Nobody}])
         /\ AdjacentTable(r, assigned).items # Garbage
         /\ Len(AdjacentTable(r, assigned).items) = Len(Adjacent[r])
         /\ \A f \in 1 .. Len(Adjacent[r]) :
              LET e == AdjacentTable(r, assigned).items[f]
              IN  /\ e.roleID = Adjacent[r][f] /\ Adjacent[r][f] \in RoleIDs
                  /\ \E i \in Place : NodeSet[i] = e.roleID /\ assigned[i] = e.addr
<1> DEFINE at(x) == CHOOSE i \in 1 .. Len(NodeSet) : NodeSet[i] = x
           e(f) == [roleID |-> Adjacent[r][f], addr |-> assigned[at(Adjacent[r][f])]]
           L == Len(Adjacent[r])
           items == [f \in 1 .. L |-> e(f)]
           Entry == [roleID : RoleIDs, addr : Node \cup {Nobody}]
<1>1. Adjacent[r] \in Seq(RoleIDs) /\ L \in Nat
  BY RegistrationAssumption
<1>2. \A f \in 1 .. L : Adjacent[r][f] \in RoleIDs
  BY <1>1
<1>3. \A x \in RoleIDs : at(x) \in Place /\ NodeSet[at(x)] = x
  BY DEF RoleIDs, Place
<1>4. AdjacentTable(r, assigned).items = items
  BY DEF AdjacentTable
<1>5. \A f \in 1 .. L : e(f) \in Entry
  BY <1>2, <1>3
<1>6. \A f \in 1 .. L : /\ e(f).roleID = Adjacent[r][f]
                        /\ NodeSet[at(Adjacent[r][f])] = e(f).roleID
                        /\ assigned[at(Adjacent[r][f])] = e(f).addr
  <2>1. ASSUME NEW f \in 1 .. L
        PROVE  e(f).roleID = Adjacent[r][f] /\ e(f).addr = assigned[at(Adjacent[r][f])]
    OBVIOUS
  <2>2. \A f \in 1 .. L : NodeSet[at(Adjacent[r][f])] = Adjacent[r][f]
    <3> HIDE DEF at, L
    <3> QED BY <1>2, <1>3
  <2> HIDE DEF e, at, L
  <2> QED BY <2>1, <2>2
<1> HIDE DEF e, Entry, L, at
<1>7. items \in Seq(Entry) /\ Len(items) = L /\ \A f \in 1 .. L : items[f] = e(f)
  BY <1>1, <1>5
<1>8. items # Garbage
  BY <1>7, RegistrationAssumption DEF Entry
<1> HIDE DEF items
<1> QED BY <1>2, <1>3, <1>4, <1>6, <1>7, <1>8 DEF Entry, L

\* A panel that no fault has reached reads what is meant for it.
LEMMA PanelReads ==
  ASSUME IInv, SInv, NEW n \in Node \ harmed, PanelStep(n)
  PROVE  PanelInvOf(n)'
<1>1. /\ UNCHANGED <<assigned, registed, faces>>
      /\ toNode[n] # <<>> /\ pc[n] \in {"id", "adjacent", "router"}
      /\ toNode'[n] = Tail(toNode[n])
  BY DEF PanelStep, SetRoleID, HandleAdjacentTable, HandleRouterTable, Take, controller, IInv
<1>2. Complete(registed') = Complete(registed) /\ \A r : Given(r)' = Given(r)
  BY <1>1 DEF Given
<1>3. ~Fresh(n) /\ PanelInvOf(n) /\ Sound
  BY <1>1 DEF Fresh, SInv, Sound
<1>4. PICK i \in DOMAIN faces : faces[i] = n /\
             (Replied(n, registed[i]) \/ Named(n, registed[i]) \/ Linked(n, registed[i])
              \/ Running(n, registed[i]))
  BY <1>3 DEF PanelInvOf
<1> DEFINE r == registed[i]
<1>5. r \in RoleIDs
  <2>1. registed \in Seq(RoleIDs) /\ i \in DOMAIN registed
    BY <1>3 DEF SInv, FacesInv
  <2> QED BY <2>1
<1>6. i \in DOMAIN faces' /\ faces'[i] = n /\ registed'[i] = r
  BY <1>1, <1>4
<1>7. CASE Replied(n, r)
  <2>1. pc[n] = "id" /\ adjTable[n] = <<>>
        /\ toNode[n] = <<[type |-> "IDAssigned", id |-> r.id]>> \o Given(r)
    BY <1>7 DEF Replied
  <2>2. /\ Head(toNode[n]) = [type |-> "IDAssigned", id |-> r.id]
        /\ Tail(toNode[n]) = Given(r)
    BY <2>1, GivenSeq, FirstAndRest
  <2>3. SetRoleID(n)
    BY <2>1 DEF PanelStep, HandleAdjacentTable, HandleRouterTable, Take
  <2>4. pc'[n] = "adjacent" /\ myId'[n] = r.id /\ adjTable'[n] = <<>>
    <3>1. FirstWord(Head(toNode[n])) = r.id
      <4>1. \A m : m.type = "IDAssigned" => FirstWord(m) = m.id
        BY Zenon DEF FirstWord
      <4> QED BY <2>2, <4>1
    <3> QED BY <2>1, <2>3, <3>1 DEF SetRoleID, Take, IInv
  <2>5. Named(n, r)'
    BY <1>1, <1>2, <2>2, <2>4 DEF Named
  <2> QED BY <1>6, <2>5 DEF PanelInvOf
<1>8. CASE Named(n, r)
  <2>1. pc[n] = "adjacent" /\ myId[n] = r.id /\ adjTable[n] = <<>> /\ Complete(registed)
        /\ toNode[n] = <<AdjacentTable(r, assigned), RouterTable(r)>>
    BY <1>1, <1>8 DEF Named, Given
  <2>2. Head(toNode[n]) = AdjacentTable(r, assigned) /\ Tail(toNode[n]) = <<RouterTable(r)>>
    <3>1. \A x, y : Head(<<x, y>>) = x /\ Tail(<<x, y>>) = <<y>>
      OBVIOUS
    <3> QED BY <2>1, <3>1
  <2>3. HandleAdjacentTable(n)
    BY <2>1 DEF PanelStep, SetRoleID, HandleRouterTable, Take
  <2>4. AdjacentTable(r, assigned).type = "AdjacentTable"
    BY DEF AdjacentTable
  <2>5. <<>> \o AdjacentTable(r, assigned).items = AdjacentTable(r, assigned).items
    <3>1. PICK T : AdjacentTable(r, assigned).items \in Seq(T)
      BY <1>5, EntriesHaveAddresses DEF IInv
    <3> QED BY <3>1
  <2>6. /\ pc'[n] = "router" /\ myId'[n] = r.id
        /\ adjTable'[n] = AdjacentTable(r, assigned).items
    BY <2>1, <2>2, <2>3, <2>4, <2>5 DEF HandleAdjacentTable, Take, Read, IInv, SInv
  <2>7. Linked(n, r)'
    BY <1>1, <1>2, <2>1, <2>2, <2>6 DEF Linked
  <2> QED BY <1>6, <2>7 DEF PanelInvOf
<1>9. CASE Linked(n, r)
  <2>1. pc[n] = "router" /\ myId[n] = r.id /\ Complete(registed)
        /\ adjTable[n] = AdjacentTable(r, assigned).items
        /\ toNode[n] = <<RouterTable(r)>>
    BY <1>9 DEF Linked
  <2>2. Head(toNode[n]) = RouterTable(r) /\ Tail(toNode[n]) = <<>>
    BY <2>1
  <2>3. HandleRouterTable(n)
    BY <2>1 DEF PanelStep, SetRoleID, HandleAdjacentTable, Take
  <2>4. RouterTable(r).type = "RouterTable" /\ adjTable[n] # Garbage
    BY <1>5, <2>1, EntriesHaveAddresses DEF RouterTable, IInv
  <2>5. /\ pc'[n] = "run" /\ myId'[n] = r.id /\ adjTable'[n] = adjTable[n]
        /\ fib'[n] = FIB(adjTable[n], RouterTable(r).items)
    BY <2>1, <2>2, <2>3, <2>4 DEF HandleRouterTable, Take, Read, IInv, SInv
  <2>6. Running(n, r)'
    BY <1>1, <1>2, <2>1, <2>2, <2>5, NoneAtFirst DEF Running
  <2> QED BY <1>6, <2>6 DEF PanelInvOf
<1> QED BY <1>1, <1>4, <1>7, <1>8, <1>9 DEF Running

\* A step that leaves the controller to others.
LEMMA OtherStep ==
  ASSUME IInv, SInv, UNCHANGED controller,
         DOMAIN toCtl' = Node, DOMAIN adjTable' = Node, DOMAIN fib' = Node, harmed \subseteq harmed',
         AsksInv', Sound' /\ OnceInv => OnceInv',
         \A m \in Node \ harmed' : PanelInvOf(m) => PanelInvOf(m)'
  PROVE  SInv'
<1>1. Sound' => Sound
  BY DEF Sound
<1>2. FacesInv => FacesInv'
  BY DEF controller, FacesInv, Seats, Place
<1> QED BY <1>1, <1>2 DEF SInv

\* A node that runs goes on running when a message that is none of its tables
\* comes or goes.
LEMMA RunsOn ==
  ASSUME NEW n \in Node, pc[n] = "run", PanelInvOf(n), UNCHANGED <<assigned, registed, faces>>,
         UNCHANGED <<pc[n], myId[n], adjTable[n], fib[n]>>,
         NoneOf(Setup, toNode[n]) => NoneOf(Setup, toNode'[n])
  PROVE  PanelInvOf(n)'
<1>1. PICK i \in DOMAIN faces : faces[i] = n /\ Running(n, registed[i])
  BY DEF PanelInvOf, Fresh, Replied, Named, Linked
<1>2. Complete(registed') = Complete(registed)
  OBVIOUS
<1>3. Running(n, registed[i])'
  BY <1>1, <1>2 DEF Running
<1> QED BY <1>1, <1>3 DEF PanelInvOf

\* What is on its way to a node that does not run yet is meant for its panel.
LEMMA FirstOfSetup ==
  ASSUME NEW n \in Node, PanelInvOf(n), pc[n] # "run", toNode[n] # <<>>
  PROVE  Head(toNode[n]).type \in Setup
<1>1. PICK i \in DOMAIN faces :
        Replied(n, registed[i]) \/ Named(n, registed[i]) \/ Linked(n, registed[i])
  BY DEF PanelInvOf, Fresh, Running
<1>2. CASE Replied(n, registed[i])
  <2>1. Head(toNode[n]) = [type |-> "IDAssigned", id |-> registed[i].id]
    BY <1>2, GivenSeq, FirstAndRest DEF Replied
  <2> QED BY <2>1 DEF Setup
<1>3. CASE Named(n, registed[i])
  <2>1. toNode[n] = <<AdjacentTable(registed[i], assigned), RouterTable(registed[i])>>
    BY <1>3 DEF Named, Given
  <2>2. \A x, y : Head(<<x, y>>) = x
    OBVIOUS
  <2>3. AdjacentTable(registed[i], assigned).type = "AdjacentTable"
    BY DEF AdjacentTable
  <2> QED BY <2>1, <2>2, <2>3 DEF Setup
<1>4. CASE Linked(n, registed[i])
  <2>1. \A x : Head(<<x>>) = x
    OBVIOUS
  <2>2. RouterTable(registed[i]).type = "RouterTable"
    BY DEF RouterTable
  <2> QED BY <1>4, <2>1, <2>2 DEF Linked, Setup
<1> QED BY <1>1, <1>2, <1>3, <1>4

\* A node registers.
LEMMA RegistTables == ASSUME IInv, SInv, NEW n \in Node, Regist(n) PROVE SInv'
<1>1. DOMAIN toCtl = Node /\ DOMAIN adjTable = Node /\ DOMAIN fib = Node /\ DOMAIN pc = Node
  BY DEF SInv, IInv
<1>2. /\ pc[n] = "off" /\ pc' = [pc EXCEPT ![n] = "id"]
      /\ toCtl' = [toCtl EXCEPT ![n] = Append(@, [type |-> "Regist"])]
      /\ UNCHANGED <<controller, faces, assigned, registed, toNode, myId, adjTable, fib, harmed>>
  BY DEF Regist, controller, faults
<1>3. \A m : HasFace(m)' = HasFace(m)
  BY <1>2 DEF HasFace
<1>4. /\ toCtl'[n] = Append(toCtl[n], [type |-> "Regist"]) /\ pc'[n] = "id"
      /\ \A m \in Node : m # n => toCtl'[m] = toCtl[m] /\ pc'[m] = pc[m]
  BY <1>1, <1>2
<1>5. ASSUME OnceInv PROVE OnceInv'
  <2>1. toCtl[n] = <<>> /\ ~HasFace(n) /\ toNode[n] = <<>>
    BY <1>2, <1>5 DEF OnceInv
  <2>2. toCtl'[n] = <<[type |-> "Regist"]>>
    BY <1>4, <2>1
  <2> QED BY <1>2, <1>3, <1>4, <1>5, <2>1, <2>2 DEF OnceInv
<1>6. AsksInv'
  <2>1. NoneOf({"SubListRequest"}, toCtl[n])
    BY <1>2 DEF SInv, AsksInv
  <2>2. NoneOf({"SubListRequest"}, toCtl'[n])
    BY <1>4, <2>1, NoneAdded
  <2> QED BY <1>4, <2>2 DEF SInv, AsksInv
<1>7. ASSUME NEW m \in Node, PanelInvOf(m) PROVE PanelInvOf(m)'
  <2>1. CASE m = n
    <3>1. Fresh(n)
      BY <1>2, <1>7, <2>1 DEF PanelInvOf, Replied, Named, Linked, Running
    <3>2. Fresh(n)'
      BY <1>2, <1>3, <1>4, <3>1 DEF Fresh
    <3> QED BY <2>1, <3>2 DEF PanelInvOf
  <2>2. CASE m # n
    BY <1>2, <1>4, <1>7, <2>2, PanelSame
  <2> QED BY <2>1, <2>2
<1>8. DOMAIN toCtl' = Node /\ DOMAIN adjTable' = Node /\ DOMAIN fib' = Node
  BY <1>1, <1>2
<1> QED BY <1>2, <1>5, <1>6, <1>7, <1>8, OtherStep

\* A panel takes a message: a node that gets one is registered.
LEMMA PanelTables == ASSUME IInv, SInv, NEW n \in Node, PanelStep(n) PROVE SInv'
<1>1. DOMAIN toCtl = Node /\ DOMAIN adjTable = Node /\ DOMAIN fib = Node /\ DOMAIN pc = Node
      /\ DOMAIN toNode = Node /\ DOMAIN myId = Node
  BY DEF SInv, IInv
<1>2. /\ pc[n] \in {"id", "adjacent", "router"} /\ toNode[n] # <<>>
      /\ UNCHANGED <<controller, faces, assigned, registed, toCtl, harmed>>
      /\ pc'[n] # "off"
      /\ DOMAIN adjTable' = Node /\ DOMAIN fib' = Node
      /\ \A m \in Node : m # n => UNCHANGED <<pc[m], myId[m], adjTable[m], fib[m], toNode[m]>>
  BY <1>1 DEF PanelStep, SetRoleID, HandleAdjacentTable, HandleRouterTable, Take,
              controller, faults
<1>3. OnceInv => OnceInv'
  <2>1. \A m : HasFace(m)' = HasFace(m)
    BY <1>2 DEF HasFace
  <2>2. OnceInv => HasFace(n)
    BY <1>2 DEF OnceInv
  <2> QED BY <1>2, <2>1, <2>2 DEF OnceInv
<1>4. AsksInv'
  BY <1>2 DEF SInv, AsksInv
<1>5. ASSUME NEW m \in Node \ harmed', PanelInvOf(m) PROVE PanelInvOf(m)'
  <2>1. CASE m = n
    BY <1>2, <1>5, <2>1, PanelReads
  <2>2. CASE m # n
    BY <1>2, <1>5, <2>2, PanelSame
  <2> QED BY <2>1, <2>2
<1> QED BY <1>1, <1>2, <1>3, <1>4, <1>5, OtherStep

\* A registration that is doubled or given up misleads every node, any other
\* message to the controller none.
LEMMA FaultToCtlTables ==
  ASSUME IInv, SInv, NEW n \in Node, DoubleToCtl(n) \/ LoseToCtl(n) PROVE SInv'
<1>1. DOMAIN toCtl = Node /\ DOMAIN adjTable = Node /\ DOMAIN fib = Node
  BY DEF SInv
<1>2. /\ toCtl[n] # <<>> /\ harmed \cup Misled(n, Head(toCtl[n]).type) \subseteq harmed'
      /\ UNCHANGED <<controller, faces, assigned, registed, pc, myId, adjTable, fib, toNode>>
      /\ DOMAIN toCtl' = Node /\ \A m \in Node : m # n => toCtl'[m] = toCtl[m]
      /\ toCtl'[n] = <<Head(toCtl[n])>> \o toCtl[n] \/ toCtl'[n] = Tail(toCtl[n])
  BY <1>1 DEF DoubleToCtl, LoseToCtl, Doubled, Lost, panels, controller
<1>3. ASSUME NEW ts, NoneOf(ts, toCtl[n]) PROVE NoneOf(ts, toCtl'[n])
  <2>1. NoneOf(ts, Tail(toCtl[n])) /\ NoneOf(ts, <<Head(toCtl[n])>> \o toCtl[n])
    BY <1>2, <1>3, NoneTaken, NoneDoubled
  <2> QED BY <1>2, <2>1
<1>4. ASSUME Sound', OnceInv PROVE OnceInv'
  <2>1. Head(toCtl[n]).type # "Regist"
    <3>1. Misled(n, "Regist") = Node
      BY Zenon DEF Misled
    <3> QED BY <1>2, <1>4, <3>1 DEF Sound
  <2>2. \A m : HasFace(m)' = HasFace(m)
    BY <1>2 DEF HasFace
  <2>3. pc[n] # "off" /\ NoneOf({"Regist"}, toCtl[n])
    <3>1. Head(<<[type |-> "Regist"]>>).type = "Regist"
      OBVIOUS
    <3> QED BY <1>2, <1>4, <2>1, <3>1 DEF OnceInv
  <2>4. NoneOf({"Regist"}, toCtl'[n])
    BY <1>3, <2>3
  <2> QED BY <1>2, <1>4, <2>2, <2>3, <2>4 DEF OnceInv
<1>5. AsksInv'
  BY <1>2, <1>3 DEF SInv, AsksInv
<1>6. \A m \in Node \ harmed' : PanelInvOf(m) => PanelInvOf(m)'
  BY <1>2, PanelSame
<1> QED BY <1>1, <1>2, <1>4, <1>5, <1>6, OtherStep

\* An identifier or a table that is doubled or given up misleads its node.
LEMMA FaultToNodeTables ==
  ASSUME IInv, SInv, NEW n \in Node, DoubleToNode(n) \/ LoseToNode(n) PROVE SInv'
<1>1. DOMAIN toNode = Node /\ DOMAIN toCtl = Node /\ DOMAIN adjTable = Node /\ DOMAIN fib = Node
  BY DEF SInv, IInv
<1>2. /\ toNode[n] # <<>> /\ harmed \cup Misled(n, Head(toNode[n]).type) \subseteq harmed'
      /\ UNCHANGED <<controller, faces, assigned, registed, pc, myId, adjTable, fib, toCtl>>
      /\ \A m \in Node : m # n => toNode'[m] = toNode[m]
      /\ toNode'[n] = <<Head(toNode[n])>> \o toNode[n] \/ toNode'[n] = Tail(toNode[n])
  BY <1>1 DEF DoubleToNode, LoseToNode, Doubled, Lost, panels, controller
<1>3. OnceInv => OnceInv'
  <2>1. \A m : HasFace(m)' = HasFace(m)
    BY <1>2 DEF HasFace
  <2>2. OnceInv => HasFace(n)
    BY <1>2 DEF OnceInv
  <2> QED BY <1>2, <2>1, <2>2 DEF OnceInv
<1>4. AsksInv'
  BY <1>2 DEF SInv, AsksInv
<1>5. ASSUME NEW m \in Node \ harmed', PanelInvOf(m) PROVE PanelInvOf(m)'
  <2>1. CASE m # n
    BY <1>2, <1>5, <2>1, PanelSame
  <2>2. CASE m = n /\ pc[n] # "run"
    <3>1. Head(toNode[n]).type \in Setup
      BY <1>2, <1>5, <2>2, FirstOfSetup
    <3>2. \A t \in Setup : Misled(n, t) = {n}
      BY Zenon DEF Misled, Setup
    <3> QED BY <1>2, <1>5, <2>2, <3>1, <3>2
  <2>3. CASE m = n /\ pc[n] = "run"
    <3>1. ASSUME NoneOf(Setup, toNode[n]) PROVE NoneOf(Setup, toNode'[n])
      <4>1. NoneOf(Setup, Tail(toNode[n])) /\ NoneOf(Setup, <<Head(toNode[n])>> \o toNode[n])
        BY <1>2, <3>1, NoneTaken, NoneDoubled
      <4> QED BY <1>2, <4>1
    <3> QED BY <1>2, <1>5, <2>3, <3>1, RunsOn
  <2> QED BY <2>1, <2>2, <2>3
<1> QED BY <1>1, <1>2, <1>3, <1>4, <1>5, OtherStep

\* Every step of the registration.
LEMMA StepTables == ASSUME IInv, SInv, [RNext]_rvars PROVE SInv'
<1>1. ASSUME NEW n \in Node, HandleRegist(n) PROVE SInv'
  <2>1. DOMAIN toCtl' = Node /\ DOMAIN adjTable' = Node /\ DOMAIN fib' = Node
    BY <1>1 DEF HandleRegist, panels, SInv
  <2>2. Sound' => FacesInv' /\ OnceInv'
    BY <1>1, RegisteringFaces, RegisteringOnce
  <2>3. AsksInv'
    <3>1. /\ toCtl[n] # <<>> /\ toCtl'[n] = Tail(toCtl[n]) /\ pc' = pc
          /\ \A m \in Node : m # n => toCtl'[m] = toCtl[m]
      BY <1>1 DEF HandleRegist, panels, SInv
    <3>2. NoneOf({"SubListRequest"}, toCtl[n]) => NoneOf({"SubListRequest"}, Tail(toCtl[n]))
      BY <3>1, NoneTaken
    <3> QED BY <3>1, <3>2 DEF SInv, AsksInv
  <2>4. \A m \in Node \ harmed' : PanelInvOf(m)'
    BY <1>1, RegisteringPanels
  <2> QED BY <2>1, <2>2, <2>3, <2>4 DEF SInv
<1>2. CASE UNCHANGED rvars
  <2>1. UNCHANGED <<controller, faces, assigned, registed, toCtl, toNode, pc, myId, adjTable, fib, harmed>>
    BY <1>2 DEF rvars, controller, links, panels, faults
  <2>2. OnceInv => OnceInv'
    <3>1. \A m : HasFace(m)' = HasFace(m)
      BY <2>1 DEF HasFace
    <3> QED BY <2>1, <3>1 DEF OnceInv
  <2>3. AsksInv'
    BY <2>1 DEF SInv, AsksInv
  <2>4. ASSUME NEW m \in Node, PanelInvOf(m) PROVE PanelInvOf(m)'
    BY <2>1, <2>4, PanelSame
  <2>5. DOMAIN toCtl' = Node /\ DOMAIN adjTable' = Node /\ DOMAIN fib' = Node
    BY <2>1 DEF SInv
  <2> QED BY <2>1, <2>2, <2>3, <2>4, <2>5, OtherStep
<1> QED BY <1>1, <1>2, RegistTables, PanelTables, FaultToCtlTables, FaultToNodeTables DEF RNext

-----------------------------------------------------------------------------
(* The exchange of the subscription list. *)

\* What a publisher lists has ids, and only the downloaders of subscribers
\* that run wait for a reply.
LInv ==
  /\ DOMAIN file = Node /\ DOMAIN subList = Node
  /\ waiting \subseteq {s \in Node : Runs(s, "Sub")}
  /\ \A p \in Node : RoleOf[p] = "Pub" =>
       file[p] \subseteq First \cup Name /\ subList[p] \subseteq DOMAIN NameID

\* The names of a file, and those that begin them, have ids.
LEMMA ListsHaveIds ==
  ASSUME NEW f, f \subseteq First \cup Name PROVE SubListOf(f) \subseteq DOMAIN NameID
BY SubListAssumption, ContentAssumption DEF SubListOf

\* A node that runs goes on running.
LEMMA RunningStays ==
  ASSUME IInv, [RNext]_rvars, NEW n \in Node, pc[n] = "run" PROVE pc'[n] = "run"
<1>1. ASSUME NEW m \in Node, Regist(m) \/ PanelStep(m) PROVE pc'[n] = "run"
  <2>1. /\ pc[m] \in {"off", "id", "adjacent", "router"}
        /\ \E to : pc' = [pc EXCEPT ![m] = to]
    BY <1>1 DEF Regist, PanelStep, SetRoleID, HandleAdjacentTable, HandleRouterTable, Take
  <2>2. m # n
    BY <2>1
  <2> QED BY <2>1, <2>2 DEF IInv
<1>2. ASSUME NEW m \in Node,
             HandleRegist(m) \/ DoubleToCtl(m) \/ DoubleToNode(m) \/ LoseToCtl(m) \/ LoseToNode(m)
      PROVE  pc' = pc
  BY <1>2 DEF HandleRegist, DoubleToCtl, DoubleToNode, LoseToCtl, LoseToNode, Doubled, Lost, panels
<1>3. CASE UNCHANGED rvars
  BY <1>3 DEF rvars, panels
<1> QED BY <1>1, <1>2, <1>3 DEF RNext

LEMMA StepLists == ASSUME IInv, LInv, [Next]_vars PROVE LInv'
<1>1. CASE [RNext]_rvars /\ UNCHANGED lists
  <2>1. UNCHANGED <<file, subList, waiting>>
    BY <1>1 DEF lists
  <2>2. \A n \in Node : Runs(n, "Sub") => Runs(n, "Sub")'
    BY <1>1, RunningStays DEF Runs
  <2> QED BY <2>1, <2>2 DEF LInv
<1>2. ASSUME NEW n \in Node, ListStep(n) PROVE LInv'
  <2>1. pc' = pc
    BY <1>2 DEF ListStep, EditFile, Upload, HandleSubListUpload, Request, HandleSubListRequest,
                SetSubList, rvars, panels
  <2>2. CASE \E x \in Name : EditFile(n, x)
    <3>1. PICK x \in Name : EditFile(n, x)
      BY <2>2
    <3>2. file' = [file EXCEPT ![n] = @ \cup {x}] /\ UNCHANGED <<subList, waiting>>
      BY <3>1 DEF EditFile
    <3> QED BY <2>1, <3>2 DEF LInv, Runs
  <2>3. CASE Upload(n)
    <3>1. /\ Runs(n, "Pub") /\ subList' = [subList EXCEPT ![n] = SubListOf(file[n])]
          /\ UNCHANGED <<file, waiting>>
      BY <2>3 DEF Upload
    <3>2. SubListOf(file[n]) \subseteq DOMAIN NameID
      BY <3>1, ListsHaveIds DEF LInv, Runs
    <3> QED BY <2>1, <3>1, <3>2 DEF LInv, Runs
  <2>4. CASE Request(n)
    <3>1. /\ Runs(n, "Sub") /\ waiting' = waiting \cup {n} /\ UNCHANGED <<file, subList>>
      BY <2>4 DEF Request
    <3> QED BY <2>1, <3>1 DEF LInv, Runs
  <2>5. CASE HandleSubListUpload(n) \/ HandleSubListRequest(n)
    <3>1. UNCHANGED <<file, subList, waiting>>
      BY <2>5 DEF HandleSubListUpload, HandleSubListRequest, lists
    <3> QED BY <2>1, <3>1 DEF LInv, Runs
  <2>6. CASE SetSubList(n)
    <3>1. /\ n \in waiting /\ waiting' = waiting \ {n} /\ file' = file
          /\ \E l : subList' = [subList EXCEPT ![n] = l]
      BY <2>6 DEF SetSubList
    <3>2. RoleOf[n] = "Sub"
      BY <3>1 DEF LInv, Runs
    <3> QED BY <2>1, <3>1, <3>2 DEF LInv, Runs
  <2> QED BY <1>2, <2>2, <2>3, <2>4, <2>5, <2>6 DEF ListStep
<1> QED BY <1>1, <1>2, TwoKinds

\* What a running node sends to the controller is no registration.
LEMMA SendTables ==
  ASSUME IInv, SInv, NEW n \in Node, pc[n] = "run", NEW m, m.type # "Regist",
         toCtl' = [toCtl EXCEPT ![n] = Append(@, m)], UNCHANGED <<controller, toNode, panels, faults>>
  PROVE  SInv'
<1>1. UNCHANGED <<faces, assigned, registed, pc, myId, adjTable, fib, harmed>>
  BY DEF controller, panels, faults
<1>2. /\ DOMAIN toCtl' = Node /\ DOMAIN adjTable' = Node /\ DOMAIN fib' = Node
      /\ toCtl'[n] = Append(toCtl[n], m) /\ \A k \in Node : k # n => toCtl'[k] = toCtl[k]
  BY <1>1 DEF SInv
<1>3. OnceInv => OnceInv'
  <2> SUFFICES ASSUME OnceInv PROVE OnceInv'
    OBVIOUS
  <2>1. \A k : HasFace(k)' = HasFace(k)
    BY <1>1 DEF HasFace
  <2>2. NoneOf({"Regist"}, toCtl[n])
    BY DEF OnceInv
  <2>3. NoneOf({"Regist"}, toCtl'[n])
    BY <1>2, <2>2, NoneAdded
  <2> QED BY <1>1, <1>2, <2>1, <2>3 DEF OnceInv
<1>4. AsksInv'
  BY <1>1, <1>2 DEF SInv, AsksInv
<1>5. ASSUME NEW k \in Node, PanelInvOf(k) PROVE PanelInvOf(k)'
  BY <1>1, <1>5, PanelSame
<1> QED BY <1>1, <1>2, <1>3, <1>4, <1>5, OtherStep

\* The controller takes what is no registration, and may reply to a node that
\* runs.
LEMMA HandledTables ==
  ASSUME IInv, SInv, NEW n \in Node, toCtl[n] # <<>>, Head(toCtl[n]).type # "Regist",
         toCtl' = [toCtl EXCEPT ![n] = Tail(@)], UNCHANGED <<controller, panels, faults>>,
         \/ UNCHANGED toNode
         \/ /\ Head(toCtl[n]).type = "SubListRequest"
            /\ \E m : m.type \notin Setup /\ toNode' = [toNode EXCEPT ![n] = Append(@, m)]
  PROVE  SInv'
<1>1. UNCHANGED <<faces, assigned, registed, pc, myId, adjTable, fib, harmed>>
  BY DEF controller, panels, faults
<1>2. /\ DOMAIN toCtl' = Node /\ DOMAIN adjTable' = Node /\ DOMAIN fib' = Node
      /\ toCtl'[n] = Tail(toCtl[n]) /\ \A k \in Node : k # n => toCtl'[k] = toCtl[k]
  BY <1>1 DEF SInv
<1>3. ASSUME NEW ts, NoneOf(ts, toCtl[n]) PROVE NoneOf(ts, toCtl'[n]) /\ Head(toCtl[n]).type \notin ts
  BY <1>2, <1>3, NoneTaken
<1>4. \/ toNode' = toNode
      \/ /\ pc[n] = "run" /\ \A k \in Node : k # n => toNode'[k] = toNode[k]
         /\ NoneOf(Setup, toNode[n]) => NoneOf(Setup, toNode'[n])
  <2> SUFFICES ASSUME NEW m, m.type \notin Setup, toNode' = [toNode EXCEPT ![n] = Append(@, m)],
                      Head(toCtl[n]).type = "SubListRequest"
               PROVE  /\ pc[n] = "run" /\ \A k \in Node : k # n => toNode'[k] = toNode[k]
                      /\ NoneOf(Setup, toNode[n]) => NoneOf(Setup, toNode'[n])
    OBVIOUS
  <2>1. pc[n] = "run"
    BY <1>3 DEF SInv, AsksInv
  <2>2. toNode'[n] = Append(toNode[n], m) /\ \A k \in Node : k # n => toNode'[k] = toNode[k]
    BY DEF IInv
  <2>3. NoneOf(Setup, toNode[n]) => NoneOf(Setup, toNode'[n])
    BY <2>2, NoneAdded
  <2> QED BY <2>1, <2>2, <2>3
<1>5. OnceInv => OnceInv'
  <2> SUFFICES ASSUME OnceInv PROVE OnceInv'
    OBVIOUS
  <2>1. \A k : HasFace(k)' = HasFace(k)
    BY <1>1 DEF HasFace
  <2>2. NoneOf({"Regist"}, toCtl[n]) /\ pc[n] # "off"
    <3>1. Head(<<[type |-> "Regist"]>>).type = "Regist"
      OBVIOUS
    <3> QED BY <3>1 DEF OnceInv
  <2>3. NoneOf({"Regist"}, toCtl'[n])
    BY <1>3, <2>2
  <2>4. ASSUME NEW k \in Node, ~HasFace(k) PROVE pc[k] \in {"off", "id"} /\ toNode'[k] = <<>>
    BY <1>4, <2>4 DEF OnceInv
  <2> QED BY <1>1, <1>2, <2>1, <2>2, <2>3, <2>4 DEF OnceInv
<1>6. AsksInv'
  BY <1>1, <1>2, <1>3 DEF SInv, AsksInv
<1>7. ASSUME NEW k \in Node, PanelInvOf(k) PROVE PanelInvOf(k)'
  <2>1. CASE toNode'[k] = toNode[k]
    BY <1>1, <1>7, <2>1, PanelSame
  <2>2. CASE k = n /\ pc[n] = "run" /\ (NoneOf(Setup, toNode[n]) => NoneOf(Setup, toNode'[n]))
    BY <1>1, <1>7, <2>2, RunsOn
  <2> QED BY <1>4, <2>1, <2>2
<1> QED BY <1>1, <1>2, <1>5, <1>6, <1>7, OtherStep

\* No step of the exchange disturbs a control panel.
LEMMA ListsTables == ASSUME IInv, SInv, LInv, NEW n \in Node, ListStep(n) PROVE SInv'
<1>1. CASE \E x \in Name : EditFile(n, x)
  <2>1. UNCHANGED rvars
    BY <1>1 DEF EditFile
  <2> QED BY <2>1, StepTables
<1>2. CASE Upload(n) \/ Request(n)
  <2>1. ASSUME NEW m, m.type # "Regist", pc[n] = "run",
               toCtl' = [toCtl EXCEPT ![n] = Append(@, m)],
               UNCHANGED <<controller, toNode, panels, faults>>
        PROVE  SInv'
    BY <2>1, SendTables
  <2> DEFINE u == [type |-> "SubListUpload", names |-> SubListOf(file[n])]
             q == [type |-> "SubListRequest"]
  <2>2. u.type # "Regist" /\ q.type # "Regist"
    OBVIOUS
  <2>3. Upload(n) => /\ pc[n] = "run" /\ toCtl' = [toCtl EXCEPT ![n] = Append(@, u)]
                     /\ UNCHANGED <<controller, toNode, panels, faults>>
    BY DEF Upload, Send, Runs
  <2>4. Request(n) => /\ pc[n] = "run" /\ toCtl' = [toCtl EXCEPT ![n] = Append(@, q)]
                      /\ UNCHANGED <<controller, toNode, panels, faults>>
    BY DEF Request, Send, Runs
  <2> HIDE DEF u, q
  <2> QED BY <1>2, <2>1, <2>2, <2>3, <2>4
<1>3. CASE HandleSubListUpload(n)
  BY <1>3, HandledTables DEF HandleSubListUpload
<1>4. CASE HandleSubListRequest(n)
  <2> DEFINE m == [type |-> "SubListDownload", names |-> allSubList]
  <2>1. m.type \notin Setup
    BY DEF Setup
  <2>2. /\ toCtl[n] # <<>> /\ Head(toCtl[n]).type = "SubListRequest"
        /\ toCtl' = [toCtl EXCEPT ![n] = Tail(@)] /\ UNCHANGED <<controller, panels, faults>>
        /\ toNode' = [toNode EXCEPT ![n] = Append(@, m)]
    BY <1>4 DEF HandleSubListRequest
  <2> HIDE DEF m
  <2> QED BY <2>1, <2>2, HandledTables
<1>5. CASE SetSubList(n)
  <2>1. /\ n \in waiting /\ toNode[n] # <<>> /\ toNode' = [toNode EXCEPT ![n] = Tail(@)]
        /\ UNCHANGED <<controller, toCtl, panels, faults, faces, assigned, registed, pc, myId, adjTable, fib, harmed>>
    BY <1>5 DEF SetSubList, controller, panels, faults
  <2>2. pc[n] = "run"
    BY <2>1 DEF LInv, Runs
  <2>3. toNode'[n] = Tail(toNode[n]) /\ \A k \in Node : k # n => toNode'[k] = toNode[k]
    BY <2>1 DEF IInv
  <2>4. OnceInv => OnceInv'
    <3>1. \A k : HasFace(k)' = HasFace(k)
      BY <2>1 DEF HasFace
    <3>2. OnceInv => HasFace(n)
      BY <2>2 DEF OnceInv
    <3> QED BY <2>1, <2>3, <3>1, <3>2 DEF OnceInv
  <2>5. AsksInv'
    BY <2>1 DEF SInv, AsksInv
  <2>6. ASSUME NEW k \in Node, PanelInvOf(k) PROVE PanelInvOf(k)'
    <3>1. CASE k = n
      <4>1. NoneOf(Setup, toNode[n]) => NoneOf(Setup, toNode'[n])
        BY <2>1, <2>3, NoneTaken
      <4> QED BY <2>1, <2>2, <2>6, <3>1, <4>1, RunsOn
    <3>2. CASE k # n
      BY <2>1, <2>3, <2>6, <3>2, PanelSame
    <3> QED BY <3>1, <3>2
  <2>7. DOMAIN toCtl' = Node /\ DOMAIN adjTable' = Node /\ DOMAIN fib' = Node
    BY <2>1 DEF SInv
  <2> QED BY <2>1, <2>4, <2>5, <2>6, <2>7, OtherStep
<1> QED BY <1>1, <1>2, <1>3, <1>4, <1>5 DEF ListStep

\* At the start nothing has been assigned.
LEMMA InitTables == RInit => SInv
<1> SUFFICES ASSUME RInit PROVE SInv
  OBVIOUS
<1>1. /\ assigned = [i \in Place |-> Nobody] /\ registed = <<>> /\ faces = <<>>
      /\ \A n \in Node : /\ toCtl[n] = <<>> /\ toNode[n] = <<>> /\ adjTable[n] = <<>>
                         /\ pc[n] = "off"
      /\ DOMAIN toCtl = Node /\ DOMAIN adjTable = Node /\ DOMAIN fib = Node
  BY DEF RInit, Place
<1>2. Seats(assigned) = {}
  BY <1>1 DEF Seats
<1>3. /\ \A S : <<>> \in Seq(S)
      /\ Len(<<>>) = 0 /\ DOMAIN <<>> = {}
  OBVIOUS
<1>4. FacesInv
  BY <1>1, <1>2, <1>3, FS_EmptySet DEF FacesInv
<1>5. \A n : ~HasFace(n)
  BY <1>1, <1>3 DEF HasFace
<1>6. OnceInv /\ AsksInv
  BY <1>1, <1>5, NoneAtFirst DEF OnceInv, AsksInv
<1>7. \A n \in Node : PanelInvOf(n)
  BY <1>1, <1>5 DEF PanelInvOf, Fresh
<1> QED BY <1>1, <1>4, <1>6, <1>7 DEF SInv

\* A node that no fault has reached is at one of the stages, in every state.
THEOREM StagesInvariant == Spec => [](IInv /\ SInv /\ LInv)
<1>1. Init => SInv /\ LInv
  <2>1. Init => SInv
    BY InitTables DEF Init
  <2>2. Init => LInv
    BY DEF Init, LInv
  <2> QED BY <2>1, <2>2
<1>2. IInv /\ SInv /\ LInv /\ [Next]_vars => SInv' /\ LInv'
  BY StepTables, ListsTables, StepLists, TwoKinds
<1>3. Spec => []IInv
  BY Invariant
<1> QED BY <1>1, <1>2, <1>3, PTL DEF Spec

-----------------------------------------------------------------------------
(* The identifiers, whatever is doubled, given up or registered in excess. *)

\* A node that is registered finds its identifier first.
Awaiting(n) ==
  /\ toNode[n] = <<>> => ~HasFace(n)
  /\ toNode[n] # <<>> => Head(toNode[n]).type = "IDAssigned"

\* A node that has not read it does so next, and one that has keeps it.
NameInvOf(n) ==
  /\ pc[n] \in {"off", "id"} => Awaiting(n)
  /\ pc[n] \notin {"off", "id"} => myId[n] \in Ids(n, assigned) \cup {-1}

NamesInv ==
  /\ faces \in Seq(Node) /\ registed \in Seq(RoleIDs) /\ Len(registed) <= Len(faces)
  /\ \A n \in Node \ unanswered : NameInvOf(n)

\* A step that leaves the controller to others.
LEMMA NamesKept ==
  ASSUME NamesInv, UNCHANGED controller, unanswered \subseteq unanswered',
         \A n \in Node \ unanswered' :
           UNCHANGED <<pc[n], myId[n], toNode[n]>> \/ NameInvOf(n)'
  PROVE  NamesInv'
<1>1. UNCHANGED <<assigned, registed, faces>>
  BY DEF controller
<1>2. \A n : HasFace(n)' = HasFace(n)
  BY <1>1 DEF HasFace
<1>3. ASSUME NEW n \in Node \ unanswered', UNCHANGED <<pc[n], myId[n], toNode[n]>>
      PROVE  NameInvOf(n)'
  <2>1. NameInvOf(n)
    BY DEF NamesInv
  <2> QED BY <1>1, <1>2, <1>3, <2>1 DEF NameInvOf, Awaiting
<1> QED BY <1>1, <1>3 DEF NamesInv

\* What is in front stays there when more is added.
LEMMA HeadStays ==
  ASSUME NEW S, NEW T, NEW s \in Seq(S), NEW t \in Seq(T), s # <<>>
  PROVE  s \o t # <<>> /\ Head(s \o t) = Head(s)
<1> DEFINE U == S \cup T
<1>3. s \in Seq(U) /\ t \in Seq(U)
  OBVIOUS
<1> HIDE DEF U
<1>4. s \o t # <<>> /\ Head(s \o t) = Head(s)
  <2>1. Len(s) \in Nat /\ Len(s) # 0 /\ Len(t) \in Nat
    BY <1>3
  <2>2. s \o t \in Seq(U) /\ Len(s \o t) = Len(s) + Len(t) /\ (s \o t)[1] = s[1]
    BY <1>3, <2>1
  <2>3. Len(s \o t) # 0
    BY <2>1, <2>2
  <2> QED BY <1>3, <2>2, <2>3
<1> QED BY <1>4

\* No tables for a node that no face leads to.
LEMMA NoTablesFor ==
  ASSUME NEW table \in Seq(Node), NEW regs, Len(regs) \in Nat, Len(regs) <= Len(table),
         NEW m, NEW owner, \A j \in DOMAIN table : table[j] # m
  PROVE  TablesFor(m, regs, table, owner) = <<>>
<1> DEFINE known == SubSeq(table, 1, Len(regs))
<1>1. known \in Seq(Node) /\ Len(known) = Len(regs) /\ \A j \in DOMAIN known : known[j] = table[j]
  OBVIOUS
<1>2. \A j \in DOMAIN known : known[j] # m
  <2>1. DOMAIN known = 1 .. Len(regs) /\ DOMAIN table = 1 .. Len(table) /\ Len(table) \in Nat
    BY <1>1
  <2>2. DOMAIN known \subseteq DOMAIN table
    BY <2>1
  <2> HIDE DEF known
  <2> QED BY <1>1, <2>2
<1>3. SubSeq(known, 1, Len(regs)) = known
  BY <1>1
<1> HIDE DEF known
<1>4. TablesFor(m, regs, known, owner) = <<>>
  BY <1>1, <1>2, TablesOfNone
<1>5. TablesFor(m, regs, known, owner) = TablesFor(m, regs, table, owner)
  BY <1>3 DEF TablesFor, known
<1> QED BY <1>4, <1>5

\* The controller answers a node before it sends it tables.
LEMMA HandleRegistNames ==
  ASSUME IInv, NamesInv, NEW n \in Node, HandleRegist(n) PROVE NamesInv'
<1> DEFINE known == Vacant(RoleOf[n]) # {}
           p == Applied(RoleOf[n])
           reply == [type |-> "IDAssigned", id |-> IF known THEN NodeSet[p].id ELSE -1]
           tables(m) == IF Complete(registed') THEN TablesFor(m, registed', faces', assigned') ELSE <<>>
<1>1. /\ registed' = IF known THEN Append(registed, NodeSet[p]) ELSE registed
      /\ faces' = Append(faces, n)
      /\ \A m \in Node : toNode'[m] = toNode[m] \o (IF m = n THEN <<reply>> ELSE <<>>) \o tables(m)
      /\ UNCHANGED <<pc, myId, unanswered>>
  BY DEF HandleRegist, panels
<1>2. faces \in Seq(Node) /\ registed \in Seq(RoleIDs) /\ Len(registed) <= Len(faces)
  BY DEF NamesInv
<1>3. known => NodeSet[p] \in RoleIDs
  BY AppliedIsVacant DEF RoleIDs, Place
<1>4. reply.type = "IDAssigned"
  OBVIOUS
<1> HIDE DEF reply, known, p
<1>5. faces' \in Seq(Node) /\ registed' \in Seq(RoleIDs) /\ Len(registed') <= Len(faces')
  <2>1. faces' \in Seq(Node) /\ Len(faces') = Len(faces) + 1
    BY <1>1, <1>2
  <2>2. registed' \in Seq(RoleIDs) /\ Len(registed') \in {Len(registed), Len(registed) + 1}
    BY <1>1, <1>2, <1>3
  <2>3. Len(registed) \in Nat /\ Len(faces) \in Nat
    BY <1>2
  <2> QED BY <1>2, <2>1, <2>2, <2>3
<1>6. ASSUME NEW m \in Node \ unanswered' PROVE NameInvOf(m)'
  <2>1. NameInvOf(m) /\ m \in Node /\ pc'[m] = pc[m] /\ myId'[m] = myId[m]
    BY <1>1 DEF NamesInv
  <2>2. Ids(m, assigned) \subseteq Ids(m, assigned')
    BY PlacesKept
  <2> DEFINE answer == IF m = n THEN <<reply>> ELSE <<>>
             front == toNode[m] \o answer
  <2>3. OwnReplies(toNode[m], m, assigned)
    BY DEF IInv
  <2>4. \A o : OwnReplies(tables(m), m, o)
    BY TablesAreNoReplies, NoReplies
  <2>5. toNode'[m] = front \o tables(m)
    BY <1>1
  <2>6. PICK S : toNode[m] \in Seq(S)
    BY <2>3 DEF OwnReplies
  <2>7. PICK T : tables(m) \in Seq(T)
    BY <2>4 DEF OwnReplies
  <2>8. answer \in Seq({reply}) /\ (m # n => answer = <<>>) /\ (m = n => answer # <<>> /\ Head(answer) = reply)
    <3>1. ASSUME NEW r PROVE /\ <<r>> \in Seq({r}) /\ <<>> \in Seq({r})
                             /\ <<r>> # <<>> /\ Head(<<r>>) = r
      OBVIOUS
    <3>2. <<reply>> \in Seq({reply}) /\ <<>> \in Seq({reply}) /\ <<reply>> # <<>> /\ Head(<<reply>>) = reply
      <4> HIDE DEF reply
      <4> QED BY <3>1
    <3>3. m = n => answer = <<reply>>
      BY DEF answer
    <3>4. m # n => answer = <<>>
      BY DEF answer
    <3> HIDE DEF answer, reply
    <3> QED BY <3>2, <3>3, <3>4
  <2> HIDE DEF answer, tables
  <2>9. CASE toNode[m] # <<>>
    <3>1. front # <<>> /\ Head(front) = Head(toNode[m])
      BY <2>6, <2>8, <2>9, HeadStays
    <3>2. front \in Seq(S \cup {reply})
      BY <2>6, <2>8
    <3> HIDE DEF front
    <3>3. toNode'[m] # <<>> /\ Head(toNode'[m]) = Head(toNode[m])
      BY <2>5, <2>7, <3>1, <3>2, HeadStays
    <3> QED BY <2>1, <2>2, <2>9, <3>3 DEF NameInvOf, Awaiting
  <2>10. CASE toNode[m] = <<>> /\ m = n
    <3>1. front = answer
      BY <2>8, <2>10
    <3>2. toNode'[m] # <<>> /\ Head(toNode'[m]) = reply
      BY <2>5, <2>7, <2>8, <2>10, <3>1, HeadStays
    <3> QED BY <1>4, <2>1, <2>2, <3>2 DEF NameInvOf, Awaiting
  <2>11. CASE toNode[m] = <<>> /\ m # n
    <3>1. ASSUME ~HasFace(m) PROVE ~HasFace(m)' /\ toNode'[m] = <<>>
      <4>1. \A j \in DOMAIN faces : faces[j] # m
        BY <3>1 DEF HasFace
      <4>2. \A j \in DOMAIN faces' : faces'[j] # m
        BY <1>1, <1>2, <2>11, <4>1
      <4>3. Len(registed') \in Nat
        BY <1>5
      <4>4. ASSUME NEW table \in Seq(Node), NEW regs, Len(regs) \in Nat, Len(regs) <= Len(table),
                   NEW owner, \A j \in DOMAIN table : table[j] # m
            PROVE  TablesFor(m, regs, table, owner) = <<>>
        BY <4>4, NoTablesFor
      <4>5. tables(m) = <<>>
        BY <1>5, <4>2, <4>3, <4>4 DEF tables
      <4>6. (<<>> \o <<>>) \o <<>> = <<>>
        OBVIOUS
      <4> QED BY <2>5, <2>8, <2>11, <4>2, <4>5, <4>6 DEF HasFace
    <3> QED BY <2>1, <2>2, <2>11, <3>1 DEF NameInvOf, Awaiting
  <2> QED BY <2>9, <2>10, <2>11
<1> QED BY <1>5, <1>6 DEF NamesInv

\* A panel takes its identifier only from the message that has it.
LEMMA PanelNames ==
  ASSUME IInv, NamesInv, NEW n \in Node, PanelStep(n) PROVE NamesInv'
<1>1. /\ pc[n] \in {"id", "adjacent", "router"} /\ toNode[n] # <<>>
      /\ UNCHANGED controller /\ UNCHANGED unanswered
      /\ \A m \in Node : m # n => UNCHANGED <<pc[m], myId[m], toNode[m]>>
      /\ pc'[n] \notin {"off", "id"}
      /\ \/ UNCHANGED myId /\ pc[n] # "id"
         \/ pc[n] = "id" /\ myId'[n] = FirstWord(Head(toNode[n]))
  BY DEF PanelStep, SetRoleID, HandleAdjacentTable, HandleRouterTable, Take, faults, IInv
<1>2. ASSUME n \notin unanswered PROVE NameInvOf(n)'
  <2>1. NameInvOf(n) /\ assigned' = assigned
    BY <1>1, <1>2 DEF NamesInv, controller
  <2>2. ASSUME pc[n] = "id" PROVE FirstWord(Head(toNode[n])) \in Ids(n, assigned) \cup {-1}
    <3>1. Head(toNode[n]).type = "IDAssigned"
      BY <1>1, <2>1, <2>2 DEF NameInvOf, Awaiting
    <3>2. OwnReply(Head(toNode[n]), n, assigned)
      BY <1>1, TailOfReplies DEF IInv
    <3>3. \A m : m.type = "IDAssigned" => FirstWord(m) = m.id
      BY Zenon DEF FirstWord
    <3> QED BY <3>1, <3>2, <3>3 DEF OwnReply
  <2> QED BY <1>1, <2>1, <2>2 DEF NameInvOf
<1> QED BY <1>1, <1>2, NamesKept

\* A fault may take an identifier off a link, but then the node counts as not
\* answered.
LEMMA FaultNames ==
  ASSUME IInv, NamesInv, NEW n \in Node,
         DoubleToCtl(n) \/ DoubleToNode(n) \/ LoseToCtl(n) \/ LoseToNode(n)
  PROVE  NamesInv'
<1>1. UNCHANGED controller /\ UNCHANGED <<pc, myId>> /\ unanswered \subseteq unanswered'
      /\ UNCHANGED faces
  BY DEF DoubleToCtl, DoubleToNode, LoseToCtl, LoseToNode, Doubled, Lost, panels, controller
<1>2. CASE DoubleToCtl(n) \/ LoseToCtl(n)
  <2>1. UNCHANGED toNode
    BY <1>2 DEF DoubleToCtl, LoseToCtl
  <2> QED BY <1>1, <2>1, NamesKept
<1>3. CASE DoubleToNode(n)
  <2>1. /\ toNode[n] # <<>> /\ toNode'[n] = <<Head(toNode[n])>> \o toNode[n]
        /\ \A m \in Node : m # n => toNode'[m] = toNode[m]
    BY <1>3 DEF DoubleToNode, Doubled, IInv
  <2>2. toNode'[n] # <<>> /\ Head(toNode'[n]) = Head(toNode[n])
    <3>1. PICK S : toNode[n] \in Seq(S)
      BY DEF IInv, OwnReplies
    <3> QED BY <2>1, <3>1, FirstAndRest
  <2>3. n \notin unanswered' => NameInvOf(n)'
    <3>1. n \notin unanswered' => NameInvOf(n)
      BY <1>1 DEF NamesInv
    <3>2. assigned' = assigned
      BY <1>1 DEF controller
    <3> QED BY <1>1, <2>1, <2>2, <3>1, <3>2 DEF NameInvOf, Awaiting
  <2> QED BY <1>1, <2>1, <2>3, NamesKept
<1>4. CASE LoseToNode(n)
  <2>1. /\ toNode[n] # <<>>
        /\ Head(toNode[n]).type = "IDAssigned" => n \in unanswered'
        /\ \A m \in Node : m # n => toNode'[m] = toNode[m]
    BY <1>4 DEF LoseToNode, Lost, IInv
  <2>2. n \notin unanswered' => NameInvOf(n)'
    <3>1. n \notin unanswered' => NameInvOf(n) /\ pc[n] \notin {"off", "id"}
      BY <1>1, <2>1 DEF NamesInv, NameInvOf, Awaiting
    <3>2. assigned' = assigned
      BY <1>1 DEF controller
    <3> QED BY <1>1, <3>1, <3>2 DEF NameInvOf
  <2> QED BY <1>1, <2>1, <2>2, NamesKept
<1> QED BY <1>2, <1>3, <1>4

\* The subscription list goes only to nodes that run.
LEMMA ListsRun ==
  ASSUME SInv, LInv, NEW n \in Node, HandleSubListRequest(n) \/ SetSubList(n)
  PROVE  pc[n] = "run"
<1>1. CASE HandleSubListRequest(n)
  <2>1. toCtl[n] # <<>> /\ Head(toCtl[n]).type = "SubListRequest"
    BY <1>1 DEF HandleSubListRequest
  <2>2. ~NoneOf({"SubListRequest"}, toCtl[n])
    BY <2>1, NoneTaken
  <2> QED BY <2>2 DEF SInv, AsksInv
<1>2. CASE SetSubList(n)
  BY <1>2 DEF SetSubList, LInv, Runs
<1> QED BY <1>1, <1>2

LEMMA ListsNames ==
  ASSUME IInv, SInv, LInv, NamesInv, NEW n \in Node, ListStep(n) PROVE NamesInv'
<1>1. UNCHANGED <<controller, pc, myId, unanswered, assigned>>
  BY DEF ListStep, EditFile, Upload, HandleSubListUpload, Request, HandleSubListRequest,
         SetSubList, rvars, panels, faults, controller
<1>2. CASE UNCHANGED toNode
  BY <1>1, <1>2, NamesKept
<1>3. CASE HandleSubListRequest(n) \/ SetSubList(n)
  <2>1. pc[n] = "run"
    BY <1>3, ListsRun
  <2>2. \A m \in Node : m # n => toNode'[m] = toNode[m]
    BY <1>3 DEF HandleSubListRequest, SetSubList, IInv
  <2>3. n \notin unanswered => NameInvOf(n)'
    BY <1>1, <2>1 DEF NamesInv, NameInvOf
  <2> QED BY <1>1, <2>2, <2>3, NamesKept
<1> QED BY <1>2, <1>3 DEF ListStep, EditFile, Upload, HandleSubListUpload, Request, rvars, links

\* The invariant holds in every state.
THEOREM NamesInvariant == Spec => []NamesInv
<1>1. Init => NamesInv
  <2> SUFFICES ASSUME Init PROVE NamesInv
    OBVIOUS
  <2>1. /\ faces = <<>> /\ registed = <<>>
        /\ \A n \in Node : toNode[n] = <<>> /\ pc[n] = "off"
    BY DEF Init, RInit
  <2>2. faces \in Seq(Node) /\ registed \in Seq(RoleIDs) /\ Len(registed) <= Len(faces)
    BY <2>1
  <2>3. \A n : ~HasFace(n)
    BY <2>1 DEF HasFace
  <2> QED BY <2>1, <2>2, <2>3 DEF NamesInv, NameInvOf, Awaiting
<1>2. IInv /\ SInv /\ LInv /\ NamesInv /\ [Next]_vars => NamesInv'
  <2> SUFFICES ASSUME IInv, SInv, LInv, NamesInv, [Next]_vars PROVE NamesInv'
    OBVIOUS
  <2>1. ASSUME NEW n \in Node, Regist(n) PROVE NamesInv'
    <3>1. /\ pc[n] = "off" /\ pc'[n] = "id" /\ UNCHANGED <<controller, faces, toNode, myId, unanswered>>
          /\ \A m \in Node : m # n => pc'[m] = pc[m]
      BY <2>1 DEF Regist, controller, faults, IInv
    <3>2. n \notin unanswered => NameInvOf(n)'
      BY <3>1 DEF NamesInv, NameInvOf, Awaiting, HasFace
    <3> QED BY <3>1, <3>2, NamesKept
  <2>2. CASE UNCHANGED rvars
    <3>1. UNCHANGED <<controller, pc, myId, toNode, unanswered>>
      BY <2>2 DEF rvars, links, panels, faults
    <3> QED BY <3>1, NamesKept
  <2>3. ASSUME NEW n \in Node, ListStep(n) PROVE NamesInv'
    BY <2>3, ListsNames
  <2> QED BY <2>1, <2>2, <2>3, HandleRegistNames, PanelNames, FaultNames, TwoKinds DEF RNext
<1> QED BY <1>1, <1>2, StagesInvariant, PTL DEF Spec

-----------------------------------------------------------------------------
(* What comes to a node before it has an identifier. *)

Owners == [Place -> Node \cup {Nobody}]
TableMsgs == {AdjacentTable(r, o) : r \in RoleIDs, o \in Owners} \cup {RouterTable(r) : r \in RoleIDs}
SetupMsgs(n) == [type : {"IDAssigned"}, id : Ids(n, assigned) \cup {-1}] \cup TableMsgs

\* A node reads its identifier in one of these messages.
WordInvOf(n) ==
  /\ pc[n] \in {"off", "id"} => toNode[n] \in Seq(SetupMsgs(n))
  /\ Identified(n) => myId[n] \in Ids(n, assigned) \cup TableWords

WordsInv == \A n \in Node : WordInvOf(n)

\* g gives, for every i up to k, the faces of n among the first i.
FirstFaces(g, k, n, table) ==
  /\ g \in [0 .. k -> Seq(1 .. Len(table))]
  /\ g[0] = <<>>
  /\ \A i \in 1 .. k : g[i] = IF table[i] = n THEN Append(g[i - 1], i) ELSE g[i - 1]

LEMMA OneMoreFace ==
  ASSUME NEW table, Len(table) \in Nat, NEW n, NEW k \in Nat, k + 1 <= Len(table),
         NEW g, FirstFaces(g, k, n, table)
  PROVE  \E h : FirstFaces(h, k + 1, n, table)
<1> DEFINE T == Seq(1 .. Len(table))
           v == IF table[k + 1] = n THEN Append(g[k], k + 1) ELSE g[k]
           h == [i \in 0 .. k + 1 |-> IF i <= k THEN g[i] ELSE v]
<1>1. g[k] \in Seq(1 .. Len(table)) /\ k + 1 \in 1 .. Len(table)
  <2>1. g \in [0 .. k -> T] /\ k \in 0 .. k
    BY DEF FirstFaces
  <2> HIDE DEF T
  <2>2. g[k] \in T
    BY <2>1
  <2> QED BY <2>2 DEF T
<1>2. Append(g[k], k + 1) \in Seq(1 .. Len(table))
  <2> DEFINE J == 1 .. Len(table)
  <2>1. g[k] \in Seq(J) /\ k + 1 \in J
    BY <1>1
  <2> HIDE DEF J
  <2>2. Append(g[k], k + 1) \in Seq(J)
    BY <2>1
  <2> QED BY <2>2 DEF J
<1>3. v \in T
  BY <1>1, <1>2
<1>4. \A i \in 0 .. k : g[i] \in T
  <2>1. g \in [0 .. k -> T]
    BY DEF FirstFaces
  <2> HIDE DEF T
  <2> QED BY <2>1
<1>5. h \in [0 .. k + 1 -> T]
  <2> HIDE DEF T, v
  <2>1. ASSUME NEW i \in 0 .. k + 1, ~(i <= k) PROVE h[i] \in T
    BY <1>3, <2>1
  <2>2. ASSUME NEW i \in 0 .. k + 1, i <= k PROVE h[i] \in T
    BY <1>4, <2>2
  <2> QED BY <2>1, <2>2
<1>6. h[0] = <<>> /\ h[k + 1] = v /\ \A i \in 0 .. k : h[i] = g[i]
  <2>1. g[0] = <<>>
    BY DEF FirstFaces
  <2> HIDE DEF v
  <2> QED BY <2>1
<1> HIDE DEF h
<1>7. ASSUME NEW i \in 1 .. k + 1
      PROVE  h[i] = IF table[i] = n THEN Append(h[i - 1], i) ELSE h[i - 1]
  <2>1. CASE i <= k
    <3>1. i \in 1 .. k /\ h[i] = g[i] /\ h[i - 1] = g[i - 1]
      BY <1>6, <2>1
    <3>2. g[i] = IF table[i] = n THEN Append(g[i - 1], i) ELSE g[i - 1]
      BY <3>1 DEF FirstFaces
    <3> QED BY <3>1, <3>2
  <2>2. CASE ~(i <= k)
    <3>1. i = k + 1 /\ h[i] = v /\ h[i - 1] = g[k]
      BY <1>6, <2>2
    <3> QED BY <3>1
  <2> QED BY <2>1, <2>2
<1> QED BY <1>5, <1>6, <1>7 DEF FirstFaces

LEMMA AllFaces ==
  ASSUME NEW table, Len(table) \in Nat, NEW n
  PROVE  \E g : FirstFaces(g, Len(table), n, table)
<1> DEFINE V == {k \in Nat : k <= Len(table) => \E g : FirstFaces(g, k, n, table)}
<1>1. 0 \in V
  <2> DEFINE g == [i \in 0 .. 0 |-> <<>>]
  <2>1. <<>> \in Seq(1 .. Len(table))
    OBVIOUS
  <2>2. FirstFaces(g, 0, n, table)
    BY <2>1 DEF FirstFaces
  <2> HIDE DEF g
  <2> QED BY <2>2
<1>2. ASSUME NEW k \in V PROVE k + 1 \in V
  <2>1. k \in Nat /\ (k <= Len(table) => \E g : FirstFaces(g, k, n, table))
    OBVIOUS
  <2>2. ASSUME k + 1 <= Len(table) PROVE \E g : FirstFaces(g, k + 1, n, table)
    <3>1. k <= Len(table)
      BY <2>1, <2>2
    <3>2. PICK g : FirstFaces(g, k, n, table)
      BY <2>1, <3>1
    <3> QED BY <2>1, <2>2, <3>2, OneMoreFace
  <2> QED BY <2>1, <2>2
<1>3. V \in SUBSET Nat
  OBVIOUS
<1>4. V = Nat
  <2> HIDE DEF V
  <2> QED BY <1>1, <1>2, <1>3, AllNumbers
<1>5. Len(table) \in V
  BY <1>4
<1> QED BY <1>5

\* Faces are places of the face table.
LEMMA FacesWithin ==
  ASSUME NEW table, Len(table) \in Nat, NEW n
  PROVE  FacesOf(n, table) \in Seq(1 .. Len(table))
<1> DEFINE J == 1 .. Len(table)
           N == Len(table)
           F == CHOOSE G : FaceList(G, n, table)
<1>1. PICK g : FirstFaces(g, Len(table), n, table)
  BY AllFaces
<1>2. FaceList(g, n, table)
  <2>1. g = [k \in 0 .. N |-> g[k]]
    BY <1>1 DEF FirstFaces
  <2>2. ASSUME NEW k \in 0 .. N
        PROVE  g[k] = IF k = 0 THEN <<>> ELSE IF table[k] = n THEN Append(g[k - 1], k) ELSE g[k - 1]
    <3>1. CASE k = 0
      BY <1>1, <3>1 DEF FirstFaces
    <3>2. CASE k # 0
      <4>1. k \in 1 .. N
        BY <3>2
      <4> QED BY <1>1, <3>2, <4>1 DEF FirstFaces
    <3> QED BY <3>1, <3>2
  <2> QED BY <2>1, <2>2 DEF FaceList
<1>3. FaceList(F, n, table)
  BY <1>2
<1>4. FacesOf(n, table) = F[N]
  BY DEF FacesOf, FaceList
<1> HIDE DEF F
<1>5. \A k \in 0 .. N : F[k] = IF k = 0 THEN <<>> ELSE IF table[k] = n THEN Append(F[k - 1], k) ELSE F[k - 1]
  BY <1>3 DEF FaceList
<1> DEFINE W == {k \in Nat : k <= N => F[k] \in Seq(J)}
<1>6. 0 \in W
  <2>1. F[0] = <<>>
    BY <1>5
  <2>2. <<>> \in Seq(J)
    OBVIOUS
  <2> QED BY <2>1, <2>2
<1>7. ASSUME NEW k \in W PROVE k + 1 \in W
  <2>1. k \in Nat /\ (k <= N => F[k] \in Seq(J))
    OBVIOUS
  <2>2. ASSUME k + 1 <= N PROVE F[k + 1] \in Seq(J)
    <3>1. k + 1 \in J /\ F[k] \in Seq(J) /\ k + 1 # 0 /\ (k + 1) - 1 = k /\ k + 1 \in 0 .. N
      BY <2>1, <2>2
    <3>2. F[k + 1] = IF table[k + 1] = n THEN Append(F[k], k + 1) ELSE F[k]
      BY <1>5, <3>1
    <3> HIDE DEF J
    <3>3. Append(F[k], k + 1) \in Seq(J)
      BY <3>1
    <3> QED BY <3>1, <3>2, <3>3
  <2> QED BY <2>1, <2>2
<1>8. W \in SUBSET Nat
  OBVIOUS
<1>9. W = Nat
  <2> HIDE DEF W
  <2> QED BY <1>6, <1>7, <1>8, AllNumbers
<1>10. N \in W
  BY <1>9
<1> QED BY <1>4, <1>10

\* What the controller sends to a node are tables of places.
LEMMA TablesAreTables ==
  ASSUME NEW regs \in Seq(RoleIDs), NEW table \in Seq(Node), Len(regs) <= Len(table),
         NEW m, NEW owner \in Owners
  PROVE  TablesFor(m, regs, table, owner) \in Seq(TableMsgs)
<1> DEFINE known == SubSeq(table, 1, Len(regs))
           mine == FacesOf(m, known)
           K == 1 .. Len(mine)
           f == [k \in K |-> AdjacentTable(regs[mine[k]], owner)]
           g == [k \in K |-> RouterTable(regs[mine[k]])]
<1>1. Len(known) = Len(regs) /\ Len(regs) \in Nat
  OBVIOUS
<1> HIDE DEF known
<1>2. mine \in Seq(1 .. Len(regs))
  BY <1>1, FacesWithin
<1> HIDE DEF mine
<1>3. Len(mine) \in Nat /\ \A k \in K : regs[mine[k]] \in RoleIDs
  BY <1>2
<1>4. \A r \in RoleIDs : AdjacentTable(r, owner) \in TableMsgs /\ RouterTable(r) \in TableMsgs
  BY DEF TableMsgs
<1>5. f \in [K -> TableMsgs] /\ g \in [K -> TableMsgs]
  <2> HIDE DEF K
  <2> QED BY <1>3, <1>4
<1>6. f \in Seq(TableMsgs) /\ g \in Seq(TableMsgs)
  BY <1>3, <1>5
<1>7. TablesFor(m, regs, table, owner) = f \o g
  BY DEF TablesFor, mine, known
<1> HIDE DEF f, g
<1> QED BY <1>6, <1>7

\* The first word of each.
LEMMA WordsOfSetup ==
  ASSUME NEW n, NEW m \in SetupMsgs(n)
  PROVE  FirstWord(m) \in Ids(n, assigned) \cup {-1} \cup TableWords
<1>1. CASE m \in [type : {"IDAssigned"}, id : Ids(n, assigned) \cup {-1}]
  <2>1. m.type = "IDAssigned" /\ m.id \in Ids(n, assigned) \cup {-1}
    BY <1>1
  <2>2. FirstWord(m) = m.id
    BY <2>1, Zenon DEF FirstWord
  <2> QED BY <2>1, <2>2
<1>2. ASSUME NEW r \in RoleIDs, NEW o \in Owners, m = AdjacentTable(r, o)
      PROVE  FirstWord(m) \in TableWords
  <2>1. m.type = "AdjacentTable" /\ m.roleID = r
    BY <1>2 DEF AdjacentTable
  <2>2. m.type # "IDAssigned"
    BY <2>1
  <2>3. FirstWord(m) = RoleNo[m.roleID.role]
    BY <2>1, <2>2, Zenon DEF FirstWord
  <2> HIDE DEF RoleNo
  <2> QED BY <2>1, <2>3 DEF TableWords
<1>3. ASSUME NEW r \in RoleIDs, m = RouterTable(r)
      PROVE  FirstWord(m) \in TableWords
  <2>1. m.type = "RouterTable" /\ m.items = RouterItems[r]
    BY <1>3 DEF RouterTable
  <2>2. m.type # "IDAssigned" /\ m.type # "AdjacentTable"
    BY <2>1
  <2>3. FirstWord(m) = Cardinality(DOMAIN m.items)
    BY <2>1, <2>2, Zenon DEF FirstWord
  <2>4. DOMAIN m.items = RoleIDs
    BY <2>1 DEF RouterItems
  <2> QED BY <2>3, <2>4 DEF TableWords
<1> QED BY <1>1, <1>2, <1>3 DEF SetupMsgs, TableMsgs

\* A step that leaves the places to others.
LEMMA WordsKept ==
  ASSUME WordsInv, UNCHANGED assigned,
         \A n \in Node : UNCHANGED <<pc[n], myId[n], toNode[n]>> \/ WordInvOf(n)'
  PROVE  WordsInv'
<1>1. ASSUME NEW n \in Node, UNCHANGED <<pc[n], myId[n], toNode[n]>> PROVE WordInvOf(n)'
  <2>1. WordInvOf(n) /\ SetupMsgs(n)' = SetupMsgs(n)
    BY DEF WordsInv, SetupMsgs
  <2> QED BY <1>1, <2>1 DEF WordInvOf, Identified
<1> QED BY <1>1 DEF WordsInv

LEMMA HandleRegistWords ==
  ASSUME IInv, IInv', NamesInv, NamesInv', WordsInv, NEW n \in Node, HandleRegist(n)
  PROVE  WordsInv'
<1> DEFINE known == Vacant(RoleOf[n]) # {}
           p == Applied(RoleOf[n])
           reply == [type |-> "IDAssigned", id |-> IF known THEN NodeSet[p].id ELSE -1]
           tables(m) == IF Complete(registed') THEN TablesFor(m, registed', faces', assigned') ELSE <<>>
<1>1. /\ assigned' = IF known THEN [assigned EXCEPT ![p] = n] ELSE assigned
      /\ \A m \in Node : toNode'[m] = toNode[m] \o (IF m = n THEN <<reply>> ELSE <<>>) \o tables(m)
      /\ UNCHANGED <<pc, myId>>
  BY DEF HandleRegist, panels
<1>2. reply \in SetupMsgs(n)'
  <2>1. known => p \in Place /\ NodeSet[p].role = RoleOf[n]
    BY AppliedIsVacant
  <2>2. known => assigned'[p] = n
    <3>1. assigned \in [Place -> Node \cup {Nobody}]
      BY DEF IInv
    <3> HIDE DEF p
    <3> QED BY <1>1, <2>1, <3>1
  <2>3. known => NodeSet[p].id \in Ids(n, assigned')
    <3> HIDE DEF p, known
    <3> QED BY <2>1, <2>2 DEF Ids
  <2>4. reply \in [type : {"IDAssigned"}, id : Ids(n, assigned') \cup {-1}]
    <3> HIDE DEF p, known
    <3> QED BY <2>3
  <2> QED BY <2>4 DEF SetupMsgs
<1> HIDE DEF reply, known, p
<1>3. ASSUME NEW m \in Node PROVE tables(m) \in Seq(TableMsgs)
  <2>1. /\ registed' \in Seq(RoleIDs) /\ faces' \in Seq(Node) /\ Len(registed') <= Len(faces')
        /\ assigned' \in Owners
    BY DEF NamesInv, IInv, Owners, Place
  <2>2. TablesFor(m, registed', faces', assigned') \in Seq(TableMsgs)
    BY <2>1, TablesAreTables
  <2> QED BY <2>2
<1> HIDE DEF tables
<1>4. ASSUME NEW m \in Node PROVE WordInvOf(m)'
  <2>1. WordInvOf(m) /\ Ids(m, assigned) \subseteq Ids(m, assigned')
    BY PlacesKept DEF WordsInv
  <2>2. SetupMsgs(m) \subseteq SetupMsgs(m)' /\ TableMsgs \subseteq SetupMsgs(m)'
    BY <2>1 DEF SetupMsgs
  <2> DEFINE answer == IF m = n THEN <<reply>> ELSE <<>>
             All == SetupMsgs(m)'
  <2>3. answer \in Seq(All)
    <3>1. m = n => reply \in All
      BY <1>2
    <3> HIDE DEF All
    <3> QED BY <3>1
  <2>4. tables(m) \in Seq(All)
    <3>1. tables(m) \in Seq(TableMsgs) /\ TableMsgs \subseteq All
      BY <1>3, <2>2
    <3> HIDE DEF All
    <3> QED BY <3>1
  <2>5. toNode[m] \in Seq(SetupMsgs(m)) => toNode[m] \in Seq(All)
    <3>1. SetupMsgs(m) \subseteq All
      BY <2>2
    <3> HIDE DEF All
    <3> QED BY <3>1
  <2>6. toNode'[m] = toNode[m] \o answer \o tables(m)
    BY <1>1
  <2> HIDE DEF answer, All
  <2>7. toNode[m] \in Seq(All) => toNode'[m] \in Seq(All)
    BY <2>3, <2>4, <2>6
  <2> HIDE DEF All
  <2> QED BY <1>1, <2>1, <2>5, <2>7 DEF WordInvOf, Identified, All
<1> QED BY <1>4 DEF WordsInv

LEMMA PanelWords ==
  ASSUME IInv, WordsInv, NEW n \in Node, PanelStep(n) PROVE WordsInv'
<1>1. /\ pc[n] \in {"id", "adjacent", "router"} /\ toNode[n] # <<>>
      /\ UNCHANGED assigned
      /\ \A m \in Node : m # n => UNCHANGED <<pc[m], myId[m], toNode[m]>>
      /\ pc'[n] \notin {"off", "id"}
      /\ \/ UNCHANGED myId /\ pc[n] # "id"
         \/ pc[n] = "id" /\ myId'[n] = FirstWord(Head(toNode[n]))
  BY DEF PanelStep, SetRoleID, HandleAdjacentTable, HandleRouterTable, Take, controller, IInv
<1>2. WordInvOf(n)
  BY DEF WordsInv
<1>3. ASSUME pc[n] = "id" PROVE FirstWord(Head(toNode[n])) \in Ids(n, assigned) \cup {-1} \cup TableWords
  <2>1. toNode[n] \in Seq(SetupMsgs(n))
    BY <1>2, <1>3 DEF WordInvOf
  <2>2. Head(toNode[n]) \in SetupMsgs(n)
    BY <1>1, <2>1
  <2> QED BY <2>2, WordsOfSetup
<1>4. WordInvOf(n)'
  <2>1. CASE pc[n] = "id"
    BY <1>1, <1>3, <2>1 DEF WordInvOf, Identified
  <2>2. CASE pc[n] # "id"
    BY <1>1, <1>2, <2>2 DEF WordInvOf, Identified
  <2> QED BY <2>1, <2>2
<1> QED BY <1>1, <1>4, WordsKept

LEMMA FaultWords ==
  ASSUME IInv, WordsInv, NEW n \in Node,
         DoubleToCtl(n) \/ DoubleToNode(n) \/ LoseToCtl(n) \/ LoseToNode(n)
  PROVE  WordsInv'
<1>1. UNCHANGED <<assigned, pc, myId>>
  BY DEF DoubleToCtl, DoubleToNode, LoseToCtl, LoseToNode, Doubled, Lost, panels, controller
<1>2. CASE DoubleToCtl(n) \/ LoseToCtl(n)
  <2>1. UNCHANGED toNode
    BY <1>2 DEF DoubleToCtl, LoseToCtl
  <2> QED BY <1>1, <2>1, WordsKept
<1>3. CASE DoubleToNode(n) \/ LoseToNode(n)
  <2>1. /\ toNode[n] # <<>> /\ toNode'[n] \in {<<Head(toNode[n])>> \o toNode[n], Tail(toNode[n])}
        /\ \A m \in Node : m # n => toNode'[m] = toNode[m]
    BY <1>3 DEF DoubleToNode, Doubled, LoseToNode, Lost, IInv
  <2>2. ASSUME NEW S, toNode[n] \in Seq(S) PROVE toNode'[n] \in Seq(S)
    <3>1. /\ <<Head(toNode[n])>> \o toNode[n] \in Seq(S)
          /\ Tail(toNode[n]) \in Seq(S)
      BY <2>1, <2>2
    <3> QED BY <2>1, <3>1
  <2>3. WordInvOf(n)'
    <3>1. WordInvOf(n) /\ SetupMsgs(n)' = SetupMsgs(n)
      BY <1>1 DEF WordsInv, SetupMsgs
    <3> QED BY <1>1, <2>2, <3>1 DEF WordInvOf, Identified
  <2> QED BY <1>1, <2>1, <2>3, WordsKept
<1> QED BY <1>2, <1>3

LEMMA ListsWords ==
  ASSUME IInv, SInv, LInv, WordsInv, NEW n \in Node, ListStep(n) PROVE WordsInv'
<1>1. UNCHANGED <<pc, myId, assigned>>
  BY DEF ListStep, EditFile, Upload, HandleSubListUpload, Request, HandleSubListRequest,
         SetSubList, rvars, panels, controller
<1>2. CASE UNCHANGED toNode
  BY <1>1, <1>2, WordsKept
<1>3. CASE HandleSubListRequest(n) \/ SetSubList(n)
  <2>1. pc[n] = "run"
    BY <1>3, ListsRun
  <2>2. \A m \in Node : m # n => toNode'[m] = toNode[m]
    BY <1>3 DEF HandleSubListRequest, SetSubList, IInv
  <2>3. WordInvOf(n)'
    BY <1>1, <2>1 DEF WordsInv, WordInvOf, Identified
  <2> QED BY <1>1, <2>2, <2>3, WordsKept
<1> QED BY <1>2, <1>3 DEF ListStep, EditFile, Upload, HandleSubListUpload, Request, rvars, links

\* The invariant holds in every state.
THEOREM WordsInvariant == Spec => []WordsInv
<1>1. Init => WordsInv
  <2> SUFFICES ASSUME Init, NEW n \in Node PROVE WordInvOf(n)
    BY DEF WordsInv
  <2>1. toNode[n] = <<>> /\ pc[n] = "off"
    BY DEF Init, RInit
  <2>2. \A S : <<>> \in Seq(S)
    OBVIOUS
  <2> QED BY <2>1, <2>2 DEF WordInvOf, Identified
<1>2. /\ IInv /\ SInv /\ LInv /\ NamesInv /\ WordsInv /\ [Next]_vars
      /\ IInv' /\ NamesInv'
      => WordsInv'
  <2> SUFFICES ASSUME IInv, SInv, LInv, NamesInv, WordsInv, [Next]_vars, IInv', NamesInv'
               PROVE  WordsInv'
    OBVIOUS
  <2>1. ASSUME NEW n \in Node, Regist(n) PROVE WordsInv'
    <3>1. /\ pc[n] = "off" /\ pc'[n] = "id" /\ UNCHANGED <<assigned, toNode, myId>>
          /\ \A m \in Node : m # n => pc'[m] = pc[m]
      BY <2>1 DEF Regist, controller, IInv
    <3>2. WordInvOf(n)'
      <4>1. WordInvOf(n) /\ SetupMsgs(n)' = SetupMsgs(n)
        BY <3>1 DEF WordsInv, SetupMsgs
      <4> QED BY <3>1, <4>1 DEF WordInvOf, Identified
    <3> QED BY <3>1, <3>2, WordsKept
  <2>2. CASE UNCHANGED rvars
    <3>1. UNCHANGED <<assigned, pc, myId, toNode>>
      BY <2>2 DEF rvars, links, panels, controller
    <3> QED BY <3>1, WordsKept
  <2>3. ASSUME NEW n \in Node, ListStep(n) PROVE WordsInv'
    BY <2>3, ListsWords
  <2> QED BY <2>1, <2>2, <2>3, HandleRegistWords, PanelWords, FaultWords, TwoKinds DEF RNext
<1> QED BY <1>1, <1>2, StagesInvariant, NamesInvariant, PTL DEF Spec

\* A node runs only under the identifier of a place that the controller holds
\* for its own, or, if that was given up, under a word of a table
\* (Controller.cpp:100, ControlPanel.cpp:358).
THEOREM IdentifiersCorrect == Spec => []IdentifiersUnique
<1>1. ASSUME NEW n \in Node, myId[n] \in Ids(n, assigned) PROVE Owns(n, RoleIDOf(n))
  <2>1. PICK i \in Place : assigned[i] = n /\ NodeSet[i].role = RoleOf[n] /\ NodeSet[i].id = myId[n]
    BY <1>1 DEF Ids
  <2>2. NodeSet[i] \in [role : {RoleOf[m] : m \in Node}, id : Nat]
    <3> DEFINE Entry == [role : {RoleOf[m] : m \in Node}, id : Nat]
    <3>1. NodeSet \in Seq(Entry)
      BY RegistrationAssumption
    <3>2. NodeSet[i] \in Entry
      <4> HIDE DEF Entry
      <4> QED BY <3>1 DEF Place
    <3> QED BY <3>2
  <2>3. NodeSet[i] = [role |-> RoleOf[n], id |-> myId[n]]
    BY <2>1, <2>2
  <2> QED BY <2>1, <2>3 DEF Owns, RoleIDOf, Place
<1>2. NamesInv /\ WordsInv => IdentifiersUnique
  <2> SUFFICES ASSUME NamesInv, WordsInv, NEW n \in Node, Identified(n)
               PROVE  Owns(n, RoleIDOf(n)) \/ (n \in unanswered /\ myId[n] \in TableWords)
    BY DEF IdentifiersUnique
  <2>1. n \notin unanswered => myId[n] \in Ids(n, assigned)
    BY DEF NamesInv, NameInvOf, Identified
  <2>2. myId[n] \in Ids(n, assigned) \cup TableWords
    BY DEF WordsInv, WordInvOf
  <2> QED BY <1>1, <2>1, <2>2
<1> QED BY <1>2, NamesInvariant, WordsInvariant, PTL

\* So no two nodes of a role run under one identifier, but for those whose
\* identifier was given up.
THEOREM NoTwoAlike ==
  Spec => [](\A m, n \in Node \ unanswered :
                Identified(m) /\ Identified(n) /\ RoleIDOf(m) = RoleIDOf(n) => m = n)
<1>1. ASSUME IdentifiersUnique, NEW m \in Node \ unanswered, NEW n \in Node \ unanswered,
             Identified(m), Identified(n), RoleIDOf(m) = RoleIDOf(n)
      PROVE  m = n
  <2>1. Owns(m, RoleIDOf(m)) /\ Owns(n, RoleIDOf(m))
    BY <1>1 DEF IdentifiersUnique
  <2>2. \A i, j \in 1 .. Len(NodeSet) : NodeSet[i] = NodeSet[j] => i = j
    BY RegistrationAssumption
  <2> QED BY <2>1, <2>2 DEF Owns
<1>2. IdentifiersUnique =>
        \A m, n \in Node \ unanswered : Identified(m) /\ Identified(n) /\ RoleIDOf(m) = RoleIDOf(n) => m = n
  BY <1>1
<1> QED BY <1>2, IdentifiersCorrect, PTL

-----------------------------------------------------------------------------
(* What the nodes run with. *)

\* The node runs with the tables of the identifier it is registered with.
LEMMA RunsAsRegistered ==
  ASSUME IInv, SInv, NEW n \in Node \ harmed, pc[n] = "run"
  PROVE  \E i \in DOMAIN faces :
           /\ faces[i] = n /\ registed[i] = RoleIDOf(n) /\ RoleIDOf(n) \in RoleIDs
           /\ adjTable[n] = AdjacentTable(RoleIDOf(n), assigned).items
           /\ fib[n] = FIB(adjTable[n], RouterTable(RoleIDOf(n)).items)
<1>1. PanelInvOf(n) /\ FacesInv
  BY DEF SInv, Sound
<1>2. PICK i \in DOMAIN faces : faces[i] = n /\ Running(n, registed[i])
  BY <1>1 DEF PanelInvOf, Fresh, Replied, Named, Linked
<1>3. registed[i] \in RoleIDs /\ registed[i].role = RoleOf[n]
  <2>1. registed \in Seq(RoleIDs) /\ i \in DOMAIN registed
    BY <1>1 DEF FacesInv
  <2>2. PICK p \in Place : NodeSet[p] = registed[i] /\ NodeSet[p].role = RoleOf[faces[i]]
    BY <1>1 DEF FacesInv
  <2> QED BY <1>2, <2>1, <2>2
<1>4. registed[i] = RoleIDOf(n)
  <2>1. registed[i] = [role |-> registed[i].role, id |-> registed[i].id]
    BY <1>3, RoleIDsAreRecords
  <2>2. myId[n] = registed[i].id
    BY <1>2 DEF Running
  <2> QED BY <1>3, <2>1, <2>2 DEF RoleIDOf
<1> QED BY <1>2, <1>3, <1>4 DEF Running

\* A node runs with the tables of its own place, and the face of an entry
\* leads to the node that took the neighbour's place, for every topology, any
\* programs started and any faults elsewhere (Controller.cpp:263).
THEOREM TablesCorrect == Spec => []TablesOwn
<1>1. IInv /\ SInv => TablesOwn
  <2> SUFFICES ASSUME IInv, SInv, NEW n \in Node \ harmed, pc[n] = "run"
               PROVE  /\ RoleIDOf(n) \in RoleIDs
                      /\ Len(adjTable[n]) = Len(Adjacent[RoleIDOf(n)])
                      /\ \A f \in 1 .. Len(adjTable[n]) :
                           /\ adjTable[n][f].roleID = Adjacent[RoleIDOf(n)][f]
                           /\ Owns(adjTable[n][f].addr, adjTable[n][f].roleID)
    BY DEF TablesOwn
  <2>1. RoleIDOf(n) \in RoleIDs /\ adjTable[n] = AdjacentTable(RoleIDOf(n), assigned).items
    BY RunsAsRegistered
  <2>2. assigned \in [Place -> Node \cup {Nobody}]
    BY DEF IInv
  <2> QED BY <2>1, <2>2, EntriesHaveAddresses DEF Owns, Place
<1> QED BY <1>1, StagesInvariant, PTL

\* The nodes of the topology are finitely many.
LEMMA FiniteTopology == IsFiniteSet(RoleIDs) /\ Cardinality(RoleIDs) \in Nat
<1> DEFINE P == 1 .. Len(NodeSet)
           f == [i \in P |-> NodeSet[i]]
<1>1. Len(NodeSet) \in Nat
  BY RegistrationAssumption
<1>2. IsFiniteSet(P)
  BY <1>1, FS_Interval
<1>3. f \in Surjection(P, RoleIDs)
  BY DEF Surjection, RoleIDs
<1>4. IsFiniteSet(RoleIDs)
  BY <1>2, <1>3, FS_Surjection
<1> QED BY <1>4, FS_CardinalityType

\* The next hops from a place to a rendezvous router.
LEMMA HopsOf ==
  ASSUME NEW x \in RoleIDs, NEW d \in RoleIDs
  PROVE  LET D(h) == Distance(RoleIDs, Neighbours, h, d)
             nexts == NextHops(RoleIDs, Neighbours, x, d)
         IN  /\ x # d /\ D(x) < MAXHOP => \E h \in Neighbours[x] : h \in nexts
             /\ \A h \in Neighbours[x] : h \in nexts => D(h) + 1 = D(x)
<1> DEFINE D(h) == Distance(RoleIDs, Neighbours, h, d)
           nexts == NextHops(RoleIDs, Neighbours, x, d)
<1>1. /\ x = d => nexts = {}
      /\ x # d /\ D(x) = MAXHOP => nexts = {d}
      /\ x # d /\ D(x) # MAXHOP => nexts = {h \in Neighbours[x] : D(h) + 1 = D(x)}
  <2>1. x = d /\ D(x) # MAXHOP => nexts = {}
    BY Zenon DEF NextHops
  <2>2. x # d /\ D(x) = MAXHOP => nexts = {d}
    BY Zenon DEF NextHops
  <2>3. x # d /\ D(x) # MAXHOP => nexts = {h \in Neighbours[x] : D(h) + 1 = D(x)}
    BY Zenon DEF NextHops
  <2>4. x = d => D(x) # MAXHOP
    BY FiniteTopology, NoHopToItself DEF MAXHOP
  <2> QED BY <2>1, <2>2, <2>3, <2>4
<1>2. x # d /\ D(x) # MAXHOP => \E h \in Neighbours[x] : D(h) + 1 = D(x)
  BY FiniteTopology, NearerNeighbour
<1>3. D(x) = MAXHOP => d \notin Neighbours[x]
  <2>1. d \in Neighbours[x] => D(x) \in {0, 1}
    BY FiniteTopology, NeighbourInReach
  <2> QED BY <2>1 DEF MAXHOP
<1>4. D(x) < MAXHOP => D(x) # MAXHOP
  BY DEF MAXHOP
<1> HIDE DEF D, nexts
<1>5. x # d /\ D(x) < MAXHOP => \E h \in Neighbours[x] : h \in nexts
  BY <1>1, <1>2, <1>4
<1>6. \A h \in Neighbours[x] : h \in nexts => D(h) + 1 = D(x)
  BY <1>1, <1>3
<1> QED BY <1>5, <1>6 DEF D, nexts

\* Every face of the FIB of a running node leads to a node one hop nearer the
\* rendezvous router, and there is one if the router is in reach
\* (ControlPanel.cpp:88).
THEOREM HopsCorrect == Spec => []EachHopNearer
<1>1. IInv /\ SInv => EachHopNearer
  <2> SUFFICES ASSUME IInv, SInv, NEW n \in Node \ harmed, pc[n] = "run", NEW d \in DOMAIN fib[n]
               PROVE  /\ RoleIDOf(n) # d /\ Far[RoleIDOf(n)][d] < MAXHOP => fib[n][d] # {}
                      /\ \A f \in fib[n][d] : \A m \in Node \ harmed :
                           adjTable[n][f].addr = m /\ pc[m] = "run" =>
                             Far[RoleIDOf(m)][d] + 1 = Far[RoleIDOf(n)][d]
    BY DEF EachHopNearer
  <2> DEFINE x == RoleIDOf(n)
             nexts == NextHops(RoleIDs, Neighbours, x, d)
             L == Len(Adjacent[x])
             D(h) == Distance(RoleIDs, Neighbours, h, d)
  <2>1. /\ x \in RoleIDs /\ adjTable[n] = AdjacentTable(x, assigned).items
        /\ fib[n] = FIB(adjTable[n], RouterTable(x).items)
    BY RunsAsRegistered
  <2>2. /\ Len(adjTable[n]) = L
        /\ \A f \in 1 .. L :
             /\ adjTable[n][f].roleID = Adjacent[x][f]
             /\ \E i \in Place : NodeSet[i] = Adjacent[x][f] /\ assigned[i] = adjTable[n][f].addr
    BY <2>1, EntriesHaveAddresses DEF IInv
  <2>3. d \in RoleIDs /\ fib[n][d] = {f \in 1 .. L : Adjacent[x][f] \in nexts}
    <3>1. DOMAIN fib[n] = {r \in RoleIDs : r.role = "RRot"}
      BY <2>1 DEF FIB
    <3>2. d \in RoleIDs
      BY <3>1
    <3>3. RouterTable(x).items[d] = nexts
      BY <2>1, <3>2 DEF RouterTable, RouterItems
    <3>4. fib[n][d] = {f \in 1 .. Len(adjTable[n]) : adjTable[n][f].roleID \in RouterTable(x).items[d]}
      BY <2>1, <3>1 DEF FIB
    <3> HIDE DEF nexts, L, x
    <3> QED BY <2>2, <3>2, <3>3, <3>4
  <2>4. Neighbours[x] = {Adjacent[x][f] : f \in 1 .. L}
    BY <2>1 DEF Neighbours
  <2>5. \A h \in RoleIDs : Far[h][d] = D(h)
    <3> HIDE DEF x, nexts, L
    <3> QED BY <2>3 DEF Far
  <2>6. /\ x # d /\ D(x) < MAXHOP => \E h \in Neighbours[x] : h \in nexts
        /\ \A h \in Neighbours[x] : h \in nexts => D(h) + 1 = D(x)
    BY <2>1, <2>3, HopsOf
  <2> HIDE DEF nexts, D, L, x
  <2>7. x # d /\ Far[x][d] < MAXHOP => fib[n][d] # {}
    BY <2>1, <2>3, <2>4, <2>5, <2>6
  <2>8. ASSUME NEW f \in fib[n][d], NEW m \in Node \ harmed, adjTable[n][f].addr = m, pc[m] = "run"
        PROVE  Far[RoleIDOf(m)][d] + 1 = Far[x][d]
    <3>1. f \in 1 .. L /\ Adjacent[x][f] \in nexts /\ Adjacent[x][f] \in Neighbours[x]
      BY <2>3, <2>4
    <3>2. PICK i \in Place : NodeSet[i] = Adjacent[x][f] /\ assigned[i] = m
      BY <2>2, <2>8, <3>1
    <3>3. PICK j \in DOMAIN faces : faces[j] = m /\ registed[j] = RoleIDOf(m) /\ RoleIDOf(m) \in RoleIDs
      BY <2>8, RunsAsRegistered
    <3>4. FacesInv /\ i \in Seats(assigned)
      BY <3>2, RegistrationAssumption DEF SInv, Sound, Seats
    <3>5. PICK k \in DOMAIN faces : registed[k] = NodeSet[i] /\ faces[k] = m
      BY <3>2, <3>4 DEF FacesInv
    <3>6. k = j
      BY <3>3, <3>4, <3>5 DEF FacesInv
    <3>7. RoleIDOf(m) = Adjacent[x][f]
      BY <3>2, <3>3, <3>5, <3>6
    <3> QED BY <2>1, <2>5, <2>6, <3>1, <3>3, <3>7
  <2> QED BY <2>7, <2>8 DEF x
<1> QED BY <1>1, StagesInvariant, PTL

-----------------------------------------------------------------------------
(* The choice of a rendezvous router. *)

\* hRW chooses one of the routers if some has a weight.
LEMMA ChoiceExists ==
  ASSUME NEW c \in DOMAIN NameID, NEW rots \in SUBSET DOMAIN RotID,
         NEW k \in rots, Weight(c, k) > 0
  PROVE  HRW(c, rots) \in rots
<1> DEFINE w(i) == Weight(c, i)
           best(i) == w(i) > 0 /\ \A j \in rots : w(j) <= w(i)
           first(i) == best(i) /\ \A j \in rots : best(j) => i <= j
           V == {Word - w(i) : i \in rots}
           B == {i \in rots : best(i)}
<1>1. ASSUME NEW i \in rots PROVE i \in Nat /\ w(i) \in Nat /\ Word - w(i) \in Nat
  <2> DEFINE e == ExOr((a * RotID[i] + b) % Word, NameID[c])
  <2>1. i \in Nat /\ e \in Nat /\ a \in Nat /\ b \in Nat /\ Word \in Nat \ {0}
    <3>1. i \in DOMAIN RotID /\ DOMAIN RotID = 1 .. Len(RotID) /\ Len(RotID) \in Nat
      BY ContentAssumption
    <3>2. i \in Nat
      BY <3>1
    <3> QED BY <3>1, <3>2, ContentAssumption
  <2>2. w(i) = (a * e + b) % Word
    BY DEF Weight
  <2> HIDE DEF e, w
  <2>3. a * e + b \in Nat
    BY <2>1
  <2> DEFINE y == a * e + b
  <2> HIDE DEF y
  <2>4. y \in Nat /\ w(i) = y % Word
    BY <2>2, <2>3 DEF y
  <2> QED BY <2>1, <2>4
<1>2. V \in SUBSET Nat /\ V # {}
  BY <1>1
<1>3. Word \in Nat
  BY ContentAssumption
<1> HIDE DEF w
<1>4. \E v \in V : \A u \in V : v <= u
  <2> HIDE DEF V
  <2> QED BY <1>2, LeastExists
<1>5. PICK i \in rots : \A j \in rots : Word - w(i) <= Word - w(j)
  BY <1>4
<1>6. \A j \in rots : w(j) <= w(i)
  BY <1>1, <1>3, <1>5
<1>7. w(k) \in Nat /\ w(i) \in Nat /\ w(k) <= w(i) /\ w(k) > 0
  BY <1>1, <1>6 DEF w
<1>8. best(i)
  BY <1>6, <1>7
<1>9. B \in SUBSET Nat /\ B # {}
  BY <1>1, <1>8
<1> HIDE DEF best
<1>10. \E l \in B : \A j \in B : l <= j
  <2> HIDE DEF B
  <2> QED BY <1>9, LeastExists
<1>11. \E l \in rots : first(l)
  BY <1>10
<1>12. HRW(c, rots) = IF \E l \in rots : first(l) THEN CHOOSE l \in rots : first(l) ELSE NoRot
  BY DEF HRW, best, w
<1> HIDE DEF first
<1> QED BY <1>11, <1>12

\* A publication goes to the rendezvous router of every subscription it
\* matches, and both sides have a face that leads there, in any topology in
\* which a rendezvous router is in reach, and for any names and ids such that
\* some rendezvous router has a weight (Publisher.cpp:159, Subscriber.cpp:45).
THEOREM AgreementCorrect ==
  ASSUME SomeWeight, InReach PROVE Spec => []RendezvousAgree
<1>1. ASSUME IInv, SInv, LInv, EachHopNearer PROVE RendezvousAgree
  <2> DEFINE Roots == {r \in RoleIDs : r.role = "RRot"}
             rots == {r.id : r \in Roots}
  <2>1. ASSUME NEW n \in Node \ harmed, pc[n] = "run", RoleOf[n] # "RRot"
        PROVE  /\ DOMAIN fib[n] = Roots /\ RRotSet(n) = rots
               /\ \A r \in Roots : fib[n][r] # {}
    <3>1. RoleIDOf(n) \in RoleIDs /\ fib[n] = FIB(adjTable[n], RouterTable(RoleIDOf(n)).items)
      BY <2>1, <1>1, RunsAsRegistered
    <3>2. DOMAIN fib[n] = Roots
      BY <3>1 DEF FIB
    <3>3. RRotSet(n) = rots
      BY <3>2 DEF RRotSet
    <3>4. ASSUME NEW r \in Roots PROVE fib[n][r] # {}
      <4>1. RoleIDOf(n).role # r.role
        BY <2>1 DEF RoleIDOf
      <4>2. Far[RoleIDOf(n)][r] < MAXHOP
        BY <3>1, InReach DEF InReach
      <4> QED BY <1>1, <2>1, <3>2, <4>1, <4>2 DEF EachHopNearer
    <3> QED BY <3>2, <3>3, <3>4
  <2> SUFFICES ASSUME NEW p \in Node \ harmed, NEW s \in Node \ harmed,
                      Runs(p, "Pub"), Runs(s, "Sub"),
                      NEW x \in subList[p], NEW c \in subList[s] \cap Prexfixs(x)
               PROVE  LET i == HRW(c, RRotSet(s))
                      IN  /\ i \in Rendezvous(x, RRotSet(p))
                          /\ \A n \in {p, s} : \E r \in DOMAIN fib[n] : r.id = i /\ fib[n][r] # {}
    BY DEF RendezvousAgree
  <2>2. \A n \in {p, s} : /\ DOMAIN fib[n] = Roots /\ RRotSet(n) = rots
                          /\ \A r \in Roots : fib[n][r] # {}
    BY <2>1 DEF Runs
  <2>3. c \in DOMAIN NameID
    BY <1>1, ContentAssumption DEF LInv, Runs
  <2>4. rots \in SUBSET DOMAIN RotID
    BY SubListAssumption
  <2>5. PICK k \in rots : Weight(c, k) > 0
    BY <2>3, SomeWeight DEF SomeWeight
  <2>6. HRW(c, rots) \in rots
    <3> HIDE DEF rots
    <3> QED BY <2>3, <2>4, <2>5, ChoiceExists
  <2>7. HRW(c, rots) # NoRot
    <3>1. 0 \notin DOMAIN RotID
      BY ContentAssumption
    <3> QED BY <2>4, <2>6, <3>1 DEF NoRot
  <2>8. HRW(c, rots) \in Rendezvous(x, rots)
    BY <2>7 DEF Rendezvous
  <2>9. PICK r \in Roots : r.id = HRW(c, rots)
    BY <2>6
  <2> QED BY <2>2, <2>8, <2>9
<1> QED BY <1>1, StagesInvariant, HopsCorrect, PTL
=============================================================================
