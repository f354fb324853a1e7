----------------------------- MODULE PubSubNet -----------------------------
(***************************************************************************)
(* Subscribers, edge routers (EPSRouter.cpp), plain routers (PSRouter.cpp),*)
(* rendezvous routers (RPSRouter.cpp) and a publisher, as Files/           *)
(* topology.txt connects them: every router has every rendezvous router as *)
(* a neighbour.                                                            *)
(*                                                                         *)
(* An ST table appears here as SubscriptionService describes it, by the    *)
(* names each face asked for; a member count as what RendezvousRouter's    *)
(* MemberCountExact makes of it, the number of faces in the group.         *)
(*                                                                         *)
(* Requests and responses travel in order, since a node sends slice by     *)
(* slice and waits for each acknowledgement.  A lost acknowledgement       *)
(* doubles a message, which matters for requests only: a subscriber may    *)
(* repeat itself anyway, and a group is joined once.  After ten tries the  *)
(* sender gives a message up.  Copies of a publication travel in any       *)
(* order.  One publication is under way at a time: no handler of a         *)
(* publication changes a router's state.  A subscription lost on its way   *)
(* to the first router is one that was never made.  A router handles       *)
(* nothing before its tables are set: its data panel starts after that     *)
(* (ControlPanel.cpp:396); messages wait until then.                       *)
(***************************************************************************)
EXTENDS Naturals, FiniteSets, Sequences

CONSTANTS
  Sub,         \* subscribers
  ERot, Rot,   \* edge routers and plain routers
  RRot,        \* rendezvous routers
  Home,        \* the router of each subscriber
  PubHome,     \* the router of the publisher
  CD,          \* content names
  Prefixes,    \* getPrexfixs
  Rendezvous,  \* hRW over the set of rendezvous routers
  MaxLink,     \* bound: subscriptions of one subscriber under way
  MaxDup,      \* bound: messages doubled
  MaxLose      \* bound: messages given up

Router == ERot \cup Rot

ASSUME NetAssumption ==
  /\ ERot \cap Rot = {}
  /\ Home \in [Sub -> Router] /\ PubHome \in Router
  /\ Rendezvous \in [CD -> RRot]
  /\ Prefixes \in [CD -> SUBSET CD]
  /\ \A c \in CD : c \in Prefixes[c]
  /\ \A c, d, e \in CD : c \in Prefixes[d] /\ d \in Prefixes[e] => c \in Prefixes[e]
  /\ \A c, d \in CD : c \in Prefixes[d] /\ d \in Prefixes[c] => c = d
  /\ MaxLink \in Nat /\ MaxDup \in Nat /\ MaxLose \in Nat

NoPub == "no publication"

VARIABLES
  routed,    \* whether the FIB of each router leads to the rendezvous routers
  subReq,    \* the names in each router's table, by the subscriber's face
  rotReq,    \* the names in each rendezvous router's table, by router
  groups,    \* m_faceGroupIps of each rendezvous router, by edge router
  joined,    \* the groups that each edge router's multicast socket joined
  toRouter,  \* subscriptions on their way to the router
  toRRot,    \* requests on their way to the rendezvous router
  toEdge,    \* GroupIpResponses on their way to the edge router
  pub,       \* the name of the publication under way
  rpubs,     \* its RPublish messages: the node each stands at and its rendezvous
  copies,    \* its Publish messages: the router each goes to, and from where
  due, got,  \* history: subscribers that should get it, and those that did
  dups, lost, harmed   \* messages doubled, given up; routers one was given up for

tables == <<routed, subReq, rotReq, groups, joined>>
links == <<toRouter, toRRot, toEdge>>
pubs == <<pub, rpubs, copies, due, got>>
faults == <<dups, lost, harmed>>
vars == <<tables, links, pubs, faults>>

-----------------------------------------------------------------------------
SubsOf(x) == {s \in Sub : Home[s] = x}

\* Suppression by any related name, as if the list were not directed.
CoveredRelated(x, c) ==
  \E s \in SubsOf(x) : \E d \in subReq[s] : d \in Prefixes[c] \/ c \in Prefixes[d]

\* addSTItem of router x: whether a face of x asked for a prefix of c.
Covered(x, c) == \E s \in SubsOf(x) : subReq[s] \cap Prefixes[c] # {}

\* getSTFaceList of a router and of a rendezvous router.
WantedBySubs(x, n) == {s \in SubsOf(x) : subReq[s] \cap Prefixes[n] # {}}
WantedByRouters(r, n) == {x \in Router : rotReq[r][x] \cap Prefixes[n] # {}}

\* No message about subscriptions goes to or from router x, none was given up.
Settled(x) ==
  /\ x \notin harmed
  /\ \A r \in RRot : toRRot[x][r] = <<>>
  /\ x \in ERot => \A r \in RRot : toEdge[r][x] = <<>>

Init ==
  /\ routed \in {f \in [Router -> BOOLEAN] : f[PubHome]}
  /\ subReq = [s \in Sub |-> {}]
  /\ rotReq = [r \in RRot |-> [x \in Router |-> {}]]
  /\ groups = [r \in RRot |-> [e \in ERot |-> {}]]
  /\ joined = [e \in ERot |-> {}]
  /\ toRouter = [s \in Sub |-> <<>>]
  /\ toRRot = [x \in Router |-> [r \in RRot |-> <<>>]]
  /\ toEdge = [r \in RRot |-> [e \in ERot |-> <<>>]]
  /\ pub = NoPub /\ rpubs = {} /\ copies = {} /\ due = {} /\ got = {}
  /\ dups = 0 /\ lost = 0 /\ harmed = {}

-----------------------------------------------------------------------------
(* Subscriptions. *)

\* A user may ask for any name of the list at any time, and again.
SubscribeSend(s, c) ==
  /\ Len(toRouter[s]) < MaxLink
  /\ toRouter' = [toRouter EXCEPT ![s] = Append(@, c)]
  /\ UNCHANGED <<tables, toRRot, toEdge, pubs, faults>>

(***************************************************************************)
(* A subscription at a router: without a face to the rendezvous router the *)
(* message is released and leaves no trace; else the name enters the table *)
(* and, if it is not covered, goes up.  A publication under way need not   *)
(* reach a router that regroups.                                           *)
(***************************************************************************)
AddAndForward(s) ==
  LET x == Home[s]
      c == Head(toRouter[s])
  IN  /\ toRouter[s] # <<>>
      /\ toRouter' = [toRouter EXCEPT ![s] = Tail(@)]
      /\ IF routed[x]
         THEN /\ subReq' = [subReq EXCEPT ![s] = @ \cup {c}]
              /\ IF Covered(x, c)
                 THEN UNCHANGED <<toRRot, due>>
                 ELSE /\ toRRot' = [toRRot EXCEPT ![x][Rendezvous[c]] = Append(@, c)]
                      /\ due' = due \ SubsOf(x)
         ELSE UNCHANGED <<subReq, toRRot, due>>
      /\ UNCHANGED <<routed, rotReq, groups, joined, toEdge, pub, rpubs, copies, got, faults>>

\* handleSubscribe of an edge router, which asks for a group, and of a plain
\* router, which passes the subscription on.
HandleSubscribe(s) == Home[s] \in ERot /\ AddAndForward(s)
PSHandleSubscribe(s) == Home[s] \in Rot /\ AddAndForward(s)

\* handleSubscribe of the rendezvous router, for a plain router.
HandleRRotSubscribe(r, x) ==
  /\ toRRot[x][r] # <<>>
  /\ toRRot' = [toRRot EXCEPT ![x][r] = Tail(@)]
  /\ rotReq' = [rotReq EXCEPT ![r][x] = @ \cup {Head(toRRot[x][r])}]
  /\ UNCHANGED <<routed, subReq, groups, joined, toRouter, toEdge, pubs, faults>>

QuitGroupsAbove(r, e, c) == {d \in groups[r][e] : d \in Prefixes[c]}

\* The groups of c and of names under it that the edge router is in.
QuitGroups(r, e, c) == {d \in groups[r][e] : c \in Prefixes[d]}

\* A group that exists is taken to need no response.
HandleGroupIpRequestSilent(r, e) ==
  LET c == Head(toRRot[e][r])
      quit == QuitGroups(r, e, c)
  IN  /\ toRRot[e][r] # <<>>
      /\ toRRot' = [toRRot EXCEPT ![e][r] = Tail(@)]
      /\ rotReq' = [rotReq EXCEPT ![r][e] = @ \cup {c}]
      /\ groups' = [groups EXCEPT ![r][e] = (@ \ quit) \cup {c}]
      /\ toEdge' = IF \E f \in ERot : c \in groups[r][f]
                   THEN toEdge
                   ELSE [toEdge EXCEPT ![r][e] = Append(@, [join |-> c, quit |-> quit])]
      /\ UNCHANGED <<routed, subReq, joined, toRouter, pubs, faults>>

\* The rendezvous router moves the edge router to the group of c and says so.
HandleGroupIpRequest(r, e) ==
  LET c == Head(toRRot[e][r])
      quit == QuitGroups(r, e, c)
  IN  /\ toRRot[e][r] # <<>>
      /\ toRRot' = [toRRot EXCEPT ![e][r] = Tail(@)]
      /\ rotReq' = [rotReq EXCEPT ![r][e] = @ \cup {c}]
      /\ groups' = [groups EXCEPT ![r][e] = (@ \ quit) \cup {c}]
      /\ toEdge' = [toEdge EXCEPT ![r][e] = Append(@, [join |-> c, quit |-> quit])]
      /\ UNCHANGED <<routed, subReq, joined, toRouter, pubs, faults>>

\* With leaveMulticastGroups as it is written, after the join.
HandleGroupIpResponseLeaving(r, e) ==
  /\ toEdge[r][e] # <<>>
  /\ toEdge' = [toEdge EXCEPT ![r][e] = Tail(@)]
  /\ joined' = [joined EXCEPT ![e] = (@ \cup {Head(toEdge[r][e]).join})
                                       \ Head(toEdge[r][e]).quit]
  /\ UNCHANGED <<routed, subReq, rotReq, groups, toRouter, toRRot, pubs, faults>>

\* The edge router joins the new group; the groups to quit are only read.
HandleGroupIpResponse(r, e) ==
  /\ toEdge[r][e] # <<>>
  /\ toEdge' = [toEdge EXCEPT ![r][e] = Tail(@)]
  /\ joined' = [joined EXCEPT ![e] = @ \cup {Head(toEdge[r][e]).join}]
  /\ UNCHANGED <<routed, subReq, rotReq, groups, toRouter, toRRot, pubs, faults>>

-----------------------------------------------------------------------------
(* Publications. *)

\* To the rendezvous router of the name alone.
PublishOwnName(n) ==
  /\ rpubs = {} /\ copies = {}
  /\ pub' = n
  /\ rpubs' = {<<PubHome, Rendezvous[n]>>}
  /\ due' = {s \in Sub : s \in WantedBySubs(Home[s], n) /\ Settled(Home[s])}
  /\ got' = {}
  /\ UNCHANGED <<tables, links, copies, faults>>

\* The publisher sends one RPublish to each rendezvous router of a prefix.
Publish(n) ==
  /\ rpubs = {} /\ copies = {}
  /\ pub' = n
  /\ rpubs' = {PubHome} \X {Rendezvous[p] : p \in Prefixes[n]}
  /\ due' = {s \in Sub : s \in WantedBySubs(Home[s], n) /\ Settled(Home[s])}
  /\ got' = {}
  /\ UNCHANGED <<tables, links, copies, faults>>

\* The publisher's router passes it on.
Relay(r) ==
  /\ <<PubHome, r>> \in rpubs
  /\ rpubs' = (rpubs \ {<<PubHome, r>>}) \cup {<<r, r>>}
  /\ UNCHANGED <<tables, links, pub, copies, due, got, faults>>

\* handleRPublish of an edge router and of a plain router.
RelayRPublish(r) == PubHome \in ERot /\ Relay(r)
PSRelayRPublish(r) == PubHome \in Rot /\ Relay(r)

MulticastGroups(r, n) == {p \in Prefixes[n] : \E e \in ERot : p \in groups[r][e]}
UnicastFaces(r, n) == {x \in WantedByRouters(r, n) : x \in ERot => groups[r][x] = {}}

(***************************************************************************)
(* handleRPublish of the rendezvous router: nothing without an interested  *)
(* face, else a copy to each face that is in no group, and one to each     *)
(* group, which reaches the sockets that have joined it.                   *)
(***************************************************************************)
HandleRPublish(r) ==
  /\ <<r, r>> \in rpubs
  /\ rpubs' = rpubs \ {<<r, r>>}
  /\ copies' = IF WantedByRouters(r, pub) = {}
               THEN copies
               ELSE copies \cup {<<x, r>> : x \in UnicastFaces(r, pub)}
                      \cup {d \in ERot \X MulticastGroups(r, pub) : d[2] \in joined[d[1]]}
  /\ UNCHANGED <<tables, links, pub, due, got, faults>>

\* A copy goes down to the subscribers.
Deliver(d) ==
  /\ d \in copies
  /\ copies' = copies \ {d}
  /\ got' = got \cup WantedBySubs(d[1], pub)
  /\ UNCHANGED <<tables, links, pub, rpubs, due, faults>>

\* handlePublish of an edge router and of a plain router.
HandlePublish(d) == d[1] \in ERot /\ Deliver(d)
PSHandlePublish(d) == d[1] \in Rot /\ Deliver(d)

-----------------------------------------------------------------------------
(* What the transport may do to a message. *)

\* An acknowledgement is lost and the request arrives twice.
DuplicateRequest(x, r) ==
  /\ dups < MaxDup
  /\ toRRot[x][r] # <<>>
  /\ toRRot' = [toRRot EXCEPT ![x][r] = <<Head(@)>> \o @]
  /\ dups' = dups + 1
  /\ UNCHANGED <<tables, toRouter, toEdge, pubs, lost, harmed>>

\* sendTo gives a message up; nothing is told to the router above it.
Lose(x) ==
  /\ lost < MaxLose
  /\ lost' = lost + 1
  /\ harmed' = harmed \cup {x}
  /\ UNCHANGED <<tables, toRouter, pubs, dups>>

LoseRequest(x, r) ==
  /\ toRRot[x][r] # <<>>
  /\ toRRot' = [toRRot EXCEPT ![x][r] = Tail(@)]
  /\ Lose(x)
  /\ UNCHANGED toEdge

LoseResponse(r, e) ==
  /\ toEdge[r][e] # <<>>
  /\ toEdge' = [toEdge EXCEPT ![r][e] = Tail(@)]
  /\ Lose(e)
  /\ UNCHANGED toRRot

\* The publication may then miss anyone.
LoseRPublish(m) ==
  /\ lost < MaxLose
  /\ lost' = lost + 1
  /\ rpubs' = rpubs \ {m}
  /\ due' = {}
  /\ UNCHANGED <<tables, links, pub, copies, got, dups, harmed>>

\* Of a datagram to a group one acknowledgement is awaited, from any member.
LoseCopy(d) ==
  /\ lost < MaxLose
  /\ d \in copies
  /\ lost' = lost + 1
  /\ copies' = copies \ {d}
  /\ due' = due \ SubsOf(d[1])
  /\ UNCHANGED <<tables, links, pub, rpubs, got, dups, harmed>>

-----------------------------------------------------------------------------
Handle ==
  \/ \E s \in Sub : HandleSubscribe(s) \/ PSHandleSubscribe(s)
  \/ \E r \in RRot, x \in Rot : HandleRRotSubscribe(r, x)
  \/ \E r \in RRot, e \in ERot : HandleGroupIpRequest(r, e) \/ HandleGroupIpResponse(r, e)
  \/ \E r \in RRot : RelayRPublish(r) \/ PSRelayRPublish(r) \/ HandleRPublish(r)
  \/ \E d \in copies : HandlePublish(d) \/ PSHandlePublish(d)

Next ==
  \/ Handle
  \/ \E s \in Sub, c \in CD : SubscribeSend(s, c)
  \/ \E n \in CD : Publish(n)
  \/ \E x \in Router, r \in RRot : DuplicateRequest(x, r) \/ LoseRequest(x, r)
  \/ \E r \in RRot, e \in ERot : LoseResponse(r, e)
  \/ \E m \in rpubs : LoseRPublish(m)
  \/ \E d \in copies : LoseCopy(d)

Spec == Init /\ [][Next]_vars

\* The threads of a router's pipeline never stop taking messages; users and
\* faults are under no obligation.
Fairness ==
  /\ \A s \in Sub : WF_vars(AddAndForward(s))
  /\ \A r \in RRot : \A x \in Rot : WF_vars(HandleRRotSubscribe(r, x))
  /\ \A r \in RRot : \A e \in ERot :
       WF_vars(HandleGroupIpRequest(r, e)) /\ WF_vars(HandleGroupIpResponse(r, e))

FairSpec == Spec /\ Fairness

-----------------------------------------------------------------------------
(* Properties *)

\* A publication of n would come down to the router of s.
Reached(s, n) ==
  LET x == Home[s]
  IN  \E p \in Prefixes[n] :
        IF x \in ERot THEN p \in joined[x] /\ p \in groups[Rendezvous[p]][x]
                      ELSE p \in rotReq[Rendezvous[p]][x]

\* ... and so would every publication under c.
Served(s, c) == \A n \in CD : c \in Prefixes[n] => Reached(s, n)

\* Once a publication has come to rest, every subscriber has got it whose
\* subscription was in force when it was sent and whose router did not ask
\* for another group meanwhile, whatever the other routers asked for.
DueReceive == rpubs = {} /\ copies = {} => due \subseteq got

\* An edge router that a rendezvous router counts as a member of a group has
\* joined it, or the response that tells it to is on its way: only in that
\* window (RPSRouter.cpp:212, EPSRouter.cpp:342) can it miss publications.
GroupsAccounted ==
  \A r \in RRot, e \in ERot \ harmed : \A c \in groups[r][e] :
    c \in joined[e] \/ \E i \in 1 .. Len(toEdge[r][e]) : toEdge[r][e][i].join = c

\* A publication comes down to an edge router in one group of a rendezvous
\* router at most: the groups it counts the edge router in are unrelated,
\* although requests for nested names are made, repeated and lost in any order.
GroupsUnrelated ==
  \A r \in RRot, e \in ERot : \A c, d \in groups[r][e] : c \in Prefixes[d] => c = d

\* A subscription that reaches a router with a route is eventually in force,
\* also when the table suppresses it because an earlier one covers it, unless
\* the transport gave up a message of that router.
EventuallyServed ==
  \A s \in Sub, c \in CD :
    (routed[Home[s]] /\ c \in {toRouter[s][i] : i \in 1 .. Len(toRouter[s])})
      ~> (Served(s, c) \/ Home[s] \in harmed)

\* The groups a settled edge router has joined are those it was put into:
\* README.md:216 has it prompted to quit the groups of the sub-entries.
QuitTakesEffect ==
  \A e \in ERot : Settled(e) => joined[e] = UNION {groups[r][e] : r \in RRot}

=============================================================================
