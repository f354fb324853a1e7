-------------------------- MODULE PubSubNetProofs --------------------------
(***************************************************************************)
(* Proofs about the groups of the edge routers and about what reaches the  *)
(* subscribers, for any routers, names and subscribers and any number of   *)
(* messages doubled and given up.                                          *)
(*                                                                         *)
(* That the groups of an edge router at a rendezvous router are unrelated  *)
(* rests on three places at once: its ST table asks for no name of which   *)
(* it has asked for a prefix, its requests stay in order on the way, and   *)
(* the rendezvous router quits the names under the one that is asked for.  *)
(*                                                                         *)
(* That a publication reaches who is due is a second invariant (DInv) on   *)
(* top: what a subscriber asked for stays covered by a request of its      *)
(* router, and behind a router that is not regrouping the publication is   *)
(* still on its way, by a group that is joined.                            *)
(***************************************************************************)
EXTENDS PubSubNet, TLAPS

\* The names that the subscribers of a router asked for.
Asked(x) == {c \in CD : \E s \in SubsOf(x) : c \in subReq[s]}

\* Groups G and requests Q on their way, all for names of A: no name is
\* followed by one it is a prefix of.
InOrder(G, Q, A) ==
  /\ G \subseteq A /\ Q \in Seq(A)
  /\ \A c, d \in G : c \in Prefixes[d] => c = d
  /\ \A c \in G : \A j \in 1 .. Len(Q) : c \in Prefixes[Q[j]] => c = Q[j]
  /\ \A i, j \in 1 .. Len(Q) : i < j /\ Q[i] \in Prefixes[Q[j]] => Q[i] = Q[j]

\* Groups G that are joined (J) or will be, by the responses T.
Answered(G, J, T) == \A c \in G : c \in J \/ \E i \in 1 .. Len(T) : T[i].join = c

Response == [join : CD, quit : SUBSET CD]

Types ==
  /\ subReq \in [Sub -> SUBSET CD]
  /\ groups \in [RRot -> [ERot -> SUBSET CD]]
  /\ joined \in [ERot -> SUBSET CD]
  /\ toRouter \in [Sub -> Seq(CD)]
  /\ toRRot \in [Router -> [RRot -> Seq(CD)]]
  /\ toEdge \in [RRot -> [ERot -> Seq(Response)]]

OrderInv == \A r \in RRot, e \in ERot : InOrder(groups[r][e], toRRot[e][r], Asked(e))

AnswerInv ==
  \A r \in RRot, e \in ERot : e \notin harmed => Answered(groups[r][e], joined[e], toEdge[r][e])

IInv == Types /\ OrderInv /\ AnswerInv

-----------------------------------------------------------------------------
(* One edge router and one rendezvous router. *)

\* A name that no earlier one covers may follow.
LEMMA AskInOrder ==
  ASSUME NEW G, NEW A, NEW B, NEW Q, InOrder(G, Q, A), A \subseteq B,
         NEW c \in B, A \cap Prefixes[c] = {}
  PROVE  InOrder(G, Append(Q, c), B)
<1> DEFINE R == Append(Q, c)
<1>1. Q \in Seq(A) /\ Q \in Seq(B) /\ \A k \in 1 .. Len(Q) : Q[k] \in A
  BY DEF InOrder
<1>2. /\ R \in Seq(B) /\ Len(Q) \in Nat /\ Len(R) = Len(Q) + 1 /\ R[Len(R)] = c
      /\ \A k \in 1 .. Len(Q) : R[k] = Q[k]
  BY <1>1
<1> HIDE DEF R
<1>3. \A k \in 1 .. Len(R) : k \in 1 .. Len(Q) \/ k = Len(R)
  BY <1>2
<1>4. \A d \in G : \A j \in 1 .. Len(R) : d \in Prefixes[R[j]] => d = R[j]
  BY <1>2, <1>3 DEF InOrder
<1>5. ASSUME NEW i \in 1 .. Len(R), NEW j \in 1 .. Len(R), i < j, R[i] \in Prefixes[R[j]]
      PROVE  R[i] = R[j]
  <2>1. i \in 1 .. Len(Q) /\ R[i] \in A
    BY <1>1, <1>2, <1>5
  <2>2. j \in 1 .. Len(Q)
    BY <1>2, <1>3, <1>5, <2>1
  <2> QED BY <1>2, <1>5, <2>1, <2>2 DEF InOrder
<1>6. G \subseteq B /\ \A d, f \in G : d \in Prefixes[f] => d = f
  BY DEF InOrder
<1> QED BY <1>2, <1>4, <1>5, <1>6 DEF InOrder, R

\* More names asked for elsewhere do not matter.
LEMMA MoreInOrder ==
  ASSUME NEW G, NEW A, NEW B, NEW Q, InOrder(G, Q, A), A \subseteq B
  PROVE  InOrder(G, Q, B)
BY DEF InOrder

\* The second to last request.
LEMMA TailInOrder ==
  ASSUME NEW G, NEW A, NEW Q, InOrder(G, Q, A), Q # <<>>
  PROVE  InOrder(G, Tail(Q), A)
<1> DEFINE R == Tail(Q)
<1>1. /\ Len(Q) \in Nat /\ R \in Seq(A) /\ Len(R) = Len(Q) - 1
      /\ \A k \in 1 .. Len(R) : R[k] = Q[k + 1] /\ k + 1 \in 1 .. Len(Q)
  BY DEF InOrder
<1> HIDE DEF R
<1>2. \A d \in G : \A j \in 1 .. Len(R) : d \in Prefixes[R[j]] => d = R[j]
  BY <1>1 DEF InOrder
<1>3. ASSUME NEW i \in 1 .. Len(R), NEW j \in 1 .. Len(R), i < j, R[i] \in Prefixes[R[j]]
      PROVE  R[i] = R[j]
  <2>1. i + 1 < j + 1
    BY <1>1, <1>3
  <2> QED BY <1>1, <1>3, <2>1 DEF InOrder
<1>4. G \subseteq A /\ \A d, f \in G : d \in Prefixes[f] => d = f
  BY DEF InOrder
<1> QED BY <1>1, <1>2, <1>3, <1>4 DEF InOrder, R

\* The group of the first request takes the place of those under it.
LEMMA JoinInOrder ==
  ASSUME NEW G, NEW A, NEW Q, InOrder(G, Q, A), Q # <<>>, A \subseteq CD
  PROVE  InOrder((G \ {d \in G : Head(Q) \in Prefixes[d]}) \cup {Head(Q)}, Tail(Q), A)
<1> DEFINE c == Head(Q)
           R == Tail(Q)
           H == (G \ {d \in G : c \in Prefixes[d]}) \cup {c}
<1>1. InOrder(G, R, A)
  BY TailInOrder
<1>2. /\ Len(Q) \in Nat /\ c \in A /\ c = Q[1] /\ 1 \in 1 .. Len(Q) /\ Len(R) = Len(Q) - 1
      /\ \A k \in 1 .. Len(R) : R[k] = Q[k + 1] /\ k + 1 \in 1 .. Len(Q) /\ 1 < k + 1
  BY DEF InOrder
<1> HIDE DEF c, R
<1>3. H \subseteq A
  BY <1>2 DEF InOrder
<1>4. \A d \in G : d \in Prefixes[c] => d = c
  BY <1>2 DEF InOrder
<1>5. \A d, f \in H : d \in Prefixes[f] => d = f
  BY <1>4 DEF InOrder
<1>6. \A j \in 1 .. Len(R) : c \in Prefixes[R[j]] => c = R[j]
  BY <1>2 DEF InOrder
<1>7. \A d \in H : \A j \in 1 .. Len(R) : d \in Prefixes[R[j]] => d = R[j]
  BY <1>1, <1>6 DEF InOrder
<1> HIDE DEF H
<1>8. InOrder(H, R, A)
  BY <1>1, <1>3, <1>5, <1>7 DEF InOrder
<1> QED BY <1>8 DEF H, c, R

\* The first request may come twice.
LEMMA DoubleInOrder ==
  ASSUME NEW G, NEW A, NEW Q, InOrder(G, Q, A), Q # <<>>
  PROVE  InOrder(G, <<Head(Q)>> \o Q, A)
<1> DEFINE R == <<Head(Q)>> \o Q
<1>1. /\ Len(Q) \in Nat /\ R \in Seq(A) /\ Len(R) = Len(Q) + 1 /\ 1 \in 1 .. Len(Q)
      /\ R[1] = Q[1]
      /\ \A k \in 1 .. Len(R) : k # 1 => R[k] = Q[k - 1] /\ k - 1 \in 1 .. Len(Q)
  BY DEF InOrder
<1> HIDE DEF R
<1>2. \A d \in G : \A j \in 1 .. Len(R) : d \in Prefixes[R[j]] => d = R[j]
  BY <1>1 DEF InOrder
<1>3. ASSUME NEW i \in 1 .. Len(R), NEW j \in 1 .. Len(R), i < j, R[i] \in Prefixes[R[j]]
      PROVE  R[i] = R[j]
  <2>1. R[j] = Q[j - 1] /\ j - 1 \in 1 .. Len(Q)
    BY <1>1, <1>3
  <2>2. CASE i = 1 /\ j - 1 = 1
    BY <1>1, <2>1, <2>2
  <2>3. CASE i = 1 /\ j - 1 # 1
    <3>1. 1 < j - 1
      BY <2>1, <2>3
    <3> QED BY <1>1, <1>3, <2>1, <2>3, <3>1 DEF InOrder
  <2>4. CASE i # 1
    <3>1. R[i] = Q[i - 1] /\ i - 1 \in 1 .. Len(Q) /\ i - 1 < j - 1
      BY <1>1, <1>3, <2>1, <2>4
    <3> QED BY <1>3, <2>1, <3>1 DEF InOrder
  <2> QED BY <2>2, <2>3, <2>4
<1>4. G \subseteq A /\ \A d, f \in G : d \in Prefixes[f] => d = f
  BY DEF InOrder
<1> QED BY <1>1, <1>2, <1>3, <1>4 DEF InOrder, R

\* A response for each new group.
LEMMA RequestAnswered ==
  ASSUME NEW G, NEW H, NEW J, NEW S, NEW T \in Seq(S), NEW m \in S, Answered(G, J, T),
         H \subseteq G \cup {m.join}
  PROVE  Answered(H, J, Append(T, m))
<1> DEFINE U == Append(T, m)
<1>1. /\ Len(T) \in Nat /\ Len(U) = Len(T) + 1 /\ U[Len(U)] = m
      /\ \A i \in 1 .. Len(T) : U[i] = T[i] /\ i \in 1 .. Len(U)
  OBVIOUS
<1> HIDE DEF U
<1>2. Len(U) \in 1 .. Len(U)
  BY <1>1
<1>3. \A c \in H : c \in J \/ \E i \in 1 .. Len(U) : U[i].join = c
  BY <1>1, <1>2 DEF Answered
<1> QED BY <1>3 DEF Answered, U

\* A response that has come has its group joined.
LEMMA ResponseAnswered ==
  ASSUME NEW G, NEW J, NEW S, NEW T \in Seq(S), T # <<>>, Answered(G, J, T)
  PROVE  Answered(G, J \cup {Head(T).join}, Tail(T))
<1> DEFINE U == Tail(T)
<1>1. /\ Len(T) \in Nat /\ Len(U) = Len(T) - 1 /\ Head(T) = T[1]
      /\ \A i \in 1 .. Len(T) : i = 1 \/ (i - 1 \in 1 .. Len(U) /\ U[i - 1] = T[i])
  OBVIOUS
<1> HIDE DEF U
<1>2. ASSUME NEW c \in G PROVE c \in J \cup {Head(T).join} \/ \E i \in 1 .. Len(U) : U[i].join = c
  <2>1. c \in J \/ \E i \in 1 .. Len(T) : T[i].join = c
    BY DEF Answered
  <2> QED BY <1>1, <2>1
<1> QED BY <1>2 DEF Answered, U

-----------------------------------------------------------------------------
(* The steps. *)

\* One link changes.
LEMMA OneLink ==
  ASSUME NEW A, NEW B, NEW S, NEW f \in [A -> [B -> S]], NEW a \in A, NEW b \in B, NEW v \in S,
         NEW g, g = [f EXCEPT ![a][b] = v]
  PROVE  /\ g \in [A -> [B -> S]]
         /\ \A x \in A, y \in B : g[x][y] = IF x = a /\ y = b THEN v ELSE f[x][y]
OBVIOUS

\* The routers of the two kinds.
LEMMA Kinds == ERot \subseteq Router /\ Rot \subseteq Router /\ ERot \cap Rot = {}
BY NetAssumption DEF Router

\* A step that leaves requests, responses and groups alone.
LEMMA OtherInv ==
  ASSUME IInv, toRouter' \in [Sub -> Seq(CD)],
         UNCHANGED <<subReq, groups, joined, toRRot, toEdge>>, harmed \subseteq harmed'
  PROVE  IInv'
<1>1. \A x : Asked(x)' = Asked(x)
  BY DEF Asked, SubsOf
<1>2. Types'
  BY DEF IInv, Types
<1>3. OrderInv'
  BY <1>1 DEF IInv, OrderInv
<1>4. AnswerInv'
  BY DEF IInv, AnswerInv
<1> QED BY <1>2, <1>3, <1>4 DEF IInv

\* A user asks for a name of the list.
LEMMA SubscribeSendInv ==
  ASSUME IInv, NEW s \in Sub, NEW c \in CD, SubscribeSend(s, c)
  PROVE  IInv'
<1>1. toRouter' \in [Sub -> Seq(CD)]
  BY DEF SubscribeSend, IInv, Types
<1> QED BY <1>1, OtherInv DEF SubscribeSend, tables, faults

\* A router asks only for a name that no earlier one covers.
LEMMA AddAndForwardInv ==
  ASSUME IInv, NEW s \in Sub, AddAndForward(s)
  PROVE  IInv'
<1> DEFINE x == Home[s]
           c == Head(toRouter[s])
           r0 == Rendezvous[c]
<1>1. Types
  BY DEF IInv
<1>2. /\ c \in CD /\ Tail(toRouter[s]) \in Seq(CD) /\ x \in Router
      /\ toRouter' = [toRouter EXCEPT ![s] = Tail(@)]
      /\ UNCHANGED <<groups, joined, toEdge, harmed>>
  BY <1>1, NetAssumption DEF AddAndForward, Types, faults
<1>3. r0 \in RRot
  BY <1>2, NetAssumption
<1>4. toRouter' \in [Sub -> Seq(CD)]
  BY <1>1, <1>2 DEF Types
<1>5. CASE ~routed[x]
  <2>1. UNCHANGED <<subReq, toRRot>>
    BY <1>5 DEF AddAndForward
  <2> QED BY <1>2, <1>4, <2>1, OtherInv
<1>6. CASE routed[x]
  <2>1. /\ subReq' = [subReq EXCEPT ![s] = @ \cup {c}]
        /\ \/ Covered(x, c) /\ toRRot' = toRRot
           \/ ~Covered(x, c) /\ toRRot' = [toRRot EXCEPT ![x][r0] = Append(@, c)]
    BY <1>6 DEF AddAndForward
  <2> HIDE DEF x, c, r0
  <2>2. Types'
    <3>1. subReq' \in [Sub -> SUBSET CD]
      BY <1>1, <1>2, <2>1 DEF Types
    <3>2. toRRot[x][r0] \in Seq(CD) /\ Append(toRRot[x][r0], c) \in Seq(CD)
      <4>1. toRRot[x][r0] \in Seq(CD)
        BY <1>1, <1>2, <1>3 DEF Types
      <4> QED BY <1>2, <4>1
    <3>3. toRRot' \in [Router -> [RRot -> Seq(CD)]]
      <4>1. toRRot \in [Router -> [RRot -> Seq(CD)]]
        BY <1>1 DEF Types
      <4>2. CASE toRRot' = [toRRot EXCEPT ![x][r0] = Append(@, c)]
        BY <1>2, <1>3, <3>2, <4>1, <4>2, OneLink
      <4> QED BY <2>1, <4>1, <4>2
    <3> QED BY <1>1, <1>2, <1>4, <3>1, <3>3 DEF Types
  <2>3. \A y : Asked(y) \subseteq Asked(y)'
    BY <1>1, <2>1 DEF Asked, SubsOf, Types
  <2>4. c \in Asked(x)'
    BY <1>1, <1>2, <2>1 DEF Asked, SubsOf, Types, x
  <2>5. ~Covered(x, c) => Asked(x) \cap Prefixes[c] = {}
    BY DEF Covered, Asked
  <2>6. ASSUME NEW r \in RRot, NEW e \in ERot
        PROVE  InOrder(groups[r][e], toRRot'[e][r], Asked(e)')
    <3>1. InOrder(groups[r][e], toRRot[e][r], Asked(e))
      BY DEF IInv, OrderInv
    <3>2. CASE toRRot'[e][r] = toRRot[e][r]
      BY <2>3, <3>1, <3>2, MoreInOrder
    <3>3. CASE e = x /\ r = r0 /\ ~Covered(x, c)
      <4>1. toRRot'[e][r] = Append(toRRot[e][r], c)
        BY <1>1, <1>2, <1>3, <2>1, <3>3 DEF Types
      <4> QED BY <2>3, <2>4, <2>5, <3>1, <3>3, <4>1, AskInOrder
    <3> QED BY <1>1, <2>1, <3>2, <3>3, Kinds DEF Types
  <2>7. OrderInv'
    BY <1>2, <2>6 DEF OrderInv
  <2>8. AnswerInv'
    BY <1>2 DEF IInv, AnswerInv
  <2> QED BY <2>2, <2>7, <2>8 DEF IInv
<1> QED BY <1>5, <1>6

\* Requests of an edge router, and the answers, without the history.
LEMMA RequestInv ==
  ASSUME IInv, UNCHANGED <<subReq, toRouter>>, Types',
         \A r \in RRot, e \in ERot : InOrder(groups'[r][e], toRRot'[e][r], Asked(e)),
         \A r \in RRot, e \in ERot :
           e \notin harmed' => Answered(groups'[r][e], joined'[e], toEdge'[r][e])
  PROVE  IInv'
<1>1. \A x : Asked(x)' = Asked(x)
  BY DEF Asked, SubsOf
<1> QED BY <1>1 DEF IInv, OrderInv, AnswerInv

\* A plain router's subscription has nothing to do with groups.
LEMMA HandleRRotSubscribeInv ==
  ASSUME IInv, NEW r0 \in RRot, NEW x \in Rot, HandleRRotSubscribe(r0, x)
  PROVE  IInv'
<1>1. /\ toRRot[x][r0] # <<>> /\ toRRot' = [toRRot EXCEPT ![x][r0] = Tail(@)]
      /\ UNCHANGED <<subReq, groups, joined, toRouter, toEdge, harmed>>
      /\ Types
  BY DEF HandleRRotSubscribe, IInv, faults
<1>2. Types'
  <2>1. toRRot \in [Router -> [RRot -> Seq(CD)]] /\ x \in Router
    BY <1>1, Kinds DEF Types
  <2>2. Tail(toRRot[x][r0]) \in Seq(CD)
    <3>1. toRRot[x][r0] \in Seq(CD)
      BY <2>1
    <3> QED BY <1>1, <3>1
  <2>3. toRRot' \in [Router -> [RRot -> Seq(CD)]]
    BY <1>1, <2>1, <2>2, OneLink
  <2> QED BY <1>1, <2>3 DEF Types
<1>3. \A r \in RRot, e \in ERot : toRRot'[e][r] = toRRot[e][r]
  BY <1>1, Kinds DEF Types
<1> QED BY <1>1, <1>2, <1>3, RequestInv DEF IInv, OrderInv, AnswerInv

\* The rendezvous router moves an edge router and answers.
LEMMA HandleGroupIpRequestInv ==
  ASSUME IInv, NEW r0 \in RRot, NEW e0 \in ERot, HandleGroupIpRequest(r0, e0)
  PROVE  IInv'
<1> DEFINE Q == toRRot[e0][r0]
           c == Head(Q)
           G == groups[r0][e0]
           quit == {d \in G : c \in Prefixes[d]}
           m == [join |-> c, quit |-> quit]
<1>1. /\ Q # <<>> /\ toRRot' = [toRRot EXCEPT ![e0][r0] = Tail(@)]
      /\ groups' = [groups EXCEPT ![r0][e0] = (@ \ quit) \cup {c}]
      /\ toEdge' = [toEdge EXCEPT ![r0][e0] = Append(@, m)]
      /\ UNCHANGED <<subReq, joined, toRouter, harmed>>
      /\ Types
  BY DEF HandleGroupIpRequest, QuitGroups, IInv, faults
<1>2. e0 \in Router
  BY Kinds
<1>3. Q \in Seq(CD) /\ c \in CD /\ Tail(Q) \in Seq(CD) /\ G \subseteq CD /\ quit \subseteq CD
      /\ m \in Response /\ m.join = c
      /\ toEdge[r0][e0] \in Seq(Response) /\ Append(toEdge[r0][e0], m) \in Seq(Response)
  <2>1. Q \in Seq(CD) /\ toEdge[r0][e0] \in Seq(Response) /\ G \subseteq CD
    BY <1>1, <1>2 DEF Types
  <2>2. c \in CD /\ Tail(Q) \in Seq(CD)
    <3> HIDE DEF Q
    <3> QED BY <1>1, <2>1
  <2>3. quit \subseteq CD
    BY <2>1
  <2>4. m \in Response /\ m.join = c
    <3> HIDE DEF c, quit
    <3> QED BY <2>2, <2>3 DEF Response
  <2> HIDE DEF m
  <2>5. Append(toEdge[r0][e0], m) \in Seq(Response)
    BY <2>1, <2>4
  <2> QED BY <2>1, <2>2, <2>3, <2>4, <2>5
<1>4. (G \ quit) \cup {c} \subseteq G \cup {m.join}
  BY <1>3
<1>5. InOrder((G \ quit) \cup {c}, Tail(Q), Asked(e0))
  BY <1>1, JoinInOrder DEF IInv, OrderInv, Asked
<1>6. e0 \notin harmed => Answered((G \ quit) \cup {c}, joined[e0], Append(toEdge[r0][e0], m))
  BY <1>3, <1>4, RequestAnswered DEF IInv, AnswerInv
<1> HIDE DEF Q, c, G, quit, m
<1>7. Types'
  <2>1. toRRot' \in [Router -> [RRot -> Seq(CD)]]
    <3>1. toRRot \in [Router -> [RRot -> Seq(CD)]]
      BY <1>1 DEF Types
    <3> QED BY <1>1, <1>2, <1>3, <3>1, OneLink DEF Q
  <2>2. groups' \in [RRot -> [ERot -> SUBSET CD]]
    BY <1>1, <1>3 DEF Types
  <2>3. toEdge' \in [RRot -> [ERot -> Seq(Response)]]
    <3>1. toEdge \in [RRot -> [ERot -> Seq(Response)]]
      BY <1>1 DEF Types
    <3> QED BY <1>1, <1>3, <3>1, OneLink
  <2> QED BY <1>1, <2>1, <2>2, <2>3 DEF Types
<1>8. ASSUME NEW r \in RRot, NEW e \in ERot
      PROVE  /\ InOrder(groups'[r][e], toRRot'[e][r], Asked(e))
             /\ e \notin harmed' => Answered(groups'[r][e], joined'[e], toEdge'[r][e])
  <2>1. CASE r = r0 /\ e = e0
    <3>1. /\ groups'[r][e] = (G \ quit) \cup {c} /\ toRRot'[e][r] = Tail(Q)
          /\ toEdge'[r][e] = Append(toEdge[r0][e0], m) /\ joined'[e] = joined[e0]
      BY <1>1, <1>2, <2>1 DEF Types, Q, G
    <3> QED BY <1>1, <1>5, <1>6, <2>1, <3>1
  <2>2. CASE ~(r = r0 /\ e = e0)
    <3>1. /\ groups'[r][e] = groups[r][e] /\ toRRot'[e][r] = toRRot[e][r]
          /\ toEdge'[r][e] = toEdge[r][e] /\ joined'[e] = joined[e]
      BY <1>1, <1>2, <2>2, Kinds DEF Types
    <3> QED BY <1>1, <3>1 DEF IInv, OrderInv, AnswerInv
  <2> QED BY <2>1, <2>2
<1> QED BY <1>1, <1>7, <1>8, RequestInv

\* The edge router joins the group it is told to.
LEMMA HandleGroupIpResponseInv ==
  ASSUME IInv, NEW r0 \in RRot, NEW e0 \in ERot, HandleGroupIpResponse(r0, e0)
  PROVE  IInv'
<1> DEFINE T == toEdge[r0][e0]
<1>1. /\ T # <<>> /\ toEdge' = [toEdge EXCEPT ![r0][e0] = Tail(@)]
      /\ joined' = [joined EXCEPT ![e0] = @ \cup {Head(T).join}]
      /\ UNCHANGED <<subReq, groups, toRouter, toRRot, harmed>>
      /\ Types
  BY DEF HandleGroupIpResponse, IInv, faults
<1>2. T \in Seq(Response) /\ Tail(T) \in Seq(Response) /\ Head(T).join \in CD
  <2>1. T \in Seq(Response)
    BY <1>1 DEF Types
  <2>2. Head(T) \in Response /\ Tail(T) \in Seq(Response)
    <3> HIDE DEF T
    <3> QED BY <1>1, <2>1
  <2> HIDE DEF T
  <2> QED BY <2>1, <2>2 DEF Response
<1>3. ASSUME NEW r \in RRot, e0 \notin harmed
      PROVE  Answered(groups[r][e0], joined'[e0], toEdge'[r][e0])
  <2>1. Answered(groups[r][e0], joined[e0], toEdge[r][e0])
    BY <1>3 DEF IInv, AnswerInv
  <2>2. joined'[e0] = joined[e0] \cup {Head(T).join}
    BY <1>1 DEF Types
  <2>3. CASE r = r0
    <3>1. toEdge'[r][e0] = Tail(T)
      BY <1>1, <2>3 DEF Types
    <3>2. Answered(groups[r][e0], joined[e0], T)
      BY <2>1, <2>3
    <3>3. T # <<>>
      BY <1>1
    <3> HIDE DEF T
    <3>4. Answered(groups[r][e0], joined[e0] \cup {Head(T).join}, Tail(T))
      BY <1>2, <3>2, <3>3, ResponseAnswered
    <3> QED BY <2>2, <3>1, <3>4
  <2>4. CASE r # r0
    <3>1. toEdge'[r][e0] = toEdge[r][e0]
      BY <1>1, <2>4 DEF Types
    <3> QED BY <2>1, <2>2, <3>1 DEF Answered
  <2> QED BY <2>3, <2>4
<1>4. ASSUME NEW r \in RRot, NEW e \in ERot, e # e0
      PROVE  joined'[e] = joined[e] /\ toEdge'[r][e] = toEdge[r][e]
  BY <1>1, <1>4 DEF Types
<1>5. Types'
  <2>1. toEdge' \in [RRot -> [ERot -> Seq(Response)]]
    <3>1. toEdge \in [RRot -> [ERot -> Seq(Response)]]
      BY <1>1 DEF Types
    <3> QED BY <1>1, <1>2, <3>1, OneLink
  <2>2. joined' \in [ERot -> SUBSET CD]
    BY <1>1, <1>2 DEF Types
  <2> QED BY <1>1, <2>1, <2>2 DEF Types
<1> HIDE DEF T
<1> QED BY <1>1, <1>3, <1>4, <1>5, RequestInv DEF IInv, OrderInv, AnswerInv

\* A request may come twice or be given up.
LEMMA RequestFaultInv ==
  ASSUME IInv, NEW x0 \in Router, NEW r0 \in RRot,
         DuplicateRequest(x0, r0) \/ LoseRequest(x0, r0)
  PROVE  IInv'
<1> DEFINE Q == toRRot[x0][r0]
<1>1. /\ Q # <<>>
      /\ \/ toRRot' = [toRRot EXCEPT ![x0][r0] = <<Head(@)>> \o @]
         \/ toRRot' = [toRRot EXCEPT ![x0][r0] = Tail(@)]
      /\ UNCHANGED <<subReq, groups, joined, toRouter, toEdge>> /\ harmed \subseteq harmed'
      /\ Types
  BY DEF DuplicateRequest, LoseRequest, Lose, tables, IInv
<1>2. Q \in Seq(CD)
  BY <1>1 DEF Types
<1>3. <<Head(Q)>> \o Q \in Seq(CD) /\ Tail(Q) \in Seq(CD)
  <2> HIDE DEF Q
  <2> QED BY <1>1, <1>2
<1>4. Types'
  <2>1. toRRot \in [Router -> [RRot -> Seq(CD)]]
    BY <1>1 DEF Types
  <2>2. CASE toRRot' = [toRRot EXCEPT ![x0][r0] = <<Head(@)>> \o @]
    <3>1. toRRot' \in [Router -> [RRot -> Seq(CD)]]
      BY <1>3, <2>1, <2>2, OneLink
    <3> QED BY <1>1, <3>1 DEF Types
  <2>3. CASE toRRot' = [toRRot EXCEPT ![x0][r0] = Tail(@)]
    <3>1. toRRot' \in [Router -> [RRot -> Seq(CD)]]
      BY <1>3, <2>1, <2>3, OneLink
    <3> QED BY <1>1, <3>1 DEF Types
  <2> QED BY <1>1, <2>2, <2>3
<1>5. ASSUME NEW r \in RRot, NEW e \in ERot
      PROVE  InOrder(groups'[r][e], toRRot'[e][r], Asked(e))
  <2>1. InOrder(groups[r][e], toRRot[e][r], Asked(e)) /\ groups'[r][e] = groups[r][e]
    BY <1>1 DEF IInv, OrderInv
  <2>2. CASE e = x0 /\ r = r0
    <3>1. toRRot'[e][r] = <<Head(Q)>> \o Q \/ toRRot'[e][r] = Tail(Q)
      BY <1>1, <2>2 DEF Types
    <3>2. InOrder(groups[r][e], Q, Asked(e))
      BY <2>1, <2>2
    <3>3. Q # <<>>
      BY <1>1
    <3> HIDE DEF Q
    <3>4. InOrder(groups[r][e], <<Head(Q)>> \o Q, Asked(e)) /\ InOrder(groups[r][e], Tail(Q), Asked(e))
      BY <3>2, <3>3, DoubleInOrder, TailInOrder
    <3> QED BY <2>1, <3>1, <3>4
  <2>3. CASE ~(e = x0 /\ r = r0)
    <3>1. toRRot'[e][r] = toRRot[e][r]
      BY <1>1, <2>3, Kinds DEF Types
    <3> QED BY <2>1, <3>1
  <2> QED BY <2>2, <2>3
<1> QED BY <1>1, <1>4, <1>5, RequestInv DEF IInv, AnswerInv

\* A response that is given up leaves its edge router to the exceptions.
LEMMA LoseResponseInv ==
  ASSUME IInv, NEW r0 \in RRot, NEW e0 \in ERot, LoseResponse(r0, e0)
  PROVE  IInv'
<1>1. /\ toEdge[r0][e0] # <<>> /\ toEdge' = [toEdge EXCEPT ![r0][e0] = Tail(@)]
      /\ UNCHANGED <<subReq, groups, joined, toRouter, toRRot>>
      /\ harmed' = harmed \cup {e0} /\ Types
  BY DEF LoseResponse, Lose, tables, IInv
<1>2. toEdge \in [RRot -> [ERot -> Seq(Response)]]
  BY <1>1 DEF Types
<1>3. Types'
  <2>1. Tail(toEdge[r0][e0]) \in Seq(Response)
    <3>1. toEdge[r0][e0] \in Seq(Response)
      BY <1>2
    <3> QED BY <1>1, <3>1
  <2>2. toEdge' \in [RRot -> [ERot -> Seq(Response)]]
    BY <1>1, <1>2, <2>1, OneLink
  <2> QED BY <1>1, <2>2 DEF Types
<1>4. \A r \in RRot, e \in ERot : e # e0 => toEdge'[r][e] = toEdge[r][e]
  BY <1>1 DEF Types
<1> QED BY <1>1, <1>3, <1>4, RequestInv DEF IInv, OrderInv, AnswerInv

-----------------------------------------------------------------------------
\* The invariant holds in every state.
THEOREM Invariant == Spec => []IInv
<1>1. Init => IInv
  <2> SUFFICES ASSUME Init PROVE IInv
    OBVIOUS
  <2>1. Types
    BY DEF Init, Types
  <2>2. \A r \in RRot, e \in ERot : groups[r][e] = {} /\ toRRot[e][r] = <<>>
    BY Kinds DEF Init
  <2>3. \A A : InOrder({}, <<>>, A)
    BY DEF InOrder
  <2>4. \A J, T : Answered({}, J, T)
    BY DEF Answered
  <2> QED BY <2>1, <2>2, <2>3, <2>4 DEF IInv, OrderInv, AnswerInv
<1>2. IInv /\ [Next]_vars => IInv'
  <2> SUFFICES ASSUME IInv, [Next]_vars PROVE IInv'
    OBVIOUS
  <2>1. ASSUME NEW s \in Sub, HandleSubscribe(s) \/ PSHandleSubscribe(s) PROVE IInv'
    BY <2>1, AddAndForwardInv DEF HandleSubscribe, PSHandleSubscribe
  <2>2. ASSUME NEW r \in RRot, NEW x \in Rot, HandleRRotSubscribe(r, x) PROVE IInv'
    BY <2>2, HandleRRotSubscribeInv
  <2>3. ASSUME NEW r \in RRot, NEW e \in ERot,
               HandleGroupIpRequest(r, e) \/ HandleGroupIpResponse(r, e) \/ LoseResponse(r, e)
        PROVE  IInv'
    BY <2>3, HandleGroupIpRequestInv, HandleGroupIpResponseInv, LoseResponseInv
  <2>4. ASSUME NEW s \in Sub, NEW c \in CD, SubscribeSend(s, c) PROVE IInv'
    BY <2>4, SubscribeSendInv
  <2>5. ASSUME NEW x \in Router, NEW r \in RRot, DuplicateRequest(x, r) \/ LoseRequest(x, r)
        PROVE  IInv'
    BY <2>5, RequestFaultInv
  <2>6. ASSUME UNCHANGED <<tables, links, harmed>> PROVE IInv'
    BY <2>6, OtherInv DEF tables, links, IInv, Types
  <2>7. ASSUME NEW r \in RRot, RelayRPublish(r) \/ PSRelayRPublish(r) \/ HandleRPublish(r)
        PROVE  IInv'
    BY <2>6, <2>7 DEF RelayRPublish, PSRelayRPublish, Relay, HandleRPublish, faults
  <2>8. ASSUME NEW d, HandlePublish(d) \/ PSHandlePublish(d) \/ LoseCopy(d) \/ LoseRPublish(d)
                        \/ Publish(d)
        PROVE  IInv'
    BY <2>6, <2>8 DEF HandlePublish, PSHandlePublish, Deliver, LoseCopy, LoseRPublish, Publish,
                      faults
  <2>9. CASE UNCHANGED vars
    BY <2>6, <2>9 DEF vars, faults
  <2> QED BY <2>1, <2>2, <2>3, <2>4, <2>5, <2>7, <2>8, <2>9 DEF Next, Handle
<1> QED BY <1>1, <1>2, PTL DEF Spec

\* A rendezvous router never counts an edge router in two related groups,
\* whatever is requested, doubled or lost, in any order (RPSRouter.cpp:202).
THEOREM GroupsStayUnrelated == Spec => []GroupsUnrelated
<1>1. IInv => GroupsUnrelated
  BY DEF IInv, OrderInv, InOrder, GroupsUnrelated
<1> QED BY <1>1, Invariant, PTL

\* An edge router counted as a member of a group has joined it or will
\* (RPSRouter.cpp:212, EPSRouter.cpp:342).
THEOREM GroupsStayAccounted == Spec => []GroupsAccounted
<1>1. IInv => GroupsAccounted
  BY DEF IInv, AnswerInv, Answered, GroupsAccounted
<1> QED BY <1>1, Invariant, PTL

-----------------------------------------------------------------------------
(* Publications.  That a subscriber who is due gets its publication rests  *)
(* on a chain: its name is covered by one that its router asked for; that  *)
(* request is held by its rendezvous router when nothing is on its way;    *)
(* the group is then joined; the rendezvous router, to which an RPublish   *)
(* is under way, sends a copy there; and the router finds the subscriber.  *)

\* The elements of a queue.
Entries(Q) == {Q[i] : i \in 1 .. Len(Q)}

\* What rendezvous router r sends router x publications for: its groups, or
\* the names a plain router asked for.
Holds(x, r) == IF x \in ERot THEN groups[r][x] ELSE rotReq[r][x]

\* The requests of router x that their rendezvous routers hold, or that are on
\* their way there.
Standing(x) ==
  {q \in CD : q \in Holds(x, Rendezvous[q]) \/ q \in Entries(toRRot[x][Rendezvous[q]])}

\* Requests go to the rendezvous router of their name, which keeps in its
\* table what it keeps in groups.
HeldInv ==
  /\ rotReq \in [RRot -> [Router -> SUBSET CD]]
  /\ \A x \in Router, r \in RRot : \A q \in Entries(toRRot[x][r]) : Rendezvous[q] = r
  /\ \A r \in RRot, e \in ERot : groups[r][e] \subseteq rotReq[r][e]

\* Every subscription is covered by a request, for its name or a shorter one.
CoverInv ==
  \A s \in Sub : Home[s] \notin harmed =>
    \A c \in subReq[s] : \E q \in Prefixes[c] : q \in Standing(Home[s])

\* A publication of q at its rendezvous router comes down to router x.
InForce(x, q) == q \in Holds(x, Rendezvous[q]) /\ (x \in ERot => q \in joined[x])

\* The RPublish for rendezvous router r is under way.
Pending(r) == <<PubHome, r>> \in rpubs \/ <<r, r>> \in rpubs

\* Who is due has got the publication, or a copy is on its way to its router,
\* or an RPublish to a rendezvous router that will send one there.
DueInv ==
  \A s \in due :
    /\ s \in Sub /\ Settled(Home[s])
    /\ pub \in CD /\ subReq[s] \cap Prefixes[pub] # {}
    /\ \/ s \in got
       \/ \E d \in copies : d[1] = Home[s]
       \/ \E q \in Prefixes[pub] : InForce(Home[s], q) /\ Pending(Rendezvous[q])

DInv == HeldInv /\ CoverInv /\ DueInv

-----------------------------------------------------------------------------
\* What the operations on a queue do to its elements.
LEMMA QueueEntries ==
  ASSUME NEW S, NEW Q \in Seq(S)
  PROVE  /\ Entries(<<>>) = {}
         /\ \A c \in S : Entries(Append(Q, c)) = Entries(Q) \cup {c}
         /\ Q # <<>> => /\ Head(Q) \in Entries(Q)
                        /\ Entries(Q) = Entries(Tail(Q)) \cup {Head(Q)}
                        /\ Entries(<<Head(Q)>> \o Q) = Entries(Q)
<1>1. Entries(<<>>) = {}
  BY DEF Entries
<1>2. ASSUME NEW c \in S PROVE Entries(Append(Q, c)) = Entries(Q) \cup {c}
  <2> DEFINE R == Append(Q, c)
  <2>1. Len(Q) \in Nat /\ Len(R) = Len(Q) + 1 /\ R[Len(R)] = c /\ \A i \in 1 .. Len(Q) : R[i] = Q[i]
    OBVIOUS
  <2> HIDE DEF R
  <2>2. \A i \in 1 .. Len(R) : i \in 1 .. Len(Q) \/ i = Len(R)
    BY <2>1
  <2>3. Len(R) \in 1 .. Len(R) /\ \A i \in 1 .. Len(Q) : i \in 1 .. Len(R)
    BY <2>1
  <2>4. Entries(R) = Entries(Q) \cup {c}
    BY <2>1, <2>2, <2>3 DEF Entries
  <2> QED BY <2>4 DEF R
<1>3. ASSUME Q # <<>>
      PROVE  /\ Head(Q) \in Entries(Q)
             /\ Entries(Q) = Entries(Tail(Q)) \cup {Head(Q)}
  <2> DEFINE R == Tail(Q)
  <2>1. /\ Len(Q) \in Nat /\ Len(R) = Len(Q) - 1 /\ Head(Q) = Q[1] /\ 1 \in 1 .. Len(Q)
        /\ \A i \in 1 .. Len(R) : R[i] = Q[i + 1] /\ i + 1 \in 1 .. Len(Q)
        /\ \A i \in 1 .. Len(Q) : i = 1 \/ (i - 1 \in 1 .. Len(R) /\ Q[i] = R[i - 1])
    BY <1>3
  <2> HIDE DEF R
  <2>2. Entries(Q) = Entries(R) \cup {Head(Q)}
    <3>1. Entries(Q) \subseteq Entries(R) \cup {Head(Q)}
      BY <2>1 DEF Entries
    <3>2. Entries(R) \cup {Head(Q)} \subseteq Entries(Q)
      BY <2>1 DEF Entries
    <3> QED BY <3>1, <3>2
  <2> QED BY <2>2 DEF R
<1>4. ASSUME Q # <<>> PROVE Entries(<<Head(Q)>> \o Q) = Entries(Q)
  <2> DEFINE R == <<Head(Q)>> \o Q
  <2>1. /\ Len(Q) \in Nat /\ Len(R) = Len(Q) + 1 /\ 1 \in 1 .. Len(Q) /\ R[1] = Q[1]
        /\ \A k \in 1 .. Len(R) : k # 1 => R[k] = Q[k - 1] /\ k - 1 \in 1 .. Len(Q)
        /\ \A k \in 1 .. Len(Q) : k + 1 \in 1 .. Len(R) /\ Q[k] = R[k + 1]
    BY <1>4
  <2> HIDE DEF R
  <2>2. Entries(R) \subseteq Entries(Q)
    BY <2>1 DEF Entries
  <2>3. Entries(Q) \subseteq Entries(R)
    BY <2>1 DEF Entries
  <2> QED BY <2>2, <2>3 DEF R
<1> QED BY <1>1, <1>2, <1>3, <1>4

\* Prefixes are names, a name's prefix is its own, and they are transitive.
LEMMA PrefixFacts ==
  ASSUME NEW c \in CD
  PROVE  /\ Prefixes[c] \subseteq CD /\ c \in Prefixes[c]
         /\ \A d \in Prefixes[c] : Prefixes[d] \subseteq Prefixes[c]
BY NetAssumption

\* The step is about router x0 only, and about no publication.
Alone(x0) ==
  /\ \A x \in Router, r \in RRot : x # x0 =>
       /\ toRRot'[x][r] = toRRot[x][r] /\ rotReq'[r][x] = rotReq[r][x]
       /\ x \in ERot => groups'[r][x] = groups[r][x] /\ toEdge'[r][x] = toEdge[r][x]
  /\ \A e \in ERot : e # x0 => joined'[e] = joined[e]
  /\ harmed \subseteq harmed' /\ harmed' \subseteq harmed \cup {x0}
  /\ UNCHANGED <<subReq, pub, rpubs, copies, due, got>>

\* A step at one end of a link that was not empty: nobody behind that router
\* is due, so what must be shown is that its subscriptions stay covered.
LEMMA OneRouter ==
  ASSUME IInv, DInv, NEW x0 \in Router, Alone(x0), ~Settled(x0),
         rotReq' \in [RRot -> [Router -> SUBSET CD]],
         \A r \in RRot : Entries(toRRot'[x0][r]) \subseteq Entries(toRRot[x0][r]),
         x0 \in ERot => \A r \in RRot : groups'[r][x0] \subseteq rotReq'[r][x0],
         x0 \notin harmed' =>
           \A q \in CD : q \in Standing(x0) => \E p \in Prefixes[q] : p \in Standing(x0)'
  PROVE  DInv'
<1>1. HeldInv'
  <2>1. ASSUME NEW x \in Router, NEW r \in RRot
        PROVE  \A q \in Entries(toRRot'[x][r]) : Rendezvous[q] = r
    <3>1. \A q \in Entries(toRRot[x][r]) : Rendezvous[q] = r
      BY DEF DInv, HeldInv
    <3>2. Entries(toRRot'[x][r]) \subseteq Entries(toRRot[x][r])
      <4>1. CASE x = x0
        BY <4>1
      <4>2. CASE x # x0
        <5>1. toRRot'[x][r] = toRRot[x][r]
          BY <4>2 DEF Alone
        <5> QED BY <5>1
      <4> QED BY <4>1, <4>2
    <3> QED BY <3>1, <3>2
  <2>2. \A r \in RRot, e \in ERot : groups'[r][e] \subseteq rotReq'[r][e]
    BY Kinds DEF DInv, HeldInv, Alone
  <2> QED BY <2>1, <2>2 DEF HeldInv
<1>2. ASSUME NEW x \in Router, x # x0, NEW q \in CD
      PROVE  /\ (q \in Standing(x)') <=> (q \in Standing(x))
             /\ InForce(x, q)' <=> InForce(x, q)
  BY <1>2, NetAssumption DEF Alone, Standing, InForce, Holds
<1>3. CoverInv'
  <2> SUFFICES ASSUME NEW s \in Sub, Home[s] \notin harmed', NEW c \in subReq[s]
               PROVE  \E q \in Prefixes[c] : q \in Standing(Home[s])'
    BY DEF CoverInv, Alone
  <2>1. c \in CD /\ Home[s] \in Router /\ Home[s] \notin harmed
    BY NetAssumption DEF IInv, Types, Alone
  <2>2. PICK q \in Prefixes[c] : q \in Standing(Home[s])
    BY <2>1 DEF DInv, CoverInv
  <2>3. q \in CD /\ Prefixes[q] \subseteq Prefixes[c] /\ q \in Prefixes[q]
    BY <2>1, PrefixFacts
  <2>4. CASE Home[s] = x0
    BY <2>2, <2>3, <2>4
  <2>5. CASE Home[s] # x0
    BY <1>2, <2>1, <2>2, <2>3, <2>5
  <2> QED BY <2>4, <2>5
<1>4. DueInv'
  <2> SUFFICES ASSUME NEW s \in due
               PROVE  /\ s \in Sub /\ Settled(Home[s])'
                      /\ pub \in CD /\ subReq[s] \cap Prefixes[pub] # {}
                      /\ \/ s \in got
                         \/ \E d \in copies : d[1] = Home[s]
                         \/ \E q \in Prefixes[pub] : InForce(Home[s], q)' /\ Pending(Rendezvous[q])
    BY DEF DueInv, Alone, Pending
  <2>1. /\ s \in Sub /\ Settled(Home[s]) /\ pub \in CD /\ subReq[s] \cap Prefixes[pub] # {}
        /\ \/ s \in got
           \/ \E d \in copies : d[1] = Home[s]
           \/ \E q \in Prefixes[pub] : InForce(Home[s], q) /\ Pending(Rendezvous[q])
    BY DEF DInv, DueInv
  <2>2. Home[s] \in Router /\ Home[s] # x0
    BY <2>1, NetAssumption
  <2>3. Settled(Home[s])'
    BY <2>1, <2>2 DEF Settled, Alone
  <2>4. Prefixes[pub] \subseteq CD
    BY <2>1, PrefixFacts
  <2> QED BY <1>2, <2>1, <2>2, <2>3, <2>4
<1> QED BY <1>1, <1>3, <1>4 DEF DInv

\* The first request of a queue is taken off.
LEMMA RequestTaken ==
  ASSUME IInv, DInv, NEW x0 \in Router, NEW r0 \in RRot, toRRot[x0][r0] # <<>>,
         toRRot' = [toRRot EXCEPT ![x0][r0] = Tail(@)]
  PROVE  /\ Head(toRRot[x0][r0]) \in CD /\ Rendezvous[Head(toRRot[x0][r0])] = r0
         /\ ~Settled(x0)
         /\ \A x \in Router, r \in RRot : x # x0 => toRRot'[x][r] = toRRot[x][r]
         /\ \A r \in RRot :
              /\ Entries(toRRot'[x0][r]) \subseteq Entries(toRRot[x0][r])
              /\ \A q \in Entries(toRRot[x0][r]) :
                   q \in Entries(toRRot'[x0][r]) \/ (r = r0 /\ q = Head(toRRot[x0][r0]))
<1> DEFINE Q == toRRot[x0][r0]
<1>1. toRRot \in [Router -> [RRot -> Seq(CD)]] /\ Q \in Seq(CD)
  BY DEF IInv, Types
<1>2. /\ Head(Q) \in Entries(Q) /\ Entries(Q) = Entries(Tail(Q)) \cup {Head(Q)} /\ Head(Q) \in CD
  <2>1. Q # <<>>
    OBVIOUS
  <2> HIDE DEF Q
  <2>2. Q \in Seq(CD) /\ Head(Q) \in CD
    BY <1>1, <2>1
  <2> QED BY <2>1, <2>2, QueueEntries
<1>3. toRRot'[x0][r0] = Tail(Q) /\ \A r \in RRot : r # r0 => toRRot'[x0][r] = toRRot[x0][r]
  BY <1>1
<1>4. \A x \in Router, r \in RRot : x # x0 => toRRot'[x][r] = toRRot[x][r]
  BY <1>1
<1>5. Rendezvous[Head(Q)] = r0
  BY <1>2 DEF DInv, HeldInv
<1>6. ~Settled(x0)
  BY DEF Settled
<1>7. ASSUME NEW r \in RRot
      PROVE  /\ Entries(toRRot'[x0][r]) \subseteq Entries(toRRot[x0][r])
             /\ \A q \in Entries(toRRot[x0][r]) :
                  q \in Entries(toRRot'[x0][r]) \/ (r = r0 /\ q = Head(Q))
  <2>1. CASE r = r0
    <3>1. Entries(toRRot'[x0][r]) = Entries(Tail(Q)) /\ Entries(toRRot[x0][r]) = Entries(Q)
      BY <1>3, <2>1
    <3> HIDE DEF Q
    <3> QED BY <1>2, <2>1, <3>1
  <2>2. CASE r # r0
    BY <1>3, <2>2
  <2> QED BY <2>1, <2>2
<1> HIDE DEF Q
<1> QED BY <1>2, <1>4, <1>5, <1>6, <1>7 DEF Q

\* A plain router's request enters the table of the rendezvous router.
LEMMA HandleRRotSubscribeDue ==
  ASSUME IInv, DInv, NEW r0 \in RRot, NEW x0 \in Rot, HandleRRotSubscribe(r0, x0)
  PROVE  DInv'
<1> DEFINE c == Head(toRRot[x0][r0])
<1>1. /\ toRRot[x0][r0] # <<>> /\ toRRot' = [toRRot EXCEPT ![x0][r0] = Tail(@)]
      /\ rotReq' = [rotReq EXCEPT ![r0][x0] = @ \cup {c}]
      /\ UNCHANGED <<subReq, groups, joined, toEdge, pub, rpubs, copies, due, got, harmed>>
      /\ x0 \in Router /\ x0 \notin ERot
      /\ rotReq \in [RRot -> [Router -> SUBSET CD]]
  BY Kinds DEF HandleRRotSubscribe, faults, pubs, DInv, HeldInv
<1>2. /\ c \in CD /\ Rendezvous[c] = r0 /\ ~Settled(x0)
      /\ \A x \in Router, r \in RRot : x # x0 => toRRot'[x][r] = toRRot[x][r]
      /\ \A r \in RRot :
           /\ Entries(toRRot'[x0][r]) \subseteq Entries(toRRot[x0][r])
           /\ \A q \in Entries(toRRot[x0][r]) :
                q \in Entries(toRRot'[x0][r]) \/ (r = r0 /\ q = c)
  BY <1>1, RequestTaken
<1> HIDE DEF c
<1>3. /\ rotReq' \in [RRot -> [Router -> SUBSET CD]]
      /\ \A r \in RRot, x \in Router :
           rotReq'[r][x] = IF r = r0 /\ x = x0 THEN rotReq[r0][x0] \cup {c} ELSE rotReq[r][x]
  BY <1>1, <1>2, OneLink
<1>4. Alone(x0)
  BY <1>1, <1>2, <1>3 DEF Alone
<1>5. ASSUME NEW q \in CD, q \in Standing(x0) PROVE q \in Standing(x0)'
  <2>1. Rendezvous[q] \in RRot
    BY NetAssumption
  <2>2. c \in rotReq'[r0][x0] /\ \A r \in RRot : rotReq[r][x0] \subseteq rotReq'[r][x0]
    BY <1>1, <1>3
  <2> QED BY <1>1, <1>2, <1>5, <2>1, <2>2 DEF Standing, Holds
<1>6. ASSUME NEW q \in CD, q \in Standing(x0) PROVE \E p \in Prefixes[q] : p \in Standing(x0)'
  BY <1>5, <1>6, PrefixFacts
<1> QED BY <1>1, <1>2, <1>3, <1>4, <1>6, OneRouter

\* An edge router is put into the group of its request, which covers those
\* it is taken out of.
LEMMA HandleGroupIpRequestDue ==
  ASSUME IInv, DInv, NEW r0 \in RRot, NEW x0 \in ERot, HandleGroupIpRequest(r0, x0)
  PROVE  DInv'
<1> DEFINE c == Head(toRRot[x0][r0])
           quit == QuitGroups(r0, x0, c)
           m == [join |-> c, quit |-> quit]
<1>1. /\ toRRot[x0][r0] # <<>> /\ toRRot' = [toRRot EXCEPT ![x0][r0] = Tail(@)]
      /\ rotReq' = [rotReq EXCEPT ![r0][x0] = @ \cup {c}]
      /\ groups' = [groups EXCEPT ![r0][x0] = (@ \ quit) \cup {c}]
      /\ toEdge' = [toEdge EXCEPT ![r0][x0] = Append(@, m)]
      /\ UNCHANGED <<subReq, joined, pub, rpubs, copies, due, got, harmed>>
      /\ x0 \in Router
      /\ rotReq \in [RRot -> [Router -> SUBSET CD]]
      /\ groups \in [RRot -> [ERot -> SUBSET CD]]
      /\ toEdge \in [RRot -> [ERot -> Seq(Response)]]
      /\ groups[r0][x0] \subseteq rotReq[r0][x0]
  BY Kinds DEF HandleGroupIpRequest, faults, pubs, DInv, HeldInv, IInv, Types
<1>2. /\ c \in CD /\ Rendezvous[c] = r0 /\ ~Settled(x0)
      /\ \A x \in Router, r \in RRot : x # x0 => toRRot'[x][r] = toRRot[x][r]
      /\ \A r \in RRot :
           /\ Entries(toRRot'[x0][r]) \subseteq Entries(toRRot[x0][r])
           /\ \A q \in Entries(toRRot[x0][r]) :
                q \in Entries(toRRot'[x0][r]) \/ (r = r0 /\ q = c)
  BY <1>1, RequestTaken
<1>3. quit = {d \in groups[r0][x0] : c \in Prefixes[d]}
  BY DEF QuitGroups
<1> HIDE DEF c, quit, m
<1>4. /\ rotReq' \in [RRot -> [Router -> SUBSET CD]]
      /\ \A r \in RRot, x \in Router :
           rotReq'[r][x] = IF r = r0 /\ x = x0 THEN rotReq[r0][x0] \cup {c} ELSE rotReq[r][x]
  BY <1>1, <1>2, OneLink
<1>5. \A r \in RRot, e \in ERot :
        /\ groups'[r][e] = IF r = r0 /\ e = x0 THEN (groups[r0][x0] \ quit) \cup {c}
                                               ELSE groups[r][e]
        /\ e # x0 => toEdge'[r][e] = toEdge[r][e]
  BY <1>1
<1>6. Alone(x0)
  BY <1>1, <1>2, <1>4, <1>5 DEF Alone
<1>7. \A r \in RRot : groups'[r][x0] \subseteq rotReq'[r][x0]
  BY <1>1, <1>4, <1>5 DEF DInv, HeldInv
<1>8. ASSUME NEW q \in CD, q \in Standing(x0) PROVE \E p \in Prefixes[q] : p \in Standing(x0)'
  <2>1. Rendezvous[q] \in RRot /\ q \in Prefixes[q]
    BY NetAssumption
  <2>2. c \in Standing(x0)'
    BY <1>2, <1>5 DEF Standing, Holds
  <2>3. CASE q \in quit
    BY <1>3, <2>2, <2>3
  <2>4. CASE q = c
    BY <2>1, <2>2, <2>4
  <2>5. CASE q \notin quit /\ q # c
    <3>1. q \in Standing(x0)'
      BY <1>2, <1>5, <1>8, <2>1, <2>5 DEF Standing, Holds
    <3> QED BY <2>1, <3>1
  <2> QED BY <2>3, <2>4, <2>5
<1> QED BY <1>1, <1>2, <1>4, <1>6, <1>7, <1>8, OneRouter

\* A response that comes, or is given up, is no request.
LEMMA ResponseDue ==
  ASSUME IInv, DInv, NEW r0 \in RRot, NEW x0 \in ERot,
         HandleGroupIpResponse(r0, x0) \/ LoseResponse(r0, x0)
  PROVE  DInv'
<1>1. /\ toEdge[r0][x0] # <<>> /\ toEdge' = [toEdge EXCEPT ![r0][x0] = Tail(@)]
      /\ \/ joined' = [joined EXCEPT ![x0] = @ \cup {Head(toEdge[r0][x0]).join}]
         \/ joined' = joined
      /\ UNCHANGED <<subReq, rotReq, groups, toRRot, pub, rpubs, copies, due, got>>
      /\ harmed \subseteq harmed' /\ harmed' \subseteq harmed \cup {x0}
      /\ toEdge \in [RRot -> [ERot -> Seq(Response)]] /\ joined \in [ERot -> SUBSET CD]
  BY DEF HandleGroupIpResponse, LoseResponse, Lose, tables, faults, pubs, IInv, Types
<1>2. x0 \in Router /\ ~Settled(x0)
  BY <1>1, Kinds DEF Settled
<1>3. /\ \A r \in RRot, e \in ERot : e # x0 => toEdge'[r][e] = toEdge[r][e]
      /\ \A e \in ERot : e # x0 => joined'[e] = joined[e]
  BY <1>1
<1>4. Alone(x0)
  BY <1>1, <1>3 DEF Alone
<1>5. ASSUME NEW q \in CD, q \in Standing(x0) PROVE \E p \in Prefixes[q] : p \in Standing(x0)'
  BY <1>1, <1>5, PrefixFacts DEF Standing, Holds
<1>6. /\ rotReq' \in [RRot -> [Router -> SUBSET CD]]
      /\ \A r \in RRot : groups'[r][x0] \subseteq rotReq'[r][x0]
      /\ \A r \in RRot : Entries(toRRot'[x0][r]) \subseteq Entries(toRRot[x0][r])
  BY <1>1 DEF DInv, HeldInv
<1> QED BY <1>2, <1>4, <1>5, <1>6, OneRouter

\* A request that comes twice, or is given up.
LEMMA RequestFaultDue ==
  ASSUME IInv, DInv, NEW x0 \in Router, NEW r0 \in RRot,
         DuplicateRequest(x0, r0) \/ LoseRequest(x0, r0)
  PROVE  DInv'
<1>1. /\ toRRot[x0][r0] # <<>>
      /\ UNCHANGED <<subReq, rotReq, groups, joined, toEdge, pub, rpubs, copies, due, got>>
      /\ toRRot \in [Router -> [RRot -> Seq(CD)]]
      /\ harmed \subseteq harmed' /\ harmed' \subseteq harmed \cup {x0}
  BY DEF DuplicateRequest, LoseRequest, Lose, tables, pubs, IInv, Types
<1>2. /\ rotReq' \in [RRot -> [Router -> SUBSET CD]]
      /\ x0 \in ERot => \A r \in RRot : groups'[r][x0] \subseteq rotReq'[r][x0]
  BY <1>1 DEF DInv, HeldInv
<1>3. ~Settled(x0)
  BY <1>1 DEF Settled
<1>4. CASE DuplicateRequest(x0, r0)
  <2> DEFINE Q == toRRot[x0][r0]
  <2>1. toRRot' = [toRRot EXCEPT ![x0][r0] = <<Head(@)>> \o @]
    BY <1>4 DEF DuplicateRequest
  <2>2. Entries(<<Head(Q)>> \o Q) = Entries(Q)
    <3>1. Q \in Seq(CD) /\ Q # <<>>
      BY <1>1
    <3> HIDE DEF Q
    <3> QED BY <3>1, QueueEntries
  <2>3. \A r \in RRot : Entries(toRRot'[x0][r]) = Entries(toRRot[x0][r])
    <3>1. toRRot'[x0][r0] = <<Head(Q)>> \o Q /\ \A r \in RRot : r # r0 => toRRot'[x0][r] = toRRot[x0][r]
      BY <1>1, <2>1
    <3> HIDE DEF Q
    <3> QED BY <2>2, <3>1 DEF Q
  <2>4. \A x \in Router, r \in RRot : x # x0 => toRRot'[x][r] = toRRot[x][r]
    BY <1>1, <2>1
  <2>5. Alone(x0)
    BY <1>1, <2>4 DEF Alone
  <2>6. ASSUME NEW q \in CD, q \in Standing(x0) PROVE \E p \in Prefixes[q] : p \in Standing(x0)'
    <3>1. Rendezvous[q] \in RRot /\ q \in Prefixes[q]
      BY NetAssumption
    <3>2. q \in Standing(x0)'
      BY <1>1, <2>3, <2>6, <3>1 DEF Standing, Holds
    <3> QED BY <3>1, <3>2
  <2> QED BY <1>2, <1>3, <2>3, <2>5, <2>6, OneRouter
<1>5. CASE LoseRequest(x0, r0)
  <2>1. toRRot' = [toRRot EXCEPT ![x0][r0] = Tail(@)] /\ x0 \in harmed'
    BY <1>5 DEF LoseRequest, Lose
  <2>2. /\ \A x \in Router, r \in RRot : x # x0 => toRRot'[x][r] = toRRot[x][r]
        /\ \A r \in RRot : Entries(toRRot'[x0][r]) \subseteq Entries(toRRot[x0][r])
    BY <1>1, <2>1, RequestTaken
  <2>3. Alone(x0)
    BY <1>1, <2>2 DEF Alone
  <2> QED BY <1>2, <1>3, <2>1, <2>2, <2>3, OneRouter
<1> QED BY <1>4, <1>5

\* A subscription that reaches its router: one that is not covered stands for
\* itself, one that is has the request of the one that covers it.
LEMMA AddAndForwardDue ==
  ASSUME IInv, DInv, NEW s0 \in Sub, AddAndForward(s0)
  PROVE  DInv'
<1> DEFINE x0 == Home[s0]
           c == Head(toRouter[s0])
           r0 == Rendezvous[c]
<1>1. /\ UNCHANGED <<rotReq, groups, joined, toEdge, pub, rpubs, copies, got, harmed>>
      /\ c \in CD /\ x0 \in Router /\ r0 \in RRot
      /\ subReq \in [Sub -> SUBSET CD] /\ toRRot \in [Router -> [RRot -> Seq(CD)]]
  <2>1. Types /\ toRouter[s0] # <<>>
    BY DEF IInv, AddAndForward
  <2>2. c \in CD
    BY <2>1 DEF Types
  <2> QED BY <2>1, <2>2, NetAssumption DEF AddAndForward, faults, Types
<1>2. \/ UNCHANGED <<subReq, toRRot, due>>
      \/ /\ subReq' = [subReq EXCEPT ![s0] = @ \cup {c}]
         /\ \/ Covered(x0, c) /\ UNCHANGED <<toRRot, due>>
            \/ /\ toRRot' = [toRRot EXCEPT ![x0][r0] = Append(@, c)]
               /\ due' = due \ SubsOf(x0)
  BY DEF AddAndForward
<1>3. \A s \in Sub : subReq'[s] = subReq[s] \/ (s = s0 /\ subReq'[s] = subReq[s] \cup {c})
  BY <1>1, <1>2
<1> HIDE DEF x0, c, r0
<1>4. CASE /\ UNCHANGED <<toRRot, due>>
           /\ UNCHANGED subReq \/ Covered(x0, c)
  <2>1. HeldInv'
    BY <1>1, <1>4 DEF DInv, HeldInv
  <2>2. \A x : Standing(x)' = Standing(x) /\ Settled(x)' = Settled(x)
    BY <1>1, <1>4 DEF Standing, Holds, Settled
  <2>3. CoverInv'
    <3> SUFFICES ASSUME NEW s \in Sub, Home[s] \notin harmed, NEW d \in subReq'[s]
                 PROVE  \E q \in Prefixes[d] : q \in Standing(Home[s])
      BY <1>1, <2>2 DEF CoverInv
    <3>1. CASE d \in subReq[s]
      BY <3>1 DEF DInv, CoverInv
    <3>2. CASE d \notin subReq[s]
      <4>1. s = s0 /\ d = c /\ Covered(x0, c)
        BY <1>3, <1>4, <3>2
      <4>2. PICK t \in Sub : Home[t] = x0 /\ subReq[t] \cap Prefixes[c] # {}
        BY <4>1 DEF Covered, SubsOf
      <4>3. PICK f \in subReq[t] : f \in Prefixes[c]
        BY <4>2
      <4>4. PICK q \in Prefixes[f] : q \in Standing(x0)
        BY <4>1, <4>2, <4>3 DEF DInv, CoverInv, x0
      <4>5. q \in Prefixes[c]
        BY <1>1, <4>3, <4>4, PrefixFacts
      <4> QED BY <4>1, <4>4, <4>5 DEF x0
    <3> QED BY <3>1, <3>2
  <2>4. DueInv'
    <3>1. \A x, q : InForce(x, q)' = InForce(x, q)
      BY <1>1 DEF InForce, Holds
    <3>2. \A s \in Sub : subReq[s] \subseteq subReq'[s]
      BY <1>3
    <3>3. DueInv
      BY DEF DInv
    <3> QED BY <1>1, <1>4, <2>2, <3>1, <3>2, <3>3 DEF DueInv, Pending
  <2> QED BY <2>1, <2>3, <2>4 DEF DInv
<1>5. CASE toRRot' = [toRRot EXCEPT ![x0][r0] = Append(@, c)] /\ due' = due \ SubsOf(x0)
  <2>1. Entries(Append(toRRot[x0][r0], c)) = Entries(toRRot[x0][r0]) \cup {c}
    <3>1. toRRot[x0][r0] \in Seq(CD)
      BY <1>1
    <3>2. ASSUME NEW Q \in Seq(CD) PROVE Entries(Append(Q, c)) = Entries(Q) \cup {c}
      <4>1. \A d \in CD : Entries(Append(Q, d)) = Entries(Q) \cup {d}
        BY QueueEntries, Zenon
      <4> QED BY <1>1, <4>1
    <3> QED BY <3>1, <3>2
  <2>2. /\ \A x \in Router, r \in RRot : x # x0 => toRRot'[x][r] = toRRot[x][r]
        /\ \A r \in RRot : r # r0 => toRRot'[x0][r] = toRRot[x0][r]
        /\ toRRot'[x0][r0] = Append(toRRot[x0][r0], c)
    BY <1>1, <1>5
  <2>3. \A x \in Router, r \in RRot :
          /\ Entries(toRRot[x][r]) \subseteq Entries(toRRot'[x][r])
          /\ \A q \in Entries(toRRot'[x][r]) : q \in Entries(toRRot[x][r]) \/ (r = r0 /\ q = c)
    <3> SUFFICES ASSUME NEW x \in Router, NEW r \in RRot
                 PROVE  /\ Entries(toRRot[x][r]) \subseteq Entries(toRRot'[x][r])
                        /\ \A q \in Entries(toRRot'[x][r]) :
                             q \in Entries(toRRot[x][r]) \/ (r = r0 /\ q = c)
      OBVIOUS
    <3>1. CASE x = x0 /\ r = r0
      BY <2>1, <2>2, <3>1
    <3>2. CASE ~(x = x0 /\ r = r0)
      <4>1. toRRot'[x][r] = toRRot[x][r]
        BY <2>2, <3>2
      <4> QED BY <4>1
    <3> QED BY <3>1, <3>2
  <2>4. c \in Entries(toRRot'[x0][r0])
    BY <2>1, <2>2
  <2>5. HeldInv'
    <3>1. \A x \in Router, r \in RRot : \A q \in Entries(toRRot'[x][r]) : Rendezvous[q] = r
      <4>1. \A x \in Router, r \in RRot : \A q \in Entries(toRRot[x][r]) : Rendezvous[q] = r
        BY DEF DInv, HeldInv
      <4> QED BY <2>3, <4>1 DEF r0
    <3> QED BY <1>1, <3>1 DEF DInv, HeldInv
  <2>6. \A x \in Router : Standing(x) \subseteq Standing(x)'
    <3> SUFFICES ASSUME NEW x \in Router, NEW q \in CD, q \in Standing(x)
                 PROVE  q \in Standing(x)'
      BY DEF Standing
    <3>1. Rendezvous[q] \in RRot
      BY NetAssumption
    <3> QED BY <1>1, <2>3, <3>1 DEF Standing, Holds
  <2>7. c \in Standing(x0)'
    BY <1>1, <2>4 DEF Standing, r0
  <2>8. CoverInv'
    <3> SUFFICES ASSUME NEW s \in Sub, Home[s] \notin harmed, NEW d \in subReq'[s]
                 PROVE  \E q \in Prefixes[d] : q \in Standing(Home[s])'
      BY <1>1 DEF CoverInv
    <3>1. Home[s] \in Router
      BY NetAssumption
    <3>2. CASE d \in subReq[s]
      BY <2>6, <3>1, <3>2 DEF DInv, CoverInv
    <3>3. CASE d \notin subReq[s]
      <4>1. s = s0 /\ d = c
        BY <1>3, <3>3
      <4> QED BY <1>1, <2>7, <4>1, PrefixFacts DEF x0
    <3> QED BY <3>2, <3>3
  <2>9. DueInv'
    <3> SUFFICES ASSUME NEW s \in due, s \notin SubsOf(x0)
                 PROVE  /\ s \in Sub /\ Settled(Home[s])'
                        /\ pub \in CD /\ subReq'[s] \cap Prefixes[pub] # {}
                        /\ \/ s \in got
                           \/ \E d \in copies : d[1] = Home[s]
                           \/ \E q \in Prefixes[pub] : InForce(Home[s], q)' /\ Pending(Rendezvous[q])
      BY <1>1, <1>5 DEF DueInv, Pending
    <3>1. /\ s \in Sub /\ Settled(Home[s]) /\ pub \in CD /\ subReq[s] \cap Prefixes[pub] # {}
          /\ \/ s \in got
             \/ \E d \in copies : d[1] = Home[s]
             \/ \E q \in Prefixes[pub] : InForce(Home[s], q) /\ Pending(Rendezvous[q])
      BY DEF DInv, DueInv
    <3>2. Home[s] \in Router /\ Home[s] # x0
      BY <3>1, NetAssumption DEF SubsOf
    <3>3. Settled(Home[s])'
      BY <1>1, <2>2, <3>1, <3>2 DEF Settled
    <3>4. \A q : InForce(Home[s], q)' = InForce(Home[s], q)
      BY <1>1 DEF InForce, Holds
    <3>5. subReq[s] \subseteq subReq'[s]
      BY <1>3, <3>1
    <3> QED BY <3>1, <3>3, <3>4, <3>5
  <2> QED BY <2>5, <2>8, <2>9 DEF DInv
<1> QED BY <1>2, <1>4, <1>5

\* The steps of a publication change no table and no link.
LEMMA PublicationDue ==
  ASSUME DInv, UNCHANGED <<subReq, rotReq, groups, joined, toRRot, toEdge, harmed>>, DueInv'
  PROVE  DInv'
<1>1. \A x : Standing(x)' = Standing(x)
  BY DEF Standing, Holds
<1>2. HeldInv' /\ CoverInv'
  BY <1>1 DEF DInv, HeldInv, CoverInv
<1> QED BY <1>2 DEF DInv

\* A publication is sent to the rendezvous router of every prefix of its name,
\* that of the request which covers the subscription among them.
LEMMA PublishDue ==
  ASSUME IInv, DInv, NEW n \in CD, Publish(n)
  PROVE  DInv'
<1>1. /\ pub' = n /\ rpubs' = {PubHome} \X {Rendezvous[p] : p \in Prefixes[n]} /\ got' = {}
      /\ due' = {s \in Sub : s \in WantedBySubs(Home[s], n) /\ Settled(Home[s])}
      /\ UNCHANGED <<subReq, rotReq, groups, joined, toRRot, toEdge, harmed, copies>>
  BY DEF Publish, tables, links, faults
<1>2. /\ \A x : Settled(x)' = Settled(x)
      /\ \A x, q : InForce(x, q)' = InForce(x, q)
  BY <1>1 DEF Settled, InForce, Holds
<1>3. ASSUME NEW s \in Sub, s \in WantedBySubs(Home[s], n), Settled(Home[s])
      PROVE  /\ subReq[s] \cap Prefixes[n] # {}
             /\ \E q \in Prefixes[n] : InForce(Home[s], q) /\ Pending(Rendezvous[q])'
  <2> DEFINE x == Home[s]
  <2>1. x \in Router /\ x \notin harmed
    BY <1>3, NetAssumption DEF Settled
  <2>2. PICK c \in subReq[s] : c \in Prefixes[n]
    BY <1>3 DEF WantedBySubs
  <2>3. PICK q \in Prefixes[c] : q \in Standing(x)
    BY <2>1 DEF DInv, CoverInv
  <2>4. q \in Prefixes[n] /\ q \in CD /\ Rendezvous[q] \in RRot
    BY <2>2, <2>3, PrefixFacts, NetAssumption
  <2>5. q \in Holds(x, Rendezvous[q])
    <3>1. toRRot[x][Rendezvous[q]] = <<>>
      BY <1>3, <2>4 DEF Settled
    <3>2. Entries(<<>>) = {}
      BY DEF Entries
    <3> QED BY <2>3, <3>1, <3>2 DEF Standing
  <2>6. ASSUME x \in ERot PROVE q \in joined[x]
    <3>1. q \in groups[Rendezvous[q]][x] /\ toEdge[Rendezvous[q]][x] = <<>>
      BY <1>3, <2>4, <2>5, <2>6 DEF Holds, Settled
    <3>2. Answered(groups[Rendezvous[q]][x], joined[x], toEdge[Rendezvous[q]][x])
      BY <2>1, <2>4, <2>6 DEF IInv, AnswerInv
    <3> QED BY <3>1, <3>2 DEF Answered
  <2>7. Pending(Rendezvous[q])'
    BY <1>1, <2>4 DEF Pending
  <2>8. subReq[s] \cap Prefixes[n] # {}
    BY <2>2
  <2> HIDE DEF x
  <2> QED BY <2>4, <2>5, <2>6, <2>7, <2>8 DEF InForce, x
<1>4. DueInv'
  <2> SUFFICES ASSUME NEW s \in Sub, s \in WantedBySubs(Home[s], n), Settled(Home[s])
               PROVE  /\ subReq[s] \cap Prefixes[n] # {}
                      /\ \E q \in Prefixes[n] : InForce(Home[s], q) /\ Pending(Rendezvous[q])'
    BY <1>1, <1>2 DEF DueInv
  <2> QED BY <1>3
<1> QED BY <1>1, <1>4, PublicationDue

\* The routers hand it on.
LEMMA RelayDue ==
  ASSUME IInv, DInv, NEW r0 \in RRot, Relay(r0)
  PROVE  DInv'
<1>1. /\ rpubs' = (rpubs \ {<<PubHome, r0>>}) \cup {<<r0, r0>>}
      /\ UNCHANGED <<subReq, rotReq, groups, joined, toRRot, toEdge, harmed, pub, copies, due, got>>
  BY DEF Relay, tables, links, faults
<1>2. /\ \A x : Settled(x)' = Settled(x)
      /\ \A x, q : InForce(x, q)' = InForce(x, q)
  BY <1>1 DEF Settled, InForce, Holds
<1>3. \A r : Pending(r) => Pending(r)'
  BY <1>1 DEF Pending
<1>4. DueInv
  BY DEF DInv
<1>5. DueInv'
  BY <1>1, <1>2, <1>3, <1>4 DEF DueInv
<1> QED BY <1>1, <1>5, PublicationDue

\* A rendezvous router sends a copy wherever one of its requests covers the name.
LEMMA HandleRPublishDue ==
  ASSUME IInv, DInv, NEW r0 \in RRot, HandleRPublish(r0)
  PROVE  DInv'
<1>1. /\ rpubs' = rpubs \ {<<r0, r0>>} /\ copies \subseteq copies'
      /\ UNCHANGED <<subReq, rotReq, groups, joined, toRRot, toEdge, harmed, pub, due, got>>
  BY DEF HandleRPublish, tables, links, faults
<1>2. \A x : Settled(x)' = Settled(x)
  BY <1>1 DEF Settled
<1>3. \A x, q : InForce(x, q)' = InForce(x, q)
  BY <1>1 DEF InForce, Holds
<1>4. ASSUME NEW x \in Router, pub \in CD, NEW q \in Prefixes[pub], InForce(x, q), Rendezvous[q] = r0
      PROVE  \E d \in copies' : d[1] = x
  <2>1. q \in rotReq[r0][x]
    <3>1. CASE x \in ERot
      BY <1>4, <3>1 DEF InForce, Holds, DInv, HeldInv
    <3>2. CASE x \notin ERot
      BY <1>4, <3>2 DEF InForce, Holds
    <3> QED BY <3>1, <3>2
  <2>2. x \in WantedByRouters(r0, pub)
    BY <2>1 DEF WantedByRouters
  <2>3. copies' = copies \cup {<<y, r0>> : y \in UnicastFaces(r0, pub)}
                    \cup {d \in ERot \X MulticastGroups(r0, pub) : d[2] \in joined[d[1]]}
    BY <2>2 DEF HandleRPublish
  <2>4. CASE x \in ERot
    <3>1. q \in groups[r0][x] /\ q \in joined[x]
      BY <1>4, <2>4 DEF InForce, Holds
    <3>2. q \in MulticastGroups(r0, pub)
      BY <2>4, <3>1 DEF MulticastGroups
    <3>3. <<x, q>> \in copies'
      BY <2>3, <2>4, <3>1, <3>2
    <3> QED BY <3>3
  <2>5. CASE x \notin ERot
    <3>1. x \in UnicastFaces(r0, pub)
      BY <2>2, <2>5 DEF UnicastFaces
    <3>2. <<x, r0>> \in copies'
      BY <2>3, <3>1
    <3> QED BY <3>2
  <2> QED BY <2>4, <2>5
<1>5. \A r : r # r0 /\ Pending(r) => Pending(r)'
  BY <1>1 DEF Pending
<1>6. DueInv'
  <2> SUFFICES ASSUME NEW s \in due
               PROVE  /\ s \in Sub /\ Settled(Home[s])
                      /\ pub \in CD /\ subReq[s] \cap Prefixes[pub] # {}
                      /\ \/ s \in got
                         \/ \E d \in copies' : d[1] = Home[s]
                         \/ \E q \in Prefixes[pub] : InForce(Home[s], q) /\ Pending(Rendezvous[q])'
    BY <1>1, <1>2, <1>3 DEF DueInv
  <2>1. /\ s \in Sub /\ Settled(Home[s]) /\ pub \in CD /\ subReq[s] \cap Prefixes[pub] # {}
        /\ \/ s \in got
           \/ \E d \in copies : d[1] = Home[s]
           \/ \E q \in Prefixes[pub] : InForce(Home[s], q) /\ Pending(Rendezvous[q])
    BY DEF DInv, DueInv
  <2>2. Home[s] \in Router
    BY <2>1, NetAssumption
  <2>3. ASSUME NEW q \in Prefixes[pub], InForce(Home[s], q), Pending(Rendezvous[q])
        PROVE  \/ \E d \in copies' : d[1] = Home[s]
               \/ \E p \in Prefixes[pub] : InForce(Home[s], p) /\ Pending(Rendezvous[p])'
    <3>1. CASE Rendezvous[q] = r0
      BY <1>4, <2>1, <2>2, <2>3, <3>1
    <3>2. CASE Rendezvous[q] # r0
      BY <1>5, <2>3, <3>2
    <3> QED BY <3>1, <3>2
  <2> QED BY <1>1, <2>1, <2>3
<1> QED BY <1>1, <1>6, PublicationDue

\* A copy finds the subscribers whose names it matches.
LEMMA DeliverDue ==
  ASSUME IInv, DInv, NEW d0, Deliver(d0) \/ LoseCopy(d0)
  PROVE  DInv'
<1>1. /\ copies' = copies \ {d0} /\ got \subseteq got' /\ due' \subseteq due
      /\ UNCHANGED <<subReq, rotReq, groups, joined, toRRot, toEdge, harmed, pub, rpubs>>
      /\ WantedBySubs(d0[1], pub) \subseteq got' \/ due' = due \ SubsOf(d0[1])
  BY DEF Deliver, LoseCopy, tables, links, faults
<1>2. /\ \A x : Settled(x)' = Settled(x)
      /\ \A x, q : InForce(x, q)' = InForce(x, q)
      /\ \A r : Pending(r)' = Pending(r)
  BY <1>1 DEF Settled, InForce, Holds, Pending
<1>3. DueInv'
  <2> SUFFICES ASSUME NEW s \in due'
               PROVE  /\ s \in Sub /\ Settled(Home[s])
                      /\ pub \in CD /\ subReq[s] \cap Prefixes[pub] # {}
                      /\ \/ s \in got'
                         \/ \E d \in copies' : d[1] = Home[s]
                         \/ \E q \in Prefixes[pub] : InForce(Home[s], q) /\ Pending(Rendezvous[q])
    BY <1>1, <1>2 DEF DueInv
  <2>1. /\ s \in Sub /\ Settled(Home[s]) /\ pub \in CD /\ subReq[s] \cap Prefixes[pub] # {}
        /\ \/ s \in got
           \/ \E d \in copies : d[1] = Home[s]
           \/ \E q \in Prefixes[pub] : InForce(Home[s], q) /\ Pending(Rendezvous[q])
    BY <1>1 DEF DInv, DueInv
  <2>2. CASE Home[s] = d0[1]
    <3>1. s \in SubsOf(d0[1]) /\ s \in WantedBySubs(d0[1], pub)
      BY <2>1, <2>2 DEF SubsOf, WantedBySubs
    <3>2. s \in got'
      BY <1>1, <3>1
    <3> QED BY <2>1, <3>2
  <2>3. CASE Home[s] # d0[1]
    BY <1>1, <2>1, <2>3
  <2> QED BY <2>2, <2>3
<1> QED BY <1>1, <1>3, PublicationDue

-----------------------------------------------------------------------------
\* What the groups and requests have to do with who is due, in every state.
THEOREM DueInvariant == Spec => []DInv
<1>1. Init => DInv
  <2> SUFFICES ASSUME Init PROVE DInv
    OBVIOUS
  <2>1. /\ rotReq = [r \in RRot |-> [x \in Router |-> {}]]
        /\ \A x \in Router, r \in RRot : toRRot[x][r] = <<>>
        /\ \A r \in RRot, e \in ERot : groups[r][e] = {}
        /\ \A s \in Sub : subReq[s] = {}
        /\ due = {}
    BY Kinds DEF Init
  <2>2. Entries(<<>>) = {}
    BY DEF Entries
  <2>3. HeldInv
    BY <2>1, <2>2 DEF HeldInv
  <2> QED BY <2>1, <2>3 DEF DInv, CoverInv, DueInv
<1>2. IInv /\ DInv /\ [Next]_vars => DInv'
  <2> SUFFICES ASSUME IInv, DInv, [Next]_vars PROVE DInv'
    OBVIOUS
  <2>1. ASSUME NEW s \in Sub, HandleSubscribe(s) \/ PSHandleSubscribe(s) PROVE DInv'
    BY <2>1, AddAndForwardDue DEF HandleSubscribe, PSHandleSubscribe
  <2>2. ASSUME NEW r \in RRot, NEW x \in Rot, HandleRRotSubscribe(r, x) PROVE DInv'
    BY <2>2, HandleRRotSubscribeDue
  <2>3. ASSUME NEW r \in RRot, NEW e \in ERot,
               HandleGroupIpRequest(r, e) \/ HandleGroupIpResponse(r, e) \/ LoseResponse(r, e)
        PROVE  DInv'
    BY <2>3, HandleGroupIpRequestDue, ResponseDue
  <2>4. ASSUME UNCHANGED <<tables, toRRot, toEdge, pubs, harmed>> PROVE DInv'
    <3>1. \A x : Settled(x)' = Settled(x)
      BY <2>4 DEF Settled
    <3>2. \A x, q : InForce(x, q)' = InForce(x, q)
      BY <2>4 DEF InForce, Holds, tables
    <3>3. DueInv
      BY DEF DInv
    <3>4. DueInv'
      BY <2>4, <3>1, <3>2, <3>3 DEF DueInv, Pending, tables, pubs
    <3> QED BY <2>4, <3>4, PublicationDue DEF tables
  <2>5. ASSUME NEW s \in Sub, NEW c \in CD, SubscribeSend(s, c) PROVE DInv'
    BY <2>4, <2>5 DEF SubscribeSend, faults
  <2>6. ASSUME NEW x \in Router, NEW r \in RRot, DuplicateRequest(x, r) \/ LoseRequest(x, r)
        PROVE  DInv'
    BY <2>6, RequestFaultDue
  <2>7. ASSUME NEW r \in RRot, RelayRPublish(r) \/ PSRelayRPublish(r) \/ HandleRPublish(r)
        PROVE  DInv'
    BY <2>7, RelayDue, HandleRPublishDue DEF RelayRPublish, PSRelayRPublish
  <2>8. ASSUME NEW d, HandlePublish(d) \/ PSHandlePublish(d) \/ LoseCopy(d) PROVE DInv'
    BY <2>8, DeliverDue DEF HandlePublish, PSHandlePublish
  <2>9. ASSUME NEW m, LoseRPublish(m) PROVE DInv'
    <3>1. due' = {} /\ UNCHANGED <<subReq, rotReq, groups, joined, toRRot, toEdge, harmed>>
      BY <2>9 DEF LoseRPublish, tables, links
    <3>2. DueInv'
      BY <3>1 DEF DueInv
    <3> QED BY <3>1, <3>2, PublicationDue
  <2>10. ASSUME NEW n \in CD, Publish(n) PROVE DInv'
    BY <2>10, PublishDue
  <2>11. CASE UNCHANGED vars
    BY <2>4, <2>11 DEF vars, faults, links
  <2> QED BY <2>1, <2>2, <2>3, <2>5, <2>6, <2>7, <2>8, <2>9, <2>10, <2>11 DEF Next, Handle
<1> QED BY <1>1, <1>2, Invariant, PTL DEF Spec

\* A publication that has come to rest has reached every subscriber whose
\* subscription was in force when it was sent, unless its router regrouped
\* meanwhile or a message was given up (Publisher.cpp:109, RPSRouter.cpp:102).
THEOREM DueCorrect == Spec => []DueReceive
<1>1. DInv => DueReceive
  BY DEF DInv, DueInv, DueReceive, Pending
<1> QED BY <1>1, DueInvariant, PTL
=============================================================================
