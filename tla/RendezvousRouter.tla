-------------------------- MODULE RendezvousRouter --------------------------
(***************************************************************************)
(* A rendezvous router (CCN_Toper/RPSRouter.cpp): the ST table, the        *)
(* multicast group of each content name with its member count, and the     *)
(* groups that each face was put into.  One action handles one message to  *)
(* completion, as the single thread of the data panel does.                *)
(*                                                                         *)
(* An edge router turns every subscription into a GroupIpRequest and every *)
(* other node sends Subscribe, so a face carries requests of one kind.     *)
(* The address of a group is a function of its name (MD5), so a group is   *)
(* named by its content name.                                              *)
(***************************************************************************)
EXTENDS SubscriptionTable

CONSTANTS
  RRot,      \* names of the rendezvous points
  Me,        \* the name of this one
  EdgeFace,  \* faces that lead to an edge router
  FIB        \* face list to each rendezvous point

ASSUME RouterAssumption ==
  /\ IsFiniteSet(Face)
  /\ EdgeFace \subseteq Face
  /\ Me \in RRot
  /\ FIB \in [RRot -> Seq(Face)]

VARIABLES
  cdGroupIPRelation, \* the names of the entries of that vector
  membercount,       \* _membercount of those entries
  faceGroupIps,      \* m_faceGroupIps; the empty list where the map has no key
  msg,               \* the message just handled
  sent,              \* the messages it made the router send
  crashed            \* the process died of an access past the end of a vector

tableVars == <<cdsList, bitmap, requested, forwarded>>
groupVars == <<cdGroupIPRelation, membercount, faceGroupIps>>
rvars == <<tableVars, groupVars, msg, sent, crashed>>

-----------------------------------------------------------------------------
(* Lists.  SelectSeq would filter them as well, but is recursive, and the   *)
(* provers know nothing of it.                                              *)

Names(list) == {list[i] : i \in DOMAIN list}

\* The names of a list that are in T, in the order of the list.
Among(list, T) ==
  LET at == {i \in DOMAIN list : list[i] \in T}
      nth(k) == CHOOSE i \in at : Cardinality({j \in at : j <= i}) = k
  IN  [k \in 1 .. Cardinality(at) |-> list[nth(k)]]

-----------------------------------------------------------------------------
(* Messages.  A packet has a type and a content name; a Publish leaves by a *)
(* face or to a group, the response carries the group to join and those to  *)
(* quit: a list of names and one of addresses, which are sent in pairs.     *)

PublishTo(f, n) == [type |-> "Publish", face |-> f, cd |-> n]
MulticastTo(p, n) == [type |-> "Multicast", group |-> p, cd |-> n]
Forward(type, g, c, r) == [type |-> type, face |-> g, cd |-> c, rrot |-> r]
GroupIpResponse(f, c, cds, ips) ==
  [type |-> "GroupIpResponse", face |-> f, join |-> c, quitCDs |-> cds, quitIPs |-> ips]

Arrived(type, c, r) == msg' = [type |-> type, cd |-> c, rrot |-> r]

-----------------------------------------------------------------------------
(* What a publication of n makes the rendezvous point send. *)

UnicastFacesSwapped(n) == {f \in STFaceList(n) : faceGroupIps[f] # <<>>} \* mutant
UnicastFaces(n) == {f \in STFaceList(n) : faceGroupIps[f] = <<>>}

MulticastGroupsOver1(n) ==              \* mutant: off by one
  {p \in Prefixes[n] \cap Names(cdGroupIPRelation) : membercount[p] > 1}
MulticastGroups(n) ==
  {p \in Prefixes[n] \cap Names(cdGroupIPRelation) : membercount[p] > 0}

Downlink(n) ==
  IF STFaceList(n) = {}
  THEN {}
  ELSE {PublishTo(f, n) : f \in UnicastFaces(n)}
         \cup {MulticastTo(p, n) : p \in MulticastGroups(n)}

-----------------------------------------------------------------------------
(* What a request of face f for c does to the groups. *)

Under(c) == {d \in CD : c \in Prefixes[d]}

\* The groups the face is told to quit: those of c and of names under c, as
\* the face's list has them; and their addresses, as the relation has them.
QuitGroupCDs(f, c) == Among(faceGroupIps[f], Under(c))
QuitGroupIPsBackwards(f, c) ==          \* mutant: from the newest group
  LET ips == Among(cdGroupIPRelation, Names(QuitGroupCDs(f, c)))
  IN  [k \in DOMAIN ips |-> ips[Len(ips) + 1 - k]]
QuitGroupIPs(f, c) == Among(cdGroupIPRelation, Names(QuitGroupCDs(f, c)))

JoinKeepsOld(f, c) == [faceGroupIps EXCEPT ![f] = Append(@, c)]  \* mutant: no erase
Join(f, c) == [faceGroupIps EXCEPT ![f] = Append(Among(@, CD \ Under(c)), c)]

RelationsOnlyFirst(c) ==                \* mutant
  IF cdGroupIPRelation = <<>> THEN <<c>> ELSE cdGroupIPRelation
Relations(c) ==
  IF c \in Names(cdGroupIPRelation) THEN cdGroupIPRelation ELSE Append(cdGroupIPRelation, c)

\* One member less for each group quit, then one more for c.
CountNoQuit(f, c) ==                    \* mutant: no decrement
  [membercount EXCEPT ![c] = IF c \in Names(cdGroupIPRelation) THEN @ + 1 ELSE 1]
Count(f, c) ==
  LET quit == Names(QuitGroupIPs(f, c))
      left(d) == IF d \in quit THEN membercount[d] - 1 ELSE membercount[d]
  IN  [d \in CD |-> IF d # c THEN left(d)
                    ELSE IF c \in Names(cdGroupIPRelation) THEN left(c) + 1 ELSE 1]

-----------------------------------------------------------------------------
RInit ==
  /\ Init
  /\ cdGroupIPRelation = <<>>
  /\ membercount = [c \in CD |-> 0]
  /\ faceGroupIps = [f \in Face |-> <<>>]
  /\ msg = [type |-> "None"]
  /\ sent = {}
  /\ crashed = FALSE

(***************************************************************************)
(* The destination keeps the subscription; any other rendezvous router     *)
(* passes it on by the first face of the FIB's list, without asking        *)
(* whether there is one.                                                   *)
(***************************************************************************)
HandleSubscribe(f, c, r) ==
  /\ Subscribe(f, c)
  /\ Arrived("Subscribe", c, r)
  /\ IF r = Me \/ ~ForwardFlag(c)
     THEN sent' = {} /\ crashed' = FALSE
     ELSE IF FIB[r] = <<>>
          THEN sent' = {} /\ crashed' = TRUE
          ELSE sent' = {Forward("Subscribe", Head(FIB[r]), c, r)} /\ crashed' = FALSE
  /\ UNCHANGED groupVars

\* The rendezvous name of the request is not looked at: Me stands for any.
HandleGroupIpRequest(f, c) ==
  /\ Subscribe(f, c)
  /\ Arrived("GroupIpRequest", c, Me)
  /\ faceGroupIps' = Join(f, c)
  /\ cdGroupIPRelation' = Relations(c)
  /\ membercount' = Count(f, c)
  /\ sent' = {GroupIpResponse(f, c, QuitGroupCDs(f, c), QuitGroupIPs(f, c))}
  /\ UNCHANGED crashed

\* The face of a publication is not looked at.
HandleRPublish(n, r) ==
  /\ Arrived("RPublish", n, r)
  /\ sent' = IF r = Me THEN Downlink(n)
             ELSE IF FIB[r] = <<>> THEN {}
             ELSE {Forward("RPublish", Head(FIB[r]), n, r)}
  /\ UNCHANGED <<tableVars, groupVars, crashed>>

\* A publication that another rendezvous point sent down.
HandlePublish(n) ==
  /\ Arrived("Publish", n, Me)
  /\ sent' = {PublishTo(g, n) : g \in STFaceList(n)}
  /\ UNCHANGED <<tableVars, groupVars, crashed>>

HandleMsg ==
  \E c \in CD :
    \/ \E f \in Face \ EdgeFace, r \in RRot : HandleSubscribe(f, c, r)
    \/ \E f \in EdgeFace : HandleGroupIpRequest(f, c)
    \/ \E r \in RRot : HandleRPublish(c, r)
    \/ HandlePublish(c)

RNext == ~crashed /\ HandleMsg

RSpec == RInit /\ [][RNext]_rvars

-----------------------------------------------------------------------------
(* Properties *)

\* The types of the router's own state; in particular no member count is
\* ever negative, however requests for nested names alternate.
RTypeOK ==
  /\ cdGroupIPRelation \in Seq(CD)
  /\ membercount \in [CD -> Nat]
  /\ faceGroupIps \in [Face -> Seq(CD)]
  /\ crashed \in BOOLEAN

\* The count of a group is the number of faces that are in it, whatever
\* order nested and repeated requests come in: increments (RPSRouter.cpp:229,
\* 239) and decrements (:220) stay balanced.
MemberCountExact ==
  \A c \in CD : membercount[c] = Cardinality({f \in Face : c \in Names(faceGroupIps[f])})

Responses == {m \in sent : m.type = "GroupIpResponse"}

\* The addresses to quit are those of the names to quit, each of them once,
\* although the two lists are filled from different tables: the loops over
\* quitGroupCDs that index quitGroupIPs (RPSRouter.cpp:249-254, 280-295) stay
\* in range, and an edge router that takes the addresses is told of every
\* group it has left in the router's view, and of no other.
QuitListsAgree ==
  \A m \in Responses :
    Len(m.quitIPs) = Len(m.quitCDs) /\ Names(m.quitIPs) = Names(m.quitCDs)

\* The relation has the groups in the order in which they were made.
Made(c, relation) == CHOOSE k \in DOMAIN relation : relation[k] = c

\* README.md:157-165 of the repository shows each name to quit with the address
\* of its own group.  The code pairs them by position, which gives that result
\* when the face has asked for the names in the order in which their groups
\* were made, and then only (RPSRouter.cpp:198-222, 280-295).
QuitPairsMatch ==
  \A m \in Responses :
    m.quitIPs = m.quitCDs
      <=> \A i, j \in DOMAIN m.quitCDs :
            i < j => Made(m.quitCDs[i], cdGroupIPRelation) < Made(m.quitCDs[j], cdGroupIPRelation)

\* The message m brings a publication of n to face f: by unicast, or to a
\* group that f was told to join and not told to quit since.
Reaches(m, f, n) ==
  \/ m = PublishTo(f, n)
  \/ \E p \in Names(faceGroupIps[f]) : m = MulticastTo(p, n)

\* A publication that this rendezvous point turns into data, or passes down
\* for another one, reaches every face through which a prefix of its name
\* was ever requested.  It needs three structures to agree: bitmaps, groups
\* and counts, which are updated by separate rules.
PublishReachesFaces ==
  msg.type = "Publish" \/ (msg.type = "RPublish" /\ msg.rrot = Me) =>
    \A f \in Face :
      requested[f] \cap Prefixes[msg.cd] # {} =>
        \E m \in sent : Reaches(m, f, msg.cd)

=============================================================================
