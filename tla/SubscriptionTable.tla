------------------------- MODULE SubscriptionTable -------------------------
(***************************************************************************)
(* The ST table of a router (CCN_Toper/Router.cpp) with its counting Bloom *)
(* filter (CCN_Layer/Function.cpp).  For each face the table lists the     *)
(* content descriptions subscribed through it, without those that a listed *)
(* prefix makes redundant, and counts their hash positions in a bitmap.    *)
(* addSTItem tells the caller whether the subscription must go upstream;   *)
(* getSTFaceList reads only the bitmaps to route a publication down.       *)
(*                                                                         *)
(* An STItem never has an empty list, so a face without an STItem is a     *)
(* face with the empty list and the zero bitmap.                           *)
(***************************************************************************)
EXTENDS Integers, FiniteSets, Sequences

CONSTANTS
  CD,         \* content names
  Face,       \* indices of the router's face table
  Prefixes,   \* getPrexfixs: the prefixes of a name, the name included
  Length,     \* length of a name
  MD5ID,      \* getMD5ID: the number that a name is hashed to
  HashCode,   \* the multipliers of the filter
  Word,       \* number of values of an unsigned long
  CBFLENGTH   \* number of counters of a bitmap

ASSUME PrefixesAssumption ==
  /\ Prefixes \in [CD -> SUBSET CD]
  /\ \A c \in CD : c \in Prefixes[c]
  /\ \A c, d, e \in CD : c \in Prefixes[d] /\ d \in Prefixes[e] => c \in Prefixes[e]

ASSUME LengthAssumption ==
  /\ Length \in [CD -> Nat]
  /\ \A c, d \in CD : c \in Prefixes[d] /\ c # d => Length[c] < Length[d]

ASSUME HashAssumption ==
  /\ MD5ID \in [CD -> Nat]
  /\ HashCode \in Seq(Nat)
  /\ Word \in Nat \ {0}
  /\ CBFLENGTH \in Nat \ {0}

VARIABLES
  cdsList,    \* the list of each face, as a set
  bitmap,     \* the counters of each face
  requested,  \* history: the names for which addSTItem was called, per face
  forwarded   \* history: the names for which addSTItem returned true

vars == <<cdsList, bitmap, requested, forwarded>>

-----------------------------------------------------------------------------
Slots == 0 .. CBFLENGTH - 1

\* hashCode[i] * getMD5ID(c) in an unsigned long, reduced to a counter.
Index(c, i) == ((HashCode[i] * MD5ID[c]) % Word) % CBFLENGTH

\* The increments that the names of S make to counter b, one element for each.
Tokens(S, b) == {t \in S \X (1 .. Len(HashCode)) : Index(t[1], t[2]) = b}
Weight(S, b) == Cardinality(Tokens(S, b))

\* ResetBF is the loop's clamped decrements, for all the names of S.
ResetBFOnce(bm, S) ==    \* mutant: one decrement for a counter hit twice
  [b \in Slots |-> IF Weight(S, b) > 0 /\ bm[b] > 0 THEN bm[b] - 1 ELSE bm[b]]
ResetBFClear(bm, S) ==   \* mutant: clears the counters, as in a plain filter
  [b \in Slots |-> IF Weight(S, b) > 0 THEN 0 ELSE bm[b]]
ResetBF(bm, S) ==
  [b \in Slots |-> IF bm[b] > Weight(S, b) THEN bm[b] - Weight(S, b) ELSE 0]
SetBF(bm, c) == [b \in Slots |-> bm[b] + Weight({c}, b)]

\* bm counts the increments of the names of S and no others.
Counts(bm, S) == bm \in [Slots -> Nat] /\ \A b \in Slots : bm[b] = Weight(S, b)

InBF(bm, c) == \A i \in 1 .. Len(HashCode) : bm[Index(c, i)] # 0

-----------------------------------------------------------------------------
\* The value addSTItem returns: no face lists a prefix of c.
ForwardFlagRelated(c) == \* mutant: a listed child suppresses too
  \A f \in Face : \A d \in cdsList[f] : d \notin Prefixes[c] /\ c \notin Prefixes[d]
ForwardFlagEqual(c) ==   \* mutant: only an equal entry suppresses
  \A f \in Face : c \notin cdsList[f]
ForwardFlag(c) == \A f \in Face : cdsList[f] \cap Prefixes[c] = {}

\* The two tests of the walk over the list of the arrival face.
ChildrenLonger(f, c) == {d \in cdsList[f] : Length[d] > Length[c]} \* mutant
Children(f, c) == {d \in cdsList[f] : Length[d] > Length[c] /\ c \in Prefixes[d]}
Supers(f, c) == {d \in cdsList[f] : Length[d] <= Length[c] /\ d \in Prefixes[c]}

(***************************************************************************)
(* The walk erases children until it meets a super-entry, which stops it   *)
(* and keeps c out.  Where in the list that super-entry stands is left     *)
(* open: any part of the children may already have gone.                   *)
(***************************************************************************)
AddSTItem(f, c) ==
  \E erased \in SUBSET Children(f, c) :
    /\ Supers(f, c) = {} => erased = Children(f, c)
    /\ IF Supers(f, c) = {}
       THEN /\ cdsList' = [cdsList EXCEPT ![f] = (@ \ erased) \cup {c}]
            /\ bitmap' = [bitmap EXCEPT ![f] = SetBF(ResetBF(@, erased), c)]
       ELSE /\ cdsList' = [cdsList EXCEPT ![f] = @ \ erased]
            /\ bitmap' = [bitmap EXCEPT ![f] = ResetBF(@, erased)]

STFaceListExact(n) == {f \in Face : InBF(bitmap[f], n)}   \* mutant: no prefixes
\* The faces a publication of name n leaves by.
STFaceList(n) == {f \in Face : \E p \in Prefixes[n] : InBF(bitmap[f], p)}

-----------------------------------------------------------------------------
InitGarbage ==           \* mutant: a new STItem's counters are not set to zero
  /\ cdsList = [f \in Face |-> {}]
  /\ bitmap = [f \in Face |-> [b \in Slots |-> -1]]
  /\ requested = [f \in Face |-> {}]
  /\ forwarded = {}

Init ==
  /\ cdsList = [f \in Face |-> {}]
  /\ bitmap = [f \in Face |-> [b \in Slots |-> 0]]
  /\ requested = [f \in Face |-> {}]
  /\ forwarded = {}

\* A subscription for c arrives by face f.
Subscribe(f, c) ==
  /\ AddSTItem(f, c)
  /\ requested' = [requested EXCEPT ![f] = @ \cup {c}]
  /\ forwarded' = IF ForwardFlag(c) THEN forwarded \cup {c} ELSE forwarded

Next == \E f \in Face, c \in CD : Subscribe(f, c)

Spec == Init /\ [][Next]_vars

-----------------------------------------------------------------------------
(* Properties *)

\* The types of the state; the lists are finite and no counter is negative,
\* which the decrement of resetBF (Function.cpp:109) could make it.
TypeOK ==
  /\ cdsList \in [Face -> SUBSET CD]
  /\ bitmap \in [Face -> [Slots -> Nat]]
  /\ requested \in [Face -> SUBSET CD]
  /\ forwarded \in SUBSET CD
  /\ \A f \in Face : IsFiniteSet(cdsList[f])

\* No list holds two names of which one is a prefix of the other: this makes
\* the early stop of the walk (Router.cpp:74-83) harmless.
Antichain ==
  \A f \in Face : \A c, d \in cdsList[f] : c \in Prefixes[d] => c = d

\* After any sequence of insertions and erasures each counter is exactly the
\* number of hash positions of the listed names that fall on it: no decrement
\* is lost to the clamp, none is made for a name that was not counted.
BitmapExact == \A f \in Face : Counts(bitmap[f], cdsList[f])

\* Compacting the list changes nothing for publications: a name has a listed
\* prefix on a face exactly when a prefix of it was once requested there.
ListRepresentsRequests ==
  \A f \in Face, n \in CD :
    (Prefixes[n] \cap requested[f] = {}) <=> (Prefixes[n] \cap cdsList[f] = {})

\* Whatever order nested requests come in, the list of a face holds just those
\* requested names of which no shorter prefix was requested: what the walk
\* of Router.cpp:63-89 is for.  No name is lost, none is kept for nothing.
ListsMinimal ==
  \A f \in Face : cdsList[f] = {c \in requested[f] : Prefixes[c] \cap requested[f] = {c}}

\* A publication of n leaves by every face through which some prefix of n
\* was ever requested, although only the bitmaps are read: the filter, which
\* shares counters between names and is decremented, has no false negative.
NoFalseNegative ==
  \A f \in Face, n \in CD :
    Prefixes[n] \cap requested[f] # {} => f \in STFaceList(n)

\* Every request, whatever face it came by, is covered by a prefix that was
\* sent upstream: suppression never hides a subscriber from the publishers.
RequestsReachUpstream ==
  \A f \in Face : \A c \in requested[f] : Prefixes[c] \cap forwarded # {}

\* Once a prefix of c went upstream, c never does, not even after the entry
\* that went was erased from its list in favour of a shorter one.
UpstreamAskedOnce ==
  \A c \in CD : ForwardFlag(c) => Prefixes[c] \cap forwarded = {}

\* The table keeps the promises of SubscriptionService: computed from lists
\* that were compacted and counters that are shared, the decision to forward
\* is the one the uncompacted requests would give, and no face is left out.
Service == INSTANCE SubscriptionService WITH routes <- [n \in CD |-> STFaceList(n)]
ImplementsService == Service!ServiceSpec

=============================================================================
