----------------------- MODULE RendezvousRouterProofs -----------------------
(***************************************************************************)
(* Proofs about the ST table and about the rendezvous router that keeps    *)
(* one: for any set of names, any prefix relation that is reflexive,       *)
(* transitive and shortening, any hash function, any number of counters,   *)
(* any faces and any FIB.  The first part is about the table alone         *)
(* (SubscriptionTable); the second about the router, each handler of which *)
(* preserves the invariant of its table.                                   *)
(***************************************************************************)
EXTENDS RendezvousRouter, FiniteSetTheorems, WellFoundedInduction, TLAPS

-----------------------------------------------------------------------------
(* The weight of a set of names on a counter. *)

\* Index selects a counter of the bitmap (the "% CBFLENGTH" of setBF).
LEMMA IndexInSlots ==
  ASSUME NEW c \in CD, NEW i \in 1 .. Len(HashCode)
  PROVE  Index(c, i) \in Slots
<1>1. HashCode[i] \in Nat /\ MD5ID[c] \in Nat
  BY HashAssumption
<1> DEFINE x == HashCode[i] * MD5ID[c]
<1>2. x \in Nat
  BY <1>1
<1> HIDE DEF x
<1>3. x % Word \in Nat
  BY <1>2, HashAssumption
<1> DEFINE y == x % Word
<1>4. y \in Nat
  BY <1>3
<1> HIDE DEF y
<1>5. y % CBFLENGTH \in 0 .. CBFLENGTH - 1
  BY <1>4, HashAssumption
<1> QED
  BY <1>5 DEF Index, Slots, x, y

\* Finitely many names make finitely many increments.
LEMMA TokensFinite ==
  ASSUME NEW S, IsFiniteSet(S), NEW b
  PROVE  IsFiniteSet(Tokens(S, b)) /\ Weight(S, b) \in Nat
<1>1. Len(HashCode) \in Nat
  BY HashAssumption
<1>2. IsFiniteSet(1 .. Len(HashCode))
  BY <1>1, FS_Interval
<1>3. IsFiniteSet(S \X (1 .. Len(HashCode)))
  BY <1>2, FS_Product
<1>4. Tokens(S, b) \in SUBSET (S \X (1 .. Len(HashCode)))
  BY DEF Tokens
<1>5. IsFiniteSet(Tokens(S, b))
  BY <1>3, <1>4, FS_Subset
<1> QED
  BY <1>5, FS_CardinalityType DEF Weight

\* Disjoint sets of names add up.
LEMMA WeightUnion ==
  ASSUME NEW S, IsFiniteSet(S), NEW T, IsFiniteSet(T), S \cap T = {}, NEW b
  PROVE  Weight(S \cup T, b) = Weight(S, b) + Weight(T, b)
<1>1. IsFiniteSet(Tokens(S, b)) /\ IsFiniteSet(Tokens(T, b))
  BY TokensFinite
<1>2. Tokens(S \cup T, b) = Tokens(S, b) \cup Tokens(T, b)
  BY DEF Tokens
<1>3. Tokens(S, b) \cap Tokens(T, b) = {}
  BY DEF Tokens
<1>4. Cardinality(Tokens(S, b) \cap Tokens(T, b)) = 0
  BY <1>3, FS_EmptySet
<1>5. Weight(S, b) \in Nat /\ Weight(T, b) \in Nat
  BY TokensFinite
<1>6. Cardinality(Tokens(S, b) \cup Tokens(T, b))
        = Cardinality(Tokens(S, b)) + Cardinality(Tokens(T, b))
            - Cardinality(Tokens(S, b) \cap Tokens(T, b))
  BY <1>1, FS_Union, Zenon
<1>7. Weight(S \cup T, b) = Weight(S, b) + Weight(T, b) - 0
  BY <1>2, <1>4, <1>6, Zenon DEF Weight
<1> QED
  BY <1>5, <1>7

\* Taking names out of a list takes out exactly their increments.
LEMMA WeightErase ==
  ASSUME NEW S, IsFiniteSet(S), NEW E \in SUBSET S, NEW b
  PROVE  /\ Weight(S \ E, b) \in Nat
         /\ Weight(E, b) \in Nat
         /\ Weight(S, b) = Weight(S \ E, b) + Weight(E, b)
<1>1. IsFiniteSet(E) /\ IsFiniteSet(S \ E)
  BY FS_Subset, S \ E \in SUBSET S
<1>2. (S \ E) \cup E = S /\ (S \ E) \cap E = {}
  OBVIOUS
<1>3. Weight((S \ E) \cup E, b) = Weight(S \ E, b) + Weight(E, b)
  BY <1>1, <1>2, WeightUnion
<1> QED
  BY <1>1, <1>2, <1>3, TokensFinite

-----------------------------------------------------------------------------
(* One call of addSTItem. *)

\* The part of the invariant that is about the table alone.
TableInv ==
  /\ cdsList \in [Face -> SUBSET CD]
  /\ bitmap \in [Face -> [Slots -> Nat]]
  /\ \A f \in Face : IsFiniteSet(cdsList[f])
  /\ Antichain
  /\ BitmapExact

\* Decrementing an exact bitmap for erased names leaves it exact.
LEMMA ResetBFExact ==
  ASSUME NEW bm, NEW S, NEW E,
         IsFiniteSet(S), E \in SUBSET S, Counts(bm, S)
  PROVE  Counts(ResetBF(bm, E), S \ E)
<1>1. ASSUME NEW b \in Slots
      PROVE  ResetBF(bm, E)[b] = Weight(S \ E, b) /\ Weight(S \ E, b) \in Nat
  <2>1. /\ Weight(S \ E, b) \in Nat
        /\ Weight(E, b) \in Nat
        /\ Weight(S, b) = Weight(S \ E, b) + Weight(E, b)
    BY WeightErase
  <2>2. ResetBF(bm, E)[b]
          = IF bm[b] > Weight(E, b) THEN bm[b] - Weight(E, b) ELSE 0
    BY DEF ResetBF
  <2>3. bm[b] = Weight(S, b)
    BY DEF Counts
  <2> QED
    BY <2>1, <2>2, <2>3
<1>2. \A b \in Slots : ResetBF(bm, E)[b] \in Nat
  BY <1>1
<1>3. ResetBF(bm, E) \in [Slots -> Nat]
  BY <1>2 DEF ResetBF
<1> QED
  BY <1>1, <1>3 DEF Counts

\* Incrementing an exact bitmap for a name not listed leaves it exact.
LEMMA SetBFExact ==
  ASSUME NEW bm, NEW S, NEW c,
         IsFiniteSet(S), c \notin S, Counts(bm, S)
  PROVE  Counts(SetBF(bm, c), S \cup {c})
<1>1. IsFiniteSet({c}) /\ S \cap {c} = {}
  BY FS_Singleton
<1>2. ASSUME NEW b \in Slots
      PROVE  SetBF(bm, c)[b] = Weight(S \cup {c}, b) /\ SetBF(bm, c)[b] \in Nat
  <2>1. Weight(S \cup {c}, b) = Weight(S, b) + Weight({c}, b)
    BY <1>1, WeightUnion
  <2>2. Weight(S, b) \in Nat /\ Weight({c}, b) \in Nat
    BY <1>1, TokensFinite
  <2>3. SetBF(bm, c)[b] = bm[b] + Weight({c}, b)
    BY DEF SetBF
  <2>4. bm[b] = Weight(S, b)
    BY DEF Counts
  <2> QED
    BY <2>1, <2>2, <2>3, <2>4
<1>3. SetBF(bm, c) \in [Slots -> Nat]
  BY <1>2 DEF SetBF
<1> QED
  BY <1>2, <1>3 DEF Counts

\* addSTItem keeps the table's invariant; it touches the arrival face only,
\* adds nothing but c, and whatever was listed, and c, keeps a listed prefix.
LEMMA AddSTItemStep ==
  ASSUME TableInv, NEW f \in Face, NEW c \in CD, AddSTItem(f, c)
  PROVE  /\ TableInv'
         /\ \A g \in Face \ {f} : cdsList'[g] = cdsList[g]
         /\ cdsList'[f] \subseteq cdsList[f] \cup {c}
         /\ \A d \in cdsList[f] \cup {c} : Prefixes[d] \cap cdsList'[f] # {}
<1> USE DEF TableInv
<1>1. PICK E \in SUBSET Children(f, c) :
        /\ Supers(f, c) = {} => E = Children(f, c)
        /\ IF Supers(f, c) = {}
           THEN /\ cdsList' = [cdsList EXCEPT ![f] = (@ \ E) \cup {c}]
                /\ bitmap' = [bitmap EXCEPT ![f] = SetBF(ResetBF(@, E), c)]
           ELSE /\ cdsList' = [cdsList EXCEPT ![f] = @ \ E]
                /\ bitmap' = [bitmap EXCEPT ![f] = ResetBF(@, E)]
  BY DEF AddSTItem
<1> DEFINE S == cdsList[f]
<1>2. S \in SUBSET CD /\ IsFiniteSet(S) /\ E \in SUBSET S
  BY DEF Children
<1>3. IsFiniteSet(S \ E)
  BY <1>2, FS_Subset, S \ E \in SUBSET S
<1>4. Counts(bitmap[f], S)
  BY DEF BitmapExact
<1>5. Counts(ResetBF(bitmap[f], E), S \ E)
  BY <1>2, <1>4, ResetBFExact
<1>6. CASE Supers(f, c) = {}
  <2>1. /\ E = Children(f, c)
        /\ cdsList' = [cdsList EXCEPT ![f] = (S \ E) \cup {c}]
        /\ bitmap' = [bitmap EXCEPT ![f] = SetBF(ResetBF(bitmap[f], E), c)]
    BY <1>1, <1>6
  <2>2. \A d \in S : d \notin Prefixes[c]
    <3> SUFFICES ASSUME NEW d \in S, d \in Prefixes[c]
                 PROVE  FALSE
      OBVIOUS
    <3>1. d = c \/ Length[d] < Length[c]
      BY <1>2, LengthAssumption
    <3>2. Length[d] <= Length[c]
      BY <3>1, <1>2, LengthAssumption
    <3> QED
      BY <3>2, <1>6 DEF Supers
  <2>3. \A d \in S \ E : c \notin Prefixes[d]
    <3> SUFFICES ASSUME NEW d \in S, c \in Prefixes[d]
                 PROVE  d \in E
      OBVIOUS
    <3>1. d # c
      BY <2>2, PrefixesAssumption
    <3>2. Length[c] < Length[d]
      BY <3>1, <1>2, LengthAssumption
    <3> QED
      BY <3>2, <2>1, <1>2, LengthAssumption DEF Children
  <2>4. c \notin S \ E
    BY <2>2, PrefixesAssumption
  <2>5. cdsList'[f] = (S \ E) \cup {c} /\ IsFiniteSet(cdsList'[f])
    BY <2>1, <1>3, FS_AddElement
  <2>6. Counts(SetBF(ResetBF(bitmap[f], E), c), (S \ E) \cup {c})
    BY <1>3, <1>5, <2>4, SetBFExact
  <2>7. Antichain'
    BY <2>1, <2>2, <2>3 DEF Antichain
  <2>8. BitmapExact'
    BY <2>1, <2>5, <2>6 DEF BitmapExact
  <2>9. TableInv'
    BY <2>1, <2>5, <2>6, <2>7, <2>8, <1>2 DEF Counts
  <2>10. ASSUME NEW d \in S \cup {c}
         PROVE  Prefixes[d] \cap cdsList'[f] # {}
    <3>1. CASE d \in E
      BY <3>1, <2>1, <2>5 DEF Children
    <3>2. CASE d \notin E
      BY <3>2, <2>5, <1>2, PrefixesAssumption
    <3> QED
      BY <3>1, <3>2
  <2> QED
    BY <2>1, <2>5, <2>9, <2>10
<1>7. CASE Supers(f, c) # {}
  <2>1. /\ cdsList' = [cdsList EXCEPT ![f] = S \ E]
        /\ bitmap' = [bitmap EXCEPT ![f] = ResetBF(bitmap[f], E)]
    BY <1>1, <1>7
  <2>2. Antichain' /\ BitmapExact'
    BY <2>1, <1>5 DEF Antichain, BitmapExact
  <2>3. TableInv'
    BY <2>1, <2>2, <1>2, <1>3, <1>5 DEF Counts
  <2>4. PICK s \in S : Length[s] <= Length[c] /\ s \in Prefixes[c]
    BY <1>7 DEF Supers
  <2>5. s \in cdsList'[f]
    BY <2>1, <2>4, <1>2, LengthAssumption DEF Children
  <2>6. ASSUME NEW d \in S \cup {c}
        PROVE  Prefixes[d] \cap cdsList'[f] # {}
    <3>1. CASE d \in E
      <4>1. c \in Prefixes[d]
        BY <3>1 DEF Children
      <4>2. s \in Prefixes[d]
        BY <4>1, <2>4, <1>2, PrefixesAssumption
      <4> QED
        BY <4>2, <2>5
    <3>2. CASE d = c
      BY <3>2, <2>4, <2>5
    <3>3. CASE d \in S \ E
      BY <3>3, <2>1, <1>2, PrefixesAssumption
    <3> QED
      BY <3>1, <3>2, <3>3
  <2> QED
    BY <2>1, <2>3, <2>6
<1> QED
  BY <1>6, <1>7

\* No names, no increments.
LEMMA CountsEmpty == Counts([b \in Slots |-> 0], {})
<1>1. ASSUME NEW b \in Slots
      PROVE  Weight({}, b) = 0
  <2>1. Tokens({}, b) = {}
    BY DEF Tokens
  <2> QED
    BY <2>1, FS_EmptySet DEF Weight
<1> QED
  BY <1>1 DEF Counts

\* A listed name is in the filter: each of its positions was incremented.
LEMMA ListedInBF ==
  ASSUME NEW bm, NEW S \in SUBSET CD, NEW p \in S, IsFiniteSet(S), Counts(bm, S)
  PROVE  InBF(bm, p)
<1> SUFFICES ASSUME NEW i \in 1 .. Len(HashCode)
             PROVE  bm[Index(p, i)] # 0
  BY DEF InBF
<1> DEFINE b == Index(p, i)
<1>1. b \in Slots
  BY IndexInSlots
<1>2. <<p, i>> \in Tokens(S, b)
  BY DEF Tokens
<1> HIDE DEF b
<1>3. IsFiniteSet(Tokens(S, b))
  BY TokensFinite
<1>4. Weight(S, b) # 0
  BY <1>2, <1>3, FS_EmptySet DEF Weight
<1> QED
  BY <1>1, <1>4 DEF Counts, b

-----------------------------------------------------------------------------
(* The invariant of the table and of its two histories. *)

\* What was listed was requested, and what was requested, or sent upstream,
\* still has a listed prefix: erasing a name always leaves a shorter one.
HistoryInv ==
  /\ requested \in [Face -> SUBSET CD]
  /\ forwarded \in SUBSET CD
  /\ \A f \in Face : cdsList[f] \subseteq requested[f]
  /\ \A f \in Face : \A c \in requested[f] : Prefixes[c] \cap cdsList[f] # {}
  /\ \A p \in forwarded : \E f \in Face : Prefixes[p] \cap cdsList[f] # {}
  /\ RequestsReachUpstream

IInv == TableInv /\ HistoryInv

\* The empty table satisfies the invariant.
LEMMA InitIInv == Init => IInv
<1> SUFFICES ASSUME Init
             PROVE  IInv
  OBVIOUS
<1>1. \A f \in Face : Counts(bitmap[f], cdsList[f])
  BY CountsEmpty DEF Init
<1>2. TableInv
  BY <1>1, FS_EmptySet DEF Init, TableInv, Antichain, BitmapExact, Counts
<1>3. HistoryInv
  BY DEF Init, HistoryInv, RequestsReachUpstream
<1> QED
  BY <1>2, <1>3 DEF IInv

\* A subscription, whatever it erases or inserts, preserves the invariant.
LEMMA NextIInv == IInv /\ [Next]_vars => IInv'
<1> SUFFICES ASSUME IInv, [Next]_vars
             PROVE  IInv'
  OBVIOUS
<1>1. CASE UNCHANGED vars
  BY <1>1 DEF vars, IInv, TableInv, HistoryInv, Antichain, BitmapExact,
              RequestsReachUpstream
<1>2. ASSUME NEW f \in Face, NEW c \in CD, Subscribe(f, c)
      PROVE  IInv'
  <2>1. /\ TableInv'
        /\ \A g \in Face \ {f} : cdsList'[g] = cdsList[g]
        /\ cdsList'[f] \subseteq cdsList[f] \cup {c}
        /\ \A d \in cdsList[f] \cup {c} : Prefixes[d] \cap cdsList'[f] # {}
    BY <1>2, AddSTItemStep DEF Subscribe, IInv
  <2>2. /\ requested' = [requested EXCEPT ![f] = @ \cup {c}]
        /\ forwarded' = IF ForwardFlag(c) THEN forwarded \cup {c} ELSE forwarded
    BY <1>2 DEF Subscribe
  <2>3. /\ cdsList \in [Face -> SUBSET CD]
        /\ cdsList' \in [Face -> SUBSET CD]
        /\ requested \in [Face -> SUBSET CD]
        /\ forwarded \in SUBSET CD
    BY <2>1 DEF IInv, TableInv, HistoryInv
  \* a name with a listed prefix on a face still has one there
  <2>4. ASSUME NEW g \in Face, NEW d \in CD, Prefixes[d] \cap cdsList[g] # {}
        PROVE  Prefixes[d] \cap cdsList'[g] # {}
    <3>1. CASE g # f
      BY <3>1, <2>1, <2>4
    <3>2. CASE g = f
      <4>1. PICK e \in cdsList[f] : e \in Prefixes[d]
        BY <2>4, <3>2
      <4>2. PICK q \in cdsList'[f] : q \in Prefixes[e]
        BY <2>1
      <4>3. q \in Prefixes[d]
        BY <4>1, <4>2, <2>3, PrefixesAssumption
      <4> QED
        BY <4>2, <4>3, <3>2
    <3> QED
      BY <3>1, <3>2
  <2>5. requested' \in [Face -> SUBSET CD] /\ forwarded' \in SUBSET CD
    BY <2>2, <2>3
  <2>6. ASSUME NEW g \in Face
        PROVE  cdsList'[g] \subseteq requested'[g]
    BY <2>1, <2>2, <2>3 DEF IInv, HistoryInv
  <2>7. ASSUME NEW g \in Face, NEW d \in requested'[g]
        PROVE  Prefixes[d] \cap cdsList'[g] # {}
    <3>1. CASE d \in requested[g]
      BY <3>1, <2>3, <2>4 DEF IInv, HistoryInv
    <3>2. CASE g = f /\ d = c
      BY <3>2, <2>1
    <3> QED
      BY <3>1, <3>2, <2>2, <2>3
  <2>8. ASSUME NEW p \in forwarded'
        PROVE  \E g \in Face : Prefixes[p] \cap cdsList'[g] # {}
    <3>1. CASE p \in forwarded
      BY <3>1, <2>3, <2>4 DEF IInv, HistoryInv
    <3>2. CASE p = c
      BY <3>2, <2>1
    <3> QED
      BY <3>1, <3>2, <2>2
  <2>9. RequestsReachUpstream'
    <3> SUFFICES ASSUME NEW g \in Face, NEW d \in requested'[g]
                 PROVE  Prefixes[d] \cap forwarded' # {}
      BY DEF RequestsReachUpstream
    <3>1. CASE d \in requested[g]
      BY <3>1, <2>2 DEF IInv, HistoryInv, RequestsReachUpstream
    <3>2. CASE d = c /\ ForwardFlag(c)
      BY <3>2, <2>2, PrefixesAssumption
    <3>3. CASE d = c /\ ~ForwardFlag(c)
      <4>1. PICK h \in Face : cdsList[h] \cap Prefixes[c] # {}
        BY <3>3 DEF ForwardFlag
      <4>2. PICK e \in requested[h] : e \in Prefixes[c]
        BY <4>1 DEF IInv, HistoryInv
      <4>3. PICK q \in forwarded : q \in Prefixes[e]
        BY <4>2 DEF IInv, HistoryInv, RequestsReachUpstream
      <4>4. q \in Prefixes[c]
        BY <4>2, <4>3, <2>3, PrefixesAssumption
      <4> QED
        BY <4>3, <4>4, <3>3, <2>2
    <3> QED
      BY <3>1, <3>2, <3>3, <2>2, <2>3
  <2>10. HistoryInv'
    BY <2>5, <2>6, <2>7, <2>8, <2>9 DEF HistoryInv
  <2> QED
    BY <2>1, <2>10 DEF IInv
<1> QED
  BY <1>1, <1>2 DEF Next

\* The invariant holds in every state of every table.
THEOREM TableIInv == Spec => []IInv
<1>1. Init => IInv
  BY InitIInv
<1>2. IInv /\ [Next]_vars => IInv'
  BY NextIInv
<1> QED
  BY <1>1, <1>2, PTL DEF Spec

-----------------------------------------------------------------------------
(* The properties. *)

\* A name has a listed prefix on a face iff it has a requested one.
LEMMA IInvLists == IInv => ListRepresentsRequests
<1> SUFFICES ASSUME IInv, NEW f \in Face, NEW n \in CD
             PROVE  (Prefixes[n] \cap requested[f] = {})
                      <=> (Prefixes[n] \cap cdsList[f] = {})
  BY DEF ListRepresentsRequests
<1>1. ASSUME NEW c \in requested[f], c \in Prefixes[n]
      PROVE  Prefixes[n] \cap cdsList[f] # {}
  <2>1. requested[f] \in SUBSET CD /\ cdsList[f] \in SUBSET CD
    BY DEF IInv, HistoryInv, TableInv
  <2>2. PICK q \in cdsList[f] : q \in Prefixes[c]
    BY <1>1 DEF IInv, HistoryInv
  <2> QED
    BY <1>1, <2>1, <2>2, PrefixesAssumption
<1> QED
  BY <1>1 DEF IInv, HistoryInv

\* The lists are minimal.
LEMMA IInvMinimal == IInv => ListsMinimal
<1> SUFFICES ASSUME IInv, NEW f \in Face
             PROVE  cdsList[f] = {c \in requested[f] : Prefixes[c] \cap requested[f] = {c}}
  BY DEF ListsMinimal
<1>1. /\ requested[f] \in SUBSET CD /\ cdsList[f] \subseteq requested[f]
      /\ \A c \in requested[f] : Prefixes[c] \cap cdsList[f] # {}
      /\ \A c, d \in cdsList[f] : c \in Prefixes[d] => c = d
  BY DEF IInv, HistoryInv, TableInv, Antichain
<1>2. ASSUME NEW c \in cdsList[f], NEW d \in requested[f], d \in Prefixes[c]
      PROVE  d = c
  <2>1. c \in CD /\ d \in CD
    BY <1>1
  <2>2. PICK e \in cdsList[f] : e \in Prefixes[d]
    BY <1>1
  <2>3. e \in CD /\ e \in Prefixes[c]
    BY <1>1, <1>2, <2>1, <2>2, PrefixesAssumption
  <2>4. e = c
    BY <1>1, <2>3
  <2>5. c \in Prefixes[d]
    BY <2>2, <2>4
  <2> QED BY <1>2, <2>1, <2>5, LengthAssumption
<1>3. ASSUME NEW c \in requested[f], Prefixes[c] \cap requested[f] = {c}
      PROVE  c \in cdsList[f]
  <2>1. PICK e \in cdsList[f] : e \in Prefixes[c]
    BY <1>1
  <2>2. e = c
    BY <1>1, <1>3, <2>1
  <2> QED BY <2>1, <2>2
<1>4. \A c \in cdsList[f] : c \in requested[f] /\ c \in Prefixes[c]
  BY <1>1, PrefixesAssumption
<1> QED BY <1>2, <1>3, <1>4

\* The filter answers yes for every face with a requested prefix.
LEMMA IInvNoFalseNegative == IInv => NoFalseNegative
<1> SUFFICES ASSUME IInv, NEW f \in Face, NEW n \in CD,
                    Prefixes[n] \cap requested[f] # {}
             PROVE  f \in STFaceList(n)
  BY DEF NoFalseNegative
<1>1. PICK p \in cdsList[f] : p \in Prefixes[n]
  BY IInvLists DEF ListRepresentsRequests
<1>2. cdsList[f] \in SUBSET CD /\ IsFiniteSet(cdsList[f])
  BY DEF IInv, TableInv
<1>3. Counts(bitmap[f], cdsList[f])
  BY DEF IInv, TableInv, BitmapExact
<1>4. InBF(bitmap[f], p)
  BY <1>2, <1>3, ListedInBF
<1> QED
  BY <1>1, <1>4 DEF STFaceList

\* A name that would go upstream has no prefix that went.
LEMMA IInvAskedOnce == IInv => UpstreamAskedOnce
<1> SUFFICES ASSUME IInv, NEW c \in CD, ForwardFlag(c),
                    NEW p \in forwarded, p \in Prefixes[c]
             PROVE  FALSE
  BY DEF UpstreamAskedOnce
<1>1. PICK f \in Face : Prefixes[p] \cap cdsList[f] # {}
  BY DEF IInv, HistoryInv
<1>2. PICK q \in cdsList[f] : q \in Prefixes[p]
  BY <1>1
<1>3. q \in Prefixes[c]
  BY <1>2, PrefixesAssumption DEF IInv, HistoryInv, TableInv
<1> QED
  BY <1>2, <1>3 DEF ForwardFlag

\* Type correctness: the lists stay finite sets of names and no counter of a
\* bitmap (the decrement of Function.cpp:109) ever goes below zero.
THEOREM TypeCorrect == Spec => []TypeOK
<1>1. IInv => TypeOK
  BY DEF IInv, TableInv, HistoryInv, TypeOK
<1> QED
  BY <1>1, TableIInv, PTL

\* The lists are antichains of the prefix order (Router.cpp:63-84) and every
\* counter is the exact number of increments of the listed names.
THEOREM TableCorrect == Spec => [](Antichain /\ BitmapExact)
<1>1. IInv => Antichain /\ BitmapExact
  BY DEF IInv, TableInv
<1> QED
  BY <1>1, TableIInv, PTL

\* Compaction keeps just the names that others do not make redundant, and is
\* invisible to publications (Router.cpp:62-89).
THEOREM CompactionCorrect == Spec => [](ListsMinimal /\ ListRepresentsRequests)
<1>1. IInv => ListsMinimal /\ ListRepresentsRequests
  BY IInvMinimal, IInvLists
<1> QED
  BY <1>1, TableIInv, PTL

\* getSTFaceList, which reads only the bitmaps, returns every face through
\* which a prefix of the publication's name was ever requested.
THEOREM RoutingComplete == Spec => []NoFalseNegative
BY IInvNoFalseNegative, TableIInv, PTL

\* The value addSTItem returns is safe, since every request is covered by one
\* that went upstream, and economical, since none goes under one that went.
THEOREM SuppressionCorrect == Spec => [](RequestsReachUpstream /\ UpstreamAskedOnce)
<1>1. IInv => RequestsReachUpstream /\ UpstreamAskedOnce
  BY IInvAskedOnce DEF IInv, HistoryInv
<1> QED
  BY <1>1, TableIInv, PTL

-----------------------------------------------------------------------------
(* The refinement. *)

\* In a state of the invariant the routes cover the requests.
LEMMA IInvRoutes == IInv => Service!RoutesCover
<1> SUFFICES ASSUME IInv, NEW n \in CD
             PROVE  Service!Wanted(n) \subseteq STFaceList(n)
  BY DEF Service!RoutesCover
<1> QED
  BY IInvNoFalseNegative DEF NoFalseNegative, Service!Wanted

\* addSTItem decides as the requests themselves would.
LEMMA IInvForward ==
  ASSUME IInv, NEW c \in CD
  PROVE  ForwardFlag(c) <=> ~ Service!Covered(c)
BY IInvLists DEF ListRepresentsRequests, ForwardFlag, Service!Covered

\* The table, with its lists and filters, implements the service.
THEOREM TableImplementsService == Spec => ImplementsService
<1> DEFINE routes == [n \in CD |-> STFaceList(n)]
<1>1. Init => Service!ServiceInit
  BY InitIInv, IInvRoutes DEF Init, Service!ServiceInit
<1>2. IInv /\ IInv' /\ [Next]_vars
        => [Service!ServiceNext]_<<requested, forwarded, routes>>
  <2> SUFFICES ASSUME IInv, IInv', [Next]_vars
               PROVE  Service!ServiceNext \/ UNCHANGED <<requested, forwarded, routes>>
    OBVIOUS
  <2>1. CASE UNCHANGED vars
    BY <2>1 DEF vars, STFaceList
  <2>2. ASSUME NEW f \in Face, NEW c \in CD, Subscribe(f, c)
        PROVE  Service!Request(f, c)
    <3>1. Service!RoutesCover'
      BY IInvRoutes, PTL
    <3>2. forwarded' = IF Service!Covered(c) THEN forwarded ELSE forwarded \cup {c}
      BY <2>2, IInvForward DEF Subscribe
    <3> QED
      BY <2>2, <3>1, <3>2 DEF Subscribe, Service!Request
  <2> QED
    BY <2>1, <2>2 DEF Next, Service!ServiceNext
<1>3. IInv /\ [Next]_vars => IInv'
  BY NextIInv
<1> QED
  BY TableIInv, <1>1, <1>2, PTL DEF Spec, ImplementsService, Service!ServiceSpec

-----------------------------------------------------------------------------
(***************************************************************************)
(* The rendezvous router.                                                  *)
(***************************************************************************)

Members(c) == {f \in Face : c \in Names(faceGroupIps[f])}

\* A list that holds no name twice.
Distinct(list) == \A i, j \in DOMAIN list : list[i] = list[j] => i = j

\* A list that holds names of s in the order of s, none of them twice.
InOrder(list, s) ==
  \A k, l \in DOMAIN list, i, j \in DOMAIN s :
    k < l /\ list[k] = s[i] /\ list[l] = s[j] => i < j

\* The groups agree with each other and, face by face, with the ST table.
GroupInv ==
  /\ RTypeOK
  /\ MemberCountExact
  /\ Distinct(cdGroupIPRelation)
  /\ \A f \in Face : /\ Names(faceGroupIps[f]) \subseteq Names(cdGroupIPRelation)
                     /\ Distinct(faceGroupIps[f])
  /\ \A f \in EdgeFace : cdsList[f] \subseteq Names(faceGroupIps[f])
  /\ \A f \in Face \ EdgeFace : faceGroupIps[f] = <<>>

\* What was sent is what the tables say for the message just handled.
SentInv ==
  /\ QuitListsAgree
  /\ QuitPairsMatch
  /\ msg.type = "RPublish" /\ msg.rrot = Me => msg.cd \in CD /\ sent = Downlink(msg.cd)
  /\ msg.type = "Publish" =>
       msg.cd \in CD /\ sent = {PublishTo(g, msg.cd) : g \in STFaceList(msg.cd)}

RInv == IInv /\ GroupInv /\ SentInv

-----------------------------------------------------------------------------
(* Lists of names. *)

\* Among returns the names that are in both, and, if no name was there twice,
\* none twice and in the same order.
LEMMA AmongNames ==
  ASSUME NEW s \in Seq(CD), NEW T
  PROVE  /\ Among(s, T) \in Seq(CD)
         /\ Names(Among(s, T)) = Names(s) \cap T
         /\ Distinct(s) => Distinct(Among(s, T)) /\ InOrder(Among(s, T), s)
<1> DEFINE I == {i \in DOMAIN s : s[i] \in T}
           N == Cardinality(I)
           Upto(i) == {j \in I : j <= i}
           rank == [i \in I |-> Cardinality(Upto(i))]
           nth(k) == CHOOSE i \in I : Cardinality(Upto(i)) = k
<1>1. /\ Len(s) \in Nat /\ DOMAIN s = 1 .. Len(s)
      /\ \A i \in DOMAIN s : s[i] \in CD
  OBVIOUS
<1>2. I \subseteq Nat /\ IsFiniteSet(I) /\ N \in Nat
  <2>1. IsFiniteSet(1 .. Len(s))
    BY <1>1, FS_Interval
  <2>2. I \in SUBSET (1 .. Len(s))
    BY <1>1
  <2>3. IsFiniteSet(I)
    BY <2>1, <2>2, FS_Subset
  <2> QED BY <2>2, <2>3, FS_CardinalityType
<1>3. ASSUME NEW i \in I
      PROVE  IsFiniteSet(Upto(i)) /\ Cardinality(Upto(i)) \in 1 .. N
  <2>1. Upto(i) \in SUBSET I /\ i \in Upto(i)
    BY <1>2
  <2>2. IsFiniteSet(Upto(i)) /\ Cardinality(Upto(i)) <= N
    BY <1>2, <2>1, FS_Subset
  <2> HIDE DEF Upto
  <2>3. Cardinality(Upto(i)) \in Nat /\ Cardinality(Upto(i)) # 0
    BY <2>1, <2>2, FS_CardinalityType, FS_EmptySet
  <2> QED BY <1>2, <2>2, <2>3
<1>4. ASSUME NEW i \in I, NEW j \in I, i < j
      PROVE  Cardinality(Upto(i)) # Cardinality(Upto(j))
  <2>1. Upto(i) \in SUBSET Upto(j) /\ j \in Upto(j) /\ j \notin Upto(i)
    BY <1>2, <1>4
  <2> HIDE DEF Upto
  <2>2. Upto(i) # Upto(j)
    BY <2>1
  <2> QED BY <1>3, <2>1, <2>2, FS_Subset
<1>5. \A i, j \in I : Cardinality(Upto(i)) = Cardinality(Upto(j)) => i = j
  <2>1. \A i, j \in I : i < j \/ j < i \/ i = j
    BY <1>2
  <2> HIDE DEF I, Upto
  <2> QED BY <1>4, <2>1
<1> HIDE DEF N, Upto
<1>6. ASSUME NEW k \in 1 .. N
      PROVE  nth(k) \in I /\ Cardinality(Upto(nth(k))) = k
  <2> HIDE DEF I
  <2>1. rank \in [I -> 1 .. N]
    BY <1>3
  <2>2. \A i, j \in I : rank[i] = rank[j] => i = j
    BY <1>5
  <2>3. rank \in Injection(I, 1 .. N)
    BY <2>1, <2>2 DEF Injection, IsInjective
  <2>4. IsFiniteSet(1 .. N) /\ Cardinality(1 .. N) = N
    BY <1>2, FS_Interval
  <2>5. rank \in Surjection(I, 1 .. N)
    <3> HIDE DEF rank
    <3> DEFINE J == 1 .. N
    <3>1. IsFiniteSet(J) /\ Cardinality(I) = Cardinality(J) /\ rank \in Injection(I, J)
      BY <2>3, <2>4 DEF N
    <3> HIDE DEF J
    <3>2. rank \in Surjection(I, J)
      BY <3>1, FS_Injection
    <3> QED BY <3>2 DEF J
  <2>6. PICK i \in I : Cardinality(Upto(i)) = k
    BY <2>5 DEF Surjection
  <2> QED BY <2>6
<1> HIDE DEF nth
<1>7. Among(s, T) = [k \in 1 .. N |-> s[nth(k)]]
  BY DEF Among, N, nth, Upto
<1>8. Among(s, T) \in Seq(CD) /\ DOMAIN Among(s, T) = 1 .. N
  <2>1. \A k \in 1 .. N : s[nth(k)] \in CD
    BY <1>1, <1>6
  <2> HIDE DEF I
  <2> QED BY <1>2, <1>7, <2>1
<1>9. Names(Among(s, T)) = Names(s) \cap T
  <2>1. ASSUME NEW k \in 1 .. N PROVE Among(s, T)[k] \in Names(s) \cap T
    BY <1>6, <1>7 DEF Names
  <2>2. ASSUME NEW i \in DOMAIN s, s[i] \in T PROVE \E k \in 1 .. N : Among(s, T)[k] = s[i]
    <3> DEFINE k == Cardinality(Upto(i))
    <3>1. i \in I /\ k \in 1 .. N
      BY <1>3, <2>2
    <3>2. nth(k) = i
      BY <1>5, <1>6, <3>1
    <3>3. Among(s, T)[k] = s[i]
      BY <1>7, <3>1, <3>2
    <3> QED BY <3>1, <3>3
  <2> QED BY <1>8, <2>1, <2>2 DEF Names
<1>10. ASSUME Distinct(s) PROVE Distinct(Among(s, T))
  <2> SUFFICES ASSUME NEW k \in 1 .. N, NEW l \in 1 .. N, Among(s, T)[k] = Among(s, T)[l]
               PROVE  k = l
    BY <1>8 DEF Distinct
  <2>1. s[nth(k)] = s[nth(l)] /\ nth(k) \in DOMAIN s /\ nth(l) \in DOMAIN s
    BY <1>6, <1>7
  <2>2. nth(k) = nth(l)
    BY <1>10, <2>1 DEF Distinct
  <2> QED BY <1>6, <2>2
<1>11. ASSUME NEW k \in 1 .. N, NEW l \in 1 .. N, k < l PROVE nth(k) < nth(l)
  <2>1. nth(k) \in I /\ nth(l) \in I /\ nth(k) \in Nat /\ nth(l) \in Nat
    BY <1>2, <1>6
  <2>2. Cardinality(Upto(nth(k))) = k /\ Cardinality(Upto(nth(l))) = l
    BY <1>6
  <2>3. ~(nth(l) < nth(k)) /\ nth(l) # nth(k)
    <3>1. ASSUME NEW i \in I, NEW j \in I, i < j
          PROVE  Cardinality(Upto(i)) <= Cardinality(Upto(j))
      <4>1. Upto(i) \in SUBSET Upto(j)
        BY <1>2, <3>1 DEF Upto
      <4> QED BY <1>3, <4>1, FS_Subset
    <3>2. ~(l <= k) /\ l # k
      BY <1>2, <1>11
    <3> QED BY <2>1, <2>2, <3>1, <3>2
  <2> QED BY <2>1, <2>3
<1>12. ASSUME Distinct(s) PROVE InOrder(Among(s, T), s)
  <2> SUFFICES ASSUME NEW k \in 1 .. N, NEW l \in 1 .. N, NEW i \in DOMAIN s, NEW j \in DOMAIN s,
                      k < l, Among(s, T)[k] = s[i], Among(s, T)[l] = s[j]
               PROVE  i < j
    BY <1>8 DEF InOrder
  <2>1. s[nth(k)] = s[i] /\ s[nth(l)] = s[j] /\ nth(k) \in DOMAIN s /\ nth(l) \in DOMAIN s
    BY <1>6, <1>7
  <2>2. nth(k) = i /\ nth(l) = j
    BY <1>12, <2>1 DEF Distinct
  <2> QED BY <1>11, <2>2
<1> QED BY <1>8, <1>9, <1>10, <1>12

\* A name more at the end.
LEMMA AppendNames ==
  ASSUME NEW s \in Seq(CD), NEW c \in CD
  PROVE  /\ Append(s, c) \in Seq(CD)
         /\ Names(Append(s, c)) = Names(s) \cup {c}
         /\ Distinct(s) /\ c \notin Names(s) => Distinct(Append(s, c))
<1> DEFINE t == Append(s, c)
           n == Len(s)
<1>1. /\ n \in Nat /\ DOMAIN s = 1 .. n /\ DOMAIN t = 1 .. n + 1
      /\ t[n + 1] = c /\ \A i \in 1 .. n : t[i] = s[i]
      /\ t \in Seq(CD)
  OBVIOUS
<1> HIDE DEF t, n
<1>2. \A i \in 1 .. n + 1 : i \in 1 .. n \/ i = n + 1
  BY <1>1
<1>3. \A i \in 1 .. n : i \in 1 .. n + 1 /\ i # n + 1
  BY <1>1
<1>4. n + 1 \in 1 .. n + 1
  BY <1>1
<1>5. Names(t) = Names(s) \cup {c}
  BY <1>1, <1>2, <1>3, <1>4 DEF Names
<1>6. Distinct(s) /\ c \notin Names(s) => Distinct(t)
  BY <1>1, <1>2, <1>3 DEF Distinct, Names
<1> QED BY <1>1, <1>5, <1>6 DEF t

\* A list without repetitions is as long as it has names.
LEMMA LengthOfDistinct ==
  ASSUME NEW s \in Seq(CD), Distinct(s)
  PROVE  Len(s) = Cardinality(Names(s))
<1> DEFINE D == 1 .. Len(s)
           R == Names(s)
<1>1. Len(s) \in Nat /\ DOMAIN s = D /\ s \in [D -> R]
  BY DEF Names
<1>2. s \in Surjection(D, R)
  BY <1>1 DEF Surjection, Names
<1>3. s \in Injection(D, R)
  BY <1>1 DEF Injection, IsInjective, Distinct
<1>4. IsFiniteSet(D) /\ Cardinality(D) = Len(s)
  BY <1>1, FS_Interval
<1> HIDE DEF D, R
<1>5. Cardinality(R) = Cardinality(D)
  BY <1>2, <1>3, <1>4, FS_Surjection
<1> QED BY <1>4, <1>5 DEF R

\* There is only one list of given names in a given order.
LEMMA OneOrder ==
  ASSUME NEW s \in Seq(CD), NEW t \in Seq(CD), NEW u \in Seq(CD),
         Len(t) = Len(u), Names(t) = Names(u), Names(t) \subseteq Names(s),
         Distinct(t), Distinct(u), InOrder(t, s), InOrder(u, s)
  PROVE  t = u
<1> DEFINE N == Len(t)
           V == {k \in 1 .. N : t[k] # u[k]}
<1>1. N \in Nat /\ DOMAIN s \subseteq Nat /\ DOMAIN t = 1 .. N /\ DOMAIN u = 1 .. N
  OBVIOUS
<1>2. ASSUME V # {} PROVE FALSE
  <2>1. PICK k \in V : \A m \in V : k <= m
    <3>1. V \in SUBSET Nat /\ V # {}
      BY <1>1, <1>2
    <3> HIDE DEF V
    <3> DEFINE Less == OpToRel(<, Nat)
    <3>2. \A m, k \in Nat : m < k => <<m, k>> \in Less
      BY Zenon DEF OpToRel
    <3>3. IsWellFoundedOn(Less, Nat)
      BY NatLessThanWellFounded, Zenon
    <3> HIDE DEF Less
    <3>4. PICK k \in V : \A m \in V : ~(<<m, k>> \in Less)
      BY <3>1, <3>3, WFMin
    <3>5. ASSUME NEW m \in V PROVE k <= m
      <4>1. k \in Nat /\ m \in Nat
        BY <3>1
      <4>2. ~(m < k)
        BY <3>2, <3>4, <4>1, Zenon
      <4> QED BY <4>1, <4>2
    <3> QED BY <3>5
  <2>2. k \in 1 .. N /\ t[k] # u[k] /\ \A m \in 1 .. N : m < k => t[m] = u[m]
    BY <1>1, <2>1
  <2>3. \A m \in 1 .. N : t[m] \in Names(u) /\ u[m] \in Names(t) /\ t[m] \in Names(s) /\ u[m] \in Names(s)
    BY <1>1 DEF Names
  <2>4. PICK l \in 1 .. N : u[l] = t[k]
    BY <1>1, <2>2, <2>3 DEF Names
  <2>5. PICK m \in 1 .. N : t[m] = u[k]
    BY <1>1, <2>2, <2>3 DEF Names
  <2>6. PICK i \in DOMAIN s : s[i] = t[k]
    BY <2>2, <2>3 DEF Names
  <2>7. PICK j \in DOMAIN s : s[j] = u[k]
    BY <2>2, <2>3 DEF Names
  <2> HIDE DEF N, V
  <2>8. k < l
    <3>1. l < k => FALSE
      BY <1>1, <2>2, <2>4 DEF Distinct
    <3> QED BY <1>1, <2>2, <2>4, <3>1
  <2>9. k < m
    <3>1. m < k => FALSE
      BY <1>1, <2>2, <2>5 DEF Distinct
    <3> QED BY <1>1, <2>2, <2>5, <3>1
  <2>10. j < i
    BY <1>1, <2>2, <2>4, <2>6, <2>7, <2>8 DEF InOrder
  <2>11. i < j
    BY <1>1, <2>2, <2>5, <2>6, <2>7, <2>9 DEF InOrder
  <2> QED BY <1>1, <2>10, <2>11
<1>3. \A k \in 1 .. N : t[k] = u[k]
  BY <1>2
<1>4. t = [k \in 1 .. N |-> t[k]] /\ u = [k \in 1 .. N |-> u[k]]
  BY <1>1
<1> HIDE DEF N
<1> QED BY <1>3, <1>4

-----------------------------------------------------------------------------
(* Counting the members of a group. *)

\* The members of a group are a finite set of faces.
LEMMA MembersFinite ==
  ASSUME NEW g, NEW c
  PROVE  IsFiniteSet({f \in Face : c \in Names(g[f])})
BY RouterAssumption, FS_Subset, {f \in Face : c \in Names(g[f])} \in SUBSET Face

\* One face more, one member more.
LEMMA CountJoin ==
  ASSUME NEW S, NEW T, NEW f, IsFiniteSet(S), f \notin S, T = S \cup {f}
  PROVE  Cardinality(T) = Cardinality(S) + 1
BY FS_AddElement

\* One face less, one member less.
LEMMA CountQuit ==
  ASSUME NEW S, NEW T, NEW f, IsFiniteSet(S), f \in S, T = S \ {f}
  PROVE  Cardinality(T) = Cardinality(S) - 1
BY FS_RemoveElement

-----------------------------------------------------------------------------
(* One GroupIpRequest. *)

\* What the handler makes of the lists: the addresses to quit are those of
\* the names that leave the face's list, and c is the one that comes.
LEMMA GroupIpRequestLists ==
  ASSUME GroupInv, NEW f \in EdgeFace, NEW c \in CD, HandleGroupIpRequest(f, c)
  PROVE  LET quit == Names(faceGroupIps[f]) \cap Under(c)
         IN  /\ Names(QuitGroupCDs(f, c)) = quit
             /\ Names(QuitGroupIPs(f, c)) = quit
             /\ Len(QuitGroupIPs(f, c)) = Len(QuitGroupCDs(f, c))
             /\ faceGroupIps' \in [Face -> Seq(CD)]
             /\ Names(faceGroupIps'[f]) = (Names(faceGroupIps[f]) \ quit) \cup {c}
             /\ \A g \in Face : g # f => faceGroupIps'[g] = faceGroupIps[g]
             /\ \A g \in Face : Distinct(faceGroupIps'[g])
             /\ cdGroupIPRelation' \in Seq(CD)
             /\ Names(cdGroupIPRelation') = Names(cdGroupIPRelation) \cup {c}
             /\ Distinct(cdGroupIPRelation')
<1> DEFINE list == faceGroupIps[f]
           kept == Among(list, CD \ Under(c))
           relation == cdGroupIPRelation
           quit == Names(list) \cap Under(c)
<1>1. /\ f \in Face /\ faceGroupIps \in [Face -> Seq(CD)] /\ list \in Seq(CD)
      /\ relation \in Seq(CD) /\ Distinct(relation) /\ Distinct(list)
      /\ Names(list) \subseteq Names(relation)
      /\ \A g \in Face : Distinct(faceGroupIps[g])
  BY RouterAssumption DEF GroupInv, RTypeOK
<1>2. /\ QuitGroupCDs(f, c) \in Seq(CD)
      /\ Names(QuitGroupCDs(f, c)) = quit
      /\ Distinct(QuitGroupCDs(f, c))
  BY <1>1, AmongNames DEF QuitGroupCDs
<1>3. /\ QuitGroupIPs(f, c) \in Seq(CD)
      /\ Names(QuitGroupIPs(f, c)) = Names(relation) \cap quit
      /\ Distinct(QuitGroupIPs(f, c))
  BY <1>1, <1>2, AmongNames DEF QuitGroupIPs
<1>4. Names(QuitGroupIPs(f, c)) = quit
  BY <1>1, <1>3
<1>5. Len(QuitGroupIPs(f, c)) = Len(QuitGroupCDs(f, c))
  BY <1>2, <1>3, <1>4, LengthOfDistinct
<1>6. kept \in Seq(CD) /\ Names(kept) = Names(list) \cap (CD \ Under(c)) /\ Distinct(kept)
  BY <1>1, AmongNames
<1>7. Names(list) \subseteq CD
  BY <1>1 DEF Names
<1>8. c \in Under(c)
  BY PrefixesAssumption DEF Under
<1> HIDE DEF list, kept, relation
<1>9. c \notin Names(kept) /\ Names(kept) = Names(list) \ quit
  BY <1>6, <1>7, <1>8
<1>10. /\ Append(kept, c) \in Seq(CD)
       /\ Names(Append(kept, c)) = (Names(list) \ quit) \cup {c}
       /\ Distinct(Append(kept, c))
  BY <1>6, <1>9, AppendNames
<1>11. faceGroupIps' = [faceGroupIps EXCEPT ![f] = Append(kept, c)]
  BY DEF HandleGroupIpRequest, Join, kept, list
<1>12. /\ faceGroupIps' \in [Face -> Seq(CD)]
       /\ faceGroupIps'[f] = Append(kept, c)
       /\ \A g \in Face : g # f => faceGroupIps'[g] = faceGroupIps[g]
  BY <1>1, <1>10, <1>11
<1>13. \A g \in Face : Distinct(faceGroupIps'[g])
  BY <1>1, <1>10, <1>12
<1>14. /\ cdGroupIPRelation' \in Seq(CD)
       /\ Names(cdGroupIPRelation') = Names(relation) \cup {c}
       /\ Distinct(cdGroupIPRelation')
  <2>1. cdGroupIPRelation' = IF c \in Names(relation) THEN relation ELSE Append(relation, c)
    BY DEF HandleGroupIpRequest, Relations, relation
  <2>2. CASE c \in Names(relation)
    BY <1>1, <2>1, <2>2
  <2>3. CASE c \notin Names(relation)
    BY <1>1, <2>1, <2>3, AppendNames
  <2> QED BY <2>2, <2>3
<1> QED BY <1>2, <1>4, <1>5, <1>10, <1>12, <1>13, <1>14 DEF list, relation

\* The pairs are right just when the face asked in the order of the groups.
LEMMA GroupIpRequestPairs ==
  ASSUME GroupInv, NEW f \in EdgeFace, NEW c \in CD, HandleGroupIpRequest(f, c)
  PROVE  LET cds == QuitGroupCDs(f, c)
             ips == QuitGroupIPs(f, c)
             later == cdGroupIPRelation'
         IN  ips = cds <=> \A i, j \in DOMAIN cds : i < j => Made(cds[i], later) < Made(cds[j], later)
<1> DEFINE relation == cdGroupIPRelation
           later == cdGroupIPRelation'
           cds == QuitGroupCDs(f, c)
           ips == QuitGroupIPs(f, c)
<1>1. /\ f \in Face /\ faceGroupIps[f] \in Seq(CD) /\ Distinct(faceGroupIps[f])
      /\ relation \in Seq(CD) /\ Distinct(relation)
      /\ Names(faceGroupIps[f]) \subseteq Names(relation)
  BY RouterAssumption DEF GroupInv, RTypeOK
<1>2. /\ cds \in Seq(CD) /\ Distinct(cds)
      /\ Names(cds) = Names(faceGroupIps[f]) \cap Under(c)
  BY <1>1, AmongNames DEF QuitGroupCDs
<1>3. /\ ips \in Seq(CD) /\ Distinct(ips) /\ InOrder(ips, relation)
  BY <1>1, AmongNames DEF QuitGroupIPs
<1>4. /\ Names(ips) = Names(cds) /\ Len(ips) = Len(cds)
      /\ later \in Seq(CD) /\ Distinct(later)
  BY <1>2, GroupIpRequestLists
<1>5. later = IF c \in Names(relation) THEN relation ELSE Append(relation, c)
  BY DEF HandleGroupIpRequest, Relations
<1>6. ASSUME NEW k \in DOMAIN relation PROVE k \in DOMAIN later /\ later[k] = relation[k]
  BY <1>1, <1>5
<1> HIDE DEF cds, ips, later, relation
<1>7. ASSUME NEW k \in DOMAIN relation PROVE Made(relation[k], later) = k
  <2>1. \A i \in DOMAIN later : later[i] = relation[k] <=> i = k
    BY <1>4, <1>6 DEF Distinct
  <2> QED BY <1>6, <2>1 DEF Made
<1>8. ASSUME NEW i \in DOMAIN cds
      PROVE  \E k \in DOMAIN relation : relation[k] = cds[i]
  BY <1>1, <1>2 DEF Names
<1>9. InOrder(cds, relation) <=> \A i, j \in DOMAIN cds : i < j => Made(cds[i], later) < Made(cds[j], later)
  <2>1. ASSUME InOrder(cds, relation), NEW i \in DOMAIN cds, NEW j \in DOMAIN cds, i < j
        PROVE  Made(cds[i], later) < Made(cds[j], later)
    <3>1. PICK k \in DOMAIN relation : relation[k] = cds[i]
      BY <1>8
    <3>2. PICK l \in DOMAIN relation : relation[l] = cds[j]
      BY <1>8
    <3>3. k < l
      BY <2>1, <3>1, <3>2 DEF InOrder
    <3>4. Made(cds[i], later) = k /\ Made(cds[j], later) = l
      BY <1>7, <3>1, <3>2
    <3> QED BY <3>3, <3>4
  <2>2. ASSUME \A i, j \in DOMAIN cds : i < j => Made(cds[i], later) < Made(cds[j], later),
               NEW i \in DOMAIN cds, NEW j \in DOMAIN cds,
               NEW k \in DOMAIN relation, NEW l \in DOMAIN relation,
               i < j, cds[i] = relation[k], cds[j] = relation[l]
        PROVE  k < l
    <3>1. Made(cds[i], later) = k /\ Made(cds[j], later) = l
      BY <1>7, <2>2
    <3> QED BY <2>2, <3>1
  <2> QED BY <2>1, <2>2 DEF InOrder
<1>10. ips = cds <=> InOrder(cds, relation)
  <2>1. Names(cds) \subseteq Names(relation) /\ relation \in Seq(CD)
    BY <1>1, <1>2
  <2>2. InOrder(cds, relation) => cds = ips
    BY <1>2, <1>3, <1>4, <2>1, OneOrder
  <2> QED BY <1>3, <2>2
<1> QED BY <1>9, <1>10 DEF cds, ips, later

\* The handler keeps the member counts exact.
LEMMA GroupIpRequestCounts ==
  ASSUME GroupInv, NEW f \in EdgeFace, NEW c \in CD, HandleGroupIpRequest(f, c)
  PROVE  /\ RTypeOK' /\ MemberCountExact'
         /\ \A g \in Face : Names(faceGroupIps'[g]) \subseteq Names(cdGroupIPRelation')
<1> DEFINE listed == Names(faceGroupIps[f])
           quit == listed \cap Under(c)
           known == Names(cdGroupIPRelation)
           left(d) == IF d \in quit THEN membercount[d] - 1 ELSE membercount[d]
<1>1. /\ Names(QuitGroupIPs(f, c)) = quit
      /\ faceGroupIps' \in [Face -> Seq(CD)]
      /\ Names(faceGroupIps'[f]) = (listed \ quit) \cup {c}
      /\ \A g \in Face : g # f => faceGroupIps'[g] = faceGroupIps[g]
      /\ cdGroupIPRelation' \in Seq(CD)
      /\ Names(cdGroupIPRelation') = known \cup {c}
  BY GroupIpRequestLists
<1>2. /\ f \in Face
      /\ membercount \in [CD -> Nat]
      /\ \A g \in Face : Names(faceGroupIps[g]) \subseteq known
      /\ crashed' \in BOOLEAN
      /\ membercount' =
           [d \in CD |-> IF d # c THEN left(d)
                         ELSE IF c \in known THEN left(c) + 1 ELSE 1]
  BY <1>1, RouterAssumption DEF GroupInv, RTypeOK, HandleGroupIpRequest, Count
<1>0. listed \subseteq known
  BY <1>2
<1>3. quit \subseteq listed
  OBVIOUS
<1>4. ASSUME NEW d \in CD
      PROVE  /\ membercount[d] = Cardinality(Members(d))
             /\ IsFiniteSet(Members(d))
             /\ Cardinality(Members(d)) \in Nat
  BY MembersFinite, FS_CardinalityType DEF GroupInv, MemberCountExact, Members
<1>5. c \in listed => c \in quit
  BY PrefixesAssumption DEF Under
<1> HIDE DEF quit, known, listed
<1>6. ASSUME NEW d \in CD
      PROVE  membercount'[d] = Cardinality(Members(d)') /\ membercount'[d] \in Nat
  <2>1. Members(d)' = IF d = c THEN Members(d) \cup {f}
                      ELSE IF d \in quit THEN Members(d) \ {f} ELSE Members(d)
    <3>1. \A g \in Face : d \in Names(faceGroupIps'[g]) <=>
            IF g = f THEN d \in (listed \ quit) \cup {c} ELSE d \in Names(faceGroupIps[g])
      BY <1>1
    <3>2. f \in Face /\ (d \in quit => d \in listed) /\ (d \in listed <=> d \in Names(faceGroupIps[f]))
      BY <1>2, <1>3 DEF listed
    <3> HIDE DEF listed, quit
    <3> QED BY <3>1, <3>2 DEF Members
  <2>2. f \in Members(d) <=> d \in listed
    BY <1>2 DEF Members, listed
  <2>3. IsFiniteSet(Members(d)') /\ Cardinality(Members(d)') \in Nat
    BY MembersFinite, FS_CardinalityType DEF Members
  <2>4. CASE d = c /\ c \in listed
    <3>1. Members(d)' = Members(d)
      BY <2>1, <2>2, <2>4
    <3>2. membercount'[d] = membercount[d] - 1 + 1
      BY <1>0, <1>2, <1>5, <2>4
    <3> QED
      BY <3>1, <3>2, <1>4
  <2>5. CASE d = c /\ c \notin listed
    <3>1. Cardinality(Members(d)') = Cardinality(Members(d)) + 1
      BY <2>1, <2>2, <2>5, <1>4, CountJoin
    <3>2. c \notin quit
      BY <2>5, <1>3
    <3>3. c \notin known => membercount[c] = 0
      <4>1. c \notin known => Members(c) = {}
        BY <1>2 DEF Members
      <4> QED
        BY <4>1, <1>4, FS_EmptySet
    <3>4. membercount'[d] = membercount[d] + 1
      BY <1>1, <1>2, <3>2, <3>3, <2>5
    <3> QED
      BY <3>1, <3>4, <1>4
  <2>6. CASE d # c /\ d \in quit
    <3>1. Cardinality(Members(d)') = Cardinality(Members(d)) - 1
      BY <2>1, <2>2, <2>6, <1>3, <1>4, CountQuit
    <3>2. membercount'[d] = membercount[d] - 1
      BY <1>2, <2>6
    <3> QED
      BY <3>1, <3>2, <1>4, <2>3
  <2>7. CASE d # c /\ d \notin quit
    <3>1. Members(d)' = Members(d) /\ membercount'[d] = membercount[d]
      BY <2>1, <2>7, <1>2
    <3> QED
      BY <3>1, <1>4
  <2> QED
    BY <2>4, <2>5, <2>6, <2>7
<1>7. MemberCountExact'
  BY <1>6 DEF MemberCountExact, Members
<1>8. membercount' \in [CD -> Nat]
  BY <1>2, <1>6
<1>9. RTypeOK'
  BY <1>1, <1>2, <1>8 DEF RTypeOK
<1>10. \A g \in Face : Names(faceGroupIps'[g]) \subseteq Names(cdGroupIPRelation')
  BY <1>1, <1>2 DEF listed
<1> QED
  BY <1>7, <1>9, <1>10

\* A name that face f is told to quit is not listed for f any more: addSTItem
\* and handleGroupIpRequest erase by different rules, yet agree.
LEMMA QuitNotListed ==
  ASSUME TableInv', NEW f \in Face, NEW c \in CD, NEW d \in cdsList'[f],
         c \in Prefixes[d], Prefixes[c] \cap cdsList'[f] # {}
  PROVE  d = c
<1>1. cdsList'[f] \in SUBSET CD
  BY DEF TableInv
<1>2. PICK s \in cdsList'[f] : s \in Prefixes[c]
  OBVIOUS
<1>3. s \in CD /\ d \in CD
  BY <1>1
<1>4. s \in Prefixes[d]
  BY <1>2, <1>3, PrefixesAssumption
<1>5. s = d
  BY <1>4 DEF TableInv, Antichain
<1> QED
  <2> SUFFICES ASSUME d # c
               PROVE  FALSE
    OBVIOUS
  <2>1. Length[c] < Length[d]
    BY <1>3, LengthAssumption
  <2>2. Length[d] < Length[c]
    BY <1>2, <1>3, <1>5, LengthAssumption
  <2> QED
    BY <2>1, <2>2, <1>3, LengthAssumption

-----------------------------------------------------------------------------
(* The invariant. *)

\* The router without subscriptions satisfies the invariant.
LEMMA InitRInv == RInit => RInv
<1> SUFFICES ASSUME RInit
             PROVE  RInv
  OBVIOUS
<1>1. IInv
  BY InitIInv DEF RInit
<1>2. \A c \in CD : {f \in Face : c \in Names(faceGroupIps[f])} = {}
  BY DEF RInit, Names
<1>3. Names(<<>>) = {} /\ Distinct(<<>>) /\ <<>> \in Seq(CD)
  BY DEF Names, Distinct
<1>4. GroupInv
  BY <1>2, <1>3, FS_EmptySet, RouterAssumption
  DEF RInit, Init, GroupInv, RTypeOK, MemberCountExact
<1>5. SentInv
  BY DEF RInit, SentInv, QuitListsAgree, QuitPairsMatch, Responses
<1> QED
  BY <1>1, <1>4, <1>5 DEF RInv

\* A subscription preserves the table's part of the invariant.
LEMMA SubscribeIInv ==
  ASSUME IInv, NEW f \in Face, NEW c \in CD, Subscribe(f, c)
  PROVE  IInv'
BY NextIInv DEF Next

\* A Subscribe message leaves the groups alone and preserves the invariant.
LEMMA SubscribeRInv ==
  ASSUME RInv, NEW f \in Face \ EdgeFace, NEW c \in CD, NEW r \in RRot,
         HandleSubscribe(f, c, r)
  PROVE  RInv'
<1>1. Subscribe(f, c) /\ UNCHANGED groupVars
  BY DEF HandleSubscribe
<1>2. IInv'
  BY <1>1, SubscribeIInv DEF RInv
<1>3. \A g \in EdgeFace : cdsList'[g] = cdsList[g]
  BY <1>1, AddSTItemStep, RouterAssumption DEF Subscribe, RInv, IInv
<1>4. crashed' \in BOOLEAN
  BY DEF HandleSubscribe
<1>5. GroupInv'
  BY <1>1, <1>3, <1>4 DEF RInv, GroupInv, RTypeOK, MemberCountExact, groupVars
<1>6. msg'.type = "Subscribe" /\ \A m \in sent' : m.type = "Subscribe"
  BY DEF HandleSubscribe, Arrived, Forward
<1>7. SentInv'
  BY <1>6 DEF SentInv, QuitListsAgree, QuitPairsMatch, Responses
<1> QED
  BY <1>2, <1>5, <1>7 DEF RInv

\* A GroupIpRequest keeps lists of groups and member counts balanced.
LEMMA GroupIpRequestRInv ==
  ASSUME RInv, NEW f \in EdgeFace, NEW c \in CD, HandleGroupIpRequest(f, c)
  PROVE  RInv'
<1>1. f \in Face /\ Subscribe(f, c)
  BY RouterAssumption DEF HandleGroupIpRequest
<1>2. IInv'
  BY <1>1, SubscribeIInv DEF RInv
<1>3. /\ RTypeOK' /\ MemberCountExact'
      /\ \A g \in Face : Names(faceGroupIps'[g]) \subseteq Names(cdGroupIPRelation')
  BY GroupIpRequestCounts DEF RInv
<1> DEFINE quit == Names(faceGroupIps[f]) \cap Under(c)
<1>4. /\ Names(QuitGroupCDs(f, c)) = quit /\ Names(QuitGroupIPs(f, c)) = quit
      /\ Len(QuitGroupIPs(f, c)) = Len(QuitGroupCDs(f, c))
      /\ Names(faceGroupIps'[f]) = (Names(faceGroupIps[f]) \ quit) \cup {c}
      /\ \A g \in Face : g # f => faceGroupIps'[g] = faceGroupIps[g]
      /\ \A g \in Face : Distinct(faceGroupIps'[g])
      /\ Distinct(cdGroupIPRelation')
  BY GroupIpRequestLists DEF RInv
<1>5. \A d \in quit : c \in Prefixes[d]
  BY DEF Under
<1> HIDE DEF quit
<1>6. /\ TableInv'
      /\ \A g \in Face \ {f} : cdsList'[g] = cdsList[g]
      /\ cdsList'[f] \subseteq cdsList[f] \cup {c}
      /\ Prefixes[c] \cap cdsList'[f] # {}
  BY <1>1, AddSTItemStep DEF Subscribe, RInv, IInv
<1>7. ASSUME NEW g \in EdgeFace, NEW d \in cdsList'[g]
      PROVE  d \in Names(faceGroupIps'[g])
  <2>1. CASE g # f
    <3>1. cdsList'[g] = cdsList[g] /\ faceGroupIps'[g] = faceGroupIps[g]
      BY <2>1, <1>4, <1>6, RouterAssumption
    <3> QED BY <3>1 DEF RInv, GroupInv
  <2>2. CASE g = f /\ c \in Prefixes[d]
    <3>1. d = c
      BY <2>2, <1>1, <1>6, QuitNotListed
    <3> QED
      BY <3>1, <2>2, <1>4
  <2>3. CASE g = f /\ c \notin Prefixes[d]
    <3>1. d \in cdsList[f] \cup {c}
      BY <2>3, <1>6
    <3>2. d # c
      BY <2>3, PrefixesAssumption
    <3>3. d \in Names(faceGroupIps[f])
      BY <3>1, <3>2 DEF RInv, GroupInv
    <3> QED
      BY <3>3, <2>3, <1>4, <1>5
  <2> QED
    BY <2>1, <2>2, <2>3
<1>8. ASSUME NEW g \in Face \ EdgeFace
      PROVE  faceGroupIps'[g] = <<>>
  BY <1>4 DEF RInv, GroupInv
<1>9. GroupInv'
  BY <1>3, <1>4, <1>7, <1>8 DEF GroupInv
<1>10. SentInv'
  <2>1. msg'.type = "GroupIpRequest"
    BY DEF HandleGroupIpRequest, Arrived
  <2>2. sent' = {GroupIpResponse(f, c, QuitGroupCDs(f, c), QuitGroupIPs(f, c))}
    BY DEF HandleGroupIpRequest
  <2>3. QuitListsAgree'
    BY <2>2, <1>4 DEF QuitListsAgree, Responses, GroupIpResponse
  <2>4. QuitPairsMatch'
    <3> DEFINE cds == QuitGroupCDs(f, c)
               ips == QuitGroupIPs(f, c)
               later == cdGroupIPRelation'
    <3>1. ips = cds <=> \A i, j \in DOMAIN cds : i < j => Made(cds[i], later) < Made(cds[j], later)
      BY GroupIpRequestPairs DEF RInv
    <3>2. ASSUME NEW m \in Responses' PROVE m.quitCDs = cds /\ m.quitIPs = ips
      BY <2>2, <3>2 DEF Responses, GroupIpResponse
    <3> HIDE DEF cds, ips, later
    <3>3. ASSUME NEW m \in Responses'
          PROVE  m.quitIPs = m.quitCDs
                   <=> \A i, j \in DOMAIN m.quitCDs :
                         i < j => Made(m.quitCDs[i], later) < Made(m.quitCDs[j], later)
      BY <3>1, <3>2
    <3> QED BY <3>3 DEF QuitPairsMatch, later
  <2> QED
    BY <2>1, <2>3, <2>4 DEF SentInv
<1> QED
  BY <1>2, <1>9, <1>10 DEF RInv

\* Messages that change no table.
LEMMA TablesUnchanged ==
  ASSUME RInv, UNCHANGED <<tableVars, groupVars, crashed>>
  PROVE  IInv' /\ GroupInv'
<1>1. IInv'
  BY NextIInv DEF tableVars, vars, RInv
<1>2. GroupInv'
  BY DEF RInv, GroupInv, RTypeOK, MemberCountExact, tableVars, groupVars
<1> QED
  BY <1>1, <1>2

\* What an RPublish makes the router send reaches the faces it is for.
LEMMA RPublishRInv ==
  ASSUME RInv, NEW n \in CD, NEW r \in RRot, HandleRPublish(n, r)
  PROVE  RInv'
<1>1. UNCHANGED <<tableVars, groupVars, crashed>>
  BY DEF HandleRPublish
<1>2. msg' = [type |-> "RPublish", cd |-> n, rrot |-> r]
  BY DEF HandleRPublish, Arrived
<1>3. r = Me => sent' = Downlink(n)
  BY DEF HandleRPublish
<1>4. Downlink(n)' = Downlink(n)
  BY <1>1 DEF Downlink, UnicastFaces, MulticastGroups, STFaceList, InBF,
              tableVars, groupVars
<1>5. \A m \in sent' : m.type # "GroupIpResponse"
  BY DEF HandleRPublish, Downlink, PublishTo, MulticastTo, Forward
<1>6. SentInv'
  BY <1>2, <1>3, <1>4, <1>5 DEF SentInv, QuitListsAgree, QuitPairsMatch, Responses
<1> QED
  BY <1>1, <1>6, TablesUnchanged DEF RInv

\* A Publish that comes down is sent on to the faces it is for.
LEMMA PublishRInv ==
  ASSUME RInv, NEW n \in CD, HandlePublish(n)
  PROVE  RInv'
<1>1. UNCHANGED <<tableVars, groupVars, crashed>>
  BY DEF HandlePublish
<1>2. msg' = [type |-> "Publish", cd |-> n, rrot |-> Me]
  BY DEF HandlePublish, Arrived
<1>3. sent' = {PublishTo(g, n) : g \in STFaceList(n)'}
  BY <1>1 DEF HandlePublish, STFaceList, InBF, tableVars
<1>4. \A m \in sent' : m.type # "GroupIpResponse"
  BY <1>3 DEF PublishTo
<1>5. SentInv'
  BY <1>2, <1>3, <1>4 DEF SentInv, QuitListsAgree, QuitPairsMatch, Responses
<1> QED
  BY <1>1, <1>5, TablesUnchanged DEF RInv

\* Every handler preserves the invariant.
LEMMA NextRInv == RInv /\ [RNext]_rvars => RInv'
<1> SUFFICES ASSUME RInv, [RNext]_rvars
             PROVE  RInv'
  OBVIOUS
<1>1. CASE UNCHANGED rvars
  <2>1. IInv' /\ GroupInv'
    BY <1>1, TablesUnchanged DEF rvars
  <2>2. SentInv'
    <3>1. msg' = msg /\ sent' = sent
      BY <1>1 DEF rvars
    <3>2. PICK n : n = msg.cd
      OBVIOUS
    <3>3. Downlink(n)' = Downlink(n) /\ STFaceList(n)' = STFaceList(n)
      BY <1>1 DEF rvars, tableVars, groupVars, Downlink, UnicastFaces, MulticastGroups,
                  STFaceList, InBF
    <3>4. msg.type = "RPublish" /\ msg.rrot = Me => n \in CD /\ sent' = Downlink(n)'
      BY <3>1, <3>2, <3>3 DEF RInv, SentInv
    <3>5. msg.type = "Publish" =>
            n \in CD /\ sent' = {PublishTo(g, n) : g \in STFaceList(n)'}
      <4>1. msg.type = "Publish" =>
              n \in CD /\ sent = {PublishTo(g, n) : g \in STFaceList(n)}
        BY <3>2 DEF RInv, SentInv
      <4> QED
        BY <4>1, <3>1, <3>3
    <3>6. QuitListsAgree'
      BY <3>1 DEF RInv, SentInv, QuitListsAgree, Responses
    <3>7. QuitPairsMatch'
      <4>1. QuitPairsMatch /\ Responses' = Responses
        BY <3>1 DEF RInv, SentInv, Responses
      <4>2. UNCHANGED cdGroupIPRelation
        BY <1>1 DEF rvars, groupVars
      <4> QED BY <4>1, <4>2 DEF QuitPairsMatch
    <3> QED
      BY <3>1, <3>2, <3>4, <3>5, <3>6, <3>7 DEF SentInv
  <2> QED
    BY <2>1, <2>2 DEF RInv
<1>2. CASE RNext
  BY <1>2, SubscribeRInv, GroupIpRequestRInv, RPublishRInv, PublishRInv
  DEF RNext, HandleMsg
<1> QED
  BY <1>1, <1>2

\* The invariant holds in every state of every rendezvous router.
THEOREM RouterInv == RSpec => []RInv
<1>1. RInit => RInv
  BY InitRInv
<1>2. RInv /\ [RNext]_rvars => RInv'
  BY NextRInv
<1> QED
  BY <1>1, <1>2, PTL DEF RSpec

-----------------------------------------------------------------------------
(* The properties. *)

\* Whatever the order of nested requests, the member counts are exact and
\* never negative (RPSRouter.cpp:214-242).
THEOREM CountsCorrect == RSpec => [](RTypeOK /\ MemberCountExact)
<1>1. RInv => RTypeOK /\ MemberCountExact
  BY DEF RInv, GroupInv
<1> QED
  BY <1>1, RouterInv, PTL

\* For any names and faces, and any order of requests: the response has as
\* many addresses as names, they are the addresses of those names, each once,
\* and every name stands next to its own address if, and only if, the face has
\* asked for the names in the order in which their groups were made
\* (RPSRouter.cpp:198-222, 249-295).
THEOREM QuitListsCorrect == RSpec => [](QuitListsAgree /\ QuitPairsMatch)
<1>1. RInv => QuitListsAgree /\ QuitPairsMatch
  BY DEF RInv, SentInv
<1> QED
  BY <1>1, RouterInv, PTL

\* In every state the tables would bring a publication of n to each face
\* with a requested prefix of n.
LEMMA TablesReachFaces ==
  ASSUME RInv, NEW f \in Face, NEW n \in CD, requested[f] \cap Prefixes[n] # {}
  PROVE  /\ f \in STFaceList(n)
         /\ \E m \in Downlink(n) : Reaches(m, f, n)
<1>1. f \in STFaceList(n)
  BY IInvNoFalseNegative DEF NoFalseNegative, RInv
<1>2. CASE faceGroupIps[f] = <<>>
  <2>1. PublishTo(f, n) \in Downlink(n)
    BY <1>1, <1>2 DEF Downlink, UnicastFaces
  <2> QED
    BY <1>1, <2>1 DEF Reaches
<1>3. CASE faceGroupIps[f] # <<>>
  <2>1. f \in EdgeFace
    BY <1>3 DEF RInv, GroupInv
  <2>2. PICK p \in cdsList[f] : p \in Prefixes[n]
    BY IInvLists DEF ListRepresentsRequests, RInv
  <2>3. p \in Names(faceGroupIps[f]) /\ p \in Names(cdGroupIPRelation) /\ p \in CD
    BY <2>1, <2>2 DEF RInv, GroupInv, IInv, TableInv
  <2>4. f \in Members(p) /\ IsFiniteSet(Members(p))
    BY <2>3, MembersFinite DEF Members
  <2>5. Cardinality(Members(p)) # 0
    BY <2>4, FS_EmptySet
  <2>6. membercount[p] = Cardinality(Members(p)) /\ membercount[p] \in Nat
    BY <2>3 DEF RInv, GroupInv, RTypeOK, MemberCountExact, Members
  <2>7. p \in MulticastGroups(n)
    BY <2>2, <2>3, <2>5, <2>6 DEF MulticastGroups
  <2>8. MulticastTo(p, n) \in Downlink(n)
    BY <1>1, <2>7 DEF Downlink
  <2> QED
    BY <1>1, <2>3, <2>8 DEF Reaches
<1> QED
  BY <1>2, <1>3

\* Every publication reaches every face with a requested prefix, by unicast
\* or by a multicast to a group of that face (RPSRouter.cpp:80-97, 119-167).
THEOREM DeliveryCorrect == RSpec => []PublishReachesFaces
<1>1. RInv => PublishReachesFaces
  <2> SUFFICES ASSUME RInv,
                      msg.type = "Publish" \/ (msg.type = "RPublish" /\ msg.rrot = Me),
                      NEW f \in Face, requested[f] \cap Prefixes[msg.cd] # {}
               PROVE  \E m \in sent : Reaches(m, f, msg.cd)
    BY DEF PublishReachesFaces
  <2>1. msg.cd \in CD
    BY DEF RInv, SentInv
  <2>2. /\ f \in STFaceList(msg.cd)
        /\ \E m \in Downlink(msg.cd) : Reaches(m, f, msg.cd)
    BY <2>1, TablesReachFaces
  <2>3. CASE msg.type = "RPublish" /\ msg.rrot = Me
    BY <2>2, <2>3 DEF RInv, SentInv
  <2>4. CASE msg.type = "Publish"
    <3>1. PublishTo(f, msg.cd) \in sent
      BY <2>2, <2>4 DEF RInv, SentInv
    <3> QED
      BY <3>1 DEF Reaches
  <2> QED
    BY <2>3, <2>4
<1> QED
  BY <1>1, RouterInv, PTL
=============================================================================
