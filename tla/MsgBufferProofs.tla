-------------------------- MODULE MsgBufferProofs --------------------------
(***************************************************************************)
(* Proofs about the message buffer, for any number of threads, any set of  *)
(* messages and any ring of at least two slots.                            *)
(***************************************************************************)
EXTENDS MsgBuffer, FiniteSetTheorems, SequenceTheorems, TLAPS

Places == {"idle", "lock", "inside", "post", "unlock"}

\* How many threads of T stand at a place of P.
NumAt(f, T, P) == Cardinality({t \in T : f[t] \in P})

\* A slot between the two positions, going round the ring.
Unread(k) ==
  IF m_readPos < m_writePos THEN m_readPos < k /\ k < m_writePos
                            ELSE m_readPos < k \/ k < m_writePos

PlaceInv ==
  /\ m_msg \in [Slots -> Msg \cup {NoMsg}]
  /\ m_readPos \in Slots /\ m_writePos \in Slots
  /\ m_writeSem \in Nat /\ m_readSem \in Nat
  /\ m_msgMutex \in Thread \cup {NoOne}
  /\ pc \in [Thread -> Places]
  /\ arg \in [Thread -> Msg \cup {NoMsg}]

\* The thread inside the critical section holds the mutex.
MutexInv == \A t \in Thread : pc[t] \in {"inside", "post", "unlock"} => m_msgMutex = t

\* A producer on its way to the store carries a message.
ArgInv == \A p \in Producer : pc[p] \in {"lock", "inside"} => arg[p] \in Msg

\* The semaphores and the threads that hold their units account for the ring.
SemInv ==
  /\ m_writeSem + NumAt(pc, Producer, {"lock", "inside"})
       + NumAt(pc, Consumer, {"post"}) + Stored = MSG_SIZE - 1
  /\ m_readSem + NumAt(pc, Consumer, {"lock", "inside"})
       + NumAt(pc, Producer, {"post"}) = Stored

\* The slots between the positions, and no others, hold messages.
SlotInv == \A k \in Slots : m_msg[k] # NoMsg <=> Unread(k)

BInv == PlaceInv /\ MutexInv /\ ArgInv /\ SemInv /\ SlotInv

-----------------------------------------------------------------------------
(* Counting threads. *)

\* The threads at a place are finitely many.
LEMMA NumAtFinite ==
  ASSUME NEW f, NEW T, NEW P, T \in {Producer, Consumer}
  PROVE  IsFiniteSet({u \in T : f[u] \in P})
BY BufferAssumption, FS_Subset, {u \in T : f[u] \in P} \in SUBSET T

\* A count is a number.
LEMMA NumAtType ==
  ASSUME NEW f, NEW T, NEW P, T \in {Producer, Consumer}
  PROVE  NumAt(f, T, P) \in Nat
<1> DEFINE S == {u \in T : f[u] \in P}
<1>1. IsFiniteSet(S)
  BY BufferAssumption, FS_Subset, S \in SUBSET T
<1>2. NumAt(f, T, P) = Cardinality(S)
  BY DEF NumAt
<1> HIDE DEF S
<1>3. Cardinality(S) \in Nat
  BY <1>1, FS_CardinalityType
<1> QED
  BY <1>2, <1>3

\* A thread of T moves to a place of P.
LEMMA NumAtEnter ==
  ASSUME NEW f, NEW g, NEW T, NEW P, NEW t, T \in {Producer, Consumer},
         \A u \in T \ {t} : f[u] = g[u],
         t \in T, f[t] \notin P, g[t] \in P
  PROVE  NumAt(g, T, P) = NumAt(f, T, P) + 1
<1>1. {u \in T : g[u] \in P} = {u \in T : f[u] \in P} \cup {t}
  OBVIOUS
<1>2. t \notin {u \in T : f[u] \in P} /\ IsFiniteSet({u \in T : f[u] \in P})
  BY NumAtFinite
<1>3. Cardinality({u \in T : f[u] \in P} \cup {t}) = Cardinality({u \in T : f[u] \in P}) + 1
  BY <1>2, FS_AddElement
<1> QED
  BY <1>1, <1>3 DEF NumAt

\* A thread of T leaves the places of P.
LEMMA NumAtLeave ==
  ASSUME NEW f, NEW g, NEW T, NEW P, NEW t, T \in {Producer, Consumer},
         \A u \in T \ {t} : f[u] = g[u],
         t \in T, f[t] \in P, g[t] \notin P
  PROVE  NumAt(g, T, P) = NumAt(f, T, P) - 1
<1>1. {u \in T : g[u] \in P} = {u \in T : f[u] \in P} \ {t}
  OBVIOUS
<1>2. t \in {u \in T : f[u] \in P} /\ IsFiniteSet({u \in T : f[u] \in P})
  BY NumAtFinite
<1>3. Cardinality({u \in T : f[u] \in P} \ {t}) = Cardinality({u \in T : f[u] \in P}) - 1
  BY <1>2, FS_RemoveElement
<1> QED
  BY <1>1, <1>3 DEF NumAt

\* A thread outside T, or one that stays in or out of P, changes nothing.
LEMMA NumAtSame ==
  ASSUME NEW f, NEW g, NEW T, NEW P, \A u \in T : f[u] \in P <=> g[u] \in P
  PROVE  NumAt(g, T, P) = NumAt(f, T, P)
<1>1. {u \in T : g[u] \in P} = {u \in T : f[u] \in P}
  OBVIOUS
<1> QED
  BY <1>1 DEF NumAt

\* A thread at a place is counted there.
LEMMA NumAtPositive ==
  ASSUME NEW f, NEW T \in {Producer, Consumer}, NEW P, NEW t \in T, f[t] \in P
  PROVE  NumAt(f, T, P) >= 1
<1>1. IsFiniteSet({u \in T : f[u] \in P}) /\ NumAt(f, T, P) \in Nat
  BY NumAtFinite, NumAtType
<1>2. {u \in T : f[u] \in P} # {}
  OBVIOUS
<1>3. NumAt(f, T, P) # 0
  BY <1>1, <1>2, FS_EmptySet DEF NumAt
<1> QED
  BY <1>1, <1>3

-----------------------------------------------------------------------------
(* The ring. *)

\* The successor of a slot.
LEMMA Next1Def ==
  ASSUME NEW k \in Slots
  PROVE  Next1(k) = (IF k + 1 < MSG_SIZE THEN k + 1 ELSE 0) /\ Next1(k) \in Slots
BY BufferAssumption DEF Next1, Slots

\* The number of stored messages is that of a ring with one slot to spare.
LEMMA StoredType ==
  ASSUME m_readPos \in Slots, m_writePos \in Slots
  PROVE  Stored \in 0 .. MSG_SIZE - 1
BY BufferAssumption DEF Stored, Slots

-----------------------------------------------------------------------------
(* The invariant, action by action. *)

\* The empty ring satisfies the invariant.
LEMMA InitBInv == Init => BInv
<1> SUFFICES ASSUME Init
             PROVE  BInv
  OBVIOUS
<1>1. PlaceInv
  BY BufferAssumption DEF Init, PlaceInv, Slots, Places
<1>2. MutexInv /\ ArgInv
  BY DEF Init, MutexInv, ArgInv, Thread
<1>3. ASSUME NEW T \in {Producer, Consumer}, NEW P, "idle" \notin P
      PROVE  NumAt(pc, T, P) = 0
  <2>1. {u \in T : pc[u] \in P} = {}
    BY <1>3 DEF Init, Thread
  <2> QED
    BY <2>1, FS_EmptySet DEF NumAt
<1>4. /\ NumAt(pc, Producer, {"lock", "inside"}) = 0
      /\ NumAt(pc, Producer, {"post"}) = 0
      /\ NumAt(pc, Consumer, {"lock", "inside"}) = 0
      /\ NumAt(pc, Consumer, {"post"}) = 0
  BY <1>3
<1>5. Stored = 0
  BY DEF Init, Stored
<1>6. SemInv
  BY <1>4, <1>5, BufferAssumption DEF Init, SemInv
<1>7. SlotInv
  BY BufferAssumption DEF Init, SlotInv, Slots, Unread
<1> QED
  BY <1>1, <1>2, <1>6, <1>7 DEF BInv

\* The thread that moves from one place to another changes the counts.
LEMMA Moved ==
  ASSUME pc \in [Thread -> Places], NEW t \in Thread, NEW x, Goto(t, x),
         NEW T \in {Producer, Consumer}, NEW P
  PROVE  /\ t \in T /\ x \in P /\ pc[t] \notin P =>
              NumAt(pc, T, P)' = NumAt(pc, T, P) + 1
         /\ t \in T /\ x \notin P /\ pc[t] \in P =>
              NumAt(pc, T, P)' = NumAt(pc, T, P) - 1
         /\ t \notin T \/ (x \in P <=> pc[t] \in P) =>
              NumAt(pc, T, P)' = NumAt(pc, T, P)
<1>1. PICK f : f = pc
  OBVIOUS
<1>2. PICK g : g = pc'
  OBVIOUS
<1>3. /\ NumAt(pc, T, P) = NumAt(f, T, P)
      /\ NumAt(pc, T, P)' = NumAt(g, T, P)
  BY <1>1, <1>2 DEF NumAt
<1>4. /\ T \subseteq Thread
      /\ g[t] = x
      /\ \A u \in Thread \ {t} : f[u] = g[u]
  BY <1>1, <1>2 DEF Goto, Thread
<1>5. \A u \in T \ {t} : f[u] = g[u]
  BY <1>4
<1>6. t \in T /\ x \in P /\ f[t] \notin P => NumAt(g, T, P) = NumAt(f, T, P) + 1
  BY <1>4, <1>5, NumAtEnter
<1>7. t \in T /\ x \notin P /\ f[t] \in P => NumAt(g, T, P) = NumAt(f, T, P) - 1
  BY <1>4, <1>5, NumAtLeave
<1>8. t \notin T \/ (x \in P <=> f[t] \in P) => NumAt(g, T, P) = NumAt(f, T, P)
  <2> SUFFICES ASSUME t \notin T \/ (x \in P <=> f[t] \in P)
               PROVE  NumAt(g, T, P) = NumAt(f, T, P)
    OBVIOUS
  <2>1. \A u \in T : f[u] \in P <=> g[u] \in P
    BY <1>4, <1>5
  <2> QED
    BY <2>1, NumAtSame
<1>9. f[t] = pc[t]
  BY <1>1
<1>10. t \in T /\ x \in P /\ pc[t] \notin P =>
         NumAt(pc, T, P)' = NumAt(pc, T, P) + 1
  BY <1>3, <1>6, <1>9
<1>11. t \in T /\ x \notin P /\ pc[t] \in P =>
         NumAt(pc, T, P)' = NumAt(pc, T, P) - 1
  BY <1>3, <1>7, <1>9
<1>12. t \notin T \/ (x \in P <=> pc[t] \in P) =>
         NumAt(pc, T, P)' = NumAt(pc, T, P)
  BY <1>3, <1>8, <1>9
<1> QED
  BY <1>10, <1>11, <1>12

\* The four counts of SemInv are numbers.
LEMMA CountTypes ==
  /\ NumAt(pc, Producer, {"lock", "inside"}) \in Nat
  /\ NumAt(pc, Producer, {"post"}) \in Nat
  /\ NumAt(pc, Consumer, {"lock", "inside"}) \in Nat
  /\ NumAt(pc, Consumer, {"post"}) \in Nat
<1>1. \A P : NumAt(pc, Producer, P) \in Nat
  BY NumAtType
<1>2. \A P : NumAt(pc, Consumer, P) \in Nat
  BY NumAtType
<1> QED
  BY <1>1, <1>2

\* A producer is no consumer.
LEMMA Disjoint ==
  /\ \A p \in Producer : p \in Thread /\ p \notin Consumer
  /\ \A c \in Consumer : c \in Thread /\ c \notin Producer
BY BufferAssumption DEF Thread

\* A unit of m_writeSem becomes a producer on its way.
LEMMA PutWaitBInv ==
  ASSUME BInv, NEW p \in Producer, NEW m \in Msg, PutWait(p, m)
  PROVE  BInv'
<1> USE DEF BInv
<1>1. /\ pc[p] = "idle" /\ Goto(p, "lock")
      /\ m_writeSem > 0 /\ m_writeSem' = m_writeSem - 1
      /\ arg' = [arg EXCEPT ![p] = m]
      /\ UNCHANGED <<m_msg, m_readPos, m_writePos, m_readSem, m_msgMutex, last>>
  BY DEF PutWait
<1>2. p \in Thread /\ p \notin Consumer /\ pc \in [Thread -> Places]
  BY Disjoint DEF PlaceInv
<1>3. PlaceInv'
  BY <1>1, <1>2 DEF PlaceInv, Places, Goto
<1>4. MutexInv' /\ ArgInv'
  BY <1>1, <1>2, Disjoint DEF MutexInv, ArgInv, PlaceInv, Goto
<1>5. SemInv' /\ SlotInv'
  <2>1. NumAt(pc, Producer, {"lock", "inside"})' = NumAt(pc, Producer, {"lock", "inside"}) + 1
    BY <1>1, <1>2, Moved, CountTypes DEF Places
  <2>2. /\ NumAt(pc, Producer, {"post"})' = NumAt(pc, Producer, {"post"})
        /\ NumAt(pc, Consumer, {"lock", "inside"})' = NumAt(pc, Consumer, {"lock", "inside"})
        /\ NumAt(pc, Consumer, {"post"})' = NumAt(pc, Consumer, {"post"})
    BY <1>1, <1>2, Moved, CountTypes DEF Places
  <2>3. Stored' = Stored /\ SlotInv'
    BY <1>1 DEF Stored, SlotInv, Unread
  <2> QED
    BY <1>1, <2>1, <2>2, <2>3, CountTypes, StoredType, BufferAssumption DEF SemInv, PlaceInv
<1> QED
  BY <1>3, <1>4, <1>5

\* A unit of m_readSem becomes a consumer on its way.
LEMMA GetWaitBInv ==
  ASSUME BInv, NEW c \in Consumer, GetWait(c)
  PROVE  BInv'
<1> USE DEF BInv
<1>1. /\ pc[c] = "idle" /\ Goto(c, "lock")
      /\ m_readSem > 0 /\ m_readSem' = m_readSem - 1
      /\ UNCHANGED <<m_msg, m_readPos, m_writePos, m_writeSem, m_msgMutex, arg, last>>
  BY DEF GetWait
<1>2. c \in Thread /\ c \notin Producer /\ pc \in [Thread -> Places]
  BY Disjoint DEF PlaceInv
<1>3. PlaceInv'
  BY <1>1, <1>2 DEF PlaceInv, Places, Goto
<1>4. MutexInv' /\ ArgInv'
  BY <1>1, <1>2, Disjoint DEF MutexInv, ArgInv, PlaceInv, Goto
<1>5. SemInv' /\ SlotInv'
  <2>1. NumAt(pc, Consumer, {"lock", "inside"})' = NumAt(pc, Consumer, {"lock", "inside"}) + 1
    BY <1>1, <1>2, Moved, CountTypes DEF Places
  <2>2. /\ NumAt(pc, Producer, {"post"})' = NumAt(pc, Producer, {"post"})
        /\ NumAt(pc, Producer, {"lock", "inside"})' = NumAt(pc, Producer, {"lock", "inside"})
        /\ NumAt(pc, Consumer, {"post"})' = NumAt(pc, Consumer, {"post"})
    BY <1>1, <1>2, Moved, CountTypes DEF Places
  <2>3. Stored' = Stored /\ SlotInv'
    BY <1>1 DEF Stored, SlotInv, Unread
  <2> QED
    BY <1>1, <2>1, <2>2, <2>3, CountTypes, StoredType, BufferAssumption DEF SemInv, PlaceInv
<1> QED
  BY <1>3, <1>4, <1>5

\* Taking the free mutex moves no unit.
LEMMA LockBInv ==
  ASSUME BInv, NEW t \in Thread, Lock(t)
  PROVE  BInv'
<1> USE DEF BInv
<1>1. /\ pc[t] = "lock" /\ Goto(t, "inside")
      /\ m_msgMutex = NoOne /\ m_msgMutex' = t
      /\ UNCHANGED <<m_msg, m_readPos, m_writePos, m_writeSem, m_readSem, arg, last>>
  BY DEF Lock
<1>2. pc \in [Thread -> Places]
  BY DEF PlaceInv
<1>3. PlaceInv'
  BY <1>1, <1>2 DEF PlaceInv, Places, Goto
<1>4. MutexInv' /\ ArgInv'
  BY <1>1, <1>2, Disjoint, BufferAssumption DEF MutexInv, ArgInv, PlaceInv, Goto, Thread
<1>5. SemInv' /\ SlotInv'
  <2>1. /\ NumAt(pc, Producer, {"lock", "inside"})' = NumAt(pc, Producer, {"lock", "inside"})
        /\ NumAt(pc, Producer, {"post"})' = NumAt(pc, Producer, {"post"})
        /\ NumAt(pc, Consumer, {"lock", "inside"})' = NumAt(pc, Consumer, {"lock", "inside"})
        /\ NumAt(pc, Consumer, {"post"})' = NumAt(pc, Consumer, {"post"})
    BY <1>1, <1>2, Moved, CountTypes DEF Places
  <2>2. Stored' = Stored /\ SlotInv'
    BY <1>1 DEF Stored, SlotInv, Unread
  <2> QED
    BY <1>1, <2>1, <2>2 DEF SemInv
<1> QED
  BY <1>3, <1>4, <1>5

\* What SemInv says to a producer about to store and a consumer about to take.
LEMMA RoomAndMessage ==
  ASSUME BInv
  PROVE  /\ \A p \in Producer : pc[p] = "inside" => Stored < MSG_SIZE - 1
         /\ \A c \in Consumer : pc[c] = "inside" => Stored > 0
<1> USE DEF BInv
<1>1. ASSUME NEW p \in Producer, pc[p] = "inside"
      PROVE  Stored < MSG_SIZE - 1
  <2>1. NumAt(pc, Producer, {"lock", "inside"}) >= 1
    BY <1>1, NumAtPositive
  <2> QED
    BY <2>1, CountTypes, StoredType, BufferAssumption DEF SemInv, PlaceInv
<1>2. ASSUME NEW c \in Consumer, pc[c] = "inside"
      PROVE  Stored > 0
  <2>1. NumAt(pc, Consumer, {"lock", "inside"}) >= 1
    BY <1>2, NumAtPositive
  <2> QED
    BY <2>1, CountTypes, StoredType, BufferAssumption DEF SemInv, PlaceInv
<1> QED
  BY <1>1, <1>2

\* A store turns a claimed free slot into a stored message.
LEMMA StoreBInv ==
  ASSUME BInv, NEW p \in Producer, Store(p)
  PROVE  BInv' /\ Stored' = Stored + 1
<1> USE DEF BInv
<1>1. /\ pc[p] = "inside" /\ Goto(p, "post")
      /\ m_msg' = [m_msg EXCEPT ![m_writePos] = arg[p]]
      /\ m_writePos' = Next1(m_writePos)
      /\ arg' = [arg EXCEPT ![p] = NoMsg]
      /\ UNCHANGED <<m_readPos, m_writeSem, m_readSem, m_msgMutex, last>>
  BY DEF Store
<1>2. p \in Thread /\ p \notin Consumer /\ pc \in [Thread -> Places]
  BY Disjoint DEF PlaceInv
<1>3. /\ m_readPos \in Slots /\ m_writePos \in Slots
      /\ m_writePos' = (IF m_writePos + 1 < MSG_SIZE THEN m_writePos + 1 ELSE 0)
      /\ m_writePos' \in Slots
  BY <1>1, Next1Def DEF PlaceInv
<1>4. arg[p] \in Msg /\ arg[p] # NoMsg
  BY <1>1, BufferAssumption DEF ArgInv
<1>5. PlaceInv'
  BY <1>1, <1>2, <1>3, <1>4 DEF PlaceInv, Places, Goto
<1>6. MutexInv' /\ ArgInv'
  BY <1>1, <1>2, Disjoint DEF MutexInv, ArgInv, PlaceInv, Goto
<1>7. Stored < MSG_SIZE - 1
  BY <1>1, RoomAndMessage
<1>8. Stored' = Stored + 1
  BY <1>1, <1>3, <1>7, BufferAssumption DEF Stored, Slots
<1>9. SemInv'
  <2>1. NumAt(pc, Producer, {"lock", "inside"})' = NumAt(pc, Producer, {"lock", "inside"}) - 1
    BY <1>1, <1>2, Moved, CountTypes DEF Places
  <2>2. NumAt(pc, Producer, {"post"})' = NumAt(pc, Producer, {"post"}) + 1
    BY <1>1, <1>2, Moved, CountTypes DEF Places
  <2>3. /\ NumAt(pc, Consumer, {"lock", "inside"})' = NumAt(pc, Consumer, {"lock", "inside"})
        /\ NumAt(pc, Consumer, {"post"})' = NumAt(pc, Consumer, {"post"})
    BY <1>1, <1>2, Moved, CountTypes DEF Places
  <2> QED
    BY <1>1, <1>8, <2>1, <2>2, <2>3, CountTypes, StoredType, <1>3, BufferAssumption
    DEF SemInv, PlaceInv
<1>10. SlotInv'
  <2> SUFFICES ASSUME NEW k \in Slots
               PROVE  m_msg'[k] # NoMsg <=> Unread(k)'
    BY DEF SlotInv
  <2>1. m_msg'[k] = IF k = m_writePos THEN arg[p] ELSE m_msg[k]
    BY <1>1, <1>3 DEF PlaceInv
  <2>2. Unread(k)' <=> Unread(k) \/ k = m_writePos
    BY <1>1, <1>3, <1>7, BufferAssumption DEF Unread, Stored, Slots
  <2> QED
    BY <2>1, <2>2, <1>4 DEF SlotInv
<1> QED
  BY <1>5, <1>6, <1>8, <1>9, <1>10

\* A take turns a claimed message into a free slot.
LEMMA TakeBInv ==
  ASSUME BInv, NEW c \in Consumer, Take(c)
  PROVE  BInv' /\ Stored' = Stored - 1
<1> USE DEF BInv
<1> DEFINE n == Next1(m_readPos)
<1>1. /\ pc[c] = "inside" /\ Goto(c, "post")
      /\ m_readPos' = n
      /\ arg' = [arg EXCEPT ![c] = m_msg[n]]
      /\ m_msg' = [m_msg EXCEPT ![n] = NoMsg]
      /\ UNCHANGED <<m_writePos, m_writeSem, m_readSem, m_msgMutex>>
  BY DEF Take
<1>2. c \in Thread /\ c \notin Producer /\ pc \in [Thread -> Places]
  BY Disjoint DEF PlaceInv
<1>3. /\ m_readPos \in Slots /\ m_writePos \in Slots
      /\ n = (IF m_readPos + 1 < MSG_SIZE THEN m_readPos + 1 ELSE 0)
      /\ n \in Slots
  BY Next1Def DEF PlaceInv
<1> HIDE DEF n
<1>4. PlaceInv'
  BY <1>1, <1>2, <1>3 DEF PlaceInv, Places, Goto
<1>5. MutexInv' /\ ArgInv'
  BY <1>1, <1>2, Disjoint DEF MutexInv, ArgInv, PlaceInv, Goto
<1>6. Stored > 0
  BY <1>1, RoomAndMessage
<1>7. Stored' = Stored - 1
  BY <1>1, <1>3, <1>6, BufferAssumption DEF Stored, Slots
<1>8. SemInv'
  <2>1. NumAt(pc, Consumer, {"lock", "inside"})' = NumAt(pc, Consumer, {"lock", "inside"}) - 1
    BY <1>1, <1>2, Moved, CountTypes DEF Places
  <2>2. NumAt(pc, Consumer, {"post"})' = NumAt(pc, Consumer, {"post"}) + 1
    BY <1>1, <1>2, Moved, CountTypes DEF Places
  <2>3. /\ NumAt(pc, Producer, {"lock", "inside"})' = NumAt(pc, Producer, {"lock", "inside"})
        /\ NumAt(pc, Producer, {"post"})' = NumAt(pc, Producer, {"post"})
    BY <1>1, <1>2, Moved, CountTypes DEF Places
  <2> QED
    BY <1>1, <1>7, <2>1, <2>2, <2>3, CountTypes, StoredType, <1>3, BufferAssumption
    DEF SemInv, PlaceInv
<1>9. SlotInv'
  <2> SUFFICES ASSUME NEW k \in Slots
               PROVE  m_msg'[k] # NoMsg <=> Unread(k)'
    BY DEF SlotInv
  <2>1. m_msg'[k] = IF k = n THEN NoMsg ELSE m_msg[k]
    BY <1>1, <1>3 DEF PlaceInv
  <2>2. Unread(k)' <=> Unread(k) /\ k # n
    BY <1>1, <1>3, <1>6, BufferAssumption DEF Unread, Stored, Slots
  <2> QED
    BY <2>1, <2>2 DEF SlotInv
<1> QED
  BY <1>4, <1>5, <1>7, <1>8, <1>9

\* The post of putMsg hands its unit to m_readSem.
LEMMA PutPostBInv ==
  ASSUME BInv, NEW p \in Producer, PutPost(p)
  PROVE  BInv'
<1> USE DEF BInv
<1>1. /\ pc[p] = "post" /\ Goto(p, "unlock")
      /\ m_readSem' = m_readSem + 1
      /\ UNCHANGED <<m_msg, m_readPos, m_writePos, m_writeSem, m_msgMutex, arg, last>>
  BY DEF PutPost
<1>2. p \in Thread /\ p \notin Consumer /\ pc \in [Thread -> Places]
  BY Disjoint DEF PlaceInv
<1>3. PlaceInv'
  BY <1>1, <1>2 DEF PlaceInv, Places, Goto
<1>4. MutexInv' /\ ArgInv'
  BY <1>1, <1>2, Disjoint DEF MutexInv, ArgInv, PlaceInv, Goto
<1>5. SemInv' /\ SlotInv'
  <2>1. NumAt(pc, Producer, {"post"})' = NumAt(pc, Producer, {"post"}) - 1
    BY <1>1, <1>2, Moved, CountTypes DEF Places
  <2>2. /\ NumAt(pc, Producer, {"lock", "inside"})' = NumAt(pc, Producer, {"lock", "inside"})
        /\ NumAt(pc, Consumer, {"lock", "inside"})' = NumAt(pc, Consumer, {"lock", "inside"})
        /\ NumAt(pc, Consumer, {"post"})' = NumAt(pc, Consumer, {"post"})
    BY <1>1, <1>2, Moved, CountTypes DEF Places
  <2>3. Stored' = Stored /\ SlotInv'
    BY <1>1 DEF Stored, SlotInv, Unread
  <2> QED
    BY <1>1, <2>1, <2>2, <2>3, CountTypes, StoredType, BufferAssumption DEF SemInv, PlaceInv
<1> QED
  BY <1>3, <1>4, <1>5

\* The post of getNextMsg hands its unit to m_writeSem.
LEMMA GetPostBInv ==
  ASSUME BInv, NEW c \in Consumer, GetPost(c)
  PROVE  BInv'
<1> USE DEF BInv
<1>1. /\ pc[c] = "post" /\ Goto(c, "unlock")
      /\ m_writeSem' = m_writeSem + 1
      /\ UNCHANGED <<m_msg, m_readPos, m_writePos, m_readSem, m_msgMutex, arg, last>>
  BY DEF GetPost
<1>2. c \in Thread /\ c \notin Producer /\ pc \in [Thread -> Places]
  BY Disjoint DEF PlaceInv
<1>3. PlaceInv'
  BY <1>1, <1>2 DEF PlaceInv, Places, Goto
<1>4. MutexInv' /\ ArgInv'
  BY <1>1, <1>2, Disjoint DEF MutexInv, ArgInv, PlaceInv, Goto
<1>5. SemInv' /\ SlotInv'
  <2>1. NumAt(pc, Consumer, {"post"})' = NumAt(pc, Consumer, {"post"}) - 1
    BY <1>1, <1>2, Moved, CountTypes DEF Places
  <2>2. /\ NumAt(pc, Consumer, {"lock", "inside"})' = NumAt(pc, Consumer, {"lock", "inside"})
        /\ NumAt(pc, Producer, {"lock", "inside"})' = NumAt(pc, Producer, {"lock", "inside"})
        /\ NumAt(pc, Producer, {"post"})' = NumAt(pc, Producer, {"post"})
    BY <1>1, <1>2, Moved, CountTypes DEF Places
  <2>3. Stored' = Stored /\ SlotInv'
    BY <1>1 DEF Stored, SlotInv, Unread
  <2> QED
    BY <1>1, <2>1, <2>2, <2>3, CountTypes, StoredType, BufferAssumption DEF SemInv, PlaceInv
<1> QED
  BY <1>3, <1>4, <1>5

\* The mutex is released by the thread that holds it.
LEMMA UnlockBInv ==
  ASSUME BInv, NEW t \in Thread, Unlock(t)
  PROVE  BInv'
<1> USE DEF BInv
<1>1. /\ pc[t] = "unlock" /\ Goto(t, "idle")
      /\ m_msgMutex' = NoOne
      /\ UNCHANGED <<m_msg, m_readPos, m_writePos, m_writeSem, m_readSem, arg, last>>
  BY DEF Unlock
<1>2. pc \in [Thread -> Places]
  BY DEF PlaceInv
<1>3. PlaceInv'
  BY <1>1, <1>2 DEF PlaceInv, Places, Goto
<1>4. MutexInv' /\ ArgInv'
  BY <1>1, <1>2, Disjoint DEF MutexInv, ArgInv, PlaceInv, Goto
<1>5. SemInv' /\ SlotInv'
  <2>1. /\ NumAt(pc, Producer, {"lock", "inside"})' = NumAt(pc, Producer, {"lock", "inside"})
        /\ NumAt(pc, Producer, {"post"})' = NumAt(pc, Producer, {"post"})
        /\ NumAt(pc, Consumer, {"lock", "inside"})' = NumAt(pc, Consumer, {"lock", "inside"})
        /\ NumAt(pc, Consumer, {"post"})' = NumAt(pc, Consumer, {"post"})
    BY <1>1, <1>2, Moved, CountTypes DEF Places
  <2>2. Stored' = Stored /\ SlotInv'
    BY <1>1 DEF Stored, SlotInv, Unread
  <2> QED
    BY <1>1, <2>1, <2>2 DEF SemInv
<1> QED
  BY <1>3, <1>4, <1>5

\* Every step of every thread preserves the invariant.
LEMMA NextBInv == BInv /\ [Next]_vars => BInv'
<1> SUFFICES ASSUME BInv, [Next]_vars
             PROVE  BInv'
  OBVIOUS
<1>1. CASE UNCHANGED vars
  BY <1>1 DEF vars, BInv, PlaceInv, MutexInv, ArgInv, SemInv, SlotInv, NumAt, Stored, Unread
<1>2. CASE Next
  BY <1>2, Disjoint, PutWaitBInv, GetWaitBInv, LockBInv, StoreBInv, TakeBInv,
     PutPostBInv, GetPostBInv, UnlockBInv
  DEF Next, PutStep, GetStep
<1> QED
  BY <1>1, <1>2

\* The invariant holds in every state of every buffer.
THEOREM BufferInv == Spec => []BInv
<1>1. BInv /\ [Next]_vars => BInv'
  BY NextBInv
<1> QED
  BY InitBInv, <1>1, PTL DEF Spec

-----------------------------------------------------------------------------
(* What follows from the invariant. *)

\* The slot a producer is about to write is the one before the unread ones,
\* the slot a consumer is about to read is the first of them.
LEMMA SafeSlots == BInv => NoOverwrite /\ NoEmptyGet
<1> SUFFICES ASSUME BInv
             PROVE  NoOverwrite /\ NoEmptyGet
  OBVIOUS
<1> USE DEF BInv
<1>1. m_readPos \in Slots /\ m_writePos \in Slots
  BY DEF PlaceInv
<1>2. ASSUME NEW p \in Producer, pc[p] = "inside"
      PROVE  m_msg[m_writePos] = NoMsg
  <2>1. Stored < MSG_SIZE - 1
    BY <1>2, RoomAndMessage
  <2>2. ~ Unread(m_writePos)
    BY <1>1, <2>1, BufferAssumption DEF Unread, Stored, Slots
  <2> QED
    BY <1>1, <2>2 DEF SlotInv
<1>3. ASSUME NEW c \in Consumer, pc[c] = "inside"
      PROVE  m_msg[Next1(m_readPos)] # NoMsg
  <2>1. Stored > 0
    BY <1>3, RoomAndMessage
  <2>2. /\ Next1(m_readPos) = IF m_readPos + 1 < MSG_SIZE THEN m_readPos + 1 ELSE 0
        /\ Next1(m_readPos) \in Slots
    BY <1>1, Next1Def
  <2>3. Unread(Next1(m_readPos))
    BY <1>1, <2>1, <2>2, BufferAssumption DEF Unread, Stored, Slots
  <2> QED
    BY <2>2, <2>3 DEF SlotInv
<1> QED
  BY <1>2, <1>3 DEF NoOverwrite, NoEmptyGet

\* The semaphores never exceed the room of the ring.
LEMMA BInvType == BInv => TypeOK
<1> SUFFICES ASSUME BInv
             PROVE  TypeOK
  OBVIOUS
<1> USE DEF BInv
<1>1. m_writeSem \in 0 .. MSG_SIZE - 1 /\ m_readSem \in 0 .. MSG_SIZE - 1
  BY CountTypes, StoredType, BufferAssumption DEF SemInv, PlaceInv
<1> QED
  BY <1>1 DEF PlaceInv, TypeOK, Places

\* The buffer keeps its types: no semaphore overflows, however many threads
\* are between their wait and their post.
THEOREM BufferTypeCorrect == Spec => []TypeOK
  BY BufferInv, BInvType, PTL

\* No unread message is overwritten and no empty slot is returned.
THEOREM NoLossNoGarbage == Spec => [](NoOverwrite /\ NoEmptyGet)
  BY BufferInv, SafeSlots, PTL

-----------------------------------------------------------------------------
(* The ring is a queue. *)

\* The i-th place of the queue is a slot, and no two places share one.
LEMMA SlotDef ==
  ASSUME m_readPos \in Slots, NEW i \in 1 .. MSG_SIZE - 1
  PROVE  Slot(i) \in Slots /\ Slot(i) # m_readPos
BY BufferAssumption DEF Slot, Slots

\* The ring, read from its first unread slot, is a sequence.
LEMMA QueueType ==
  ASSUME PlaceInv
  PROVE  /\ Queue \in Seq(Msg \cup {NoMsg})
         /\ Len(Queue) = Stored
<1>1. Stored \in Nat /\ 1 .. Stored \subseteq 1 .. MSG_SIZE - 1
  BY StoredType, BufferAssumption DEF PlaceInv
<1>2. \A i \in 1 .. Stored : m_msg[Slot(i)] \in Msg \cup {NoMsg}
  BY <1>1, SlotDef DEF PlaceInv
<1> QED
  BY <1>1, <1>2 DEF Queue

\* The store appends the message of the producer to the queue.
LEMMA StoreAppends ==
  ASSUME BInv, NEW p \in Producer, Store(p)
  PROVE  Fifo!Put(arg[p])
<1> USE DEF BInv
<1>1. /\ pc[p] = "inside" /\ arg[p] \in Msg
      /\ m_msg' = [m_msg EXCEPT ![m_writePos] = arg[p]]
      /\ m_msg \in [Slots -> Msg \cup {NoMsg}]
      /\ m_readPos \in Slots /\ m_writePos \in Slots
      /\ m_readPos' = m_readPos /\ last' = last
  BY DEF Store, ArgInv, PlaceInv
<1>2. /\ Stored \in Nat /\ Stored < MSG_SIZE - 1
      /\ Stored' = Stored + 1
  BY <1>1, StoredType, RoomAndMessage, StoreBInv, BufferAssumption
<1>3. Slot(Stored + 1) = m_writePos
  BY <1>1, <1>2, BufferAssumption DEF Slot, Slots, Stored
<1>4. ASSUME NEW i \in 1 .. Stored
      PROVE  Slot(i) \in Slots /\ Slot(i) # m_writePos
  BY <1>1, <1>2, BufferAssumption DEF Slot, Slots, Stored
<1>5. \A i : Slot(i)' = Slot(i)
  BY <1>1 DEF Slot
<1>6. Queue' = [i \in 1 .. Stored + 1 |-> m_msg'[Slot(i)]]
  BY <1>2, <1>5 DEF Queue
<1>7. Queue' = [i \in 1 .. Stored + 1 |-> IF i = Stored + 1 THEN arg[p] ELSE m_msg[Slot(i)]]
  <2>1. ASSUME NEW i \in 1 .. Stored + 1
        PROVE  m_msg'[Slot(i)] = IF i = Stored + 1 THEN arg[p] ELSE m_msg[Slot(i)]
    BY <1>1, <1>2, <1>3, <1>4
  <2> QED
    BY <1>6, <2>1
<1>8. Append(Queue, arg[p]) = Queue'
  BY <1>1, <1>2, <1>7, QueueType DEF Queue
<1> QED
  BY <1>1, <1>2, <1>8, QueueType DEF Fifo!Put

\* The take removes the head of the queue and hands it over.
LEMMA TakeRemovesHead ==
  ASSUME BInv, NEW c \in Consumer, Take(c)
  PROVE  Fifo!Get
<1> USE DEF BInv
<1> DEFINE n == Next1(m_readPos)
<1>1. /\ pc[c] = "inside"
      /\ m_readPos' = n /\ last' = <<m_msg[n]>>
      /\ m_msg' = [m_msg EXCEPT ![n] = NoMsg]
      /\ m_msg \in [Slots -> Msg \cup {NoMsg}]
      /\ m_readPos \in Slots /\ m_writePos \in Slots
  BY DEF Take, PlaceInv
<1>2. n = (IF m_readPos + 1 < MSG_SIZE THEN m_readPos + 1 ELSE 0) /\ n \in Slots
  BY <1>1, Next1Def
<1> HIDE DEF n
<1>3. /\ Stored \in 0 .. MSG_SIZE - 1 /\ Stored > 0
      /\ Stored' = Stored - 1
  BY <1>1, StoredType, RoomAndMessage, TakeBInv
<1>4. Slot(1) = n
  BY <1>1, <1>2, BufferAssumption DEF Slot, Slots
<1>5. ASSUME NEW i \in 1 .. Stored - 1
      PROVE  Slot(i)' = Slot(i + 1) /\ Slot(i + 1) \in Slots /\ Slot(i + 1) # n
  BY <1>1, <1>2, <1>3, BufferAssumption DEF Slot, Slots
<1>6. Queue' = [i \in 1 .. Stored - 1 |-> m_msg'[Slot(i)']]
  BY <1>3 DEF Queue
<1>7. Queue' = [i \in 1 .. Stored - 1 |-> m_msg[Slot(i + 1)]]
  <2>1. ASSUME NEW i \in 1 .. Stored - 1
        PROVE  m_msg'[Slot(i)'] = m_msg[Slot(i + 1)]
    BY <1>1, <1>5
  <2> QED
    BY <1>6, <2>1
<1>8. Queue \in Seq(Msg \cup {NoMsg}) /\ Len(Queue) = Stored
  BY QueueType
<1>9. Tail(Queue) = Queue'
  <2> DEFINE T == [i \in 1 .. Stored - 1 |-> Queue[i + 1]]
  <2>1. T \in Seq(Msg \cup {NoMsg}) /\ Len(T) = Stored - 1
    BY <1>3, <1>8
  <2>2. /\ Tail(Queue) \in Seq(Msg \cup {NoMsg}) /\ Len(Tail(Queue)) = Stored - 1
        /\ \A i \in 1 .. Stored - 1 : Tail(Queue)[i] = Queue[i + 1]
    BY <1>3, <1>8, HeadTailProperties, EmptySeq
  <2>3. Tail(Queue) = T
    BY <2>1, <2>2, SeqEqual
  <2>4. ASSUME NEW i \in 1 .. Stored - 1
        PROVE  Queue[i + 1] = m_msg[Slot(i + 1)]
    BY <1>3 DEF Queue
  <2> QED
    BY <1>7, <2>3, <2>4
<1>10. Head(Queue) = m_msg[n] /\ Queue # <<>>
  BY <1>3, <1>4, <1>8 DEF Queue
<1> QED
  BY <1>1, <1>9, <1>10 DEF Fifo!Get

\* Every other step leaves the ring, hence the queue, alone.
LEMMA QueueKept ==
  ASSUME UNCHANGED <<m_msg, m_readPos, m_writePos, last>>
  PROVE  UNCHANGED <<Queue, last>>
BY DEF Queue, Stored, Slot

\* Each step of the ring is a step of the queue, or leaves it unchanged.
LEMMA StepSimulation == BInv /\ [Next]_vars => [Fifo!FifoNext]_<<Queue, last>>
<1> SUFFICES ASSUME BInv, [Next]_vars
             PROVE  Fifo!FifoNext \/ UNCHANGED <<Queue, last>>
  OBVIOUS
<1>1. ASSUME NEW p \in Producer, Store(p)
      PROVE  Fifo!FifoNext
  <2>1. arg[p] \in Msg
    BY <1>1 DEF BInv, ArgInv, Store
  <2> QED
    BY <1>1, <2>1, StoreAppends DEF Fifo!FifoNext
<1>2. ASSUME NEW c \in Consumer, Take(c)
      PROVE  Fifo!FifoNext
  BY <1>2, TakeRemovesHead DEF Fifo!FifoNext
<1>3. ASSUME NEW p \in Producer, NEW m \in Msg, PutWait(p, m) \/ PutPost(p)
      PROVE  UNCHANGED <<Queue, last>>
  BY <1>3, QueueKept DEF PutWait, PutPost
<1>4. ASSUME NEW c \in Consumer, GetWait(c) \/ GetPost(c)
      PROVE  UNCHANGED <<Queue, last>>
  BY <1>4, QueueKept DEF GetWait, GetPost
<1>5. ASSUME NEW t \in Thread, Lock(t) \/ Unlock(t)
      PROVE  UNCHANGED <<Queue, last>>
  BY <1>5, QueueKept DEF Lock, Unlock
<1>6. ASSUME UNCHANGED vars
      PROVE  UNCHANGED <<Queue, last>>
  BY <1>6, QueueKept DEF vars
<1>7. ASSUME NEW p \in Producer, PutPost(p)
      PROVE  UNCHANGED <<Queue, last>>
  BY <1>7, QueueKept DEF PutPost
<1>8. CASE Next
  BY <1>8, <1>1, <1>2, <1>3, <1>4, <1>5, <1>7, Disjoint DEF Next, PutStep, GetStep
<1> QED
  BY <1>6, <1>8

\* The ring starts as the empty queue.
LEMMA InitSimulation == Init => Fifo!FifoInit
<1> SUFFICES ASSUME Init
             PROVE  Queue = <<>> /\ last = <<>>
  BY DEF Fifo!FifoInit
<1>1. Stored = 0
  BY DEF Init, Stored
<1>2. Queue = [i \in 1 .. 0 |-> m_msg[Slot(i)]]
  BY <1>1 DEF Queue
<1> QED
  BY <1>2 DEF Init

\* The ring with its mutex and semaphores implements the bounded queue.
THEOREM RingImplementsFifo == Spec => ImplementsFifo
  BY BufferInv, InitSimulation, StepSimulation, PTL DEF Spec, ImplementsFifo, Fifo!FifoSpec

=============================================================================
