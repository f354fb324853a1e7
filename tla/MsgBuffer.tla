----------------------------- MODULE MsgBuffer -----------------------------
(***************************************************************************)
(* The message buffer between the threads of a node (CCN_Layer/Buffer.cpp):*)
(* a ring of slots, a mutex and two semaphores.  Each statement of putMsg  *)
(* and of getNextMsg that another thread can observe is a step; several    *)
(* producers and several consumers may be in the calls at once.            *)
(***************************************************************************)
EXTENDS Integers, FiniteSets, Sequences

CONSTANTS
  Producer,   \* threads that call putMsg
  Consumer,   \* threads that call getNextMsg
  Msg,        \* messages
  MSG_SIZE    \* slots of the ring

NoMsg == "no message"   \* a slot whose _buffer is 0
NoOne == "no thread"    \* the mutex is free

ASSUME BufferAssumption ==
  /\ MSG_SIZE \in Nat \ {0, 1}
  /\ Producer \cap Consumer = {}
  /\ IsFiniteSet(Producer) /\ IsFiniteSet(Consumer)
  /\ NoMsg \notin Msg
  /\ NoOne \notin Producer \cup Consumer

Thread == Producer \cup Consumer
Slots == 0 .. MSG_SIZE - 1

VARIABLES
  m_msg,       \* the slots
  m_readPos,   \* the slot read last
  m_writePos,  \* the slot to write next
  m_writeSem,  \* free slots that no producer has claimed
  m_readSem,   \* messages that no consumer has claimed
  m_msgMutex,  \* the thread that holds the mutex
  pc,          \* where each thread stands in its call
  arg,         \* the message each thread is putting, or has got
  last         \* history: the message of the last get, as a sequence

vars == <<m_msg, m_readPos, m_writePos, m_writeSem, m_readSem, m_msgMutex, pc, arg, last>>

-----------------------------------------------------------------------------
Next1(k) == (k + 1) % MSG_SIZE
Goto(t, place) == pc' = [pc EXCEPT ![t] = place]

\* Mutant: every slot counts as free, the one at m_readPos included.
InitAllFree ==
  /\ m_msg = [k \in Slots |-> NoMsg]
  /\ m_readPos = 0
  /\ m_writePos = 1
  /\ m_writeSem = MSG_SIZE
  /\ m_readSem = 0
  /\ m_msgMutex = NoOne
  /\ pc = [t \in Thread |-> "idle"]
  /\ arg = [t \in Thread |-> NoMsg]
  /\ last = <<>>

Init ==
  /\ m_msg = [k \in Slots |-> NoMsg]
  /\ m_readPos = 0
  /\ m_writePos = 1
  /\ m_writeSem = MSG_SIZE - 1
  /\ m_readSem = 0
  /\ m_msgMutex = NoOne
  /\ pc = [t \in Thread |-> "idle"]
  /\ arg = [t \in Thread |-> NoMsg]
  /\ last = <<>>

\* sem_wait( &m_writeSem ), on the call of putMsg( m )
PutWait(p, m) ==
  /\ pc[p] = "idle"
  /\ m_writeSem > 0
  /\ m_writeSem' = m_writeSem - 1
  /\ arg' = [arg EXCEPT ![p] = m]
  /\ Goto(p, "lock")
  /\ UNCHANGED <<m_msg, m_readPos, m_writePos, m_readSem, m_msgMutex, last>>

\* Mutant: getNextMsg goes on although its sem_wait was interrupted.
GetWaitInterrupted(c) ==
  /\ pc[c] = "idle"
  /\ m_readSem' = IF m_readSem > 0 THEN m_readSem - 1 ELSE 0
  /\ Goto(c, "lock")
  /\ UNCHANGED <<m_msg, m_readPos, m_writePos, m_writeSem, m_msgMutex, arg, last>>

\* sem_wait( &m_readSem ), on the call of getNextMsg
GetWait(c) ==
  /\ pc[c] = "idle"
  /\ m_readSem > 0
  /\ m_readSem' = m_readSem - 1
  /\ Goto(c, "lock")
  /\ UNCHANGED <<m_msg, m_readPos, m_writePos, m_writeSem, m_msgMutex, arg, last>>

Lock(t) ==
  /\ pc[t] = "lock"
  /\ m_msgMutex = NoOne
  /\ m_msgMutex' = t
  /\ Goto(t, "inside")
  /\ UNCHANGED <<m_msg, m_readPos, m_writePos, m_writeSem, m_readSem, arg, last>>

\* Mutant: m_writePos is advanced before the message is stored, not after.
StoreAfterAdvance(p) ==
  /\ pc[p] = "inside"
  /\ m_msg' = [m_msg EXCEPT ![Next1(m_writePos)] = arg[p]]
  /\ m_writePos' = Next1(m_writePos)
  /\ arg' = [arg EXCEPT ![p] = NoMsg]
  /\ Goto(p, "post")
  /\ UNCHANGED <<m_readPos, m_writeSem, m_readSem, m_msgMutex, last>>

\* The message goes to the slot m_writePos, whose old buffer would be freed.
Store(p) ==
  /\ pc[p] = "inside"
  /\ m_msg' = [m_msg EXCEPT ![m_writePos] = arg[p]]
  /\ m_writePos' = Next1(m_writePos)
  /\ arg' = [arg EXCEPT ![p] = NoMsg]
  /\ Goto(p, "post")
  /\ UNCHANGED <<m_readPos, m_writeSem, m_readSem, m_msgMutex, last>>

\* Mutant: the slot keeps its buffer after the message was handed out.
TakeKeepsBuffer(c) ==
  /\ pc[c] = "inside"
  /\ m_readPos' = Next1(m_readPos)
  /\ arg' = [arg EXCEPT ![c] = m_msg[Next1(m_readPos)]]
  /\ last' = <<m_msg[Next1(m_readPos)]>>
  /\ Goto(c, "post")
  /\ UNCHANGED <<m_msg, m_writePos, m_writeSem, m_readSem, m_msgMutex>>

\* The message of the slot after m_readPos is copied out and the slot cleared.
Take(c) ==
  /\ pc[c] = "inside"
  /\ m_readPos' = Next1(m_readPos)
  /\ arg' = [arg EXCEPT ![c] = m_msg[Next1(m_readPos)]]
  /\ last' = <<m_msg[Next1(m_readPos)]>>
  /\ m_msg' = [m_msg EXCEPT ![Next1(m_readPos)] = NoMsg]
  /\ Goto(c, "post")
  /\ UNCHANGED <<m_writePos, m_writeSem, m_readSem, m_msgMutex>>

\* Mutant: putMsg posts the semaphore it waited on.
PutPostWrong(p) ==
  /\ pc[p] = "post"
  /\ m_writeSem' = m_writeSem + 1
  /\ Goto(p, "unlock")
  /\ UNCHANGED <<m_msg, m_readPos, m_writePos, m_readSem, m_msgMutex, arg, last>>

PutPost(p) ==
  /\ pc[p] = "post"
  /\ m_readSem' = m_readSem + 1
  /\ Goto(p, "unlock")
  /\ UNCHANGED <<m_msg, m_readPos, m_writePos, m_writeSem, m_msgMutex, arg, last>>

GetPost(c) ==
  /\ pc[c] = "post"
  /\ m_writeSem' = m_writeSem + 1
  /\ Goto(c, "unlock")
  /\ UNCHANGED <<m_msg, m_readPos, m_writePos, m_readSem, m_msgMutex, arg, last>>

Unlock(t) ==
  /\ pc[t] = "unlock"
  /\ m_msgMutex' = NoOne
  /\ Goto(t, "idle")
  /\ UNCHANGED <<m_msg, m_readPos, m_writePos, m_writeSem, m_readSem, arg, last>>

PutStep(p) == Lock(p) \/ Store(p) \/ PutPost(p) \/ Unlock(p)
GetStep(c) == GetWait(c) \/ Lock(c) \/ Take(c) \/ GetPost(c) \/ Unlock(c)

Next ==
  \/ \E p \in Producer : PutStep(p) \/ \E m \in Msg : PutWait(p, m)
  \/ \E c \in Consumer : GetStep(c)

Spec == Init /\ [][Next]_vars

\* A consumer is a thread whose loop calls getNextMsg again and again; a
\* producer that entered putMsg runs on, but none need ever call it.
Fairness ==
  /\ \A p \in Producer : WF_vars(PutStep(p))
  /\ \A c \in Consumer : WF_vars(GetStep(c))

FairSpec == Spec /\ Fairness

-----------------------------------------------------------------------------
(* Properties *)

\* The number of messages in the ring, and the ring read as a queue.
Stored ==
  IF m_readPos < m_writePos THEN m_writePos - m_readPos - 1
                            ELSE m_writePos - m_readPos - 1 + MSG_SIZE
Slot(i) == IF m_readPos + i < MSG_SIZE THEN m_readPos + i ELSE m_readPos + i - MSG_SIZE
Queue == [i \in 1 .. Stored |-> m_msg[Slot(i)]]

TypeOK ==
  /\ m_msg \in [Slots -> Msg \cup {NoMsg}]
  /\ m_readPos \in Slots /\ m_writePos \in Slots
  /\ m_writeSem \in 0 .. MSG_SIZE - 1 /\ m_readSem \in 0 .. MSG_SIZE - 1
  /\ m_msgMutex \in Thread \cup {NoOne}
  /\ pc \in [Thread -> {"idle", "lock", "inside", "post", "unlock"}]
  /\ arg \in [Thread -> Msg \cup {NoMsg}]

\* No putMsg finds an unread message in the slot it writes, and so the delete
\* of the old buffer (Buffer.cpp:71-74) never throws a message away.
NoOverwrite ==
  \A p \in Producer : pc[p] = "inside" => m_msg[m_writePos] = NoMsg

\* No getNextMsg returns an empty slot: whoever passes the semaphore finds a
\* message, although another consumer may have passed in between.
NoEmptyGet ==
  \A c \in Consumer : pc[c] = "inside" => m_msg[Next1(m_readPos)] # NoMsg

\* The buffer is a bounded first-in first-out queue: a put takes effect at
\* its store, a get at its take, in between nothing is lost or reordered.
Fifo == INSTANCE BoundedFifo
          WITH Capacity <- MSG_SIZE - 1, queue <- Queue, got <- last
ImplementsFifo == Fifo!FifoSpec

\* A message at the head is eventually taken, however producers contend for
\* the mutex: when the ring is full they wait at the semaphore.
HeadIsTaken ==
  \A k \in Slots : (m_readPos = k /\ Stored > 0) ~> m_readPos # k

=============================================================================
