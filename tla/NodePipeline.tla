---------------------------- MODULE NodePipeline ----------------------------
(***************************************************************************)
(* The threads of one node around its two message buffers: the control     *)
(* panel, which sets the tables, starts the others and then pauses and     *)
(* resumes the data panel (ControlPanel.cpp, Threading.cpp); the receiver  *)
(* threads, each with a reformer and its checker (MsgReceiver.cpp,         *)
(* Reformer.cpp; an edge router has a second one for its groups,           *)
(* EPSRouter.cpp); the data panel (DataPanel.cpp); the sender              *)
(* (MsgSender.cpp) and the thread that talks to the user of a subscriber   *)
(* or publisher (SubscribeThreading.cpp, PublishThreading.cpp).            *)
(*                                                                         *)
(* The buffers are the bounded queues that MsgBuffer implements.  A        *)
(* message is the face it came by or goes out by.                          *)
(***************************************************************************)
EXTENDS Integers, Sequences

CONSTANTS
  Receiver,   \* the receiver threads
  Face,       \* the faces of the node
  Capacity,   \* MSG_SIZE - 1
  MaxOut,     \* bound: messages that a handler sends
  MaxIn       \* bound: messages received

ASSUME PipelineAssumption ==
  /\ Face \subseteq Nat
  /\ Capacity \in Nat \ {0} /\ MaxOut \in Nat /\ MaxIn \in Nat

VARIABLES
  control,     \* where the control panel stands
  faceTable,   \* m_transmissionFaceTable of sender and receivers
  fib,         \* the faces that m_fib leads to
  status,      \* m_status of the data panel
  data,        \* where the thread of the data panel stands
  out,         \* the messages its handler has still to send
  user,        \* the face of the message that the user thread sends, or NoFace
  sender,      \* where the sender thread stands
  sendBuffer, recevBuffer,
  slot,        \* the message each receiver thread puts, or None
  mutex,       \* who holds m_bufferMutex of each reformer
  checker,     \* where the checker thread of each reformer stands
  arrived, handled,   \* history: messages taken from the network and handled
  since               \* history: messages taken up by the data panel in a pause

NoFace == -1
None == -2

controlVars == <<control, faceTable, fib, status>>
dataVars == <<data, out, handled, since>>
reformerVars == <<slot, mutex, checker, arrived>>
buffers == <<sendBuffer, recevBuffer>>
vars == <<controlVars, dataVars, reformerVars, buffers, user, sender>>

Init ==
  /\ control = "tables" /\ faceTable = {} /\ fib = {} /\ status = "Run"
  /\ data = "off" /\ out = <<>> /\ handled = 0 /\ since = 0
  /\ user = NoFace /\ sender = "off"
  /\ sendBuffer = <<>> /\ recevBuffer = <<>>
  /\ slot = [r \in Receiver |-> None]
  /\ mutex = [r \in Receiver |-> "free"]
  /\ checker = [r \in Receiver |-> "sleep"]
  /\ arrived = 0

-----------------------------------------------------------------------------
(* The control panel. *)

InjectTransFaceTable ==
  /\ control = "tables"
  /\ control' = "fib"
  /\ faceTable' = Face
  /\ UNCHANGED <<fib, status, dataVars, reformerVars, buffers, user, sender>>

InjectFIB ==
  /\ control = "fib"
  /\ control' = "start"
  /\ \E f \in SUBSET Face : fib' = f
  /\ UNCHANGED <<faceTable, status, dataVars, reformerVars, buffers, user, sender>>

\* The threads start first.
StartFirst ==
  /\ control = "tables" /\ sender = "off"
  /\ sender' = "run" /\ data' = "test"
  /\ UNCHANGED <<controlVars, out, handled, since, reformerVars, buffers, user>>

\* Panel::start, then the thread of the data panel.
Start ==
  /\ control = "start"
  /\ control' = "loop"
  /\ sender' = "run" /\ data' = "test"
  /\ UNCHANGED <<faceTable, fib, status, out, handled, since, reformerVars, buffers, user>>

Pause ==
  /\ control = "loop"
  /\ control' = "paused"
  /\ status' = "Pause" /\ since' = 0
  /\ UNCHANGED <<faceTable, fib, data, out, handled, reformerVars, buffers, user, sender>>

\* The condition is not signalled.
ResumeSilent ==
  /\ control = "paused"
  /\ control' = "loop"
  /\ status' = "Run"
  /\ UNCHANGED <<faceTable, fib, dataVars, reformerVars, buffers, user, sender>>

\* resume wakes the thread if it waits; it has to test the status again.
Resume ==
  /\ control = "paused"
  /\ control' = "loop"
  /\ status' = "Run"
  /\ data' = IF data = "wait" THEN "test" ELSE data
  /\ UNCHANGED <<faceTable, fib, out, handled, since, reformerVars, buffers, user, sender>>

-----------------------------------------------------------------------------
(* The receiver threads and the checkers of their reformers. *)

\* recvFrom and putSlice of the last slice of a message from one of the
\* neighbours, up to putMsg.  Its face is looked up in the face table.  The
\* receiver for groups runs from the constructor on (EPSRouter.cpp:33), but no
\* group is joined before the data panel has started, so nothing comes to it.
Receive(r) ==
  /\ sender # "off"
  /\ arrived < MaxIn
  /\ slot[r] = None /\ mutex[r] = "free"
  /\ mutex' = [mutex EXCEPT ![r] = "receiver"]
  /\ \E f \in Face :
       slot' = [slot EXCEPT ![r] = IF f \in faceTable THEN f ELSE NoFace]
  /\ arrived' = arrived + 1
  /\ UNCHANGED <<controlVars, dataVars, checker, buffers, user, sender>>

\* The mutex is never unlocked.
PutMsgHolding(r) ==
  /\ slot[r] # None
  /\ Len(recevBuffer) < Capacity
  /\ recevBuffer' = Append(recevBuffer, slot[r])
  /\ slot' = [slot EXCEPT ![r] = None]
  /\ UNCHANGED <<controlVars, dataVars, mutex, checker, arrived, sendBuffer, user, sender>>

\* putMsg of the reformer, which waits for room with the mutex locked.
PutMsg(r) ==
  /\ slot[r] # None
  /\ Len(recevBuffer) < Capacity
  /\ recevBuffer' = Append(recevBuffer, slot[r])
  /\ slot' = [slot EXCEPT ![r] = None]
  /\ mutex' = [mutex EXCEPT ![r] = "free"]
  /\ UNCHANGED <<controlVars, dataVars, checker, arrived, sendBuffer, user, sender>>

\* The checker wakes up, locks the mutex and unlocks it when it has checked.
Wake(r) ==
  /\ checker[r] = "sleep"
  /\ checker' = [checker EXCEPT ![r] = "lock"]
  /\ UNCHANGED <<controlVars, dataVars, slot, mutex, arrived, buffers, user, sender>>

Check(r) ==
  /\ \/ /\ checker[r] = "lock" /\ mutex[r] = "free"
        /\ mutex' = [mutex EXCEPT ![r] = "checker"]
        /\ checker' = [checker EXCEPT ![r] = "check"]
     \/ /\ checker[r] = "check"
        /\ mutex' = [mutex EXCEPT ![r] = "free"]
        /\ checker' = [checker EXCEPT ![r] = "sleep"]
  /\ UNCHANGED <<controlVars, dataVars, slot, arrived, buffers, user, sender>>

-----------------------------------------------------------------------------
(* The data panel. *)

\* A thread that has been paused does not notice.
TestPassing ==
  /\ data = "test"
  /\ data' = "take"
  /\ UNCHANGED <<controlVars, out, handled, since, reformerVars, buffers, user, sender>>

\* isRunning: goes on, or waits for the condition.
Test ==
  /\ data = "test"
  /\ data' = IF status = "Run" THEN "take" ELSE "wait"
  /\ UNCHANGED <<controlVars, out, handled, since, reformerVars, buffers, user, sender>>

\* recevMsg; the handler sends something or nothing, by a face of the FIB or
\* by one that a message came by, as the routers' handlers do.
Take ==
  /\ data = "take" /\ recevBuffer # <<>>
  /\ recevBuffer' = Tail(recevBuffer)
  /\ data' = "handle"
  /\ \E n \in 0 .. MaxOut : out' \in [1 .. n -> fib \cup {Head(recevBuffer)}]
  /\ since' = since + 1
  /\ UNCHANGED <<controlVars, handled, reformerVars, sendBuffer, user, sender>>

\* sendMsg of the handler, which waits for room; then the loop again.
Handle ==
  /\ data = "handle"
  /\ IF out = <<>>
     THEN /\ data' = "test" /\ handled' = handled + 1
          /\ UNCHANGED <<out, sendBuffer>>
     ELSE /\ Len(sendBuffer) < Capacity
          /\ sendBuffer' = Append(sendBuffer, Head(out))
          /\ out' = Tail(out)
          /\ UNCHANGED <<data, handled>>
  /\ UNCHANGED <<controlVars, since, reformerVars, recevBuffer, user, sender>>

-----------------------------------------------------------------------------
(* The user thread and the sender. *)

\* subscribe or publish, from getFaceList: nothing without a face.  The user
\* may be faster than the control panel.
Ask ==
  /\ user = NoFace
  /\ user' \in fib
  /\ UNCHANGED <<controlVars, dataVars, reformerVars, buffers, sender>>

SendMsg ==
  /\ user # NoFace
  /\ Len(sendBuffer) < Capacity
  /\ sendBuffer' = Append(sendBuffer, user)
  /\ user' = NoFace
  /\ UNCHANGED <<controlVars, dataVars, reformerVars, recevBuffer, sender>>

\* The next message goes out, arrived or given up after ten tries; at an
\* unknown face (-1 is greater than any size) the thread ends.
Sender ==
  /\ sender = "run" /\ sendBuffer # <<>>
  /\ sendBuffer' = Tail(sendBuffer)
  /\ sender' = IF Head(sendBuffer) \in faceTable THEN "run" ELSE "ended"
  /\ UNCHANGED <<controlVars, dataVars, reformerVars, recevBuffer, user>>

-----------------------------------------------------------------------------
Control == InjectTransFaceTable \/ InjectFIB \/ Start \/ Pause \/ Resume

Next ==
  \/ Control
  \/ Test \/ Take \/ Handle
  \/ Ask \/ SendMsg \/ Sender
  \/ \E r \in Receiver : Receive(r) \/ PutMsg(r) \/ Wake(r) \/ Check(r)

Spec == Init /\ [][Next]_vars

\* Threads that can go on do so.  The control panel sleeps ten seconds between
\* a resume and the next pause, so that a thread that is woken gets to its
\* test in between; the user thread sleeps five between two messages, so that
\* the handler finds room; and checkers sleep, so that a mutex is not always
\* taken when the other thread asks for it.
Fairness ==
  /\ WF_vars(Control)
  /\ SF_vars(Test /\ status = "Run") /\ WF_vars(Take) /\ SF_vars(Handle)
  /\ WF_vars(Sender)
  /\ \A r \in Receiver : WF_vars(PutMsg(r)) /\ SF_vars(Check(r))

FairSpec == Spec /\ Fairness

-----------------------------------------------------------------------------
(* Properties *)

\* The sender thread never meets an unknown face: neither the user thread,
\* which may send before the panel starts, nor an answer by the face of a
\* message that came before the face table would end it (MsgSender.cpp:86).
SenderLives == sender # "ended"

\* A paused data panel takes up at most the message it was about to take
\* (Threading.cpp:78).
PausedStops == status = "Pause" => since <= 1

\* Every message that a receiver thread took from the network is handled:
\* no pause comes between a test and a wait so that the thread sleeps on, and
\* the threads do not wait for one another in a circle when both buffers are
\* full (Threading.cpp:61, Reformer.cpp:268).
AllHandled == \A k \in 1 .. MaxIn : (arrived >= k) ~> (handled >= k)

\* A checker that waits for a reformer's mutex gets it, although a receiver
\* may hold it while it waits for room (Reformer.cpp:268).
CheckerGoesOn == \A r \in Receiver : (checker[r] = "lock") ~> (checker[r] = "check")

=============================================================================
