------------------------- MODULE NodePipelineProofs -------------------------
(***************************************************************************)
(* Proofs about the threads of a node, for any buffers, faces and          *)
(* receivers and any number of messages: the sender thread never meets an  *)
(* unknown face, and a paused data panel takes up at most one message.     *)
(***************************************************************************)
EXTENDS NodePipeline, TLAPS

\* Whatever is on its way out goes by a face of the node, because no message
\* is received and no FIB injected before the face table is.
FaceInv ==
  /\ sendBuffer \in Seq(Face) /\ recevBuffer \in Seq(Face) /\ out \in Seq(Face)
  /\ slot \in [Receiver -> Face \cup {None}]
  /\ user \in Face \cup {NoFace}
  /\ fib \subseteq Face

\* The sender runs only with the face table.
StartInv ==
  /\ control \in {"tables", "fib", "start", "loop", "paused"}
  /\ control # "tables" => faceTable = Face
  /\ control \in {"tables", "fib", "start"} => sender = "off"
  /\ sender \in {"off", "run"}

\* In a pause a data panel that has taken up a message comes to the test next.
PauseInv ==
  /\ status = "Pause" => control = "paused"
  /\ since \in Nat
  /\ status = "Pause" => since = 0 \/ (since = 1 /\ data \in {"handle", "test", "wait"})

IInv == FaceInv /\ StartInv /\ PauseInv

-----------------------------------------------------------------------------
\* Faces are no marks.
LEMMA FacesAreNoMarks == NoFace \notin Face /\ None \notin Face
BY PipelineAssumption DEF NoFace, None

\* What is taken, put or sent is a face.
LEMMA FaceStep == IInv /\ [Next]_vars => FaceInv'
<1> SUFFICES ASSUME IInv, [Next]_vars PROVE FaceInv'
  OBVIOUS
<1> USE FacesAreNoMarks DEF IInv, FaceInv, StartInv, controlVars, dataVars, reformerVars, buffers
<1>1. CASE Control
  BY <1>1 DEF Control, InjectTransFaceTable, InjectFIB, Start, Pause, Resume
<1>2. CASE Test \/ Ask
  BY <1>2 DEF Test, Ask
<1>3. CASE Take
  <2>1. Head(recevBuffer) \in Face /\ Tail(recevBuffer) \in Seq(Face)
    BY <1>3 DEF Take
  <2>2. PICK n \in 0 .. MaxOut : out' \in [1 .. n -> fib \cup {Head(recevBuffer)}]
    BY <1>3 DEF Take
  <2>3. n \in Nat
    BY <2>2, PipelineAssumption
  <2>4. fib \cup {Head(recevBuffer)} \subseteq Face
    BY <2>1
  <2>5. out' \in Seq(Face)
    BY ONLY <2>2, <2>3, <2>4
  <2> QED BY <1>3, <2>1, <2>5 DEF Take
<1>4. CASE Handle
  <2>1. CASE out = <<>>
    BY <1>4, <2>1 DEF Handle
  <2>2. CASE out # <<>>
    <3>1. Head(out) \in Face /\ Tail(out) \in Seq(Face)
      BY <2>2
    <3>2. /\ sendBuffer' = Append(sendBuffer, Head(out)) /\ out' = Tail(out)
          /\ UNCHANGED <<recevBuffer, slot, user, fib>>
      BY <1>4, <2>2 DEF Handle
    <3> QED BY <3>1, <3>2
  <2> QED BY <2>1, <2>2
<1>5. CASE SendMsg
  BY <1>5 DEF SendMsg
<1>6. CASE Sender
  BY <1>6 DEF Sender
<1>7. ASSUME NEW r \in Receiver, Receive(r) \/ PutMsg(r) \/ Wake(r) \/ Check(r) PROVE FaceInv'
  <2>1. CASE Receive(r)
    <3>1. faceTable = Face
      BY <2>1 DEF Receive
    <3> QED BY <2>1, <3>1 DEF Receive
  <2>2. CASE PutMsg(r)
    <3>1. slot[r] \in Face
      BY <2>2 DEF PutMsg
    <3> QED BY <2>2, <3>1 DEF PutMsg
  <2>3. CASE Wake(r) \/ Check(r)
    BY <2>3 DEF Wake, Check
  <2> QED BY <1>7, <2>1, <2>2, <2>3
<1>8. CASE UNCHANGED vars
  BY <1>8 DEF vars
<1> QED BY <1>1, <1>2, <1>3, <1>4, <1>5, <1>6, <1>7, <1>8 DEF Next

\* The sender starts with the face table and finds every face in it.
LEMMA StartStep == IInv /\ [Next]_vars => StartInv'
<1> SUFFICES ASSUME IInv, [Next]_vars PROVE StartInv'
  OBVIOUS
<1> USE DEF IInv, StartInv, controlVars, dataVars, reformerVars, buffers
<1>1. CASE Control
  BY <1>1 DEF Control, InjectTransFaceTable, InjectFIB, Start, Pause, Resume
<1>2. CASE Test \/ Take \/ Handle \/ Ask \/ SendMsg
  BY <1>2 DEF Test, Take, Handle, Ask, SendMsg
<1>3. CASE Sender
  <2>1. Head(sendBuffer) \in Face
    BY <1>3 DEF Sender, FaceInv
  <2> QED BY <1>3, <2>1 DEF Sender
<1>4. ASSUME NEW r \in Receiver, Receive(r) \/ PutMsg(r) \/ Wake(r) \/ Check(r) PROVE StartInv'
  BY <1>4 DEF Receive, PutMsg, Wake, Check
<1>5. CASE UNCHANGED vars
  BY <1>5 DEF vars
<1> QED BY <1>1, <1>2, <1>3, <1>4, <1>5 DEF Next

\* A test in a pause lets nothing more be taken.
LEMMA PauseStep == IInv /\ [Next]_vars => PauseInv'
<1> SUFFICES ASSUME IInv, [Next]_vars PROVE PauseInv'
  OBVIOUS
<1> USE DEF IInv, PauseInv, controlVars, dataVars, reformerVars, buffers
<1>1. CASE Control
  BY <1>1 DEF Control, InjectTransFaceTable, InjectFIB, Start, Pause, Resume
<1>2. CASE Test \/ Take \/ Handle
  BY <1>2 DEF Test, Take, Handle
<1>3. CASE Ask \/ SendMsg \/ Sender
  BY <1>3 DEF Ask, SendMsg, Sender
<1>4. ASSUME NEW r \in Receiver, Receive(r) \/ PutMsg(r) \/ Wake(r) \/ Check(r) PROVE PauseInv'
  BY <1>4 DEF Receive, PutMsg, Wake, Check
<1>5. CASE UNCHANGED vars
  BY <1>5 DEF vars
<1> QED BY <1>1, <1>2, <1>3, <1>4, <1>5 DEF Next

-----------------------------------------------------------------------------
\* The invariant holds in every state.
THEOREM Invariant == Spec => []IInv
<1>1. Init => IInv
  BY DEF Init, IInv, FaceInv, StartInv, PauseInv
<1>2. IInv /\ [Next]_vars => IInv'
  BY FaceStep, StartStep, PauseStep DEF IInv
<1> QED BY <1>1, <1>2, PTL DEF Spec

\* The sender thread never ends, for any number of messages, user threads
\* faster than the control panel included (MsgSender.cpp:86).
THEOREM SenderGoesOn == Spec => []SenderLives
<1>1. IInv => SenderLives
  BY DEF IInv, StartInv, SenderLives
<1> QED BY <1>1, Invariant, PTL

\* A pause is noticed after at most one message (Threading.cpp:78).
THEOREM PauseHolds == Spec => []PausedStops
<1>1. IInv => PausedStops
  BY DEF IInv, PauseInv, PausedStops
<1> QED BY <1>1, Invariant, PTL
=============================================================================
