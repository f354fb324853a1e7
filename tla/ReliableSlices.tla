--------------------------- MODULE ReliableSlices ---------------------------
(***************************************************************************)
(* How messages get from the sender threads of some nodes to the receiver  *)
(* thread of one: Slicer.cpp cuts a message into slices, MsgSender.cpp     *)
(* sends one at a time and waits for its acknowledgement (Communicator.cpp),*)
(* MsgReceiver.cpp acknowledges a slice before Reformer.cpp looks at it.   *)
(*                                                                         *)
(* Two nodes are joined by datagrams that may be lost on either way or     *)
(* arrive late, but in order.  A packet id is the MD5 of the message, so a *)
(* message stands for its id, and sending the same content twice is        *)
(* sending the same message twice.  Messages name their origin: no two     *)
(* senders send the same one.  Messages to a group are not modelled.       *)
(***************************************************************************)
EXTENDS Naturals, FiniteSets, Sequences

CONSTANTS
  Sender,    \* neighbours, each with its sender thread
  Msg,       \* messages, or packet ids
  From,      \* the sender of each message
  Slices,    \* the number of slices of each message
  SET_SIZE,  \* slice buffers of the reformer
  tryNum,    \* how often sendTo tries
  MaxSend    \* bound: messages of one sender

ASSUME SlicesAssumption ==
  /\ From \in [Msg -> Sender]
  /\ Slices \in [Msg -> Nat \ {0}]
  /\ SET_SIZE \in Nat \ {0} /\ tryNum \in Nat \ {0}
  /\ MaxSend \in Nat

VARIABLES
  at,          \* where each sender thread stands: "idle", "send" or "wait"
  sid,         \* _sid of its current slice
  tries,       \* what is left of tryNum
  toReceiver,  \* slices on their way, or in the receiver's socket
  toSender,    \* acknowledgements on their way, or in the sender's socket
  stored,      \* m_sliceBufferSet: slices kept of each message in use, else 0
  sent,        \* history: the messages of each sender
  got,         \* history: which of them were put into the receive buffer
  done,        \* history: those whose every slice was acknowledged
  abandoned,   \* history: messages given up
  cut          \* history: messages refused or expired by the reformer

senderVars == <<at, sid, tries, sent, done, abandoned>>
netVars == <<toReceiver, toSender>>
reformerVars == <<stored, got, cut>>
vars == <<senderVars, netVars, reformerVars>>

Init ==
  /\ at = [s \in Sender |-> "idle"]
  /\ sid = [s \in Sender |-> 0]
  /\ tries = [s \in Sender |-> 0]
  /\ toReceiver = [s \in Sender |-> <<>>]
  /\ toSender = [s \in Sender |-> <<>>]
  /\ stored = [m \in Msg |-> 0]
  /\ sent = [s \in Sender |-> <<>>]
  /\ got = [s \in Sender |-> <<>>]
  /\ done = [s \in Sender |-> {}]
  /\ abandoned = {}
  /\ cut = {}

-----------------------------------------------------------------------------
(* The sender thread. *)

Number(s) == Len(sent[s])       \* the place of the current message
Current(s) == sent[s][Number(s)]

IsLast(s) == sid[s] = Slices[Current(s)]

\* setBuffer: the thread takes a message from its buffer.
Begin(s, m) ==
  /\ at[s] = "idle"
  /\ Number(s) < MaxSend
  /\ From[m] = s
  /\ at' = [at EXCEPT ![s] = "send"]
  /\ sid' = [sid EXCEPT ![s] = 1]
  /\ tries' = [tries EXCEPT ![s] = tryNum]
  /\ sent' = [sent EXCEPT ![s] = Append(@, m)]
  /\ UNCHANGED <<done, abandoned, netVars, reformerVars>>

\* sendto; the network may lose the slice.
SendSlice(s) ==
  /\ at[s] = "send"
  /\ at' = [at EXCEPT ![s] = "wait"]
  /\ \/ toReceiver' = [toReceiver EXCEPT ![s] =
                         Append(@, [pid |-> Current(s), sid |-> sid[s], no |-> Number(s)])]
     \/ UNCHANGED toReceiver
  /\ UNCHANGED <<sid, tries, sent, done, abandoned, toSender, reformerVars>>

MatchesAny(s, ack) == TRUE            \* mutant: the MD5 is not compared
\* An acknowledgement carries the MD5 of the slice.
Matches(s, ack) == ack = <<Current(s), sid[s]>>

\* The next slice, or the end of the message.
RecvAck(s) ==
  /\ at[s] = "wait" /\ toSender[s] # <<>>
  /\ toSender' = [toSender EXCEPT ![s] = Tail(@)]
  /\ IF ~Matches(s, Head(toSender[s]))
     THEN UNCHANGED senderVars
     ELSE /\ IF IsLast(s)
             THEN /\ at' = [at EXCEPT ![s] = "idle"]
                  /\ done' = [done EXCEPT ![s] = @ \cup {Number(s)}]
                  /\ UNCHANGED <<sid, tries>>
             ELSE /\ at' = [at EXCEPT ![s] = "send"]
                  /\ sid' = [sid EXCEPT ![s] = @ + 1]
                  /\ tries' = [tries EXCEPT ![s] = tryNum]
                  /\ UNCHANGED done
          /\ UNCHANGED <<sent, abandoned>>
  /\ UNCHANGED <<toReceiver, reformerVars>>

TimeoutForever(s) ==                  \* mutant: tryNum is not decremented
  /\ at[s] = "wait"
  /\ at' = [at EXCEPT ![s] = "send"]
  /\ UNCHANGED <<sid, tries, sent, done, abandoned, netVars, reformerVars>>

\* SOCK_TIMEOUT seconds without an acknowledgement: try again, or give the
\* rest of the message up.
Timeout(s) ==
  /\ at[s] = "wait"
  /\ tries' = [tries EXCEPT ![s] = @ - 1]
  /\ IF tries[s] > 1
     THEN at' = [at EXCEPT ![s] = "send"] /\ UNCHANGED abandoned
     ELSE at' = [at EXCEPT ![s] = "idle"] /\ abandoned' = abandoned \cup {Current(s)}
  /\ UNCHANGED <<sid, sent, done, netVars, reformerVars>>

-----------------------------------------------------------------------------
(* The receiver thread and the checker. *)

InUse == {m \in Msg : stored[m] > 0}

RemoveSlice(m) == stored' = [stored EXCEPT ![m] = 0]

ReassembleKeep(p, n) ==               \* mutant: removeSlice is forgotten
  /\ stored' = [stored EXCEPT ![p.pid] = n]
  /\ got' = [got EXCEPT ![From[p.pid]] = Append(@, IF n = Slices[p.pid] THEN p.no ELSE 0)]
  /\ UNCHANGED cut

\* reassembleSlice, and removeSlice after it.  A message with a slice too
\* many or too few would be garbage, counted as message number 0.
Reassemble(p, n) ==
  /\ RemoveSlice(p.pid)
  /\ got' = [got EXCEPT ![From[p.pid]] = Append(@, IF n = Slices[p.pid] THEN p.no ELSE 0)]
  /\ UNCHANGED cut

Store(p) ==
  LET n == stored[p.pid] + 1
  IN  IF p.sid = Slices[p.pid]
      THEN Reassemble(p, n)
      ELSE /\ stored' = [stored EXCEPT ![p.pid] = n]
           /\ UNCHANGED <<got, cut>>

PutSliceAnyOrder(p) ==                \* mutant: the order of the slices is not checked
  IF stored[p.pid] = 0 /\ Cardinality(InUse) = SET_SIZE
  THEN cut' = cut \cup {p.pid} /\ UNCHANGED <<stored, got>>
  ELSE Store(p)

\* The first slice of a message needs a free buffer; a later one must be the
\* next of its buffer, so that one without a buffer is dropped, too.
PutSlice(p) ==
  IF stored[p.pid] = 0 /\ p.sid = 1 /\ Cardinality(InUse) = SET_SIZE
  THEN cut' = cut \cup {p.pid} /\ UNCHANGED <<stored, got>>
  ELSE IF p.sid = stored[p.pid] + 1
  THEN Store(p)
  ELSE UNCHANGED reformerVars

\* recvFrom acknowledges whatever it gets; the network may lose that, too.
Acknowledge(s, p) ==
  \/ toSender' = [toSender EXCEPT ![s] = Append(@, <<p.pid, p.sid>>)]
  \/ UNCHANGED toSender

\* The receiver thread takes one slice.
Receive(s) ==
  /\ toReceiver[s] # <<>>
  /\ toReceiver' = [toReceiver EXCEPT ![s] = Tail(@)]
  /\ Acknowledge(s, Head(toReceiver[s]))
  /\ PutSlice(Head(toReceiver[s]))
  /\ UNCHANGED senderVars

\* The checker removes a message that has had no slice for long; how the
\* clocks of the two nodes stand to each other is left open.
Check(m) ==
  /\ m \in InUse
  /\ RemoveSlice(m)
  /\ cut' = cut \cup {m}
  /\ UNCHANGED <<got, senderVars, netVars>>

-----------------------------------------------------------------------------
SenderStep(s) == SendSlice(s) \/ RecvAck(s) \/ Timeout(s)

Next ==
  \/ \E s \in Sender : SenderStep(s) \/ Receive(s)
  \/ \E s \in Sender, m \in Msg : Begin(s, m)
  \/ \E m \in Msg : Check(m)

Spec == Init /\ [][Next]_vars

\* A sender thread goes on, and its socket has a timeout (Communicator.cpp:255);
\* nothing is asked of the network and the receiver.
FairSpec == Spec /\ \A s \in Sender : WF_vars(SenderStep(s))

-----------------------------------------------------------------------------
(* Properties *)

\* Slices, acknowledgements, repetitions and time-outs make a channel that
\* keeps the order of the messages and delivers none in part; only a message
\* of one slice can arrive twice.
Channel == INSTANCE LossyChannel WITH Repeatable <- {m \in Msg : Slices[m] = 1}
ImplementsChannel == Channel!ChannelSpec

\* A message that the sender holds for sent has arrived, although it is
\* acknowledged slice by slice and before each is stored, although a late
\* acknowledgement may answer a later slice of the same content: unless the
\* reformer had no room, each m is put into the buffer as often as sent.
AckedIsDelivered ==
  \A m \in Msg \ cut :
    LET s == From[m]
    IN  Cardinality({n \in done[s] : sent[s][n] = m})
          <= Cardinality({i \in 1 .. Len(got[s]) : got[s][i] > 0 /\ sent[s][got[s][i]] = m})

\* A slice buffer in use belongs to a message that is being sent or was given
\* up: nothing else takes one of the SET_SIZE buffers away.
BuffersAccounted ==
  \A m \in InUse \ abandoned :
    at[From[m]] # "idle" /\ Current(From[m]) = m

\* A sender thread is done with every message, whatever the network loses.
SenderGetsIdle == \A s \in Sender : at[s] # "idle" ~> at[s] = "idle"

=============================================================================
