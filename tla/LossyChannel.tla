---------------------------- MODULE LossyChannel ----------------------------
(***************************************************************************)
(* What the slice transport promises a node about the messages of each of  *)
(* its neighbours: they arrive whole and in the order they were sent; any  *)
(* of them may be missing, and the Repeatable ones may arrive again, but   *)
(* not after a later message.                                              *)
(***************************************************************************)
EXTENDS Naturals, Sequences

CONSTANTS Sender, Msg, From, Repeatable

VARIABLES
  sent,  \* the messages of each sender
  got    \* the places in sent of those that arrived, in order of arrival

LastGot(s) == IF got[s] = <<>> THEN 0 ELSE got[s][Len(got[s])]

ChannelInit ==
  /\ sent = [s \in Sender |-> <<>>]
  /\ got = [s \in Sender |-> <<>>]

Send(s, m) ==
  /\ From[m] = s
  /\ sent' = [sent EXCEPT ![s] = Append(@, m)]
  /\ UNCHANGED got

Deliver(s, j) ==
  /\ LastGot(s) < j \/ (LastGot(s) = j /\ sent[s][j] \in Repeatable)
  /\ got' = [got EXCEPT ![s] = Append(@, j)]
  /\ UNCHANGED sent

ChannelNext ==
  \E s \in Sender :
    \/ \E m \in Msg : Send(s, m)
    \/ \E j \in 1 .. Len(sent[s]) : Deliver(s, j)

ChannelSpec == ChannelInit /\ [][ChannelNext]_<<sent, got>>

=============================================================================
