---------------------------- MODULE BoundedFifo ----------------------------
(***************************************************************************)
(* What a message buffer promises its threads: a queue of bounded length   *)
(* in which each put and each get is one step.                             *)
(***************************************************************************)
EXTENDS Naturals, Sequences

CONSTANTS Msg, Capacity

VARIABLES queue, got   \* got: the message of the last get, or none

FifoInit == queue = <<>> /\ got = <<>>

Put(m) ==
  /\ Len(queue) < Capacity
  /\ queue' = Append(queue, m)
  /\ UNCHANGED got

Get ==
  /\ queue # <<>>
  /\ queue' = Tail(queue)
  /\ got' = <<Head(queue)>>

FifoNext == (\E m \in Msg : Put(m)) \/ Get

FifoSpec == FifoInit /\ [][FifoNext]_<<queue, got>>

=============================================================================
