-------------------------- MODULE MCReliableSlices --------------------------
(* One node sends "a", of one slice, and "b", of two. *)
EXTENDS ReliableSlices

MCFrom == [m \in Msg |-> "n1"]
MCSlices == [m \in Msg |-> IF m = "a" THEN 1 ELSE 2]
=============================================================================
