---------------------------- MODULE MCPubSubNet ----------------------------
(* PubSubNet over "/sports" and names under it. *)
EXTENDS PubSubNet

MCCD == {"/sports", "/sports/basketball"}
MCPrefixes == [c \in MCCD |-> IF c = "/sports" THEN {c} ELSE {c, "/sports"}]

\* Each subscriber has a router of its own, as in Files/topology.txt.
MCHome == [s \in Sub |-> IF s = "sub1" THEN "erot1" ELSE "erot2"]
MCHomeMixed == [s \in Sub |-> IF s = "sub1" THEN "erot1" ELSE "rot1"]
MCRendezvous == [c \in MCCD |-> "RRot-1"]
MCRendezvousSplit == [c \in MCCD |-> IF c = "/sports" THEN "RRot-1" ELSE "RRot-2"]
=============================================================================
