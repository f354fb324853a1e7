--------------------------- MODULE MCNodePipeline ---------------------------
(* An edge router: a receiver for its neighbours and one for its groups. *)
EXTENDS NodePipeline
MCReceiver == {"neighbours", "groups"}
=============================================================================
