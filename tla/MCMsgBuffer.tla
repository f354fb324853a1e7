---------------------------- MODULE MCMsgBuffer ----------------------------
(* MsgBuffer with a ring of three slots, so that it wraps and fills up. *)
EXTENDS MsgBuffer

MCMsg == {"m1", "m2"}
=============================================================================
