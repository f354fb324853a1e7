------------------------ MODULE MCRendezvousRouter ------------------------
(***************************************************************************)
(* A rendezvous router with two edge routers and, behind the third face, a *)
(* router through which it reaches "RRot-2".  There is no route to         *)
(* "RRot-3".  The two edge routers are alike.  Of three names one is a     *)
(* prefix of the two others: a face that asks for it last quits the groups *)
(* of both.  Its hash shares no counter with theirs, which share one.      *)
(***************************************************************************)
EXTENDS RendezvousRouter, TLC

CONSTANTS edge1, edge2, other  \* the faces

MCCD == {"/sports", "/sports/basketball", "/sports/football"}
MCPrefixes == [c \in CD |-> {c, "/sports"}]
MCLength == [c \in CD |-> Len(c)]
MCMD5ID ==
  [c \in CD |->
     CASE c = "/sports"            -> 865
       [] c = "/sports/basketball" -> 3
       [] c = "/sports/football"   -> 9]
MCHashCode == <<11, 22>>
MCFIB == [r \in RRot |-> IF r = "RRot-2" THEN <<other>> ELSE <<>>]
EdgeRouters == Permutations({edge1, edge2})
=============================================================================
