------------------------------ MODULE MCSubList ------------------------------
(* Two rendezvous routers, a publisher next to both and a subscriber. *)
EXTENDS SubList, Bitwise

MCRole(n) == CASE n = "s" -> "Sub" [] n \in {"p", "q"} -> "Pub" [] OTHER -> "RRot"
MCRoleOf == [n \in Node |-> MCRole(n)]

sub == [role |-> "Sub", id |-> 1]
pub(i) == [role |-> "Pub", id |-> i]
rot(i) == [role |-> "RRot", id |-> i]

FourNodes == <<rot(1), sub, rot(2), pub(1)>>
FourAdjacent == [r \in {rot(1), rot(2), sub, pub(1)} |->
  CASE r = sub -> <<rot(1)>>
    [] r = pub(1) -> <<rot(2), rot(1)>>
    [] r = rot(1) -> <<sub, rot(2), pub(1)>>
    [] r = rot(2) -> <<pub(1), rot(1)>>]

\* The second name has the weight zero for one of the routers; the first and
\* the name before it go to different ones.
x1 == <<"a", "b">>
x2 == <<"c">>
MCFirst == {x2}
MCName == {x1, x2}
MCNameID == [c \in {<<"a">>, x1, x2} |-> CASE c = x1 -> 17 [] c = x2 -> 8 [] OTHER -> 204]
MCRotID == <<33, 90>>
MCExOr(x, y) == x ^^ y

ASSUME MCAssumption == SomeWeight /\ InReach
=============================================================================
