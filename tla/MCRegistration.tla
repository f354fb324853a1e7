--------------------------- MODULE MCRegistration ---------------------------
(* Two rendezvous routers, a subscriber and a publisher next to both; or    *)
(* two subscribers next to a rendezvous router.                            *)
EXTENDS Registration, TLC

CONSTANTS s, t, u, p, a, b

MCRole(n) == CASE n \in {s, t, u} -> "Sub" [] n = p -> "Pub" [] OTHER -> "RRot"
MCRoleOf == [n \in Node |-> MCRole(n)]
Subscribers == Permutations({s, t, u})

sub(i) == [role |-> "Sub", id |-> i]
pub == [role |-> "Pub", id |-> 1]
rot(i) == [role |-> "RRot", id |-> i]

FourNodes == <<rot(1), sub(1), rot(2), pub>>
FourAdjacent == [r \in {rot(1), rot(2), sub(1), pub} |->
  CASE r = sub(1) -> <<rot(1)>>
    [] r = pub    -> <<rot(2), rot(1)>>
    [] r = rot(1) -> <<sub(1), rot(2), pub>>
    [] r = rot(2) -> <<pub, rot(1)>>]

ThreeNodes == <<sub(1), rot(1), sub(2)>>
ThreeAdjacent == [r \in {sub(1), rot(1), sub(2)} |->
  IF r = rot(1) THEN <<sub(1), sub(2)>> ELSE <<rot(1)>>]
=============================================================================
