------------------------ MODULE SubscriptionService ------------------------
(***************************************************************************)
(* What the ST table promises its router, without lists and filters: each  *)
(* face has asked for a set of names; a request goes upstream unless some  *)
(* face asked for a prefix of it before; a publication leaves at least by  *)
(* the faces that asked for a prefix of its name (the Bloom filter may add *)
(* others).                                                                *)
(***************************************************************************)
CONSTANTS CD, Face, Prefixes

VARIABLES
  requested,  \* the names each face asked for
  forwarded,  \* the names that went upstream
  routes      \* the faces by which a publication of each name would leave

Covered(c) == \E f \in Face : requested[f] \cap Prefixes[c] # {}

Wanted(n) == {f \in Face : requested[f] \cap Prefixes[n] # {}}

RoutesCover == \A n \in CD : Wanted(n) \subseteq routes[n]

ServiceInit ==
  /\ requested = [f \in Face |-> {}]
  /\ forwarded = {}
  /\ RoutesCover

Request(f, c) ==
  /\ requested' = [requested EXCEPT ![f] = @ \cup {c}]
  /\ forwarded' = IF Covered(c) THEN forwarded ELSE forwarded \cup {c}
  /\ RoutesCover'

ServiceNext == \E f \in Face, c \in CD : Request(f, c)

ServiceSpec == ServiceInit /\ [][ServiceNext]_<<requested, forwarded, routes>>

=============================================================================
