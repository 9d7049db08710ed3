--------------------------- MODULE MCHubDelivery ---------------------------
(* Model values for checking HubDelivery with TLC. *)
EXTENDS HubDelivery

CONSTANTS a1, a2, r1, r2, r3

TwoAgents == r1 :> a1 @@ r2 :> a1 @@ r3 :> a2
=============================================================================
