-------------------------- MODULE MCGatewayBilling --------------------------
(* The instance of GatewayBilling that TLC checks: calls with one key. *)
EXTENDS GatewayBilling, TLC

CONSTANTS u1, k1, r1, w1, w2

MCOwnerOf == k1 :> u1
MCKeyOf == [r \in Reservation |-> k1]
MCAmountOf == [r \in Reservation |-> 1]

MCInit == GatewayInit /\ users = User /\ unissued = Reservation
MCSpec == MCInit /\ [][GatewayNext]_gatewayVars
MCFairSpec == MCSpec /\ Fairness
=============================================================================
