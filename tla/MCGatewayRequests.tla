------------------------- MODULE MCGatewayRequests -------------------------
(* Two requests, two targets, a short window and a long one. *)
EXTENDS GatewayRequests, TLC

CONSTANTS r1, r2

MCLength == <<1, 2>>
MCLimit == <<1, 1>>
MCSymmetry == Permutations(Requests)
=============================================================================
