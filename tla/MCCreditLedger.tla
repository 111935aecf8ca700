--------------------------- MODULE MCCreditLedger ---------------------------
(* The instance of CreditLedger that TLC checks: one user with two keys, so that
   quota is kept apart per key while both keys draw on one balance. *)
EXTENDS CreditLedger, TLC

CONSTANTS u1, k1, k2, r1, r2, r3

MCOwnerOf == (k1 :> u1) @@ (k2 :> u1)
MCKeyOf == (r1 :> k1) @@ (r2 :> k1) @@ (r3 :> k2)
MCAmountOf == (r1 :> 1) @@ (r2 :> 2) @@ (r3 :> 1)
=============================================================================
