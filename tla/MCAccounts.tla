----------------------------- MODULE MCAccounts -----------------------------
(* Two processes and three accounts; the bounds are in the cfg. *)
EXTENDS Accounts, TLC

MCUsers == 1..3
MCAdministrators == 1..2
MCSymmetry == Permutations(Processes)
=============================================================================
