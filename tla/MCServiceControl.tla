-------------------------- MODULE MCServiceControl --------------------------
(* Two administrators, two targets and one address more to move to. *)
EXTENDS ServiceControl, TLC

CONSTANTS o1, o2, t1, t2, a1, a2, a3, c1

MCFirstAddress == [t \in Targets |-> IF t = t1 THEN a1 ELSE a2]
MCSymmetry == Permutations(Operations)
=============================================================================
