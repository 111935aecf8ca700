----------------------------- MODULE RoutingView -----------------------------
(***************************************************************************)
(* What one gateway instance promises about the routes it answers from:    *)
(* they are those of an activation that has taken place, and never those   *)
(* of an earlier activation than the routes it answered from before.       *)
(***************************************************************************)
EXTENDS Naturals

CONSTANT MaxVersion   \* bound on the number of activations

VARIABLES
  active,  \* number of activations of a routing revision
  shown    \* the latest activation an answer was given from, 0 for none

Init == active = 0 /\ shown = 0

Activate == active < MaxVersion /\ active' = active + 1 /\ UNCHANGED shown

Show == shown' \in shown..active /\ UNCHANGED active

Next == Activate \/ Show

Spec == Init /\ [][Next]_<<active, shown>>
=============================================================================
