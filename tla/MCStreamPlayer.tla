----------------------------- MODULE MCStreamPlayer -----------------------------
(***************************************************************************)
(* Two streams, so that one is selected and one is not, and two objects:   *)
(* one that is being stopped and one that is new, of the same stream.      *)
(***************************************************************************)
EXTENDS StreamPlayer, TLC

CONSTANTS left, right, first, second

MCIds == {left, right}
MCOneId == {left}
MCObjects == {first, second}
MCOneObject == {first}
Symmetry == Permutations(MCIds) \cup Permutations(MCObjects)
MCBudgets == [kind \in BudgetKinds |-> IF kind = "integrity" THEN 2 ELSE 1]
=============================================================================
