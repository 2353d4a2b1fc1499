------------------------- MODULE MCTurnCoordinator -------------------------
(***************************************************************************)
(* Instances of TurnCoordinator: two players, the first of whom may come   *)
(* back for the third turn.                                                *)
(***************************************************************************)
EXTENDS TurnCoordinator, TLC

CONSTANTS ana, bob, e1, e2

MCPlayerOf(n) == IF n = 2 THEN bob ELSE ana

Symmetry == Permutations({e1, e2})
=============================================================================
