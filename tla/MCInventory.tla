---------------------------- MODULE MCInventory ----------------------------
(***************************************************************************)
(* Instance of Inventory: a booster, which revealed a card, another card,  *)
(* two balls.                                                              *)
(***************************************************************************)
EXTENDS Inventory, TLC

CONSTANTS s1, s2, b1, c1, c2, u1, u2

MCCardsOf(b) == {c2}

Symmetry == Permutations({s1, s2}) \cup Permutations({u1, u2})
=============================================================================
