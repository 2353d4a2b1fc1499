------------------------------ MODULE MCChute ------------------------------
(***************************************************************************)
(* Instances of Chute.  Wrap = 6 puts a wrap of millis() in every second   *)
(* turn or so, at every phase of every window.                             *)
(***************************************************************************)
EXTENDS Chute, TLC

CONSTANTS b1, b2

Symmetry == Permutations({b1, b2})
=============================================================================
