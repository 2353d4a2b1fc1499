------------------------------ MODULE MCFifo ------------------------------
(***************************************************************************)
(* Instances of Fifo: four slots, hence three entries, and pushes for two  *)
(* and a half turns of the ring.                                           *)
(***************************************************************************)
EXTENDS Fifo
=============================================================================
