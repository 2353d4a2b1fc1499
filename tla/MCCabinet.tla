----------------------------- MODULE MCCabinet -----------------------------
(***************************************************************************)
(* An instance of Cabinet: one ball, one event in the queue, and for each  *)
(* of the two turn machines one loss of the port and one restart of the    *)
(* chute's board or one enrolment.                                         *)
(***************************************************************************)
EXTENDS Cabinet

CONSTANT b1
=============================================================================
