--------------------------- MODULE MCWithdrawals ---------------------------
(***************************************************************************)
(* Instances of Withdrawals: two wins, one of them from a ticket paid by   *)
(* card, and two or three withdrawals.                                     *)
(***************************************************************************)
EXTENDS Withdrawals

CONSTANTS w1, w2, w3, c1, c2, c3
=============================================================================
