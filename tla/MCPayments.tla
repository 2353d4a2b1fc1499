---------------------------- MODULE MCPayments ----------------------------
(***************************************************************************)
(* Instances of Payments: the calls c1, c2, ... of two players, of whom    *)
(* either may send the hash of the other's transfer, in two spellings.     *)
(***************************************************************************)
EXTENDS Payments, TLC

CONSTANTS c1, c2, c3, ana, bob, t1, plain, upper

MCTransferOf == [ref \in {plain, upper} |-> t1]
=============================================================================
