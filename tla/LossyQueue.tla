----------------------------- MODULE LossyQueue -----------------------------
(***************************************************************************)
(* What FdxB.h promises of its Fifo: a queue that hands its values out in  *)
(* the order they came, and forgets the oldest when it is full.            *)
(*                                                                         *)
(* The values are the numbers 1, 2, ... of the pushes, so that the queue   *)
(* is the interval of numbers from lo + 1 to hi.                           *)
(***************************************************************************)
EXTENDS Integers

CONSTANTS Capacity, MaxPushes

VARIABLES lo,    \* the last value taken out or forgotten
          hi,    \* the last value put in
          last   \* the last value taken out

vars == <<lo, hi, last>>

Init == lo = 0 /\ hi = 0 /\ last = 0

Push ==
    /\ hi < MaxPushes
    /\ hi' = hi + 1
    /\ lo' = IF hi - lo = Capacity THEN lo + 1 ELSE lo
    /\ UNCHANGED last

Pop ==
    /\ lo < hi
    /\ lo' = lo + 1
    /\ last' = lo + 1
    /\ UNCHANGED hi

Next == Push \/ Pop

Spec == Init /\ [][Next]_vars
=============================================================================
