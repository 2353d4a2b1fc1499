------------------------- MODULE WithdrawalsProofs -------------------------
(***************************************************************************)
(* Proofs about Withdrawals, for any number of wins, withdrawals, attempts *)
(* and restarts.                                                           *)
(***************************************************************************)
EXTENDS Withdrawals, FiniteSetTheorems, TLAPS

(* What is known of a call, by where it is.  It holds the user's row       *)
(* exactly while it computes what to debit; it has debited nothing until   *)
(* it reserves, and from then until it ends its debit is the amount it     *)
(* computed; it has sent what it debited or, if it failed or was killed    *)
(* before it could send, nothing, unless it did not hear of a transfer.    *)
Own(c) ==
    /\ call[c].at \in {"locked", "total", "read"} <=> lock = c
    /\ call[c].at \in {"none", "asked", "locked", "total", "read"} => debit[c] = 0
    /\ call[c].at \in {"paying", "paid", "simulated", "failed"} => debit[c] = call[c].amount
    /\ c \notin unheard =>
           /\ call[c].at \notin {"paid", "done"} => sent[c] = 0
           /\ call[c].at = "paid" => sent[c] = debit[c]
           /\ call[c].at = "done" => sent[c] \in {0, debit[c]}
           /\ call[c].at = "done" /\ tx[c] # "simulated" /\ c \notin killed
                  => sent[c] = debit[c]

CallsOwn == \A c \in Calls : Own(c)

(* The balance that a call has read may be an old one, but not too high:   *)
(* while it holds the row only credits and reversals change the balance.   *)
TotalCovered ==
    \A c \in Calls : call[c].at = "total" => call[c].total + Debited <= Cardinality(Credited)

IInv == TypeOK /\ CallsOwn /\ TotalCovered /\ Covered

(***************************************************************************)
(* The sums.                                                               *)
(***************************************************************************)
LEMMA UnitsAre ==
    /\ \A u : u \in Units <=> \E c \in Calls : \E n \in 1 .. debit[c] : u = <<c, n>>
    /\ \A c \in Calls : \A n : <<c, n>> \in Units <=> n \in 1 .. debit[c]
BY DEF Units

(* The three sums are natural numbers, and credits are wins.               *)
LEMMA SumsAreNumbers ==
    ASSUME TypeOK
    PROVE  /\ IsFiniteSet(Units) /\ IsFiniteSet(Credited) /\ IsFiniteSet(Held)
           /\ Debited \in Nat /\ Cardinality(Held) \in Nat
           /\ Cardinality(Credited) \in 0 .. Cardinality(Wins)
           /\ Cardinality(Wins) \in Nat
<1> DEFINE box == Calls \X (0 .. Cardinality(Wins))
<1>1. IsFiniteSet(Wins) /\ Cardinality(Wins) \in Nat
    BY WithdrawalsAssumption, FS_CardinalityType
<1>2. IsFiniteSet(box)
    <2>1. IsFiniteSet(0 .. Cardinality(Wins))  BY <1>1, FS_Interval
    <2> QED  BY <2>1, WithdrawalsAssumption, FS_Product
<1>3. Units \subseteq box
    <2> SUFFICES ASSUME NEW u \in Units PROVE u \in box  OBVIOUS
    <2>1. PICK c \in Calls : \E n \in 1 .. debit[c] : u = <<c, n>>  BY UnitsAre
    <2>2. PICK n \in 1 .. debit[c] : u = <<c, n>>  BY <2>1
    <2>3. debit[c] \in 0 .. Cardinality(Wins)  BY DEF TypeOK
    <2> QED  BY <2>2, <2>3, <1>1
<1>4. IsFiniteSet(Units)  BY <1>2, <1>3, FS_Subset
<1>5. Credited \subseteq Wins /\ Held \subseteq Wins  BY DEF TypeOK, Credited, Held, Kinds
<1>6. IsFiniteSet(Credited) /\ Cardinality(Credited) <= Cardinality(Wins)
    BY <1>1, <1>5, FS_Subset
<1>7. IsFiniteSet(Held)  BY <1>1, <1>5, FS_Subset
<1> QED  BY <1>1, <1>4, <1>6, <1>7, FS_CardinalityType DEF Debited

(* A debit that is made adds its amount to the sum.                        *)
LEMMA DebitAdds ==
    ASSUME TypeOK, NEW c \in Calls, NEW a \in Nat, debit[c] = 0,
           debit' = [debit EXCEPT ![c] = a]
    PROVE  Debited' = Debited + a
<1> DEFINE new == {c} \X (1 .. a)
<1>1. IsFiniteSet(new) /\ Cardinality(new) = a
    <2>1. IsFiniteSet({c}) /\ Cardinality({c}) = 1  BY FS_Singleton
    <2>2. IsFiniteSet(1 .. a) /\ Cardinality(1 .. a) = a  BY FS_Interval
    <2>3. /\ IsFiniteSet({c} \X (1 .. a))
          /\ Cardinality({c} \X (1 .. a)) = Cardinality({c}) * Cardinality(1 .. a)
        BY <2>1, <2>2, FS_Product
    <2> QED  BY <2>1, <2>2, <2>3
<1>2. debit \in [Calls -> 0 .. Cardinality(Wins)]  BY DEF TypeOK
<1>3. Units' = Units \cup new
    <2>1. ASSUME NEW u \in Units' PROVE u \in Units \cup new
        <3>1. PICK d \in Calls : u \in {d} \X (1 .. debit'[d])  BY <2>1 DEF Units
        <3>2. CASE d = c  BY <3>1, <3>2, <1>2
        <3>3. CASE d # c
            <4>1. debit'[d] = debit[d]  BY <3>3, <1>2
            <4> QED  BY <3>1, <4>1 DEF Units
        <3> QED  BY <3>2, <3>3
    <2>2. ASSUME NEW u \in Units PROVE u \in Units'
        <3>1. PICK d \in Calls : u \in {d} \X (1 .. debit[d])  BY <2>2 DEF Units
        <3>2. d # c  BY <3>1
        <3>3. debit'[d] = debit[d]  BY <3>2, <1>2
        <3> QED  BY <3>1, <3>3 DEF Units
    <2>3. new \subseteq Units'
        <3>1. debit'[c] = a  BY <1>2
        <3> QED  BY <3>1 DEF Units
    <2> QED  BY <2>1, <2>2, <2>3
<1>4. Units \cap new = {}
    <2>1. ASSUME NEW u \in new PROVE u \notin Units
        <3>1. PICK n \in 1 .. a : u = <<c, n>>  BY <2>1
        <3>2. ~ (n \in 1 .. debit[c])  OBVIOUS
        <3> QED  BY <3>1, <3>2, UnitsAre
    <2> QED  BY <2>1
<1>5. IsFiniteSet(Units) /\ Debited \in Nat  BY SumsAreNumbers
<1>6. Cardinality(Units \cup new) =
          Cardinality(Units) + Cardinality(new) - Cardinality(Units \cap new)
    BY <1>1, <1>5, FS_Union
<1>7. Cardinality(Units \cap new) = 0  BY <1>4, FS_EmptySet
<1> QED  BY <1>1, <1>3, <1>5, <1>6, <1>7 DEF Debited

(* A debit that is taken back leaves no more than there was.               *)
LEMMA DebitGoes ==
    ASSUME TypeOK, NEW c \in Calls, debit' = [debit EXCEPT ![c] = 0]
    PROVE  Debited' \in Nat /\ Debited' <= Debited
<1>1. debit \in [Calls -> 0 .. Cardinality(Wins)]  BY DEF TypeOK
<1>2. Units' \subseteq Units
    <2> SUFFICES ASSUME NEW u \in Units' PROVE u \in Units  OBVIOUS
    <2>1. PICK d \in Calls : u \in {d} \X (1 .. debit'[d])  BY DEF Units
    <2>2. d # c  BY <2>1, <1>1
    <2>3. debit'[d] = debit[d]  BY <2>2, <1>1
    <2> QED  BY <2>1, <2>3 DEF Units
<1>3. IsFiniteSet(Units)  BY SumsAreNumbers
<1>4. IsFiniteSet(Units') /\ Cardinality(Units') <= Cardinality(Units)
    BY <1>2, <1>3, FS_Subset
<1> QED  BY <1>4, FS_CardinalityType DEF Debited

(* A credit adds one to what is credited and at most one to what is held.  *)
LEMMA CreditAdds ==
    ASSUME TypeOK, NEW w \in Wins, NEW kind \in Kinds, Resell(w, kind)
    PROVE  /\ Cardinality(Credited)' = Cardinality(Credited) + 1
           /\ Cardinality(Credited)' <= Cardinality(Wins)
           /\ Cardinality(Held)' \in Nat /\ Cardinality(Held)' <= Cardinality(Held) + 1
<1>1. credits \in [Kinds -> SUBSET Wins] /\ w \notin Credited
      /\ credits' = [credits EXCEPT ![kind] = @ \cup {w}] /\ lapsed' = lapsed
    BY DEF TypeOK, Resell
<1>2. Credited' = Credited \cup {w}  BY <1>1 DEF Credited, Kinds
<1>3. Held' \subseteq Held \cup {w}  BY <1>1 DEF Held, Kinds
<1>4. IsFiniteSet(Credited) /\ IsFiniteSet(Held) /\ Cardinality(Held) \in Nat
      /\ Cardinality(Credited) \in Nat
    BY SumsAreNumbers
<1>5. Cardinality(Credited \cup {w}) = Cardinality(Credited) + 1  BY <1>1, <1>4, FS_AddElement
<1>6. /\ IsFiniteSet(Held \cup {w}) /\ Cardinality(Held \cup {w}) \in Nat
      /\ Cardinality(Held \cup {w}) <= Cardinality(Held) + 1
    <2>1. /\ IsFiniteSet(Held \cup {w})
          /\ Cardinality(Held \cup {w}) \in {Cardinality(Held), Cardinality(Held) + 1}
        BY <1>4, FS_AddElement
    <2> QED  BY <1>4, <2>1
<1>7. IsFiniteSet(Held') /\ Cardinality(Held') <= Cardinality(Held \cup {w})
    BY <1>3, <1>6, FS_Subset
<1>8. Cardinality(Held') \in Nat  BY <1>7, FS_CardinalityType
<1>9. Cardinality(Credited') <= Cardinality(Wins)
    <2>1. Credited' \subseteq Wins  BY <1>1, <1>2 DEF Credited, Kinds
    <2> QED  BY <2>1, WithdrawalsAssumption, FS_Subset
<1> QED  BY <1>2, <1>4, <1>5, <1>6, <1>7, <1>8, <1>9

(* Nothing is held any more because time passes.                           *)
LEMMA HoldShrinks ==
    ASSUME TypeOK, NEW w \in Wins, HoldLapses(w)
    PROVE  Cardinality(Held)' \in Nat /\ Cardinality(Held)' <= Cardinality(Held)
<1>1. Held' \subseteq Held  BY DEF HoldLapses, Held
<1>2. IsFiniteSet(Held)  BY SumsAreNumbers
<1>3. IsFiniteSet(Held') /\ Cardinality(Held') <= Cardinality(Held)  BY <1>1, <1>2, FS_Subset
<1> QED  BY <1>3, FS_CardinalityType

(***************************************************************************)
(* The inductive invariant.                                                *)
(***************************************************************************)
(* What a call at work on the balance knows, when the balance and the      *)
(* credits held change as only another actor may change them.              *)
CreditsGrow ==
    /\ Cardinality(Credited)' \in 0 .. Cardinality(Wins)
    /\ Cardinality(Credited)' >= Cardinality(Credited)
    /\ Debited' \in Nat /\ Debited' <= Debited
    /\ Cardinality(Held)' \in Nat
    /\ Cardinality(Held)' - Cardinality(Held) <= Cardinality(Credited)' - Cardinality(Credited)

LEMMA BalanceGrows ==
    ASSUME IInv, CreditsGrow, lock' \in {lock, Null} \/ call'[lock'].at = "locked",
           \A c \in Calls : call'[c].at \in {"total", "read"} => call'[c] = call[c]
    PROVE  TotalCovered' /\ Covered'
<1>1. /\ Debited \in Nat /\ Cardinality(Held) \in Nat /\ Cardinality(Wins) \in Nat
      /\ Cardinality(Credited) \in 0 .. Cardinality(Wins)
    BY SumsAreNumbers DEF IInv
<1>2. ASSUME NEW c \in Calls, call'[c].at = "total"
      PROVE  call'[c].total + Debited' <= Cardinality(Credited)'
    <2>1. call'[c] = call[c] /\ call[c].at = "total"  BY <1>2
    <2>2. call[c].total + Debited <= Cardinality(Credited)  BY <2>1 DEF IInv, TotalCovered
    <2>3. call[c].total \in Nat  BY <1>1 DEF IInv, TypeOK, CallStates
    <2> QED  BY <1>1, <2>1, <2>2, <2>3 DEF CreditsGrow
<1>3. Covered'
    <2> DEFINE spent == IF lock # Null /\ call[lock].at = "read" THEN call[lock].amount ELSE 0
    <2>1. lock \in Calls \cup {Null}  BY DEF IInv, TypeOK, CallStates
    <2>2. spent \in Nat /\ spent' \in Nat /\ spent' <= spent
        <3>1. CASE lock' # Null /\ call'[lock'].at = "read"
            <4>1. lock' = lock /\ call'[lock] = call[lock]  BY <2>1, <3>1
            <4>2. call[lock].amount \in Nat  BY <2>1, <3>1, <1>1 DEF IInv, TypeOK, CallStates
            <4> QED  BY <2>1, <3>1, <4>1, <4>2
        <3>2. CASE ~ (lock' # Null /\ call'[lock'].at = "read")
            <4>1. lock # Null => call[lock].amount \in Nat  BY <2>1, <1>1 DEF IInv, TypeOK, CallStates
            <4> QED  BY <2>1, <3>2, <4>1
        <3> QED  BY <3>1, <3>2
    <2>3. Debited + spent + Cardinality(Held) <= Cardinality(Credited)  BY DEF IInv, Covered
    <2> HIDE DEF spent
    <2>4. Debited' + spent' + Cardinality(Held)' <= Cardinality(Credited)'
        BY <1>1, <2>2, <2>3 DEF CreditsGrow
    <2> QED  BY <2>4 DEF Covered, spent
<1> QED  BY <1>2, <1>3 DEF TotalCovered

LEMMA SumsStay ==
    ASSUME TypeOK, UNCHANGED <<credits, lapsed, debit>>
    PROVE  /\ Debited' = Debited /\ Cardinality(Credited)' = Cardinality(Credited)
           /\ Cardinality(Held)' = Cardinality(Held)
           /\ CreditsGrow
<1>1. /\ Debited' = Debited /\ Cardinality(Credited)' = Cardinality(Credited)
      /\ Cardinality(Held)' = Cardinality(Held)
    BY DEF Debited, Units, Credited, Held
<1> QED  BY <1>1, SumsAreNumbers DEF CreditsGrow

LEMMA InvInit == Init => IInv
<1> SUFFICES ASSUME Init PROVE IInv  OBVIOUS
<1> USE DEF Init, NoCall
<1>1. Cardinality(Wins) \in Nat  BY WithdrawalsAssumption, FS_CardinalityType
<1>2. TypeOK
    <2>1. \A c \in Calls : call[c] = NoCall  OBVIOUS
    <2> QED  BY <1>1, <2>1, WithdrawalsAssumption DEF TypeOK, CallStates, Kinds
<1>3. Debited = 0 /\ Cardinality(Held) = 0
    <2>1. Units = {}
        <3>1. ASSUME NEW u \in Units PROVE FALSE
            <4>1. PICK c \in Calls : u \in {c} \X (1 .. debit[c])  BY <3>1 DEF Units
            <4> QED  BY <4>1
        <3> QED  BY <3>1
    <2>2. Held = {}  BY DEF Held, Kinds
    <2> QED  BY <2>1, <2>2, FS_EmptySet DEF Debited
<1>4. Covered
    <2>1. Cardinality(Credited) \in Nat  BY <1>2, SumsAreNumbers
    <2>2. lock = Null  OBVIOUS
    <2> QED  BY <1>3, <2>1, <2>2 DEF Covered
<1>5. CallsOwn /\ TotalCovered  BY WithdrawalsAssumption DEF CallsOwn, Own, TotalCovered
<1> QED  BY <1>2, <1>4, <1>5 DEF IInv

(* One step of a call that leaves the sums and the row's lock alone.       *)
LEMMA Moved ==
    ASSUME IInv, NEW c \in Calls,
           UNCHANGED <<credits, lapsed, lock, debit>>,
           call'[c].at \notin {"total", "read"},
           \A d \in Calls \ {c} : call'[d] = call[d]
    PROVE  TotalCovered' /\ Covered'
<1>1. CreditsGrow  BY SumsStay DEF IInv
<1>2. \A d \in Calls : call'[d].at \in {"total", "read"} => call'[d] = call[d]  OBVIOUS
<1> QED  BY <1>1, <1>2, BalanceGrows

(* A step of one call says nothing of the others.                          *)
LEMMA OthersKeep ==
    ASSUME CallsOwn, NEW c \in Calls, Own(c)',
           \A d \in Calls \ {c} :
               /\ call'[d] = call[d] /\ debit'[d] = debit[d] /\ sent'[d] = sent[d]
               /\ tx'[d] = tx[d] /\ (lock' = d <=> lock = d),
           killed' = killed, unheard' \in {unheard, unheard \cup {c}}
    PROVE  CallsOwn'
<1>1. ASSUME NEW d \in Calls, d # c PROVE Own(d)'
    <2>1. /\ call'[d] = call[d] /\ debit'[d] = debit[d] /\ sent'[d] = sent[d]
          /\ tx'[d] = tx[d] /\ (lock' = d <=> lock = d)
          /\ (d \in killed' \cup unheard' <=> d \in killed \cup unheard)
        BY <1>1
    <2>2. Own(d)  BY DEF CallsOwn
    <2> QED  BY <2>1, <2>2 DEF Own
<1> QED  BY <1>1 DEF CallsOwn

(* A call moves to another place in its work.                              *)
LEMMA MoveOnMoves ==
    ASSUME TypeOK, NEW c \in Calls, NEW at, MoveOn(c, at),
           at \in {"asked", "locked", "paying", "paid", "simulated", "failed", "done"}
    PROVE  /\ call' \in [Calls -> CallStates]
           /\ call'[c].at = at /\ call'[c].amount = call[c].amount
           /\ \A d \in Calls \ {c} : call'[d] = call[d]
<1>1. call \in [Calls -> CallStates]  BY DEF TypeOK
<1> DEFINE r == [call[c] EXCEPT !.at = at]
<1>2. r \in CallStates /\ r.at = at /\ r.amount = call[c].amount
    <2>1. call[c] \in CallStates  BY <1>1
    <2> QED  BY <2>1 DEF CallStates
<1>3. call' = [call EXCEPT ![c] = r]  BY DEF MoveOn
<1> HIDE DEF r
<1> QED  BY <1>1, <1>2, <1>3

LEMMA ResellStep ==
    ASSUME IInv, NEW w \in Wins, NEW kind \in Kinds, Resell(w, kind)
    PROVE  IInv'
<1>1. TypeOK'
    <2>1. credits' \in [Kinds -> SUBSET Wins]  BY DEF IInv, Resell, TypeOK
    <2> QED  BY <2>1 DEF IInv, Resell, TypeOK
<1>2. CreditsGrow
    <2>1. Debited' = Debited  BY DEF Resell, Debited, Units
    <2>2. TypeOK  BY DEF IInv
    <2> QED  BY <2>1, <2>2, SumsAreNumbers, CreditAdds DEF CreditsGrow
<1>3. UNCHANGED <<lock, call, debit, tx, sent, killed, unheard>>  BY DEF Resell
<1>4. TotalCovered' /\ Covered'  BY <1>2, <1>3, BalanceGrows
<1>5. CallsOwn'  BY <1>3 DEF IInv, CallsOwn, Own
<1> QED  BY <1>1, <1>4, <1>5 DEF IInv

LEMMA LapseStep ==
    ASSUME IInv, NEW w \in Wins, HoldLapses(w)
    PROVE  IInv'
<1>1. TypeOK'  BY DEF IInv, HoldLapses, TypeOK
<1>2. CreditsGrow
    <2>1. Debited' = Debited /\ Cardinality(Credited)' = Cardinality(Credited)
        BY DEF HoldLapses, Debited, Units, Credited
    <2>2. TypeOK  BY DEF IInv
    <2> QED  BY <2>1, <2>2, SumsAreNumbers, HoldShrinks DEF CreditsGrow
<1>3. UNCHANGED <<lock, call, debit, tx, sent, killed, unheard>>  BY DEF HoldLapses
<1>4. TotalCovered' /\ Covered'  BY <1>2, <1>3, BalanceGrows
<1>5. CallsOwn'  BY <1>3 DEF IInv, CallsOwn, Own
<1> QED  BY <1>1, <1>4, <1>5 DEF IInv

LEMMA AskStep == ASSUME IInv, NEW c \in Calls, Ask(c) PROVE IInv'
<1>1. /\ call[c].at = "none" /\ MoveOn(c, "asked")
      /\ UNCHANGED <<credits, lapsed, lock, debit, tx, freePlay, sent, crashes, killed, unheard>>
    BY DEF Ask
<1>2. /\ call' \in [Calls -> CallStates] /\ call'[c].at = "asked"
      /\ \A d \in Calls \ {c} : call'[d] = call[d]
    BY <1>1, MoveOnMoves DEF IInv
<1>3. TypeOK'  BY <1>1, <1>2 DEF IInv, TypeOK
<1>4. TotalCovered' /\ Covered'  BY <1>1, <1>2, Moved
<1>5. Own(c)'
    <2>1. Own(c)  BY DEF IInv, CallsOwn
    <2> QED  BY <1>1, <1>2, <2>1 DEF Own
<1>6. CallsOwn'  BY <1>1, <1>2, <1>5, OthersKeep DEF IInv
<1> QED  BY <1>3, <1>4, <1>6 DEF IInv

LEMMA LockUserStep == ASSUME IInv, NEW c \in Calls, LockUser(c) PROVE IInv'
<1>1. /\ call[c].at = "asked" /\ MoveOn(c, "locked") /\ lock = Null /\ lock' = c
      /\ UNCHANGED <<credits, lapsed, debit, tx, freePlay, sent, crashes, killed, unheard>>
    BY DEF LockUser, TakeLock
<1>2. /\ call' \in [Calls -> CallStates] /\ call'[c].at = "locked"
      /\ \A d \in Calls \ {c} : call'[d] = call[d]
    BY <1>1, MoveOnMoves DEF IInv
<1>3. TypeOK'  BY <1>1, <1>2 DEF IInv, TypeOK
<1>4. TotalCovered' /\ Covered'
    <2>1. CreditsGrow  BY <1>1, SumsStay DEF IInv
    <2>2. \A d \in Calls : call'[d].at \in {"total", "read"} => call'[d] = call[d]  BY <1>2
    <2> QED  BY <1>1, <1>2, <2>1, <2>2, BalanceGrows
<1>5. Own(c)'
    <2>1. Own(c)  BY DEF IInv, CallsOwn
    <2> QED  BY <1>1, <1>2, <2>1 DEF Own
<1>6. CallsOwn'  BY <1>1, <1>2, <1>5, OthersKeep, WithdrawalsAssumption DEF IInv
<1> QED  BY <1>3, <1>4, <1>6 DEF IInv

(* The holder of the row: nobody else is computing a debit, and what he    *)
(* reads is a balance.                                                     *)
LEMMA HolderKnows ==
    ASSUME IInv, NEW c \in Calls, call[c].at \in {"locked", "total", "read"}
    PROVE  /\ lock = c /\ c # Null /\ Own(c)
           /\ Debited \in Nat /\ Cardinality(Held) \in Nat /\ Cardinality(Wins) \in Nat
           /\ Cardinality(Credited) \in 0 .. Cardinality(Wins)
           /\ call[c] \in CallStates /\ call[c].total \in Nat /\ call[c].amount \in Nat
           /\ Debited + (IF call[c].at = "read" THEN call[c].amount ELSE 0)
                  + Cardinality(Held) <= Cardinality(Credited)
           /\ call[c].at = "total" => call[c].total + Debited <= Cardinality(Credited)
           /\ \A d \in Calls \ {c} : call[d].at \notin {"locked", "total", "read"}
<1>1. /\ Debited \in Nat /\ Cardinality(Held) \in Nat /\ Cardinality(Wins) \in Nat
      /\ Cardinality(Credited) \in 0 .. Cardinality(Wins)
    BY SumsAreNumbers DEF IInv
<1>2. lock = c /\ c # Null /\ Own(c)  BY WithdrawalsAssumption DEF IInv, CallsOwn, Own
<1>3. call[c] \in CallStates  BY DEF IInv, TypeOK
<1>4. call[c].total \in Nat /\ call[c].amount \in Nat  BY <1>1, <1>3 DEF CallStates
<1>5. \A d \in Calls \ {c} : call[d].at \notin {"locked", "total", "read"}
    BY <1>2 DEF IInv, CallsOwn, Own
<1>6. Debited + (IF call[c].at = "read" THEN call[c].amount ELSE 0)
          + Cardinality(Held) <= Cardinality(Credited)
    <2>1. (lock # Null /\ call[lock].at = "read") <=> call[c].at = "read"  BY <1>2
    <2>2. call[lock].amount = call[c].amount  BY <1>2
    <2> QED  BY <1>1, <1>4, <2>1, <2>2 DEF IInv, Covered
<1>7. call[c].at = "total" => call[c].total + Debited <= Cardinality(Credited)
    BY DEF IInv, TotalCovered
<1> QED  BY <1>1, <1>2, <1>3, <1>4, <1>5, <1>6, <1>7

LEMMA ReadTotalStep == ASSUME IInv, NEW c \in Calls, ReadTotal(c) PROVE IInv'
<1> DEFINE r == [call[c] EXCEPT !.at = "total", !.total = off_chain_balance]
<1>1. /\ call[c].at = "locked" /\ call' = [call EXCEPT ![c] = r]
      /\ UNCHANGED <<credits, lapsed, lock, debit, tx, freePlay, sent, crashes, killed, unheard>>
    BY DEF ReadTotal
<1>2. /\ lock = c /\ c # Null /\ Own(c) /\ call[c] \in CallStates
      /\ off_chain_balance \in 0 .. Cardinality(Wins)
      /\ off_chain_balance + Debited <= Cardinality(Credited)
      /\ Debited + Cardinality(Held) <= Cardinality(Credited)
      /\ Debited \in Nat /\ Cardinality(Held) \in Nat
      /\ \A d \in Calls \ {c} : call[d].at \notin {"locked", "total", "read"}
    BY <1>1, HolderKnows DEF off_chain_balance
<1>3. r \in CallStates /\ r.at = "total" /\ r.total = off_chain_balance
    BY <1>2 DEF CallStates
<1> HIDE DEF r
<1>4. /\ call' \in [Calls -> CallStates] /\ call'[c] = r
      /\ \A d \in Calls \ {c} : call'[d] = call[d]
    BY <1>1, <1>3 DEF IInv, TypeOK
<1>5. TypeOK'  BY <1>1, <1>4 DEF IInv, TypeOK
<1>6. /\ Debited' = Debited /\ Cardinality(Credited)' = Cardinality(Credited)
      /\ Cardinality(Held)' = Cardinality(Held)
    BY <1>1, SumsStay DEF IInv
<1>7. TotalCovered'  BY <1>2, <1>3, <1>4, <1>6 DEF TotalCovered
<1>8. Covered'
    <2>1. lock' = c /\ call'[c].at = "total"  BY <1>1, <1>2, <1>3, <1>4
    <2> QED  BY <2>1, <1>2, <1>6 DEF Covered
<1>9. Own(c)'  BY <1>1, <1>2, <1>3, <1>4 DEF Own
<1>10. CallsOwn'  BY <1>1, <1>4, <1>9, OthersKeep DEF IInv
<1> QED  BY <1>5, <1>7, <1>8, <1>10 DEF IInv

LEMMA ReadHeldStep == ASSUME IInv, NEW c \in Calls, ReadHeld(c) PROVE IInv'
<1> DEFINE r == [call[c] EXCEPT !.at = "read", !.amount = Withdrawable(c)]
<1>1. /\ call[c].at = "total" /\ call' = [call EXCEPT ![c] = r]
      /\ UNCHANGED <<credits, lapsed, lock, debit, tx, freePlay, sent, crashes, killed, unheard>>
    BY DEF ReadHeld
<1>2. /\ lock = c /\ c # Null /\ Own(c) /\ call[c] \in CallStates
      /\ Withdrawable(c) \in 0 .. Cardinality(Wins)
      /\ Debited + Withdrawable(c) + Cardinality(Held) <= Cardinality(Credited)
      /\ \A d \in Calls \ {c} : call[d].at \notin {"locked", "total", "read"}
    BY <1>1, HolderKnows DEF Withdrawable, max0
<1>3. r \in CallStates /\ r.at = "read" /\ r.amount = Withdrawable(c)
    BY <1>2 DEF CallStates
<1> HIDE DEF r
<1>4. /\ call' \in [Calls -> CallStates] /\ call'[c] = r
      /\ \A d \in Calls \ {c} : call'[d] = call[d]
    BY <1>1, <1>3 DEF IInv, TypeOK
<1>5. TypeOK'  BY <1>1, <1>4 DEF IInv, TypeOK
<1>6. /\ Debited' = Debited /\ Cardinality(Credited)' = Cardinality(Credited)
      /\ Cardinality(Held)' = Cardinality(Held)
    BY <1>1, SumsStay DEF IInv
<1>7. TotalCovered'  BY <1>2, <1>3, <1>4, <1>6 DEF TotalCovered
<1>8. Covered'
    <2>1. lock' = c /\ call'[c].at = "read" /\ call'[c].amount = Withdrawable(c)
        BY <1>1, <1>2, <1>3, <1>4
    <2> QED  BY <2>1, <1>2, <1>6 DEF Covered
<1>9. Own(c)'  BY <1>1, <1>2, <1>3, <1>4 DEF Own
<1>10. CallsOwn'  BY <1>1, <1>4, <1>9, OthersKeep DEF IInv
<1> QED  BY <1>5, <1>7, <1>8, <1>10 DEF IInv

LEMMA RefuseStep == ASSUME IInv, NEW c \in Calls, Refuse(c) PROVE IInv'
<1>1. /\ call[c].at = "read" /\ MoveOn(c, "done")
      /\ lock' = IF lock = c THEN Null ELSE lock
      /\ UNCHANGED <<credits, lapsed, debit, tx, freePlay, sent, crashes, killed, unheard>>
    BY DEF Refuse, FreeLock
<1>2. /\ lock = c /\ c # Null /\ Own(c)
      /\ \A d \in Calls \ {c} : call[d].at \notin {"locked", "total", "read"}
    BY <1>1, HolderKnows
<1>3. /\ call' \in [Calls -> CallStates] /\ call'[c].at = "done"
      /\ \A d \in Calls \ {c} : call'[d] = call[d]
    BY <1>1, MoveOnMoves DEF IInv
<1>4. TypeOK'  BY <1>1, <1>2, <1>3 DEF IInv, TypeOK
<1>5. TotalCovered' /\ Covered'
    <2>1. CreditsGrow  BY <1>1, SumsStay DEF IInv
    <2>2. \A d \in Calls : call'[d].at \in {"total", "read"} => call'[d] = call[d]  BY <1>3
    <2> QED  BY <1>1, <1>2, <2>1, <2>2, BalanceGrows
<1>6. Own(c)'  BY <1>1, <1>2, <1>3 DEF Own
<1>7. CallsOwn'  BY <1>1, <1>2, <1>3, <1>6, OthersKeep, WithdrawalsAssumption DEF IInv
<1> QED  BY <1>4, <1>5, <1>7 DEF IInv

LEMMA ReserveStep == ASSUME IInv, NEW c \in Calls, Reserve(c) PROVE IInv'
<1> DEFINE a == call[c].amount
<1>1. /\ call[c].at = "read" /\ MoveOn(c, "paying")
      /\ debit' = [debit EXCEPT ![c] = a]
      /\ lock' = IF lock = c THEN Null ELSE lock
      /\ UNCHANGED <<credits, lapsed, tx, freePlay, sent, crashes, killed, unheard>>
    BY DEF Reserve, FreeLock
<1>2. /\ lock = c /\ c # Null /\ Own(c) /\ a \in Nat /\ a \in 0 .. Cardinality(Wins)
      /\ Debited + a + Cardinality(Held) <= Cardinality(Credited)
      /\ Debited \in Nat /\ Cardinality(Held) \in Nat
      /\ \A d \in Calls \ {c} : call[d].at \notin {"locked", "total", "read"}
    BY <1>1, HolderKnows DEF CallStates
<1> HIDE DEF a
<1>3. /\ call' \in [Calls -> CallStates] /\ call'[c].at = "paying" /\ call'[c].amount = a
      /\ \A d \in Calls \ {c} : call'[d] = call[d]
    BY <1>1, MoveOnMoves DEF IInv, a
<1>4. debit' \in [Calls -> 0 .. Cardinality(Wins)] /\ debit'[c] = a
      /\ \A d \in Calls \ {c} : debit'[d] = debit[d]
    BY <1>1, <1>2 DEF IInv, TypeOK
<1>5. TypeOK'  BY <1>1, <1>2, <1>3, <1>4 DEF IInv, TypeOK
<1>6. /\ Debited' = Debited + a
      /\ Cardinality(Credited)' = Cardinality(Credited) /\ Cardinality(Held)' = Cardinality(Held)
    <2>1. debit[c] = 0  BY <1>1, <1>2 DEF Own
    <2>2. Debited' = Debited + a  BY <1>1, <1>2, <2>1, DebitAdds DEF IInv
    <2> QED  BY <1>1, <2>2 DEF Credited, Held
<1>7. TotalCovered'  BY <1>2, <1>3 DEF TotalCovered
<1>8. Covered'
    <2>1. lock' = Null  BY <1>1, <1>2
    <2> QED  BY <2>1, <1>2, <1>6 DEF Covered
<1>9. Own(c)'  BY <1>1, <1>2, <1>3, <1>4 DEF Own
<1>10. CallsOwn'  BY <1>1, <1>2, <1>3, <1>4, <1>9, OthersKeep, WithdrawalsAssumption DEF IInv
<1> QED  BY <1>5, <1>7, <1>8, <1>10 DEF IInv

LEMMA SimulateStep == ASSUME IInv, NEW c \in Calls, Simulate(c) PROVE IInv'
<1>1. /\ call[c].at = "paying" /\ MoveOn(c, "simulated")
      /\ UNCHANGED <<credits, lapsed, lock, debit, tx, freePlay, sent, crashes, killed, unheard>>
    BY DEF Simulate
<1>2. /\ call' \in [Calls -> CallStates] /\ call'[c].at = "simulated"
      /\ call'[c].amount = call[c].amount
      /\ \A d \in Calls \ {c} : call'[d] = call[d]
    BY <1>1, MoveOnMoves DEF IInv
<1>3. TypeOK'  BY <1>1, <1>2 DEF IInv, TypeOK
<1>4. TotalCovered' /\ Covered'  BY <1>1, <1>2, Moved
<1>5. Own(c)'
    <2>1. Own(c)  BY DEF IInv, CallsOwn
    <2> QED  BY <1>1, <1>2, <2>1 DEF Own
<1>6. CallsOwn'  BY <1>1, <1>2, <1>5, OthersKeep DEF IInv
<1> QED  BY <1>3, <1>4, <1>6 DEF IInv

(* Another attempt, or the end of the attempts.                            *)
LEMMA RetryMoves ==
    ASSUME TypeOK, NEW c \in Calls, call[c].at = "paying", Retry(c)
    PROVE  /\ call' \in [Calls -> CallStates]
           /\ call'[c].at \in {"paying", "failed"} /\ call'[c].amount = call[c].amount
           /\ \A d \in Calls \ {c} : call'[d] = call[d]
<1>1. CASE call[c].tries + 1 < MaxTries /\ call' = [call EXCEPT ![c].tries = @ + 1]
    <2> DEFINE r == [call[c] EXCEPT !.tries = @ + 1]
    <2>1. call[c] \in CallStates  BY DEF TypeOK
    <2>2. r \in CallStates /\ r.at = "paying" /\ r.amount = call[c].amount
        BY <1>1, <2>1, WithdrawalsAssumption DEF CallStates
    <2>3. call' = [call EXCEPT ![c] = r]  BY <1>1
    <2> HIDE DEF r
    <2> QED  BY <2>2, <2>3 DEF TypeOK
<1>2. CASE MoveOn(c, "failed")  BY <1>2, MoveOnMoves
<1> QED  BY <1>1, <1>2 DEF Retry

(* A transfer is added to what the call has sent.                          *)
LEMMA TransferAdds ==
    ASSUME IInv, NEW c \in Calls, Transfer(c)
    PROVE  /\ sent' \in [Calls -> Nat] /\ sent'[c] = sent[c] + call[c].amount
           /\ \A d \in Calls \ {c} : sent'[d] = sent[d]
<1>1. call[c].amount \in Nat  BY SumsAreNumbers DEF IInv, TypeOK, CallStates
<1>2. sent \in [Calls -> Nat]  BY DEF IInv, TypeOK
<1> QED  BY <1>1, <1>2 DEF Transfer

LEMMA SendStep == ASSUME IInv, NEW c \in Calls, Send(c) PROVE IInv'
<1>1. /\ call[c].at = "paying" /\ MoveOn(c, "paid") /\ Transfer(c)
      /\ UNCHANGED <<credits, lapsed, lock, debit, tx, freePlay, crashes, killed, unheard>>
    BY DEF Send, Paying
<1>2. /\ call' \in [Calls -> CallStates] /\ call'[c].at = "paid"
      /\ call'[c].amount = call[c].amount
      /\ \A d \in Calls \ {c} : call'[d] = call[d]
    BY <1>1, MoveOnMoves DEF IInv
<1>3. /\ sent' \in [Calls -> Nat] /\ sent'[c] = sent[c] + call[c].amount
      /\ \A d \in Calls \ {c} : sent'[d] = sent[d]
    BY <1>1, TransferAdds
<1>4. TypeOK'  BY <1>1, <1>2, <1>3 DEF IInv, TypeOK
<1>5. TotalCovered' /\ Covered'  BY <1>1, <1>2, Moved
<1>6. Own(c)'
    <2>1. Own(c)  BY DEF IInv, CallsOwn
    <2>2. debit[c] = call[c].amount /\ debit[c] \in Nat
        BY <1>1, <2>1, SumsAreNumbers DEF Own, IInv, TypeOK
    <2>3. c \notin unheard => sent'[c] = debit[c]
        BY <1>1, <1>3, <2>1, <2>2 DEF Own
    <2>4. lock' = lock /\ debit' = debit /\ killed' = killed /\ unheard' = unheard  BY <1>1
    <2>5. lock # c  BY <1>1, <2>1 DEF Own
    <2> QED  BY <1>2, <2>2, <2>3, <2>4, <2>5 DEF Own
<1>7. CallsOwn'  BY <1>1, <1>2, <1>3, <1>6, OthersKeep DEF IInv
<1> QED  BY <1>4, <1>5, <1>7 DEF IInv

LEMMA SendFailsStep == ASSUME IInv, NEW c \in Calls, SendFails(c) PROVE IInv'
<1>1. /\ call[c].at = "paying" /\ Retry(c)
      /\ UNCHANGED <<credits, lapsed, lock, debit, tx, freePlay, sent, crashes, killed, unheard>>
    BY DEF SendFails, Paying
<1>2. /\ call' \in [Calls -> CallStates]
      /\ call'[c].at \in {"paying", "failed"} /\ call'[c].amount = call[c].amount
      /\ \A d \in Calls \ {c} : call'[d] = call[d]
    BY <1>1, RetryMoves DEF IInv
<1>3. TypeOK'  BY <1>1, <1>2 DEF IInv, TypeOK
<1>4. TotalCovered' /\ Covered'  BY <1>1, <1>2, Moved
<1>5. Own(c)'
    <2>1. Own(c)  BY DEF IInv, CallsOwn
    <2> QED  BY <1>1, <1>2, <2>1 DEF Own
<1>6. CallsOwn'  BY <1>1, <1>2, <1>5, OthersKeep DEF IInv
<1> QED  BY <1>3, <1>4, <1>6 DEF IInv

LEMMA SendUnheardStep == ASSUME IInv, NEW c \in Calls, SendUnheard(c) PROVE IInv'
<1>1. /\ call[c].at = "paying" /\ Retry(c) /\ Transfer(c) /\ unheard' = unheard \cup {c}
      /\ UNCHANGED <<credits, lapsed, lock, debit, tx, freePlay, crashes, killed>>
    BY DEF SendUnheard, Paying
<1>2. /\ call' \in [Calls -> CallStates]
      /\ call'[c].at \in {"paying", "failed"} /\ call'[c].amount = call[c].amount
      /\ \A d \in Calls \ {c} : call'[d] = call[d]
    BY <1>1, RetryMoves DEF IInv
<1>3. /\ sent' \in [Calls -> Nat]
      /\ \A d \in Calls \ {c} : sent'[d] = sent[d]
    BY <1>1, TransferAdds
<1>4. TypeOK'  BY <1>1, <1>2, <1>3 DEF IInv, TypeOK
<1>5. TotalCovered' /\ Covered'  BY <1>1, <1>2, Moved
<1>6. Own(c)'
    <2>1. Own(c)  BY DEF IInv, CallsOwn
    <2>2. c \in unheard'  BY <1>1
    <2>3. lock' = lock /\ debit' = debit  BY <1>1
    <2>4. debit[c] = call[c].amount /\ lock # c  BY <1>1, <2>1 DEF Own
    <2> QED  BY <1>2, <2>2, <2>3, <2>4 DEF Own
<1>7. CallsOwn'  BY <1>1, <1>2, <1>3, <1>6, OthersKeep DEF IInv
<1> QED  BY <1>4, <1>5, <1>7 DEF IInv

LEMMA FinaliseStep == ASSUME IInv, NEW c \in Calls, Finalise(c) PROVE IInv'
<1>1. /\ call[c].at \in {"paid", "simulated"} /\ MoveOn(c, "done")
      /\ tx' = [tx EXCEPT ![c] = call[c].at]
      /\ UNCHANGED <<credits, lapsed, lock, debit, freePlay, sent, crashes, killed, unheard>>
    BY DEF Finalise
<1>2. /\ call' \in [Calls -> CallStates] /\ call'[c].at = "done"
      /\ \A d \in Calls \ {c} : call'[d] = call[d]
    BY <1>1, MoveOnMoves DEF IInv
<1>3. /\ tx' \in [Calls -> {"paid", "simulated", Null}] /\ tx'[c] = call[c].at
      /\ \A d \in Calls \ {c} : tx'[d] = tx[d]
    BY <1>1 DEF IInv, TypeOK
<1>4. TypeOK'  BY <1>1, <1>2, <1>3 DEF IInv, TypeOK
<1>5. TotalCovered' /\ Covered'  BY <1>1, <1>2, Moved
<1>6. Own(c)'
    <2>1. Own(c)  BY DEF IInv, CallsOwn
    <2> QED  BY <1>1, <1>2, <1>3, <2>1 DEF Own
<1>7. CallsOwn'  BY <1>1, <1>2, <1>3, <1>6, OthersKeep DEF IInv
<1> QED  BY <1>4, <1>5, <1>7 DEF IInv

LEMMA ReverseStep == ASSUME IInv, NEW c \in Calls, Reverse(c) PROVE IInv'
<1>1. /\ call[c].at = "failed" /\ MoveOn(c, "done")
      /\ debit' = [debit EXCEPT ![c] = 0]
      /\ UNCHANGED <<credits, lapsed, lock, tx, freePlay, sent, crashes, killed, unheard>>
    BY DEF Reverse, Undebit
<1>2. /\ call' \in [Calls -> CallStates] /\ call'[c].at = "done"
      /\ \A d \in Calls \ {c} : call'[d] = call[d]
    BY <1>1, MoveOnMoves DEF IInv
<1>3. /\ debit' \in [Calls -> 0 .. Cardinality(Wins)] /\ debit'[c] = 0
      /\ \A d \in Calls \ {c} : debit'[d] = debit[d]
    <2>1. 0 \in 0 .. Cardinality(Wins)  BY SumsAreNumbers DEF IInv
    <2> QED  BY <1>1, <2>1 DEF IInv, TypeOK
<1>4. TypeOK'  BY <1>1, <1>2, <1>3 DEF IInv, TypeOK
<1>5. TotalCovered' /\ Covered'
    <2>1. Debited' \in Nat /\ Debited' <= Debited  BY <1>1, DebitGoes DEF IInv
    <2>2. /\ Cardinality(Credited)' = Cardinality(Credited)
          /\ Cardinality(Held)' = Cardinality(Held)
        BY <1>1 DEF Credited, Held
    <2>3. CreditsGrow  BY <2>1, <2>2, SumsAreNumbers DEF CreditsGrow, IInv
    <2>4. \A d \in Calls : call'[d].at \in {"total", "read"} => call'[d] = call[d]  BY <1>2
    <2> QED  BY <1>1, <2>3, <2>4, BalanceGrows
<1>6. Own(c)'
    <2>1. Own(c)  BY DEF IInv, CallsOwn
    <2> QED  BY <1>1, <1>2, <1>3, <2>1 DEF Own
<1>7. CallsOwn'  BY <1>1, <1>2, <1>3, <1>6, OthersKeep DEF IInv
<1> QED  BY <1>4, <1>5, <1>7 DEF IInv

LEMMA CrashStep == ASSUME IInv, Crash PROVE IInv'
<1>1. /\ crashes < MaxCrashes /\ crashes' = crashes + 1 /\ lock' = Null
      /\ killed' = killed \cup {c \in Calls : InWork(c)}
      /\ call' = [c \in Calls |-> IF InWork(c) THEN [call[c] EXCEPT !.at = "done"] ELSE call[c]]
      /\ freePlay' \in BOOLEAN
      /\ UNCHANGED <<credits, lapsed, debit, tx, sent, unheard>>
    BY DEF Crash
<1>2. /\ call' \in [Calls -> CallStates]
      /\ \A d \in Calls : InWork(d) => call'[d].at = "done" /\ d \in killed'
      /\ \A d \in Calls : ~InWork(d) =>
             call'[d] = call[d] /\ call[d].at \in {"none", "done"} /\ (d \in killed' <=> d \in killed)
    <2>1. \A d \in Calls : call[d] \in CallStates  BY DEF IInv, TypeOK
    <2>2. \A d \in Calls : [call[d] EXCEPT !.at = "done"] \in CallStates
        BY <2>1 DEF CallStates
    <2>3. call' \in [Calls -> CallStates]  BY <1>1, <2>1, <2>2
    <2>4. \A d \in Calls : InWork(d) => call'[d] = [call[d] EXCEPT !.at = "done"]  BY <1>1
    <2>5. \A d \in Calls : [call[d] EXCEPT !.at = "done"].at = "done"  BY <2>1 DEF CallStates
    <2>6. \A d \in Calls : ~InWork(d) => call'[d] = call[d]  BY <1>1
    <2>7. \A d \in Calls : ~InWork(d) => call[d].at \in {"none", "done"}  BY DEF InWork
    <2>8. \A d \in Calls : InWork(d) => call'[d].at = "done"  BY <2>4, <2>5
    <2> QED  BY <1>1, <2>3, <2>6, <2>7, <2>8
<1>3. TypeOK'
    <2>1. crashes' \in 0 .. MaxCrashes  BY <1>1, WithdrawalsAssumption DEF IInv, TypeOK
    <2>2. killed' \subseteq Calls  BY <1>1 DEF IInv, TypeOK
    <2> QED  BY <1>1, <1>2, <2>1, <2>2 DEF IInv, TypeOK
<1>4. TotalCovered' /\ Covered'
    <2>1. CreditsGrow  BY <1>1, SumsStay DEF IInv
    <2>2. \A d \in Calls : call'[d].at \in {"total", "read"} => call'[d] = call[d]  BY <1>2
    <2> QED  BY <1>1, <2>1, <2>2, BalanceGrows
<1>5. CallsOwn'
    <2>1. ASSUME NEW d \in Calls PROVE Own(d)'
        <3>1. Own(d)  BY DEF IInv, CallsOwn
        <3>2. lock' # d  BY <1>1, WithdrawalsAssumption
        <3>3. CASE InWork(d)
            <4>1. /\ call'[d].at = "done" /\ d \in killed'
                  /\ debit' = debit /\ sent' = sent /\ unheard' = unheard
                BY <1>1, <1>2, <3>3
            <4>2. d \notin unheard => sent[d] \in {0, debit[d]}  BY <3>1 DEF Own
            <4> QED  BY <3>2, <4>1, <4>2 DEF Own
        <3>4. CASE ~InWork(d)  BY <1>1, <1>2, <3>1, <3>2, <3>4 DEF Own
        <3> QED  BY <3>3, <3>4
    <2> QED  BY <2>1 DEF CallsOwn
<1> QED  BY <1>3, <1>4, <1>5 DEF IInv

LEMMA InvStep == IInv /\ [Next]_vars => IInv'
<1> SUFFICES ASSUME IInv, [Next]_vars PROVE IInv'  OBVIOUS
<1>1. CASE \E w \in Wins, kind \in Kinds : Resell(w, kind)  BY <1>1, ResellStep
<1>2. CASE \E w \in Wins : HoldLapses(w)  BY <1>2, LapseStep
<1>3. CASE \E c \in Calls : Ask(c) \/ Work(c)
    BY <1>3, AskStep, LockUserStep, ReadTotalStep, ReadHeldStep, RefuseStep, ReserveStep,
       SimulateStep, SendStep, SendFailsStep, SendUnheardStep, FinaliseStep, ReverseStep
    DEF Work
<1>4. CASE Crash  BY <1>4, CrashStep
<1>5. CASE UNCHANGED vars
    <2>1. UNCHANGED <<credits, lapsed, lock, call, debit, tx, freePlay, sent, crashes, killed, unheard>>
        BY <1>5 DEF vars
    <2>2. TypeOK'  BY <2>1 DEF IInv, TypeOK
    <2>3. CallsOwn'  BY <2>1 DEF IInv, CallsOwn, Own
    <2>4. TotalCovered' /\ Covered'  BY <2>1, SumsStay, BalanceGrows DEF IInv
    <2> QED  BY <2>2, <2>3, <2>4 DEF IInv
<1> QED  BY <1>1, <1>2, <1>3, <1>4, <1>5 DEF Next

(* The invariant holds in every reachable state.                           *)
LEMMA InvAlways == Spec => []IInv
<1> QED  BY InvInit, InvStep, PTL DEF Spec

(* Every variable of Withdrawals keeps its type; in particular no balance  *)
(* that a withdrawal reads, and no amount it computes, is negative         *)
(* (helpers.py:28-42, 71-75).                                              *)
THEOREM TypeCorrect == Spec => []TypeOK
<1>1. IInv => TypeOK  BY DEF IInv
<1> QED  BY InvAlways, <1>1, PTL

(* The lock of the user's row, and the order of the two sums, keep what is *)
(* debited within the credits that are not held, for any number of         *)
(* concurrent withdrawals (events_queue.py:115-131, helpers.py:71-75).     *)
THEOREM CreditsCoverDebits == Spec => []Covered
<1>1. IInv => Covered  BY DEF IInv
<1> QED  BY InvAlways, <1>1, PTL

(* A withdrawal that ran to its end, and heard of every transfer it made,  *)
(* has debited exactly what it sent (events_queue.py:146-156).             *)
THEOREM DebitsArePayouts == Spec => []DebitIsPayout
<1>1. IInv => DebitIsPayout  BY DEF IInv, CallsOwn, Own, DebitIsPayout
<1> QED  BY InvAlways, <1>1, PTL

(* Only a transfer that its withdrawal does not hear of leaves the         *)
(* treasury without a debit: neither retries nor restarts do, nor two      *)
(* withdrawals at once (events_queue.py:103-107).                          *)
HeardPayoutIsDebited == \A c \in Calls \ unheard : sent[c] <= debit[c]

THEOREM HeardPayoutsAreDebited == Spec => []HeardPayoutIsDebited
<1>1. IInv => HeardPayoutIsDebited
    <2> SUFFICES ASSUME IInv, NEW c \in Calls, c \notin unheard PROVE sent[c] <= debit[c]
        BY DEF HeardPayoutIsDebited
    <2>1. sent[c] \in {0, debit[c]}
        <3>1. Own(c) /\ call[c] \in CallStates  BY DEF IInv, CallsOwn, TypeOK
        <3> QED  BY <3>1 DEF Own, CallStates
    <2>2. debit[c] \in Nat  BY SumsAreNumbers DEF IInv, TypeOK
    <2> QED  BY <2>1, <2>2
<1> QED  BY InvAlways, <1>1, PTL
=============================================================================
