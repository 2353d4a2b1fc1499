-------------------------- MODULE PaymentsProofs --------------------------
(***************************************************************************)
(* Proofs about Payments, for any number of calls, players, transfers,     *)
(* spellings of their hashes, and restarts.                                *)
(***************************************************************************)
EXTENDS Payments, FiniteSetTheorems, SequenceTheorems, TLAPS

(* Where a call is tells what is known of it: its player, and that it has  *)
(* a row only once the row was committed; what is PENDING is a card's.     *)
Placed ==
    \A c \in Calls :
        /\ call[c].at # "none" => call[c].player \in Players
        /\ payment[c] # Null =>
               call[c].at \in {"charging", "answered", "unknown", "orphaned", "done"}
        /\ call[c].at = "crypto" => call[c].tx \in Refs
        /\ Status(c) = "PENDING" => payment[c].rail = "CARD" /\ payment[c].ref = Null

(* Stripe's answers and events tell the truth.                             *)
Truthful ==
    /\ \A c \in Calls : call[c].at = "answered" /\ call[c].answer = "succeeded"
                            => charge[c] = "succeeded"
    /\ \A h \in hooks : h.type = "succeeded" => charge[h.of] = "succeeded"

(* No two rows carry one reference, confirmed or not.                      *)
RefsApart ==
    \A c, d \in Calls :
        c # d /\ payment[c] # Null /\ payment[d] # Null /\ payment[c].ref # Null
            => payment[c].ref # payment[d].ref

(* A crypto payment carries the text that was submitted.                   *)
CryptoRefs ==
    \A c \in Calls : payment[c] # Null /\ payment[c].rail = "CRYPTO" => payment[c].ref \in Refs

USE PaymentsAssumption

-----------------------------------------------------------------------------
(* The two ways in which a row changes.                                    *)

LEMMA EntryTyped ==
    ASSUME TypeOK, NEW i \in DOMAIN entries
    PROVE  i \in 1 .. Len(entries) /\ entries[i] \in EntryRows /\ entries[i].paid \in Calls
  <1>1. entries \in Seq(EntryRows)
    BY DEF TypeOK
  <1>2. i \in 1 .. Len(entries)
    BY <1>1, LenProperties
  <1>3. entries[i] \in EntryRows
    BY <1>1, <1>2, ElementOfSeq
  <1>4. QED  BY <1>2, <1>3 DEF EntryRows

LEMMA ConfirmKeeps ==
    ASSUME TypeOK, OnePlayEach,
           NEW c \in Calls, NEW row \in PaymentRows, call[c].player \in Players,
           Status(c) \in {"none", "PENDING"}, ConfirmPayment(c, row)
    PROVE  /\ entries' \in Seq(EntryRows)
           /\ payment' \in [Calls -> PaymentRows \cup {Null}]
           /\ payment'[c] # Null /\ payment'[c].status = "CONFIRMED"
           /\ payment'[c].rail = row.rail /\ payment'[c].ref = row.ref
           /\ \A d \in Calls : d # c => payment'[d] = payment[d]
           /\ OnePlayEach'
  <1> DEFINE e == [player |-> call[c].player, paid |-> c, status |-> "queued"]
             r == [row EXCEPT !.status = "CONFIRMED", !.entry = Len(entries) + 1]
  <1>1. entries \in Seq(EntryRows) /\ payment \in [Calls -> PaymentRows \cup {Null}]
    BY DEF TypeOK
  <1>2. entries' = Append(entries, e) /\ payment' = [payment EXCEPT ![c] = r]
    BY DEF ConfirmPayment
  <1>3. e \in EntryRows
    BY DEF EntryRows
  <1>4. /\ r \in PaymentRows /\ r # Null /\ r.status = "CONFIRMED"
        /\ r.rail = row.rail /\ r.ref = row.ref /\ r.entry = Len(entries) + 1
    <2>1. Len(entries) + 1 \in Nat
      BY <1>1, LenProperties
    <2>2. /\ r.rail = row.rail /\ r.ref = row.ref
          /\ r.status = "CONFIRMED" /\ r.entry = Len(entries) + 1
      BY DEF PaymentRows
    <2>3. r \in PaymentRows
      BY <2>1 DEF PaymentRows
    <2>4. QED  BY <2>2, <2>3
  <1>5. /\ entries' \in Seq(EntryRows) /\ Len(entries') = Len(entries) + 1
        /\ \A i \in 1 .. Len(entries) : entries'[i] = entries[i]
        /\ entries'[Len(entries) + 1] = e
    BY <1>1, <1>2, <1>3, AppendProperties
  <1>6. /\ payment' \in [Calls -> PaymentRows \cup {Null}]
        /\ payment'[c] = r /\ \A d \in Calls : d # c => payment'[d] = payment[d]
    BY <1>1, <1>2, <1>4
  <1>7. ASSUME NEW i \in DOMAIN entries'
        PROVE  /\ payment'[entries'[i].paid] # Null
               /\ payment'[entries'[i].paid].status = "CONFIRMED"
               /\ payment'[entries'[i].paid].entry = i
    <2>1. i \in 1 .. (Len(entries) + 1)
      BY <1>5
    <2>2. CASE i = Len(entries) + 1
      <3>1. entries'[i].paid = c
        BY <2>2, <1>5
      <3>2. QED  BY <2>2, <3>1, <1>4, <1>6
    <2>3. CASE i # Len(entries) + 1
      <3>1. i \in 1 .. Len(entries) /\ i \in DOMAIN entries
        BY <2>1, <2>3, <1>1
      <3>2. /\ payment[entries[i].paid] # Null
            /\ payment[entries[i].paid].status = "CONFIRMED"
            /\ payment[entries[i].paid].entry = i
        BY <3>1 DEF OnePlayEach
      <3>3. entries[i].paid \in Calls /\ entries[i].paid # c
        BY <3>1, <3>2, EntryTyped DEF Status
      <3>4. entries'[i] = entries[i]
        BY <3>1, <1>5
      <3>5. payment'[entries[i].paid] = payment[entries[i].paid]
        BY <3>3, <1>6
      <3>6. QED  BY <3>2, <3>4, <3>5
    <2>4. QED  BY <2>2, <2>3
  <1>8. ASSUME NEW d \in Calls, payment'[d] # Null, payment'[d].status = "CONFIRMED"
        PROVE  payment'[d].entry \in DOMAIN entries' /\ entries'[payment'[d].entry].paid = d
    <2>1. CASE d = c
      BY <2>1, <1>1, <1>4, <1>5, <1>6
    <2>2. CASE d # c
      <3>1. payment[d].entry \in DOMAIN entries /\ entries[payment[d].entry].paid = d
        BY <2>2, <1>8, <1>6 DEF OnePlayEach, Status
      <3>2. QED  BY <3>1, <2>2, <1>1, <1>5, <1>6
    <2>3. QED  BY <2>1, <2>2
  <1>9. OnePlayEach'
    BY <1>7, <1>8 DEF OnePlayEach, Status
  <1>10. QED  BY <1>4, <1>5, <1>6, <1>9

LEMMA FailKeeps ==
    ASSUME TypeOK, OnePlayEach, NEW c \in Calls, FailCard(c)
    PROVE  /\ payment' \in [Calls -> PaymentRows \cup {Null}]
           /\ \A d \in Calls :
                \/ payment'[d] = payment[d]
                \/ /\ payment[d] # Null /\ payment[d].status = "PENDING"
                   /\ payment'[d] # Null /\ payment'[d].status = "FAILED"
                   /\ payment'[d].rail = payment[d].rail /\ payment'[d].ref = payment[d].ref
           /\ OnePlayEach'
  <1>1. entries' = entries /\ entries \in Seq(EntryRows)
        /\ payment \in [Calls -> PaymentRows \cup {Null}]
    BY DEF FailCard, TypeOK
  <1>2. CASE Status(c) # "PENDING"
    <2>1. payment' = payment
      BY <1>2 DEF FailCard
    <2>2. QED  BY <1>1, <2>1 DEF OnePlayEach, Status
  <1>3. CASE Status(c) = "PENDING"
    <2>1. payment[c] \in PaymentRows /\ payment[c] # Null /\ payment[c].status = "PENDING"
      BY <1>1, <1>3 DEF Status
    <2>2. PICK r \in PaymentRows : /\ payment' = [payment EXCEPT ![c] = r] /\ r.status = "FAILED"
                                   /\ r.rail = payment[c].rail /\ r.ref = payment[c].ref
      <3> DEFINE r == [payment[c] EXCEPT !.status = "FAILED"]
      <3>1. r \in PaymentRows /\ r.status = "FAILED"
            /\ r.rail = payment[c].rail /\ r.ref = payment[c].ref
        BY <2>1 DEF PaymentRows
      <3>2. payment' = [payment EXCEPT ![c] = r]
        BY <1>3 DEF FailCard
      <3>3. QED  BY <3>1, <3>2
    <2>3. /\ payment' \in [Calls -> PaymentRows \cup {Null}] /\ payment'[c] = r /\ r # Null
          /\ \A d \in Calls : d # c => payment'[d] = payment[d]
      BY <2>2, <1>1
    <2>4. \A i \in DOMAIN entries : entries[i].paid \in Calls /\ entries[i].paid # c
      BY <2>1, EntryTyped DEF OnePlayEach
    <2>5. OnePlayEach'
      BY <1>1, <2>2, <2>3, <2>4 DEF OnePlayEach, Status
    <2>6. QED  BY <2>1, <2>2, <2>3, <2>5
  <1>4. QED  BY <1>2, <1>3

-----------------------------------------------------------------------------
(* A step that settles PENDING rows, as the answer to a charge, the        *)
(* webhook and the write-off do.                                           *)

SettledOrSame(d) ==
    \/ payment'[d] = payment[d]
    \/ /\ payment[d] # Null /\ payment[d].status = "PENDING"
       /\ payment'[d] # Null /\ payment'[d].status \in {"CONFIRMED", "FAILED"}
       /\ payment'[d].rail = payment[d].rail /\ payment'[d].ref = payment[d].ref
       /\ payment'[d].status = "CONFIRMED" => charge[d] = "succeeded"

IInv ==
    /\ TypeOK /\ Placed /\ Truthful /\ CryptoRefs
    /\ OnePlayEach /\ PlaysArePaid /\ RefsApart

LEMMA ConfirmCardSettles ==
    ASSUME IInv, NEW c \in Calls, ConfirmCard(c), charge[c] = "succeeded"
    PROVE  /\ entries' \in Seq(EntryRows)
           /\ payment' \in [Calls -> PaymentRows \cup {Null}]
           /\ OnePlayEach'
           /\ \A d \in Calls : SettledOrSame(d)
  <1>1. CASE Status(c) # "PENDING"
    <2>1. entries' = entries /\ payment' = payment
      BY <1>1 DEF ConfirmCard
    <2>2. QED  BY <2>1 DEF IInv, TypeOK, OnePlayEach, Status, SettledOrSame
  <1>2. CASE Status(c) = "PENDING"
    <2>1. /\ payment[c] # Null /\ payment[c].status = "PENDING" /\ payment[c] \in PaymentRows
          /\ ConfirmPayment(c, payment[c])
      BY <1>2 DEF ConfirmCard, Status, IInv, TypeOK
    <2>2. call[c].player \in Players
      BY <2>1 DEF IInv, Placed
    <2>3. /\ entries' \in Seq(EntryRows)
          /\ payment' \in [Calls -> PaymentRows \cup {Null}]
          /\ payment'[c] # Null /\ payment'[c].status = "CONFIRMED"
          /\ payment'[c].rail = payment[c].rail /\ payment'[c].ref = payment[c].ref
          /\ \A d \in Calls : d # c => payment'[d] = payment[d]
          /\ OnePlayEach'
      BY <1>2, <2>1, <2>2, ConfirmKeeps DEF IInv
    <2>4. \A d \in Calls : SettledOrSame(d)
      BY <2>1, <2>3 DEF SettledOrSame
    <2>5. QED  BY <2>3, <2>4
  <1>3. QED  BY <1>1, <1>2

LEMMA FailCardSettles ==
    ASSUME IInv, NEW c \in Calls, FailCard(c)
    PROVE  /\ entries' \in Seq(EntryRows)
           /\ payment' \in [Calls -> PaymentRows \cup {Null}]
           /\ OnePlayEach'
           /\ \A d \in Calls : SettledOrSame(d)
  <1>1. entries' = entries /\ entries \in Seq(EntryRows)
    BY DEF FailCard, IInv, TypeOK
  <1>2. /\ payment' \in [Calls -> PaymentRows \cup {Null}]
        /\ \A d \in Calls :
              \/ payment'[d] = payment[d]
              \/ /\ payment[d] # Null /\ payment[d].status = "PENDING"
                 /\ payment'[d] # Null /\ payment'[d].status = "FAILED"
                 /\ payment'[d].rail = payment[d].rail /\ payment'[d].ref = payment[d].ref
        /\ OnePlayEach'
    BY FailKeeps DEF IInv
  <1>3. QED  BY <1>1, <1>2 DEF SettledOrSame

LEMMA SettlingKeeps ==
    ASSUME IInv, \A d \in Calls : SettledOrSame(d),
           charge' = charge, mined' = mined,
           \A d \in Calls : call'[d].player = call[d].player
    PROVE  /\ PlaysArePaid' /\ RefsApart' /\ CryptoRefs'
           /\ \A d \in Calls : payment'[d] # Null => payment[d] # Null
           /\ \A d \in Calls : payment'[d] # Null /\ payment'[d].status = "PENDING"
                                   => payment'[d] = payment[d]
  <1>1. ASSUME NEW d \in Calls, payment'[d] # Null, payment'[d].status = "CONFIRMED"
        PROVE  CASE payment'[d].rail = "CARD"   -> charge[d] = "succeeded"
                 [] payment'[d].rail = "CRYPTO" -> mined[TransferOf[payment'[d].ref]] = call[d].player
                 [] OTHER -> TRUE
    <2>1. CASE payment'[d] = payment[d]
      BY <1>1, <2>1 DEF IInv, PlaysArePaid, Status
    <2>2. CASE payment'[d] # payment[d]
      <3>1. payment[d] # Null /\ payment[d].status = "PENDING"
            /\ payment'[d].rail = payment[d].rail /\ charge[d] = "succeeded"
        BY <1>1, <2>2 DEF SettledOrSame
      <3>2. payment[d].rail = "CARD"
        BY <3>1 DEF IInv, Placed, Status
      <3>3. QED  BY <3>1, <3>2
    <2>3. QED  BY <2>1, <2>2
  <1>2. PlaysArePaid'
    BY <1>1 DEF PlaysArePaid, Status
  <1>3. \A d \in Calls : payment'[d] # Null =>
            /\ payment[d] # Null /\ payment'[d].ref = payment[d].ref
            /\ payment'[d].rail = payment[d].rail
    BY DEF SettledOrSame
  <1>4. RefsApart' /\ CryptoRefs'
    BY <1>3 DEF IInv, RefsApart, CryptoRefs
  <1>5. \A d \in Calls : payment'[d] # Null /\ payment'[d].status = "PENDING"
                             => payment'[d] = payment[d]
    BY DEF SettledOrSame
  <1>6. QED  BY <1>2, <1>3, <1>4, <1>5

LEMMA SameRowsKeep ==
    ASSUME IInv, payment' = payment, entries' = entries,
           \A d \in Calls : payment[d] # Null => call'[d].player = call[d].player,
           \A d \in Calls : charge[d] = "succeeded" => charge'[d] = "succeeded",
           \A t \in Transfers : mined[t] # Null => mined'[t] = mined[t]
    PROVE  OnePlayEach' /\ PlaysArePaid' /\ RefsApart'
  <1>1. OnePlayEach' /\ RefsApart'
    BY DEF IInv, OnePlayEach, RefsApart, Status
  <1>2. ASSUME NEW d \in Calls, payment[d] # Null, payment[d].status = "CONFIRMED"
        PROVE  CASE payment[d].rail = "CARD"   -> charge'[d] = "succeeded"
                 [] payment[d].rail = "CRYPTO" -> mined'[TransferOf[payment[d].ref]] = call'[d].player
                 [] OTHER -> TRUE
    <2>1. CASE payment[d].rail = "CARD"
      <3>1. charge[d] = "succeeded"
        BY <1>2, <2>1 DEF IInv, PlaysArePaid, Status
      <3>2. QED  BY <2>1, <3>1
    <2>2. CASE payment[d].rail = "CRYPTO"
      <3>1. mined[TransferOf[payment[d].ref]] = call[d].player
        BY <1>2, <2>2 DEF IInv, PlaysArePaid, Status
      <3>2. call[d].player \in Players /\ call'[d].player = call[d].player
        BY <1>2 DEF IInv, Placed
      <3>3. TransferOf[payment[d].ref] \in Transfers
        BY <1>2, <2>2 DEF IInv, CryptoRefs
      <3>4. QED  BY <2>2, <3>1, <3>2, <3>3
    <2>3. QED  BY <2>1, <2>2
  <1>3. PlaysArePaid'
    BY <1>2 DEF PlaysArePaid, Status
  <1>4. QED  BY <1>1, <1>3

LEMMA AcceptStep ==
    ASSUME IInv, NEW c \in Calls, NEW p \in Players, NEW at \in {"card", "crypto", "free"},
           NEW rail \in {"CARD", "CRYPTO", "COMP"}, NEW tx \in Refs \cup {Null},
           at = "crypto" => tx \in Refs, Accept(c, p, at, rail, tx)
    PROVE  IInv'
  <1>1. /\ call[c].at = "none"
        /\ call' = [call EXCEPT ![c] =
              [at |-> at, player |-> p, rail |-> rail, tx |-> tx, answer |-> Null]]
        /\ UNCHANGED <<payment, entries, charge, hooks, mined, freePlay, crashes>>
        /\ hasty' \in {hasty, hasty \cup {p}}
    BY DEF Accept
  <1>2. payment[c] = Null
    BY <1>1 DEF IInv, Placed
  <1>3. /\ call' \in [Calls -> CallStates]
        /\ call'[c].at = at /\ call'[c].player = p /\ call'[c].tx = tx
        /\ \A d \in Calls : d # c => call'[d] = call[d]
    BY <1>1 DEF IInv, TypeOK, CallStates, Working
  <1>4. TypeOK'
    BY <1>1, <1>3 DEF IInv, TypeOK
  <1>5. Placed'
    BY <1>1, <1>2, <1>3 DEF IInv, Placed, Status
  <1>6. Truthful'
    BY <1>1, <1>3 DEF IInv, Truthful
  <1>7. OnePlayEach' /\ PlaysArePaid' /\ RefsApart'
    BY <1>1, <1>2, <1>3, SameRowsKeep
  <1>8. CryptoRefs'
    BY <1>1 DEF IInv, CryptoRefs
  <1>9. QED  BY <1>4, <1>5, <1>6, <1>7, <1>8 DEF IInv

(* A call moves on and nothing but its place changes.                      *)
LEMMA MoveOnTyped ==
    ASSUME IInv, NEW c \in Calls, NEW at \in Working \cup {"orphaned", "done"}, MoveOn(c, at)
    PROVE  /\ call' \in [Calls -> CallStates]
           /\ call'[c].at = at /\ \A d \in Calls : d # c => call'[d] = call[d]
           /\ \A d \in Calls : /\ call'[d].player = call[d].player /\ call'[d].tx = call[d].tx
                               /\ call'[d].answer = call[d].answer
  <1> DEFINE next == [call[c] EXCEPT !.at = at]
  <1>1. call \in [Calls -> CallStates]  BY DEF IInv, TypeOK
  <1>2. next \in CallStates  BY <1>1 DEF CallStates
  <1>3. /\ next.at = at /\ next.player = call[c].player /\ next.tx = call[c].tx
        /\ next.answer = call[c].answer
    BY <1>1 DEF CallStates
  <1>4. call' = [call EXCEPT ![c] = next]  BY DEF MoveOn
  <1> HIDE DEF next
  <1>5. /\ call' \in [Calls -> CallStates] /\ call'[c] = next
        /\ \A d \in Calls : d # c => call'[d] = call[d]
    BY <1>1, <1>2, <1>4
  <1> QED  BY <1>3, <1>5

LEMMA CardCheckedStep == ASSUME IInv, NEW c \in Calls, CardChecked(c) PROVE IInv'
  <1>1. call[c].at = "card" /\ payment[c] = Null /\ call[c].player \in Players
    BY DEF CardChecked, IInv, Placed
  <1>2. UNCHANGED <<entries, charge, hooks, mined, freePlay, crashes, hasty>>
    BY DEF CardChecked
  <1>3. CASE MoveOn(c, "done") /\ UNCHANGED payment
    <2>1. /\ call' \in [Calls -> CallStates]
          /\ call'[c].at = "done" /\ \A d \in Calls : d # c => call'[d] = call[d]
          /\ \A d \in Calls : call'[d].player = call[d].player
      BY <1>3, MoveOnTyped DEF Working
    <2>2. TypeOK' /\ CryptoRefs' /\ Truthful'
      BY <1>2, <1>3, <2>1 DEF IInv, TypeOK, CryptoRefs, Truthful
    <2>3. Placed'
      BY <1>1, <1>3, <2>1 DEF IInv, Placed, Status
    <2>4. OnePlayEach' /\ PlaysArePaid' /\ RefsApart'
      BY <1>2, <1>3, <2>1, SameRowsKeep
    <2>5. QED  BY <2>2, <2>3, <2>4 DEF IInv
  <1>4. CASE MoveOn(c, "charging") /\ payment' = [payment EXCEPT ![c] = NewPayment("CARD", Null)]
    <2>1. /\ call' \in [Calls -> CallStates]
          /\ call'[c].at = "charging" /\ \A d \in Calls : d # c => call'[d] = call[d]
          /\ \A d \in Calls : call'[d].player = call[d].player
      BY <1>4, MoveOnTyped DEF Working
    <2>2. PICK r \in PaymentRows : /\ payment' = [payment EXCEPT ![c] = r]
                                   /\ r.rail = "CARD" /\ r.ref = Null /\ r.status = "PENDING"
      <3>1. NewPayment("CARD", Null) \in PaymentRows
        BY DEF NewPayment, PaymentRows
      <3>2. QED  BY <1>4, <3>1 DEF NewPayment
    <2>3. /\ payment' \in [Calls -> PaymentRows \cup {Null}]
          /\ payment'[c] = r /\ r # Null /\ \A d \in Calls : d # c => payment'[d] = payment[d]
      BY <2>2 DEF IInv, TypeOK
    <2>4. TypeOK' /\ Truthful'
      BY <1>2, <2>1, <2>3 DEF IInv, TypeOK, Truthful
    <2>5. Placed' /\ CryptoRefs'
      BY <1>1, <2>1, <2>2, <2>3 DEF IInv, Placed, CryptoRefs, Status
    <2>6. PlaysArePaid' /\ RefsApart'
      BY <1>2, <2>1, <2>2, <2>3 DEF IInv, PlaysArePaid, RefsApart, Status
    <2>7. \A i \in DOMAIN entries : entries[i].paid \in Calls /\ entries[i].paid # c
      BY <1>1, EntryTyped DEF IInv, OnePlayEach
    <2>8. OnePlayEach'
      BY <1>2, <2>2, <2>3, <2>7 DEF IInv, OnePlayEach, Status
    <2>9. QED  BY <2>4, <2>5, <2>6, <2>8 DEF IInv
  <1>5. QED  BY <1>3, <1>4 DEF CardChecked

(* A play that is queued at once: a verified transfer, or a comped play.   *)
LEMMA QueuedAtOnce ==
    ASSUME IInv, NEW c \in Calls, NEW row \in PaymentRows, call[c].at \in {"crypto", "free"},
           MoveOn(c, "done"), ConfirmPayment(c, row), row.rail # "CARD",
           row.rail = "CRYPTO" => row.ref \in Refs /\ mined[TransferOf[row.ref]] = call[c].player,
           row.ref # Null => ~Used(row.ref),
           UNCHANGED <<charge, hooks, mined, freePlay, crashes, hasty>>
    PROVE  IInv'
  <1>1. payment[c] = Null /\ call[c].player \in Players
    BY DEF IInv, Placed
  <1>2. /\ call' \in [Calls -> CallStates]
        /\ call'[c].at = "done" /\ \A d \in Calls : d # c => call'[d] = call[d]
        /\ \A d \in Calls : call'[d].player = call[d].player
    BY MoveOnTyped
  <1>3. Status(c) \in {"none", "PENDING"}
    BY <1>1 DEF Status
  <1>4. /\ entries' \in Seq(EntryRows)
        /\ payment' \in [Calls -> PaymentRows \cup {Null}]
        /\ payment'[c] # Null /\ payment'[c].status = "CONFIRMED"
        /\ payment'[c].rail = row.rail /\ payment'[c].ref = row.ref
        /\ \A d \in Calls : d # c => payment'[d] = payment[d]
        /\ OnePlayEach'
    BY <1>1, <1>3, ConfirmKeeps DEF IInv
  <1>5. TypeOK' /\ Truthful'
    <2>1. TypeOK'
      BY <1>2, <1>4 DEF IInv, TypeOK
    <2>2. \A d \in Calls : call'[d].at = "answered" => call'[d] = call[d]
      BY <1>2
    <2>3. Truthful'
      BY <2>2 DEF IInv, Truthful
    <2> QED  BY <2>1, <2>3
  <1>6. Placed' /\ CryptoRefs'
    <2>1. Placed'
      BY <1>1, <1>2, <1>4 DEF IInv, Placed, Status
    <2>2. CryptoRefs'
      BY <1>1, <1>2, <1>4 DEF IInv, CryptoRefs
    <2> QED  BY <2>1, <2>2
  <1>7. PlaysArePaid'
    BY <1>2, <1>4 DEF IInv, PlaysArePaid, Status
  <1>8. RefsApart'
    BY <1>4 DEF IInv, RefsApart, Used
  <1>9. QED  BY <1>4, <1>5, <1>6, <1>7, <1>8 DEF IInv

LEMMA CryptoVerifiedStep == ASSUME IInv, NEW c \in Calls, CryptoVerified(c) PROVE IInv'
  <1>1. /\ call[c].at = "crypto" /\ MoveOn(c, "done") /\ call[c].tx \in Refs
        /\ UNCHANGED <<charge, hooks, mined, freePlay, crashes, hasty>>
    BY DEF CryptoVerified, IInv, Placed
  <1>2. CASE UNCHANGED <<payment, entries>>
    <2>1. /\ call' \in [Calls -> CallStates]
          /\ call'[c].at = "done" /\ \A d \in Calls : d # c => call'[d] = call[d]
          /\ \A d \in Calls : call'[d].player = call[d].player
      BY <1>1, MoveOnTyped
    <2>2. TypeOK' /\ CryptoRefs' /\ Truthful'
      BY <1>1, <1>2, <2>1 DEF IInv, TypeOK, CryptoRefs, Truthful
    <2>3. Placed'
      BY <1>1, <1>2, <2>1 DEF IInv, Placed, Status
    <2>4. OnePlayEach' /\ PlaysArePaid' /\ RefsApart'
      BY <1>1, <1>2, <2>1, SameRowsKeep
    <2>5. QED  BY <2>2, <2>3, <2>4 DEF IInv
  <1>3. CASE Verified(c) /\ ~Used(call[c].tx) /\ ConfirmPayment(c, NewPayment("CRYPTO", call[c].tx))
    <2>1. PICK r : /\ r \in PaymentRows /\ ConfirmPayment(c, r)
                   /\ r.rail = "CRYPTO" /\ r.ref = call[c].tx
      BY <1>1, <1>3 DEF NewPayment, PaymentRows
    <2>2. QED  BY <1>1, <1>3, <2>1, QueuedAtOnce DEF Verified
  <1>4. QED  BY <1>2, <1>3 DEF CryptoVerified

LEMMA FreeQueuedStep == ASSUME IInv, NEW c \in Calls, FreeQueued(c) PROVE IInv'
  <1>1. PICK r : /\ r \in PaymentRows /\ ConfirmPayment(c, r)
                 /\ r.rail = "COMP" /\ r.ref = Null
    BY DEF FreeQueued, NewPayment, PaymentRows
  <1>2. QED  BY <1>1, QueuedAtOnce DEF FreeQueued

(* A step that settles rows while a call moves on or an event arrives.     *)
LEMMA SettleStep ==
    ASSUME IInv, \A d \in Calls : SettledOrSame(d),
           entries' \in Seq(EntryRows), payment' \in [Calls -> PaymentRows \cup {Null}], OnePlayEach',
           call' \in [Calls -> CallStates],
           \A d \in Calls : /\ call'[d].player = call[d].player
                            /\ call'[d] = call[d]
                               \/ (/\ call[d].at \in {"unknown", "answered"}
                                   /\ call'[d].at \in {"orphaned", "done"}),
           hooks' \subseteq hooks, UNCHANGED <<charge, mined, freePlay, crashes, hasty>>
    PROVE  IInv'
  <1>1. /\ PlaysArePaid' /\ RefsApart' /\ CryptoRefs'
        /\ \A d \in Calls : payment'[d] # Null => payment[d] # Null
        /\ \A d \in Calls : payment'[d] # Null /\ payment'[d].status = "PENDING"
                                => payment'[d] = payment[d]
    BY SettlingKeeps
  <1>2. TypeOK'
    BY DEF IInv, TypeOK
  <1>3. Placed'
    BY <1>1 DEF IInv, Placed, Status
  <1>4. Truthful'
    BY DEF IInv, Truthful, TypeOK
  <1>5. QED  BY <1>1, <1>2, <1>3, <1>4 DEF IInv

LEMMA WriteOffStep == ASSUME IInv, NEW c \in Calls, WriteOff(c) PROVE IInv'
  <1>1. /\ call[c].at = "unknown" /\ MoveOn(c, "orphaned") /\ FailCard(c)
        /\ UNCHANGED <<charge, hooks, mined, freePlay, crashes, hasty>>
    BY DEF WriteOff
  <1>2. /\ call' \in [Calls -> CallStates]
        /\ call'[c].at = "orphaned" /\ \A d \in Calls : d # c => call'[d] = call[d]
        /\ \A d \in Calls : call'[d].player = call[d].player
    BY <1>1, MoveOnTyped
  <1>3. /\ entries' \in Seq(EntryRows) /\ payment' \in [Calls -> PaymentRows \cup {Null}]
        /\ OnePlayEach' /\ \A d \in Calls : SettledOrSame(d)
    BY <1>1, FailCardSettles
  <1>4. \A d \in Calls : /\ call'[d].player = call[d].player
                         /\ call'[d] = call[d]
                            \/ (/\ call[d].at \in {"unknown", "answered"}
                                /\ call'[d].at \in {"orphaned", "done"})
    BY <1>1, <1>2
  <1>5. QED  BY <1>1, <1>2, <1>3, <1>4, SettleStep

LEMMA CardAnsweredStep == ASSUME IInv, NEW c \in Calls, CardAnswered(c) PROVE IInv'
  <1>1. /\ call[c].at = "answered" /\ MoveOn(c, "done")
        /\ UNCHANGED <<charge, hooks, mined, freePlay, crashes, hasty>>
    BY DEF CardAnswered
  <1>2. /\ call' \in [Calls -> CallStates]
        /\ call'[c].at = "done" /\ \A d \in Calls : d # c => call'[d] = call[d]
        /\ \A d \in Calls : call'[d].player = call[d].player
    BY <1>1, MoveOnTyped
  <1>3. /\ entries' \in Seq(EntryRows) /\ payment' \in [Calls -> PaymentRows \cup {Null}]
        /\ OnePlayEach' /\ \A d \in Calls : SettledOrSame(d)
    <2>1. CASE call[c].answer \in TakenForSuccess /\ ConfirmCard(c)
      <3>1. charge[c] = "succeeded"
        BY <1>1, <2>1 DEF TakenForSuccess, IInv, Truthful
      <3>2. QED  BY <2>1, <3>1, ConfirmCardSettles
    <2>2. CASE UNCHANGED <<payment, entries>>
      BY <2>2 DEF IInv, TypeOK, OnePlayEach, Status, SettledOrSame
    <2>3. CASE FailCard(c)
      BY <2>3, FailCardSettles
    <2>4. QED  BY <2>1, <2>2, <2>3 DEF CardAnswered
  <1>4. \A d \in Calls : /\ call'[d].player = call[d].player
                         /\ call'[d] = call[d]
                            \/ (/\ call[d].at \in {"unknown", "answered"}
                                /\ call'[d].at \in {"orphaned", "done"})
    BY <1>1, <1>2
  <1>5. QED  BY <1>1, <1>2, <1>3, <1>4, SettleStep

LEMMA WebhookStep == ASSUME IInv, NEW h \in hooks, Webhook(h) PROVE IInv'
  <1>1. /\ HookSettles(h) /\ hooks' \subseteq hooks
        /\ UNCHANGED <<call, charge, mined, freePlay, crashes, hasty>>
    BY DEF Webhook
  <1>2. h.of \in Calls /\ (h.type = "succeeded" => charge[h.of] = "succeeded")
    BY DEF IInv, TypeOK, Truthful
  <1>3. /\ entries' \in Seq(EntryRows) /\ payment' \in [Calls -> PaymentRows \cup {Null}]
        /\ OnePlayEach' /\ \A d \in Calls : SettledOrSame(d)
    <2>1. CASE h.type = "succeeded"
      BY <1>1, <1>2, <2>1, ConfirmCardSettles DEF HookSettles
    <2>2. CASE h.type # "succeeded"
      BY <1>1, <1>2, <2>2, FailCardSettles DEF HookSettles
    <2>3. QED  BY <2>1, <2>2
  <1>4. call' \in [Calls -> CallStates]
    BY <1>1 DEF IInv, TypeOK
  <1>5. QED  BY <1>1, <1>3, <1>4, SettleStep

-----------------------------------------------------------------------------
(* The steps that leave the rows alone.                                    *)

LEMMA NoAnswerStep == ASSUME IInv, NEW c \in Calls, NoAnswer(c) PROVE IInv'
  <1>1. /\ call[c].at \in {"charging", "answered"} /\ MoveOn(c, "unknown")
        /\ UNCHANGED <<payment, entries, charge, hooks, mined, freePlay, crashes, hasty>>
    BY DEF NoAnswer
  <1>2. /\ call' \in [Calls -> CallStates]
        /\ call'[c].at = "unknown" /\ \A d \in Calls : d # c => call'[d] = call[d]
        /\ \A d \in Calls : call'[d].player = call[d].player
    BY <1>1, MoveOnTyped DEF Working
  <1>3. TypeOK' /\ CryptoRefs' /\ Truthful'
    BY <1>1, <1>2 DEF IInv, TypeOK, CryptoRefs, Truthful
  <1>4. Placed'
    BY <1>1, <1>2 DEF IInv, Placed, Status
  <1>5. OnePlayEach' /\ PlaysArePaid' /\ RefsApart'
    BY <1>1, <1>2, SameRowsKeep
  <1>6. QED  BY <1>3, <1>4, <1>5 DEF IInv

LEMMA HooksOfTyped ==
    ASSUME NEW c \in Calls, NEW outcome
    PROVE  /\ HooksOf(c, outcome) \subseteq [of : Calls, type : {"succeeded", "payment_failed"}]
           /\ \A h \in HooksOf(c, outcome) : h.of = c /\ (h.type = "succeeded" => outcome = "succeeded")
  BY DEF HooksOf

LEMMA ChargeStep ==
    ASSUME IInv, NEW c \in Calls, NEW outcome \in Outcomes,
           charge[c] \in {"none", "processing"},
           charge' = [charge EXCEPT ![c] = outcome],
           hooks' = hooks \cup HooksOf(c, outcome),
           call' = call
             \/ (/\ call[c].at = "charging"
                 /\ call' = [call EXCEPT ![c].at = "answered", ![c].answer = outcome]),
           UNCHANGED <<payment, entries, mined, freePlay, crashes, hasty>>
    PROVE  IInv'
  <1>1. /\ call' \in [Calls -> CallStates]
        /\ \A d \in Calls : call'[d].player = call[d].player /\ call'[d].tx = call[d].tx
        /\ \A d \in Calls : d # c => call'[d] = call[d]
        /\ call'[c] = call[c]
             \/ (/\ call[c].at = "charging" /\ call'[c].at = "answered"
                 /\ call'[c].answer = outcome)
    <2>1. call \in [Calls -> CallStates] /\ call[c] \in CallStates
      BY DEF IInv, TypeOK
    <2>2. CASE call' = call
      BY <2>1, <2>2
    <2>3. CASE /\ call[c].at = "charging"
               /\ call' = [call EXCEPT ![c].at = "answered", ![c].answer = outcome]
      <3> DEFINE r == [call[c] EXCEPT !.at = "answered", !.answer = outcome]
      <3>1. /\ r \in CallStates /\ r.at = "answered" /\ r.answer = outcome
            /\ r.player = call[c].player /\ r.tx = call[c].tx
        BY <2>1 DEF CallStates, Working
      <3>2. call' = [call EXCEPT ![c] = r]
        BY <2>1, <2>3
      <3> HIDE DEF r
      <3>3. /\ call' \in [Calls -> CallStates] /\ call'[c] = r
            /\ \A d \in Calls : d # c => call'[d] = call[d]
        BY <2>1, <3>1, <3>2
      <3>4. QED  BY <2>3, <3>1, <3>3
    <2>4. QED  BY <2>2, <2>3
  <1>2. charge' \in [Calls -> Outcomes \cup {"none"}] /\ charge'[c] = outcome
        /\ \A d \in Calls : d # c => charge'[d] = charge[d]
    BY DEF IInv, TypeOK
  <1>3. TypeOK'
    BY <1>1, <1>2, HooksOfTyped DEF IInv, TypeOK
  <1>4. Placed' /\ CryptoRefs'
    BY <1>1 DEF IInv, Placed, CryptoRefs, Status
  <1>5. Truthful'
    <2>1. ASSUME NEW h \in hooks', h.type = "succeeded"
          PROVE  charge'[h.of] = "succeeded"
      <3>1. CASE h \in hooks
        <4>1. charge[h.of] = "succeeded" /\ h.of \in Calls
          BY <3>1, <2>1 DEF IInv, Truthful, TypeOK
        <4>2. QED  BY <4>1, <1>2
      <3>2. CASE h \in HooksOf(c, outcome)
        <4>1. h.of = c /\ outcome = "succeeded"
          BY <3>2, <2>1, HooksOfTyped
        <4>2. QED  BY <4>1, <1>2
      <3>3. QED  BY <3>1, <3>2
    <2>2. ASSUME NEW d \in Calls, call'[d].at = "answered", call'[d].answer = "succeeded"
          PROVE  charge'[d] = "succeeded"
      BY <2>2, <1>1, <1>2 DEF IInv, Truthful
    <2>3. QED  BY <2>1, <2>2 DEF Truthful
  <1>6. OnePlayEach' /\ PlaysArePaid' /\ RefsApart'
    BY <1>1, <1>2, SameRowsKeep
  <1>7. QED  BY <1>3, <1>4, <1>5, <1>6 DEF IInv

LEMMA TransferStep ==
    ASSUME IInv, NEW t \in Transfers, NEW p \in Players, Transfer(t, p) PROVE IInv'
  <1>1. /\ mined[t] = Null /\ mined' = [mined EXCEPT ![t] = p]
        /\ UNCHANGED <<call, payment, entries, charge, hooks, freePlay, crashes, hasty>>
    BY DEF Transfer
  <1>2. TypeOK' /\ Placed' /\ CryptoRefs' /\ Truthful'
    BY <1>1 DEF IInv, TypeOK, Placed, CryptoRefs, Truthful, Status
  <1>3. \A u \in Transfers : mined[u] # Null => mined'[u] = mined[u]
    BY <1>1 DEF IInv, TypeOK
  <1>4. OnePlayEach' /\ PlaysArePaid' /\ RefsApart'
    BY <1>1, <1>3, SameRowsKeep
  <1>5. QED  BY <1>2, <1>4 DEF IInv

(* The coordinator moves one entry's status.                               *)
LEMMA TurnStep ==
    ASSUME IInv, NEW i \in DOMAIN entries, NEW status \in {"queued", "active", "played"},
           entries' = [entries EXCEPT ![i].status = status],
           UNCHANGED <<call, payment, charge, hooks, mined, freePlay, crashes, hasty>>
    PROVE  IInv'
  <1> DEFINE e == [entries[i] EXCEPT !.status = status]
  <1>1. entries \in Seq(EntryRows) /\ i \in 1 .. Len(entries) /\ entries[i] \in EntryRows
    BY EntryTyped DEF IInv, TypeOK
  <1>2. e \in EntryRows /\ e.paid = entries[i].paid
    BY <1>1 DEF EntryRows
  <1>3. entries' = [entries EXCEPT ![i] = e]
    OBVIOUS
  <1>4. /\ entries' \in Seq(EntryRows) /\ Len(entries') = Len(entries)
        /\ \A j \in 1 .. Len(entries) : entries'[j] = IF j = i THEN e ELSE entries[j]
    BY <1>1, <1>2, <1>3, ExceptSeq
  <1>5. /\ DOMAIN entries' = DOMAIN entries
        /\ \A j \in DOMAIN entries : entries'[j].paid = entries[j].paid
    BY <1>1, <1>2, <1>4, LenProperties
  <1>6. TypeOK'
    BY <1>4 DEF IInv, TypeOK
  <1>7. Placed' /\ Truthful' /\ CryptoRefs' /\ PlaysArePaid' /\ RefsApart'
    BY DEF IInv, Placed, Truthful, CryptoRefs, PlaysArePaid, RefsApart, Status
  <1>8. OnePlayEach'
    BY <1>5 DEF IInv, OnePlayEach, Status
  <1>9. QED  BY <1>6, <1>7, <1>8 DEF IInv

LEMMA CrashStep == ASSUME IInv, Crash PROVE IInv'
  <1>1. /\ UNCHANGED <<payment, entries, charge, hooks, mined, hasty>>
        /\ crashes' = crashes + 1 /\ crashes < MaxCrashes /\ freePlay' \in BOOLEAN
        /\ call' = [c \in Calls |-> [call[c] EXCEPT !.at = AfterCrash(call[c].at)]]
    BY DEF Crash
  <1>2. \A c \in Calls :
           /\ AfterCrash(call[c].at) \in {"none", "orphaned", "done"}
           /\ AfterCrash(call[c].at) = "none" <=> call[c].at = "none"
    BY DEF AfterCrash
  <1>3. \A c \in Calls :
           /\ call'[c] \in CallStates /\ call'[c].at = AfterCrash(call[c].at)
           /\ call'[c].player = call[c].player
    <2> SUFFICES ASSUME NEW c \in Calls
                 PROVE  /\ call'[c] \in CallStates /\ call'[c].at = AfterCrash(call[c].at)
                        /\ call'[c].player = call[c].player
      OBVIOUS
    <2>1. call'[c] = [call[c] EXCEPT !.at = AfterCrash(call[c].at)]
      BY <1>1
    <2>2. call[c] \in CallStates /\ AfterCrash(call[c].at) \in {"none", "orphaned", "done"}
      BY <1>2 DEF IInv, TypeOK
    <2>3. QED  BY <2>1, <2>2 DEF CallStates
  <1>4. call' \in [Calls -> CallStates]
    BY <1>1, <1>3
  <1>5. TypeOK'
    BY <1>1, <1>4 DEF IInv, TypeOK
  <1>6. Placed'
    BY <1>1, <1>2, <1>3 DEF IInv, Placed, Status
  <1>7. Truthful' /\ CryptoRefs'
    BY <1>1, <1>2, <1>3 DEF IInv, Truthful, CryptoRefs
  <1>8. OnePlayEach' /\ PlaysArePaid' /\ RefsApart'
    BY <1>1, <1>3, SameRowsKeep
  <1>9. QED  BY <1>5, <1>6, <1>7, <1>8 DEF IInv

-----------------------------------------------------------------------------
(* The theorems.                                                           *)

LEMMA InitIInv == Init => IInv
  <1> SUFFICES ASSUME Init PROVE IInv
    OBVIOUS
  <1>1. /\ \A c \in Calls : call[c] = NoCall /\ payment[c] = Null /\ charge[c] = "none"
        /\ entries = <<>> /\ hooks = {}
    BY DEF Init
  <1>2. NoCall \in CallStates
    BY DEF NoCall, CallStates
  <1>3. TypeOK
    BY <1>2, EmptySeq DEF Init, TypeOK
  <1>4. Placed /\ Truthful /\ CryptoRefs /\ PlaysArePaid /\ RefsApart
    BY <1>1 DEF Placed, Truthful, CryptoRefs, PlaysArePaid, RefsApart, Status, NoCall
  <1>5. OnePlayEach
    BY <1>1 DEF OnePlayEach, Status
  <1>6. QED  BY <1>3, <1>4, <1>5 DEF IInv

LEMMA StepIInv == IInv /\ [Next]_vars => IInv'
  <1> SUFFICES ASSUME IInv, [Next]_vars PROVE IInv'
    OBVIOUS
  <1>1. ASSUME NEW c \in Calls, NEW p \in Players, PayCard(c, p) \/ PayFree(c, p)
        PROVE  IInv'
    BY <1>1, AcceptStep DEF PayCard, PayFree
  <1>2. ASSUME NEW c \in Calls, NEW p \in Players, NEW tx \in Refs, PayCrypto(c, p, tx)
        PROVE  IInv'
    BY <1>2, AcceptStep DEF PayCrypto
  <1>3. ASSUME NEW c \in Calls,
               \/ CardChecked(c) \/ NoAnswer(c) \/ WriteOff(c)
               \/ CardAnswered(c) \/ CryptoVerified(c) \/ FreeQueued(c)
        PROVE  IInv'
    BY <1>3, CardCheckedStep, NoAnswerStep, WriteOffStep, CardAnsweredStep,
       CryptoVerifiedStep, FreeQueuedStep
  <1>4. ASSUME NEW c \in Calls, NEW outcome \in Outcomes, Charge(c, outcome)
        PROVE  IInv'
    BY <1>4, ChargeStep DEF Charge
  <1>5. ASSUME NEW c \in Calls, NEW outcome \in Outcomes, ChargeDecided(c, outcome)
        PROVE  IInv'
    BY <1>5, ChargeStep DEF ChargeDecided
  <1>6. ASSUME NEW h \in hooks, Webhook(h)
        PROVE  IInv'
    BY <1>6, WebhookStep
  <1>7. ASSUME NEW t \in Transfers, NEW p \in Players, Transfer(t, p)
        PROVE  IInv'
    BY <1>7, TransferStep
  <1>8. ASSUME NEW i \in DOMAIN entries, TurnStarts(i) \/ TurnEnds(i)
        PROVE  IInv'
    BY <1>8, TurnStep DEF TurnStarts, TurnEnds
  <1>9. CASE Crash
    BY <1>9, CrashStep
  <1>10. CASE UNCHANGED vars
    BY <1>10 DEF vars, IInv, TypeOK, Placed, Truthful, CryptoRefs, OnePlayEach, PlaysArePaid,
                 RefsApart, Status
  <1>11. QED
    BY <1>1, <1>2, <1>3, <1>4, <1>5, <1>6, <1>7, <1>8, <1>9, <1>10 DEF Next

LEMMA AlwaysIInv == Spec => []IInv
  BY InitIInv, StepIInv, PTL DEF Spec

(* Every variable has its type, in every reachable state (models.py:22-36, *)
(* 442-479).                                                               *)
THEOREM TypeCorrect == Spec => []TypeOK
  <1>1. IInv => TypeOK
    BY DEF IInv
  <1>2. QED  BY <1>1, AlwaysIInv, PTL

(* Every payment buys exactly one play, however the answer to its charge,  *)
(* the webhook's deliveries, the write-off and restarts interleave         *)
(* (confirm_card_payment, fail_card_payment).                              *)
THEOREM OnePlay == Spec => []OnePlayEach
  <1>1. IInv => OnePlayEach
    BY DEF IInv
  <1>2. QED  BY <1>1, AlwaysIInv, PTL

(* A play that is not comped was paid for, by a charge that succeeded or   *)
(* by the player's own transfer (pay_card, stripe_webhook, pay_crypto).    *)
THEOREM Paid == Spec => []PlaysArePaid
  <1>1. IInv => PlaysArePaid
    BY DEF IInv
  <1>2. QED  BY <1>1, AlwaysIInv, PTL

(* A reference funds one play, whoever submits it and however often        *)
(* (pay_crypto and the unique index on Payment.ref).                       *)
THEOREM OneRef == Spec => []OnePlayPerRef
  <1>1. IInv => OnePlayPerRef
    BY DEF IInv, RefsApart, OnePlayPerRef, Status
  <1>2. QED  BY <1>1, AlwaysIInv, PTL

-----------------------------------------------------------------------------
(* One entry for the patient.                                              *)

(* The calls that may still queue a play for the player.                   *)
DueAt == {"card", "crypto", "free"}
Due(p) == {c \in Calls : call[c].player = p /\ (call[c].at \in DueAt \/ Status(c) = "PENDING")}

(* A player who waits for his payments has one play to come: either a call *)
(* that may queue it or an unplayed entry, and only one.                   *)
Alone ==
    \A p \in Players \ hasty :
        /\ \A c, d \in Due(p) : c = d
        /\ \A i, j \in Waiting(p) : i = j
        /\ Due(p) # {} => Waiting(p) = {}

(* What is due and what waits does not grow, except by ConfirmPayment and  *)
(* by a new call.                                                          *)
LEMMA NothingNew ==
    ASSUME Alone, hasty' = hasty,
           \A d \in Calls : /\ call'[d].player = call[d].player
                            /\ call'[d].at \in DueAt => call[d].at \in DueAt
                            /\ Status(d)' = "PENDING" =>
                                   Status(d) = "PENDING" \/ call[d].at \in DueAt,
           \A p \in Players : Waiting(p)' \subseteq Waiting(p)
    PROVE  Alone'
  <1>1. \A p \in Players : Due(p)' \subseteq Due(p)
    BY DEF Due
  <1>2. ASSUME NEW p \in Players, p \notin hasty'
        PROVE  /\ \A c, d \in Due(p)' : c = d
               /\ \A i, j \in Waiting(p)' : i = j
               /\ Due(p)' # {} => Waiting(p)' = {}
    <2>1. /\ \A c, d \in Due(p) : c = d
          /\ \A i, j \in Waiting(p) : i = j
          /\ Due(p) # {} => Waiting(p) = {}
      BY <1>2 DEF Alone
    <2>2. Due(p)' \subseteq Due(p) /\ Waiting(p)' \subseteq Waiting(p)
      BY <1>1, <1>2
    <2>3. QED  BY <2>1, <2>2
  <1>3. QED  BY <1>2 DEF Alone

LEMMA RowsStay ==
    ASSUME Alone, hasty' = hasty, payment' = payment, entries' = entries,
           \A d \in Calls : /\ call'[d].player = call[d].player
                            /\ call'[d].at \in DueAt => call[d].at \in DueAt
    PROVE  Alone'
  <1>1. \A d \in Calls : Status(d)' = Status(d)
    BY DEF Status
  <1>2. \A p \in Players : Waiting(p)' = Waiting(p)
    BY DEF Waiting
  <1>3. QED  BY <1>1, <1>2, NothingNew

(* A call that was due queues its play, and is due no more.                *)
LEMMA DueIsQueued ==
    ASSUME IInv, Alone, NEW c \in Calls, NEW row \in PaymentRows, call[c].player \in Players,
           call[c].at \in DueAt \/ Status(c) = "PENDING",
           Status(c) \in {"none", "PENDING"}, ConfirmPayment(c, row), hasty' = hasty,
           \A d \in Calls : /\ call'[d].player = call[d].player
                            /\ call'[d].at \in DueAt => call[d].at \in DueAt,
           call'[c].at \notin DueAt
    PROVE  Alone'
  <1> DEFINE q == call[c].player
             n == Len(entries) + 1
             e == [player |-> q, paid |-> c, status |-> "queued"]
  <1>1. /\ payment'[c] # Null /\ payment'[c].status = "CONFIRMED"
        /\ \A d \in Calls : d # c => payment'[d] = payment[d]
    BY ConfirmKeeps DEF IInv
  <1>2. /\ DOMAIN entries' = DOMAIN entries \cup {n}
        /\ \A i \in DOMAIN entries : entries'[i] = entries[i]
        /\ entries'[n] = e
    <2>1. entries \in Seq(EntryRows) /\ e \in EntryRows
      BY DEF IInv, TypeOK, EntryRows
    <2>2. entries' = Append(entries, e)
      BY DEF ConfirmPayment
    <2>3. QED  BY <2>1, <2>2, AppendProperties
  <1>3. \A p \in Players : Due(p)' \subseteq Due(p) \ {c}
    BY <1>1 DEF Due, Status
  <1>4. c \in Due(q)
    BY DEF Due
  <1>5. \A p \in Players : Waiting(p)' \subseteq IF p = q THEN Waiting(p) \cup {n} ELSE Waiting(p)
    BY <1>2 DEF Waiting
  <1> HIDE DEF q, n, e
  <1>6. ASSUME NEW p \in Players, p \notin hasty'
        PROVE  /\ \A d, f \in Due(p)' : d = f
               /\ \A i, j \in Waiting(p)' : i = j
               /\ Due(p)' # {} => Waiting(p)' = {}
    <2>1. /\ \A d, f \in Due(p) : d = f
          /\ \A i, j \in Waiting(p) : i = j
          /\ Due(p) # {} => Waiting(p) = {}
      BY <1>6 DEF Alone
    <2>2. CASE p = q
      <3>1. Due(p)' = {}
        BY <2>1, <2>2, <1>3, <1>4
      <3>2. Waiting(p)' \subseteq {n}
        BY <2>1, <2>2, <1>4, <1>5
      <3>3. QED  BY <3>1, <3>2
    <2>3. CASE p # q
      <3>1. Due(p)' \subseteq Due(p) /\ Waiting(p)' \subseteq Waiting(p)
        BY <2>3, <1>3, <1>5
      <3>2. QED  BY <2>1, <3>1
    <2>4. QED  BY <2>2, <2>3
  <1>7. QED  BY <1>6 DEF Alone

LEMMA FailCardAlone ==
    ASSUME IInv, Alone, NEW c \in Calls, FailCard(c), hasty' = hasty,
           \A d \in Calls : /\ call'[d].player = call[d].player
                            /\ call'[d].at \in DueAt => call[d].at \in DueAt
    PROVE  Alone'
  <1>1. \A d \in Calls : Status(d)' = "PENDING" => Status(d) = "PENDING"
    BY FailKeeps DEF Status, IInv
  <1>2. \A p \in Players : Waiting(p)' = Waiting(p)
    BY DEF FailCard, Waiting
  <1>3. QED  BY <1>1, <1>2, NothingNew

LEMMA ConfirmCardAlone ==
    ASSUME IInv, Alone, NEW c \in Calls, ConfirmCard(c), hasty' = hasty,
           \A d \in Calls : /\ call'[d].player = call[d].player
                            /\ call'[d].at \in DueAt => call[d].at \in DueAt,
           call'[c].at \notin DueAt
    PROVE  Alone'
  <1>1. CASE Status(c) # "PENDING"
    BY <1>1, RowsStay DEF ConfirmCard
  <1>2. CASE Status(c) = "PENDING"
    <2>1. /\ payment[c] \in PaymentRows /\ ConfirmPayment(c, payment[c])
      BY <1>2 DEF ConfirmCard, Status, IInv, TypeOK
    <2>2. call[c].player \in Players
      BY <1>2 DEF IInv, Placed, Status
    <2>3. QED  BY <1>2, <2>1, <2>2, DueIsQueued
  <1>3. QED  BY <1>1, <1>2

(* A new call is due; if its player is patient, nothing else of his is.    *)
LEMMA AcceptAlone ==
    ASSUME IInv, Alone, NEW c \in Calls, NEW p \in Players, NEW at \in DueAt, NEW rail, NEW tx,
           Accept(c, p, at, rail, tx)
    PROVE  Alone'
  <1>1. /\ call[c].at = "none" /\ Waiting(p) = {}
        /\ call' = [call EXCEPT ![c] =
              [at |-> at, player |-> p, rail |-> rail, tx |-> tx, answer |-> Null]]
        /\ hasty' = IF OpenPayments(p) = {} THEN hasty ELSE hasty \cup {p}
        /\ payment' = payment /\ entries' = entries
    BY DEF Accept, AlreadyInQueue
  <1>2. /\ call'[c].at = at /\ call'[c].player = p
        /\ \A d \in Calls : d # c => call'[d] = call[d]
    BY <1>1 DEF IInv, TypeOK
  <1>3. \A q \in Players : Waiting(q)' = Waiting(q)
    BY <1>1 DEF Waiting
  <1>4. \A d \in Calls : Status(d)' = Status(d)
    BY <1>1 DEF Status
  <1>5. Status(c) # "PENDING"
    BY <1>1 DEF Status, IInv, Placed
  <1>6. \A q \in Players : Due(q)' \subseteq IF q = p THEN Due(q) \cup {c} ELSE Due(q)
    BY <1>2, <1>4 DEF Due
  <1>7. Due(p) \subseteq OpenPayments(p)
    BY DEF Due, DueAt, OpenPayments, Working
  <1>8. ASSUME NEW q \in Players, q \notin hasty'
        PROVE  /\ \A d, f \in Due(q)' : d = f
               /\ \A i, j \in Waiting(q)' : i = j
               /\ Due(q)' # {} => Waiting(q)' = {}
    <2>1. /\ \A d, f \in Due(q) : d = f
          /\ \A i, j \in Waiting(q) : i = j
          /\ Due(q) # {} => Waiting(q) = {}
      BY <1>1, <1>8 DEF Alone
    <2>2. CASE q = p
      <3>1. Due(q) = {}
        BY <1>1, <1>7, <1>8, <2>2
      <3>2. Due(q)' \subseteq {c} /\ Waiting(q)' = {}
        BY <1>1, <1>3, <1>6, <2>2, <3>1
      <3>3. QED  BY <3>2
    <2>3. CASE q # p
      <3>1. Due(q)' \subseteq Due(q) /\ Waiting(q)' = Waiting(q)
        BY <1>3, <1>6, <2>3
      <3>2. QED  BY <2>1, <3>1
    <2>4. QED  BY <2>2, <2>3
  <1>9. QED  BY <1>8 DEF Alone

LEMMA CallAlone ==
    ASSUME IInv, Alone, NEW c \in Calls,
           \/ CardChecked(c) \/ NoAnswer(c) \/ WriteOff(c)
           \/ CardAnswered(c) \/ CryptoVerified(c) \/ FreeQueued(c)
    PROVE  Alone'
  <1>1. hasty' = hasty
    BY DEF CardChecked, NoAnswer, WriteOff, CardAnswered, CryptoVerified, FreeQueued
  <1>2. PICK at \in {"done", "charging", "unknown", "orphaned"} : MoveOn(c, at)
    BY DEF CardChecked, NoAnswer, WriteOff, CardAnswered, CryptoVerified, FreeQueued
  <1>3. /\ call'[c].at = at /\ at \notin DueAt
        /\ \A d \in Calls : d # c => call'[d] = call[d]
        /\ \A d \in Calls : call'[d].player = call[d].player
    BY <1>2, MoveOnTyped DEF DueAt, Working
  <1>4. /\ \A d \in Calls : /\ call'[d].player = call[d].player
                            /\ call'[d].at \in DueAt => call[d].at \in DueAt
        /\ call'[c].at \notin DueAt
    BY <1>3
  <1>5. CASE CardChecked(c)
    <2>1. call[c].at \in DueAt /\ entries' = entries
      BY <1>5 DEF CardChecked, DueAt
    <2>2. \A d \in Calls : d # c => payment'[d] = payment[d]
      BY <1>5 DEF CardChecked, IInv, TypeOK
    <2>3. \A d \in Calls : Status(d)' = "PENDING" => Status(d) = "PENDING" \/ call[d].at \in DueAt
      BY <2>1, <2>2 DEF Status
    <2>4. \A p \in Players : Waiting(p)' = Waiting(p)
      BY <2>1 DEF Waiting
    <2>5. QED  BY <1>1, <1>4, <2>3, <2>4, NothingNew
  <1>6. CASE NoAnswer(c)
    BY <1>1, <1>4, <1>6, RowsStay DEF NoAnswer
  <1>7. CASE WriteOff(c)
    BY <1>1, <1>4, <1>7, FailCardAlone DEF WriteOff
  <1>8. CASE CardAnswered(c)
    <2>1. \/ ConfirmCard(c) \/ UNCHANGED <<payment, entries>> \/ FailCard(c)
      BY <1>8 DEF CardAnswered
    <2>2. QED  BY <1>1, <1>4, <2>1, ConfirmCardAlone, FailCardAlone, RowsStay
  <1>9. CASE CryptoVerified(c)
    <2>1. CASE UNCHANGED <<payment, entries>>
      BY <1>1, <1>4, <2>1, RowsStay
    <2>2. CASE ConfirmPayment(c, NewPayment("CRYPTO", call[c].tx))
      <3>1. call[c].at = "crypto" /\ call[c].tx \in Refs /\ call[c].player \in Players
            /\ Status(c) = "none"
        BY <1>9 DEF CryptoVerified, IInv, Placed, Status
      <3>2. NewPayment("CRYPTO", call[c].tx) \in PaymentRows
        BY <3>1 DEF NewPayment, PaymentRows
      <3>3. call[c].at \in DueAt
        BY <3>1 DEF DueAt
      <3>4. QED  BY <1>1, <1>4, <2>2, <3>1, <3>2, <3>3, DueIsQueued
    <2>3. QED  BY <1>9, <2>1, <2>2 DEF CryptoVerified
  <1>10. CASE FreeQueued(c)
    <2>1. call[c].at = "free" /\ call[c].player \in Players /\ Status(c) = "none"
          /\ ConfirmPayment(c, NewPayment("COMP", Null))
      BY <1>10 DEF FreeQueued, IInv, Placed, Status
    <2>2. NewPayment("COMP", Null) \in PaymentRows
      BY DEF NewPayment, PaymentRows
    <2>3. call[c].at \in DueAt
      BY <2>1 DEF DueAt
    <2>4. QED  BY <1>1, <1>4, <2>1, <2>2, <2>3, DueIsQueued
  <1>11. QED  BY <1>5, <1>6, <1>7, <1>8, <1>9, <1>10

LEMMA OutsideAlone ==
    ASSUME IInv, Alone,
           \/ \E c \in Calls, outcome \in Outcomes : Charge(c, outcome) \/ ChargeDecided(c, outcome)
           \/ \E t \in Transfers, p \in Players : Transfer(t, p)
           \/ Crash
    PROVE  Alone'
  <1>1. hasty' = hasty /\ payment' = payment /\ entries' = entries
    BY DEF Charge, ChargeDecided, Transfer, Crash
  <1>2. \A d \in Calls : /\ call'[d].player = call[d].player
                         /\ call'[d].at \in DueAt => call[d].at \in DueAt
    <2>1. CASE \E c \in Calls, outcome \in Outcomes : Charge(c, outcome)
      <3>1. PICK c \in Calls, outcome \in Outcomes : Charge(c, outcome)
        BY <2>1
      <3>2. CASE call[c].at = "charging"
        <4>1. call' = [call EXCEPT ![c].at = "answered", ![c].answer = outcome]
          BY <3>1, <3>2 DEF Charge
        <4>2. QED  BY <4>1 DEF IInv, TypeOK, CallStates, DueAt
      <3>3. CASE call[c].at # "charging"
        BY <3>1, <3>3 DEF Charge
      <3>4. QED  BY <3>2, <3>3
    <2>2. CASE \E c \in Calls, outcome \in Outcomes : ChargeDecided(c, outcome)
      BY <2>2 DEF ChargeDecided
    <2>3. CASE \E t \in Transfers, p \in Players : Transfer(t, p)
      BY <2>3 DEF Transfer
    <2>4. CASE Crash
      <3>1. call' = [c \in Calls |-> [call[c] EXCEPT !.at = AfterCrash(call[c].at)]]
        BY <2>4 DEF Crash
      <3>2. \A d \in Calls : call'[d].player = call[d].player
                             /\ call'[d].at = AfterCrash(call[d].at)
        BY <3>1 DEF IInv, TypeOK, CallStates
      <3>3. \A d \in Calls : AfterCrash(call[d].at) \in {"none", "orphaned", "done"}
        BY DEF AfterCrash
      <3>4. QED  BY <3>2, <3>3 DEF DueAt
    <2>5. QED  BY <2>1, <2>2, <2>3, <2>4
  <1>3. QED  BY <1>1, <1>2, RowsStay

LEMMA TurnAlone ==
    ASSUME IInv, Alone, NEW i \in DOMAIN entries, TurnStarts(i) \/ TurnEnds(i)
    PROVE  Alone'
  <1>1. PICK status \in {"active", "played"} :
            /\ entries' = [entries EXCEPT ![i].status = status]
            /\ entries[i].status # "played"
    BY DEF TurnStarts, TurnEnds
  <1>2. hasty' = hasty /\ payment' = payment /\ call' = call
    BY DEF TurnStarts, TurnEnds
  <1>3. /\ DOMAIN entries' = DOMAIN entries
        /\ \A j \in DOMAIN entries : entries'[j].player = entries[j].player
        /\ \A j \in DOMAIN entries : j # i => entries'[j] = entries[j]
    <2>1. entries[i] \in EntryRows /\ entries \in Seq(EntryRows)
      BY EntryTyped DEF IInv, TypeOK
    <2>2. QED  BY <1>1, <2>1 DEF EntryRows
  <1>4. \A p \in Players : Waiting(p)' \subseteq Waiting(p)
    BY <1>1, <1>3 DEF Waiting
  <1>5. \A d \in Calls : Status(d)' = Status(d)
    BY <1>2 DEF Status
  <1>6. QED  BY <1>2, <1>4, <1>5, NothingNew

LEMMA StepAlone == IInv /\ Alone /\ [Next]_vars => Alone'
  <1> SUFFICES ASSUME IInv, Alone, [Next]_vars PROVE Alone'
    OBVIOUS
  <1>1. ASSUME NEW c \in Calls, NEW p \in Players, PayCard(c, p) \/ PayFree(c, p)
        PROVE  Alone'
    BY <1>1, AcceptAlone DEF PayCard, PayFree, DueAt
  <1>2. ASSUME NEW c \in Calls, NEW p \in Players, NEW tx \in Refs, PayCrypto(c, p, tx)
        PROVE  Alone'
    BY <1>2, AcceptAlone DEF PayCrypto, DueAt
  <1>3. ASSUME NEW h \in hooks, Webhook(h)
        PROVE  Alone'
    <2>1. h.of \in Calls /\ HookSettles(h) /\ hasty' = hasty /\ call' = call
      BY <1>3 DEF Webhook, IInv, TypeOK
    <2>2. CASE h.type = "succeeded"
      <3>1. ConfirmCard(h.of)
        BY <2>1, <2>2 DEF HookSettles
      <3>2. CASE Status(h.of) = "PENDING"
        <4>1. call'[h.of].at \notin DueAt
          BY <2>1, <3>2 DEF IInv, Placed, Status, DueAt
        <4>2. QED  BY <2>1, <3>1, <4>1, ConfirmCardAlone
      <3>3. CASE Status(h.of) # "PENDING"
        BY <2>1, <3>1, <3>3, RowsStay DEF ConfirmCard
      <3>4. QED  BY <3>2, <3>3
    <2>3. CASE h.type # "succeeded"
      BY <2>1, <2>3, FailCardAlone DEF HookSettles
    <2>4. QED  BY <2>2, <2>3
  <1>4. CASE UNCHANGED vars
    BY <1>4, RowsStay DEF vars
  <1>5. QED
    BY <1>1, <1>2, <1>3, <1>4, CallAlone, OutsideAlone, TurnAlone DEF Next

(* already_in_queue and the insert are separated by awaits, or by a whole  *)
(* charge in process; a player who calls only when no payment of his is    *)
(* open still has at most one unplayed entry, whatever the other players,  *)
(* the webhook and restarts do (payments.py:25-33).                        *)
THEOREM OneEntry == Spec => []OneEntryForThePatient
  <1>1. Init => Alone
    <2>1. Init => \A p \in Players : Due(p) = {} /\ Waiting(p) = {}
      BY DEF Init, Due, DueAt, Waiting, Status, NoCall
    <2>2. QED  BY <2>1 DEF Alone
  <1>2. Alone => OneEntryForThePatient
    <2> SUFFICES ASSUME Alone, NEW p \in Players \ hasty PROVE Cardinality(Waiting(p)) <= 1
      BY DEF OneEntryForThePatient
    <2>1. \A i, j \in Waiting(p) : i = j
      BY DEF Alone
    <2>2. CASE Waiting(p) = {}
      <3>1. Cardinality(Waiting(p)) = 0
        BY <2>2, FS_EmptySet
      <3>2. QED  BY <3>1
    <2>3. CASE Waiting(p) # {}
      <3>1. PICK i : Waiting(p) = {i}
        BY <2>1, <2>3
      <3>2. Cardinality({i}) = 1
        BY FS_Singleton, Zenon
      <3>3. QED  BY <3>1, <3>2
    <2>4. QED  BY <2>2, <2>3
  <1>3. Spec => []Alone
    BY <1>1, StepAlone, AlwaysIInv, PTL DEF Spec
  <1>4. QED  BY <1>2, <1>3, PTL
-----------------------------------------------------------------------------
(***************************************************************************)
(* What is settled stays so, and what is refused was not paid.             *)
(***************************************************************************)
Settled(c) == Status(c) \in {"CONFIRMED", "FAILED"}

(* Stripe's refusals are true as well.                                     *)
RefusalsTrue ==
    /\ \A c \in Calls : call[c].at = "answered" /\ call[c].answer \in TakenForFailure
                            => charge[c] = call[c].answer
    /\ \A h \in hooks : h.type = "payment_failed" => charge[h.of] = "declined"

(* What is FAILED was refused, or its answer was not heard.                *)
FailedTruly ==
    \A c \in Calls : Status(c) = "FAILED" /\ call[c].at # "orphaned" => charge[c] \in TakenForFailure

(* A row of a settled payment is not written: each write follows a test of *)
(* the status, or is the first one.                                        *)
LEMMA SameAsBefore ==
    ASSUME NEW c \in Calls, SettledOrSame(c), Settled(c)
    PROVE  payment'[c] = payment[c]
  BY DEF SettledOrSame, Settled, Status

LEMMA NewRowOnly ==
    ASSUME IInv, NEW c \in Calls, payment[c] = Null, NEW row, payment' = [payment EXCEPT ![c] = row]
    PROVE  \A d \in Calls : Settled(d) => payment'[d] = payment[d]
  BY DEF IInv, TypeOK, Settled, Status

LEMMA StandStep ==
    ASSUME IInv, [Next]_vars
    PROVE  \A c \in Calls : Settled(c) => payment'[c] = payment[c]
  <1>1. ASSUME NEW c \in Calls, CardChecked(c)
        PROVE  \A d \in Calls : Settled(d) => payment'[d] = payment[d]
    <2>1. payment[c] = Null
      BY <1>1 DEF CardChecked, IInv, Placed
    <2>2. QED  BY <1>1, <2>1, NewRowOnly DEF CardChecked
  <1>2. ASSUME NEW c \in Calls, CryptoVerified(c) \/ FreeQueued(c)
        PROVE  \A d \in Calls : Settled(d) => payment'[d] = payment[d]
    <2>1. payment[c] = Null
      BY <1>2 DEF CryptoVerified, FreeQueued, IInv, Placed
    <2>2. payment' = payment \/ \E row : payment' = [payment EXCEPT ![c] = row]
      BY <1>2 DEF CryptoVerified, FreeQueued, ConfirmPayment
    <2>3. QED  BY <2>1, <2>2, NewRowOnly
  <1>3. ASSUME NEW c \in Calls, WriteOff(c)
        PROVE  \A d \in Calls : SettledOrSame(d)
    BY <1>3, FailCardSettles DEF WriteOff
  <1>4. ASSUME NEW c \in Calls, CardAnswered(c)
        PROVE  \A d \in Calls : SettledOrSame(d)
    <2>1. CASE call[c].answer \in TakenForSuccess /\ ConfirmCard(c)
      <3>1. charge[c] = "succeeded"
        BY <1>4, <2>1 DEF CardAnswered, TakenForSuccess, IInv, Truthful
      <3>2. QED  BY <2>1, <3>1, ConfirmCardSettles
    <2>2. CASE UNCHANGED <<payment, entries>>
      BY <2>2 DEF SettledOrSame
    <2>3. CASE FailCard(c)
      BY <2>3, FailCardSettles
    <2>4. QED  BY <1>4, <2>1, <2>2, <2>3 DEF CardAnswered
  <1>5. ASSUME NEW h \in hooks, Webhook(h)
        PROVE  \A d \in Calls : SettledOrSame(d)
    <2>1. h.of \in Calls /\ (h.type = "succeeded" => charge[h.of] = "succeeded")
      BY DEF IInv, TypeOK, Truthful
    <2>2. HookSettles(h)
      BY <1>5 DEF Webhook
    <2>3. QED  BY <2>1, <2>2, ConfirmCardSettles, FailCardSettles DEF HookSettles
  <1>6. ASSUME ~ \E c \in Calls : \/ CardChecked(c) \/ WriteOff(c) \/ CardAnswered(c)
                                  \/ CryptoVerified(c) \/ FreeQueued(c),
               ~ \E h \in hooks : Webhook(h)
        PROVE  payment' = payment
    BY <1>6 DEF Next, vars, PayCard, PayFree, PayCrypto, Accept, NoAnswer, Charge, ChargeDecided,
                Transfer, TurnStarts, TurnEnds, Crash
  <1>7. QED  BY <1>1, <1>2, <1>3, <1>4, <1>5, <1>6, SameAsBefore

(* Once it is decided, neither a late answer nor a repeated event nor a    *)
(* write-off changes a payment (confirm_card_payment, fail_card_payment).  *)
THEOREM SettledForGood == Spec => SettlementsStand
  <1>1. IInv /\ [Next]_vars
            => [\A c \in Calls : Status(c) \in {"CONFIRMED", "FAILED"}
                    => payment'[c] = payment[c]]_vars
    BY StandStep DEF Settled
  <1>2. QED  BY <1>1, AlwaysIInv, PTL DEF Spec, SettlementsStand

(* A step that brings no answer and no event.                              *)
LEMMA RefusalsKept ==
    ASSUME IInv, RefusalsTrue, charge' = charge, hooks' \subseteq hooks,
           \A d \in Calls : call'[d] = call[d] \/ call'[d].at # "answered"
    PROVE  RefusalsTrue'
  BY DEF RefusalsTrue, IInv, TypeOK

(* A step that writes no FAILED row, or one of a refused or unheard charge.*)
LEMMA FailedKept ==
    ASSUME FailedTruly,
           \A d \in Calls : call[d].at = "orphaned" => call'[d].at = "orphaned",
           \A d \in Calls : charge[d] \in TakenForFailure => charge'[d] = charge[d],
           \A d \in Calls : \/ payment'[d] = payment[d]
                            \/ payment'[d] = Null
                            \/ payment'[d].status # "FAILED"
                            \/ charge[d] \in TakenForFailure \/ call'[d].at = "orphaned"
    PROVE  FailedTruly'
  BY DEF FailedTruly, Status

(* One call moves on, and is not orphaned but by the write-off.            *)
LEMMA OneMoves ==
    ASSUME IInv, NEW c \in Calls, NEW at \in Working \cup {"orphaned", "done"}, at # "answered",
           call[c].at # "orphaned", MoveOn(c, at)
    PROVE  /\ \A d \in Calls : call'[d] = call[d] \/ call'[d].at # "answered"
           /\ \A d \in Calls : call[d].at = "orphaned" => call'[d].at = "orphaned"
           /\ call'[c].at = at
  BY MoveOnTyped

(* FailCard writes its own row only, ConfirmPayment likewise.              *)
LEMMA OneRowWritten ==
    ASSUME IInv, NEW c \in Calls,
           FailCard(c) \/ ConfirmCard(c) \/ \E row : ConfirmPayment(c, row)
    PROVE  \A d \in Calls : d # c => payment'[d] = payment[d]
  BY DEF IInv, TypeOK, FailCard, ConfirmCard, ConfirmPayment

LEMMA ConfirmedNotFailed ==
    ASSUME IInv, NEW c \in Calls, ConfirmCard(c), charge[c] = "succeeded"
    PROVE  \A d \in Calls : payment'[d] = payment[d] \/ payment'[d].status # "FAILED"
  <1>1. CASE Status(c) # "PENDING"
    BY <1>1 DEF ConfirmCard
  <1>2. CASE Status(c) = "PENDING"
    <2>1. /\ payment[c] # Null /\ payment[c].status = "PENDING" /\ payment[c] \in PaymentRows
          /\ ConfirmPayment(c, payment[c])
      BY <1>2 DEF ConfirmCard, Status, IInv, TypeOK
    <2>2. call[c].player \in Players
      BY <2>1 DEF IInv, Placed
    <2>3. payment'[c].status = "CONFIRMED" /\ \A d \in Calls : d # c => payment'[d] = payment[d]
      BY <1>2, <2>1, <2>2, ConfirmKeeps DEF IInv
    <2>4. QED  BY <2>3
  <1>3. QED  BY <1>1, <1>2

(* A new row is PENDING or CONFIRMED.                                      *)
LEMMA NewNotFailed ==
    ASSUME IInv, NEW c \in Calls, CardChecked(c) \/ CryptoVerified(c) \/ FreeQueued(c)
    PROVE  \A d \in Calls : \/ payment'[d] = payment[d]
                            \/ payment'[d] # Null /\ payment'[d].status # "FAILED"
  <1>1. call[c].player \in Players /\ payment[c] = Null
    BY DEF CardChecked, CryptoVerified, FreeQueued, IInv, Placed
  <1>2. CASE CardChecked(c)
    <2>1. NewPayment("CARD", Null) \in PaymentRows /\ NewPayment("CARD", Null).status = "PENDING"
      BY DEF NewPayment, PaymentRows
    <2>2. payment' = payment \/ payment' = [payment EXCEPT ![c] = NewPayment("CARD", Null)]
      BY <1>2 DEF CardChecked
    <2>3. payment \in [Calls -> PaymentRows \cup {Null}]
      BY DEF IInv, TypeOK
    <2>4. CASE payment' = [payment EXCEPT ![c] = NewPayment("CARD", Null)]
      <3>1. /\ payment'[c] = NewPayment("CARD", Null)
            /\ \A d \in Calls : d # c => payment'[d] = payment[d]
        BY <2>3, <2>4
      <3>2. QED  BY <2>1, <3>1
    <2>5. QED  BY <2>2, <2>4
  <1>3. ASSUME NEW row \in PaymentRows, ConfirmPayment(c, row)
        PROVE  \A d \in Calls : \/ payment'[d] = payment[d]
                                \/ payment'[d] # Null /\ payment'[d].status # "FAILED"
    <2>1. Status(c) \in {"none", "PENDING"}
      BY <1>1 DEF Status
    <2>2. /\ payment'[c] # Null /\ payment'[c].status = "CONFIRMED"
          /\ \A d \in Calls : d # c => payment'[d] = payment[d]
      BY <1>1, <1>3, <2>1, ConfirmKeeps DEF IInv
    <2>3. QED  BY <2>2
  <1>4. CASE FreeQueued(c)
    <2>1. NewPayment("COMP", Null) \in PaymentRows /\ ConfirmPayment(c, NewPayment("COMP", Null))
      BY <1>4 DEF FreeQueued, NewPayment, PaymentRows
    <2>2. QED  BY <1>3, <2>1
  <1>5. CASE CryptoVerified(c)
    <2>1. call[c].tx \in Refs
      BY <1>5 DEF CryptoVerified, IInv, Placed
    <2>2. NewPayment("CRYPTO", call[c].tx) \in PaymentRows
      BY <2>1 DEF NewPayment, PaymentRows
    <2>3. payment' = payment \/ ConfirmPayment(c, NewPayment("CRYPTO", call[c].tx))
      BY <1>5 DEF CryptoVerified
    <2>4. QED  BY <1>3, <2>2, <2>3
  <1>6. QED  BY <1>2, <1>4, <1>5

Truly == IInv /\ RefusalsTrue /\ FailedTruly

(* A charge is answered or decided.                                        *)
LEMMA ChargeTruly ==
    ASSUME Truly, NEW c \in Calls, NEW outcome \in Outcomes,
           Charge(c, outcome) \/ ChargeDecided(c, outcome)
    PROVE  RefusalsTrue' /\ FailedTruly'
  <1>1. /\ charge[c] \in {"none", "processing"} /\ charge' = [charge EXCEPT ![c] = outcome]
        /\ hooks' = hooks \cup HooksOf(c, outcome) /\ payment' = payment
    BY DEF Charge, ChargeDecided
  <1>2. charge'[c] = outcome /\ \A d \in Calls : d # c => charge'[d] = charge[d]
    BY <1>1 DEF Truly, IInv, TypeOK
  <1>3. /\ \A d \in Calls : d # c => call'[d] = call[d]
        /\ call'[c] = call[c]
             \/ (/\ call[c].at = "charging" /\ call'[c].at = "answered"
                 /\ call'[c].answer = outcome)
    <2>1. call \in [Calls -> CallStates] /\ call[c] \in CallStates
      BY DEF Truly, IInv, TypeOK
    <2>2. CASE call' = call
      BY <2>2
    <2>3. CASE /\ call[c].at = "charging"
               /\ call' = [call EXCEPT ![c].at = "answered", ![c].answer = outcome]
      <3> DEFINE r == [call[c] EXCEPT !.at = "answered", !.answer = outcome]
      <3>1. r.at = "answered" /\ r.answer = outcome
        BY <2>1 DEF CallStates
      <3>2. call' = [call EXCEPT ![c] = r]
        BY <2>1, <2>3
      <3> HIDE DEF r
      <3>3. QED  BY <2>1, <2>3, <3>1, <3>2
    <2>4. QED  BY <2>2, <2>3 DEF Charge, ChargeDecided
  <1>4. ASSUME NEW d \in Calls, call'[d].at = "answered", call'[d].answer \in TakenForFailure
        PROVE  charge'[d] = call'[d].answer
    <2>1. CASE d # c
      BY <1>2, <1>3, <1>4, <2>1 DEF Truly, RefusalsTrue
    <2>2. CASE d = c /\ call'[c] = call[c]
      BY <1>1, <1>4, <2>2 DEF Truly, RefusalsTrue, TakenForFailure
    <2>3. QED  BY <1>2, <1>3, <2>1, <2>2
  <1>5. ASSUME NEW h \in hooks', h.type = "payment_failed"
        PROVE  charge'[h.of] = "declined"
    <2>1. CASE h \in hooks
      <3>1. h.of \in Calls /\ charge[h.of] = "declined"
        BY <1>5, <2>1 DEF Truly, IInv, TypeOK, RefusalsTrue
      <3>2. QED  BY <1>1, <1>2, <3>1
    <2>2. CASE h \in HooksOf(c, outcome)
      <3>1. h.of = c /\ outcome = "declined"
        BY <1>5, <2>2 DEF HooksOf
      <3>2. QED  BY <1>2, <3>1
    <2>3. QED  BY <1>1, <2>1, <2>2
  <1>6. FailedTruly'
    BY <1>1, <1>2, <1>3, FailedKept DEF Truly, TakenForFailure
  <1>7. QED  BY <1>4, <1>5, <1>6 DEF RefusalsTrue

LEMMA CallTruly ==
    ASSUME Truly, NEW c \in Calls,
           \/ CardChecked(c) \/ NoAnswer(c) \/ WriteOff(c)
           \/ CardAnswered(c) \/ CryptoVerified(c) \/ FreeQueued(c)
    PROVE  RefusalsTrue' /\ FailedTruly'
  <1>1. /\ hooks' \subseteq hooks /\ charge' = charge /\ call[c].at # "orphaned"
        /\ \E at \in {"done", "charging", "unknown", "orphaned"} : MoveOn(c, at)
    BY DEF CardChecked, NoAnswer, WriteOff, CardAnswered, CryptoVerified, FreeQueued
  <1>2. /\ \A d \in Calls : call'[d] = call[d] \/ call'[d].at # "answered"
        /\ \A d \in Calls : call[d].at = "orphaned" => call'[d].at = "orphaned"
    BY <1>1, OneMoves DEF Truly, Working
  <1>3. RefusalsTrue'
    BY <1>1, <1>2, RefusalsKept DEF Truly
  <1>4. \A d \in Calls : \/ payment'[d] = payment[d]
                         \/ payment'[d] = Null
                         \/ payment'[d].status # "FAILED"
                         \/ charge[d] \in TakenForFailure \/ call'[d].at = "orphaned"
    <2>1. CASE CardChecked(c) \/ CryptoVerified(c) \/ FreeQueued(c)
      BY <2>1, NewNotFailed DEF Truly
    <2>2. CASE NoAnswer(c)
      BY <2>2 DEF NoAnswer
    <2>3. CASE WriteOff(c)
      <3>1. call'[c].at = "orphaned"
        BY <2>3, MoveOnTyped DEF WriteOff, Truly
      <3>2. QED  BY <2>3, <3>1, OneRowWritten DEF WriteOff, Truly
    <2>4. CASE CardAnswered(c)
      <3>1. CASE call[c].answer \in TakenForSuccess /\ ConfirmCard(c)
        <4>1. charge[c] = "succeeded"
          BY <2>4, <3>1 DEF CardAnswered, TakenForSuccess, Truly, IInv, Truthful
        <4>2. QED  BY <3>1, <4>1, ConfirmedNotFailed DEF Truly
      <3>2. CASE payment' = payment
        BY <3>2
      <3>3. CASE call[c].answer \in TakenForFailure /\ FailCard(c)
        <4>1. charge[c] \in TakenForFailure
          BY <2>4, <3>3 DEF CardAnswered, Truly, RefusalsTrue
        <4>2. QED  BY <3>3, <4>1, OneRowWritten DEF Truly
      <3>4. QED  BY <2>4, <3>1, <3>2, <3>3 DEF CardAnswered, TakenForFailure
    <2>5. QED  BY <2>1, <2>2, <2>3, <2>4
  <1>5. FailedTruly'
    BY <1>1, <1>2, <1>4, FailedKept DEF Truly
  <1>6. QED  BY <1>3, <1>5

LEMMA HookTruly ==
    ASSUME Truly, NEW h \in hooks, Webhook(h)
    PROVE  RefusalsTrue' /\ FailedTruly'
  <1>1. call' = call /\ charge' = charge /\ hooks' \subseteq hooks /\ HookSettles(h)
    BY DEF Webhook
  <1>2. /\ h.of \in Calls /\ h.type \in {"succeeded", "payment_failed"}
        /\ h.type = "succeeded" => charge[h.of] = "succeeded"
        /\ h.type = "payment_failed" => charge[h.of] = "declined"
    BY DEF Truly, IInv, TypeOK, Truthful, RefusalsTrue
  <1>3. RefusalsTrue'
    BY <1>1, RefusalsKept DEF Truly
  <1>4. \A d \in Calls : \/ payment'[d] = payment[d]
                         \/ payment'[d].status # "FAILED" \/ charge[d] \in TakenForFailure
    <2>1. CASE h.type = "succeeded"
      BY <1>1, <1>2, <2>1, ConfirmedNotFailed DEF HookSettles, Truly
    <2>2. CASE h.type = "payment_failed"
      BY <1>1, <1>2, <2>2, OneRowWritten DEF HookSettles, Truly, TakenForFailure
    <2>3. QED  BY <1>2, <2>1, <2>2
  <1>5. FailedTruly'
    BY <1>1, <1>4, FailedKept DEF Truly
  <1>6. QED  BY <1>3, <1>5

(* What leaves rows and charges alone.                                     *)
LEMMA AloneTruly ==
    ASSUME Truly, UNCHANGED <<payment, charge, hooks>>,
           \A d \in Calls : call'[d] = call[d] \/ call'[d].at # "answered",
           \A d \in Calls : call[d].at = "orphaned" => call'[d].at = "orphaned"
    PROVE  RefusalsTrue' /\ FailedTruly'
  <1>1. RefusalsTrue'
    BY RefusalsKept DEF Truly
  <1>2. FailedTruly'
    BY FailedKept DEF Truly
  <1>3. QED  BY <1>1, <1>2

LEMMA AcceptTruly ==
    ASSUME Truly, NEW c \in Calls, NEW p, NEW at \in {"card", "crypto", "free"}, NEW rail, NEW tx,
           Accept(c, p, at, rail, tx)
    PROVE  RefusalsTrue' /\ FailedTruly'
  <1>1. /\ call[c].at = "none" /\ UNCHANGED <<payment, charge, hooks>>
        /\ call' = [call EXCEPT ![c] =
              [at |-> at, player |-> p, rail |-> rail, tx |-> tx, answer |-> Null]]
    BY DEF Accept
  <1>2. call'[c].at = at /\ \A d \in Calls : d # c => call'[d] = call[d]
    BY <1>1 DEF Truly, IInv, TypeOK
  <1>3. QED  BY <1>1, <1>2, AloneTruly

LEMMA CrashTruly == ASSUME Truly, Crash PROVE RefusalsTrue' /\ FailedTruly'
  <1>1. /\ UNCHANGED <<payment, charge, hooks>>
        /\ call' = [c \in Calls |-> [call[c] EXCEPT !.at = AfterCrash(call[c].at)]]
    BY DEF Crash
  <1>2. ASSUME NEW d \in Calls
        PROVE  call'[d].at # "answered" /\ (call[d].at = "orphaned" => call'[d].at = "orphaned")
    <2>1. call[d] \in CallStates
      BY DEF Truly, IInv, TypeOK
    <2>2. call'[d].at = AfterCrash(call[d].at)
      BY <1>1, <2>1 DEF CallStates
    <2>3. QED  BY <2>2 DEF AfterCrash
  <1>3. QED  BY <1>1, <1>2, AloneTruly

LEMMA TrulyStep == Truly /\ [Next]_vars => Truly'
  <1> SUFFICES ASSUME Truly, [Next]_vars PROVE Truly'
    OBVIOUS
  <1>1. IInv'
    BY StepIInv DEF Truly
  <1>2. RefusalsTrue' /\ FailedTruly'
    <2>1. ASSUME NEW c \in Calls, NEW p \in Players, PayCard(c, p) \/ PayFree(c, p)
          PROVE  RefusalsTrue' /\ FailedTruly'
      BY <2>1, AcceptTruly DEF PayCard, PayFree
    <2>2. ASSUME NEW c \in Calls, NEW p \in Players, NEW tx \in Refs, PayCrypto(c, p, tx)
          PROVE  RefusalsTrue' /\ FailedTruly'
      BY <2>2, AcceptTruly DEF PayCrypto
    <2>3. ASSUME NEW t \in Transfers, NEW p \in Players, Transfer(t, p)
          PROVE  RefusalsTrue' /\ FailedTruly'
      BY <2>3, AloneTruly DEF Transfer
    <2>4. ASSUME NEW i \in DOMAIN entries, TurnStarts(i) \/ TurnEnds(i)
          PROVE  RefusalsTrue' /\ FailedTruly'
      BY <2>4, AloneTruly DEF TurnStarts, TurnEnds
    <2>5. UNCHANGED vars => RefusalsTrue' /\ FailedTruly'
      BY AloneTruly DEF vars
    <2> QED
      BY CallTruly, ChargeTruly, HookTruly, CrashTruly, <2>1, <2>2, <2>3, <2>4, <2>5 DEF Next
  <1>3. QED  BY <1>1, <1>2 DEF Truly

(* A payment that is FAILED although its charge succeeded is one whose     *)
(* answer never came and which pay_card wrote off; declines, late events   *)
(* and restarts never fail a charge that succeeds                          *)
(* (events_payments.py:98-107, stripe_rail.py:10-13).                      *)
THEOREM HeardChargesStand == Spec => []OnlyUnheardWrittenOff
  <1>1. Init => Truly
    BY InitIInv DEF Init, Truly, RefusalsTrue, FailedTruly, Status, NoCall
  <1>2. Truly => OnlyUnheardWrittenOff
    BY DEF Truly, FailedTruly, OnlyUnheardWrittenOff, TakenForFailure
  <1>3. QED  BY <1>1, <1>2, TrulyStep, PTL DEF Spec
=============================================================================
