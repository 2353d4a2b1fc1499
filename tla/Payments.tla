----------------------------- MODULE Payments -----------------------------
(***************************************************************************)
(* Tickets: a player pays by card (socket/events_payments.py), by a        *)
(* transfer of USDC, or not at all while plays are comped                  *)
(* (socket/events_queue.py); every way converges on confirm_payment        *)
(* (payments.py), which queues the play.  A card payment is confirmed by   *)
(* the answer to the charge or by Stripe's webhook (stripe_rail.py),       *)
(* whichever comes first.                                                  *)
(*                                                                         *)
(* A socket call is a task; an action is what it does between two awaits   *)
(* that matter.  A payment is named by the call that made it.  A call that *)
(* an early return refuses changes nothing, so the refusals are guards.    *)
(***************************************************************************)
EXTENDS Naturals, Sequences, FiniteSets

CONSTANTS Calls,       \* bound: the socket calls that are made
          Players,
          Transfers,   \* transfers to the treasury
          Refs,        \* texts that a player may submit for a transaction hash
          TransferOf,  \* the transfer that the chain finds for each of them
          MaxCrashes,  \* bound: restarts of the server
          Null

Outcomes == {"succeeded", "declined", "processing", "requires_action"}
Working == {"card", "charging", "answered", "unknown", "crypto", "free"}

CallStates == [at : Working \cup {"none", "orphaned", "done"},
               player : Players \cup {Null},
               rail : {"CARD", "CRYPTO", "COMP", Null},
               tx : Refs \cup {Null},
               answer : Outcomes \cup {Null}]

PaymentRows == [rail : {"CARD", "CRYPTO", "COMP"}, ref : Refs \cup {Null},
                status : {"PENDING", "CONFIRMED", "FAILED"}, entry : Nat]

EntryRows == [player : Players, paid : Calls, status : {"queued", "active", "played"}]

ASSUME PaymentsAssumption ==
    /\ MaxCrashes \in Nat
    /\ TransferOf \in [Refs -> Transfers]
    /\ Null \notin Players \cup Refs \cup PaymentRows

VARIABLES
    call,      \* each call: where it is, its player, rail, reference, and Stripe's answer
    payment,   \* the payment row of each call, or Null
    entries,   \* the queue table: player, payment, status
    charge,    \* Stripe: the charge of each payment (idempotency key "pay-<id>")
    hooks,     \* Stripe: the events that the server has not acknowledged yet
    mined,     \* the chain: who made each transfer, or Null
    freePlay,  \* FREE_PLAY
    crashes,
    hasty      \* ghost: players who called while a payment of theirs was open

vars == <<call, payment, entries, charge, hooks, mined, freePlay, crashes, hasty>>

NoCall == [at |-> "none", player |-> Null, rail |-> Null, tx |-> Null, answer |-> Null]

Init ==
    /\ call = [c \in Calls |-> NoCall]
    /\ payment = [c \in Calls |-> Null]
    /\ entries = <<>>
    /\ charge = [c \in Calls |-> "none"]
    /\ hooks = {}
    /\ mined = [t \in Transfers |-> Null]
    /\ freePlay \in BOOLEAN
    /\ crashes = 0
    /\ hasty = {}

-----------------------------------------------------------------------------
(* The table and its helpers.                                              *)

Waiting(p) == {i \in DOMAIN entries : entries[i].player = p /\ entries[i].status # "played"}

AlreadyInQueueQueued(p) ==            \* mutant: the active entry is forgotten
    \E i \in Waiting(p) : entries[i].status = "queued"
AlreadyInQueue(p) == Waiting(p) # {}

Status(c) == IF payment[c] = Null THEN "none" ELSE payment[c].status

(* initiate_payment.                                                       *)
NewPaymentNoStatus(rail, tx) ==       \* mutant: the status is left out
    [rail |-> rail, ref |-> tx, status |-> Null, entry |-> 0]
NewPayment(rail, tx) == [rail |-> rail, ref |-> tx, status |-> "PENDING", entry |-> 0]

(* confirm_payment, on the row that the call is about: one transaction.    *)
ConfirmPayment(c, row) ==
    /\ entries' = Append(entries, [player |-> call[c].player, paid |-> c, status |-> "queued"])
    /\ payment' = [payment EXCEPT ![c] =
                       [row EXCEPT !.status = "CONFIRMED", !.entry = Len(entries) + 1]]

(* confirm_card_payment: under the row's lock, and only if it is PENDING.  *)
ConfirmCardAnyRow(c) ==               \* mutant: any row is confirmed
    payment[c] # Null /\ ConfirmPayment(c, payment[c])
ConfirmCard(c) ==
    \/ Status(c) = "PENDING" /\ ConfirmPayment(c, payment[c])
    \/ Status(c) # "PENDING" /\ UNCHANGED <<entries, payment>>

(* fail_card_payment, likewise.                                            *)
FailCard(c) ==
    /\ payment' = IF Status(c) = "PENDING"
                  THEN [payment EXCEPT ![c].status = "FAILED"] ELSE payment
    /\ UNCHANGED entries

(* The unique index on Payment.ref, which is a plain string: two spellings *)
(* of one hash are two references.                                         *)
UsedNever(tx) == FALSE                \* mutant: no index
Used(tx) == \E c \in Calls : payment[c] # Null /\ payment[c].ref = tx

-----------------------------------------------------------------------------
(* The socket calls.                                                       *)

OpenPayments(p) ==
    {c \in Calls : call[c].player = p /\ (call[c].at \in Working \/ Status(c) = "PENDING")}

(* What all three handlers begin with.                                     *)
Accept(c, p, at, rail, tx) ==
    /\ call[c].at = "none"
    /\ ~AlreadyInQueue(p)
    /\ call' = [call EXCEPT ![c] =
                    [at |-> at, player |-> p, rail |-> rail, tx |-> tx, answer |-> Null]]
    /\ hasty' = IF OpenPayments(p) = {} THEN hasty ELSE hasty \cup {p}
    /\ UNCHANGED <<payment, entries, charge, hooks, mined, freePlay, crashes>>

PayCard(c, p) == ~freePlay /\ Accept(c, p, "card", "CARD", Null)

PayFree(c, p) == freePlay /\ Accept(c, p, "free", "COMP", Null)

PayCrypto(c, p, tx) ==
    /\ ~freePlay
    /\ ~ \E d \in Calls : payment[d] # Null /\ payment[d].ref = tx    \* the replay guard
    /\ Accept(c, p, "crypto", "CRYPTO", tx)

MoveOn(c, at) == call' = [call EXCEPT ![c].at = at]

(* ensure_customer and _saved_card were awaited: there may be no card, or  *)
(* the PENDING row is committed before the charge.                         *)
CardChecked(c) ==
    /\ call[c].at = "card"
    /\ \/ MoveOn(c, "done") /\ UNCHANGED payment
       \/ MoveOn(c, "charging") /\ payment' = [payment EXCEPT ![c] = NewPayment("CARD", Null)]
    /\ UNCHANGED <<entries, charge, hooks, mined, freePlay, crashes, hasty>>

(* No answer: a time-out or a broken connection, before or after Stripe    *)
(* has acted on the request.                                               *)
NoAnswer(c) ==
    /\ call[c].at \in {"charging", "answered"}
    /\ MoveOn(c, "unknown")
    /\ UNCHANGED <<payment, entries, charge, hooks, mined, freePlay, crashes, hasty>>

(* The generic except clause: the payment is written off.  The request may *)
(* still reach Stripe afterwards.                                          *)
WriteOff(c) ==
    /\ call[c].at = "unknown"
    /\ MoveOn(c, "orphaned")
    /\ FailCard(c)
    /\ UNCHANGED <<charge, hooks, mined, freePlay, crashes, hasty>>

TakenForSuccessLax == {"succeeded", "processing"}     \* mutant: processing is good enough
TakenForSuccess == {"succeeded"}

TakenForFailureLax == {"declined", "requires_action", "processing"}    \* mutant
TakenForFailure == {"declined", "requires_action"}

(* pay_card acts on Stripe's answer.                                       *)
CardAnswered(c) ==
    /\ call[c].at = "answered"
    /\ MoveOn(c, "done")
    /\ \/ call[c].answer \in TakenForSuccess /\ ConfirmCard(c)
       \/ call[c].answer = "processing" /\ call[c].answer \notin TakenForSuccess
          /\ UNCHANGED <<payment, entries>>
       \/ call[c].answer \in TakenForFailure /\ FailCard(c)
    /\ UNCHANGED <<charge, hooks, mined, freePlay, crashes, hasty>>

(* safe_verify_usdc_transfer has answered.  It may say no of a good        *)
(* transfer (no receipt yet, three RPC errors), never yes of a bad one;    *)
(* the receipt is found under any spelling of the hash.                    *)
Verified(c) == mined[TransferOf[call[c].tx]] = call[c].player

CryptoVerified(c) ==
    /\ call[c].at = "crypto"
    /\ MoveOn(c, "done")
    /\ \/ UNCHANGED <<payment, entries>>
       \/ Verified(c) /\ ~Used(call[c].tx) /\ ConfirmPayment(c, NewPayment("CRYPTO", call[c].tx))
    /\ UNCHANGED <<charge, hooks, mined, freePlay, crashes, hasty>>

FreeQueued(c) ==
    /\ call[c].at = "free"
    /\ MoveOn(c, "done")
    /\ ConfirmPayment(c, NewPayment("COMP", Null))
    /\ UNCHANGED <<charge, hooks, mined, freePlay, crashes, hasty>>

-----------------------------------------------------------------------------
(* Stripe, the chain and the machine.                                      *)

HooksOf(c, outcome) ==
    CASE outcome = "succeeded" -> {[of |-> c, type |-> "succeeded"]}
      [] outcome = "declined"  -> {[of |-> c, type |-> "payment_failed"]}
      [] OTHER -> {}

(* The request reaches Stripe, perhaps after the server has given it up.   *)
Charge(c, outcome) ==
    /\ call[c].at \in {"charging", "unknown", "orphaned"} /\ charge[c] = "none"
    /\ charge' = [charge EXCEPT ![c] = outcome]
    /\ hooks' = hooks \cup HooksOf(c, outcome)
    /\ call' = IF call[c].at = "charging"
               THEN [call EXCEPT ![c].at = "answered", ![c].answer = outcome] ELSE call
    /\ UNCHANGED <<payment, entries, mined, freePlay, crashes, hasty>>

(* A charge in process is decided.                                         *)
ChargeDecided(c, outcome) ==
    /\ charge[c] = "processing" /\ outcome \in {"succeeded", "declined"}
    /\ charge' = [charge EXCEPT ![c] = outcome]
    /\ hooks' = hooks \cup HooksOf(c, outcome)
    /\ UNCHANGED <<call, payment, entries, mined, freePlay, crashes, hasty>>

(* stripe_webhook.  Stripe delivers an event until it is acknowledged; the *)
(* acknowledgement may be lost, and the event comes again.                 *)
HookSettlesSuccess(h) ==              \* mutant: payment_failed is not handled
    IF h.type = "succeeded" THEN ConfirmCard(h.of) ELSE UNCHANGED <<payment, entries>>
HookSettles(h) == IF h.type = "succeeded" THEN ConfirmCard(h.of) ELSE FailCard(h.of)

Webhook(h) ==
    /\ h \in hooks
    /\ HookSettles(h)
    /\ hooks' \in {hooks, hooks \ {h}}
    /\ UNCHANGED <<call, charge, mined, freePlay, crashes, hasty>>

Transfer(t, p) ==
    /\ mined[t] = Null
    /\ mined' = [mined EXCEPT ![t] = p]
    /\ UNCHANGED <<call, payment, entries, charge, hooks, freePlay, crashes, hasty>>

(* The coordinator starts and ends a turn, one at a time (see              *)
(* TurnCoordinator, OneTurnAtATime).                                       *)
TurnStarts(i) ==
    /\ entries[i].status = "queued"
    /\ \A j \in DOMAIN entries : entries[j].status # "active"
    /\ entries' = [entries EXCEPT ![i].status = "active"]
    /\ UNCHANGED <<call, payment, charge, hooks, mined, freePlay, crashes, hasty>>

TurnEnds(i) ==
    /\ entries[i].status = "active"
    /\ entries' = [entries EXCEPT ![i].status = "played"]
    /\ UNCHANGED <<call, payment, charge, hooks, mined, freePlay, crashes, hasty>>

(* The server restarts, perhaps to switch FREE_PLAY: its tasks are gone.   *)
AfterCrash(at) ==
    CASE at \in {"charging", "unknown"} -> "orphaned"
      [] at \in {"none", "orphaned"}    -> at
      [] OTHER -> "done"

Crash ==
    /\ crashes < MaxCrashes
    /\ crashes' = crashes + 1
    /\ freePlay' \in BOOLEAN
    /\ call' = [c \in Calls |-> [call[c] EXCEPT !.at = AfterCrash(@)]]
    /\ UNCHANGED <<payment, entries, charge, hooks, mined, hasty>>

Next ==
    \/ \E c \in Calls, p \in Players : PayCard(c, p) \/ PayFree(c, p)
    \/ \E c \in Calls, p \in Players, tx \in Refs : PayCrypto(c, p, tx)
    \/ \E c \in Calls : \/ CardChecked(c) \/ NoAnswer(c) \/ WriteOff(c)
                        \/ CardAnswered(c) \/ CryptoVerified(c) \/ FreeQueued(c)
    \/ \E c \in Calls, outcome \in Outcomes : Charge(c, outcome) \/ ChargeDecided(c, outcome)
    \/ \E h \in hooks : Webhook(h)
    \/ \E t \in Transfers, p \in Players : Transfer(t, p)
    \/ \E i \in DOMAIN entries : TurnStarts(i) \/ TurnEnds(i)
    \/ Crash

Spec == Init /\ [][Next]_vars

(* Stripe repeats an event until the server has acknowledged it.           *)
Acknowledged(c, type) == LET h == [of |-> c, type |-> type]
                         IN  Webhook(h) /\ h \notin hooks'

Fairness == \A c \in Calls, type \in {"succeeded", "payment_failed"} :
                WF_vars(Acknowledged(c, type))

FairSpec == Spec /\ Fairness

-----------------------------------------------------------------------------
(* Properties.                                                             *)

(* Every variable has its type.                                            *)
TypeOK ==
    /\ call \in [Calls -> CallStates]
    /\ payment \in [Calls -> PaymentRows \cup {Null}]
    /\ entries \in Seq(EntryRows)
    /\ charge \in [Calls -> Outcomes \cup {"none"}]
    /\ hooks \subseteq [of : Calls, type : {"succeeded", "payment_failed"}]
    /\ mined \in [Transfers -> Players \cup {Null}]
    /\ freePlay \in BOOLEAN
    /\ crashes \in 0 .. MaxCrashes
    /\ hasty \subseteq Players

(* A payment buys exactly one play: every queue entry belongs to a         *)
(* confirmed payment that names it, and every confirmed payment has its    *)
(* entry, although the answer to the charge, the webhook, its repetitions  *)
(* and the write-off settle the same row in any order                      *)
(* (models.py:443-449, stripe_rail.py:15-17).                              *)
OnePlayEach ==
    /\ \A i \in DOMAIN entries : LET row == payment[entries[i].paid] IN
          row # Null /\ row.status = "CONFIRMED" /\ row.entry = i
    /\ \A c \in Calls : Status(c) = "CONFIRMED" =>
          payment[c].entry \in DOMAIN entries /\ entries[payment[c].entry].paid = c

(* Nobody plays for nothing unless plays are comped: a confirmed payment   *)
(* stands for a charge that succeeded, or for a transfer of that player's  *)
(* own (pay_card, pay_crypto).                                             *)
PlaysArePaid ==
    \A c \in Calls : Status(c) = "CONFIRMED" =>
        CASE payment[c].rail = "CARD"   -> charge[c] = "succeeded"
          [] payment[c].rail = "CRYPTO" -> mined[TransferOf[payment[c].ref]] = call[c].player
          [] OTHER -> TRUE

(* A reference funds one play: two calls with one text may both pass the   *)
(* replay guard while the other's check is under way, and only the unique  *)
(* index then keeps them apart (events_queue.py:253-268, models.py:470).   *)
OnePlayPerRef ==
    \A c, d \in Calls :
        /\ Status(c) = "CONFIRMED" /\ Status(d) = "CONFIRMED" /\ c # d
        /\ payment[c].ref # Null
        => payment[c].ref # payment[d].ref

(* A transfer funds one play ("a tx hash can fund exactly one play",       *)
(* events_queue.py:253), however its hash is written.                      *)
OnePlayPerTransfer ==
    \A c, d \in Calls :
        /\ Status(c) = "CONFIRMED" /\ Status(d) = "CONFIRMED" /\ c # d
        /\ payment[c].ref # Null /\ payment[d].ref # Null
        => TransferOf[payment[c].ref] # TransferOf[payment[d].ref]

(* A player who never calls while an earlier payment of his is open has at *)
(* most one unplayed entry, which is what the coordinator relies on        *)
(* (already_in_queue, payments.py:25-33).                                  *)
OneEntryForThePatient ==
    \A p \in Players \ hasty : Cardinality(Waiting(p)) <= 1

(* Once Stripe has decided on a charge, its payment does not stay PENDING, *)
(* whatever becomes of the call and of the server (the safety net of       *)
(* stripe_rail.py:10-13).                                                  *)
DecidedIsSettled ==
    \A c \in Calls : charge[c] \in {"succeeded", "declined"} ~> Status(c) \in {"CONFIRMED", "FAILED"}

(* A player whose charge succeeded is not told that it failed: the webhook *)
(* is to confirm what the call did not (stripe_rail.py:10-13).             *)
NotWrittenOff == \A c \in Calls : charge[c] = "succeeded" => Status(c) # "FAILED"

(* What remains of it: the only charges that succeeded and whose payment   *)
(* is FAILED are those whose answer never came, so that pay_card's except  *)
(* clause wrote them off (events_payments.py:104-107); no decline of one   *)
(* attempt, no event that comes late and no restart does that.             *)
OnlyUnheardWrittenOff ==
    \A c \in Calls : charge[c] = "succeeded" /\ Status(c) = "FAILED" => call[c].at = "orphaned"

(* A payment that is CONFIRMED or FAILED stays as it is, entry and all:    *)
(* whichever of answer, write-off and webhook comes second changes nothing *)
(* (stripe_rail.py:15-17, the guards of payments.py).                      *)
SettlementsStand ==
    [][\A c \in Calls : Status(c) \in {"CONFIRMED", "FAILED"} => payment'[c] = payment[c]]_vars
=============================================================================
