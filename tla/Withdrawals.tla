---------------------------- MODULE Withdrawals ----------------------------
(***************************************************************************)
(* One player's ledger and his withdrawals (socket/events_queue.py and     *)
(* helpers.py).  Credits come from wins that are resold; the ones that a   *)
(* card paid for are held for the days in which the card's owner may       *)
(* dispute the charge.  A withdrawal debits, under a lock of the user's    *)
(* row, all that is not held, sends it from the treasury, and then         *)
(* finalises the debit or deletes it.                                      *)
(*                                                                         *)
(* Every credit is of one unit.  The two sums of a withdrawal are          *)
(* separate reads: a win may be resold between them.                       *)
(***************************************************************************)
EXTENDS Integers, FiniteSets

CONSTANTS Wins,         \* bound: the wins that are resold
          CardPaid,     \* the ones whose ticket was paid by card
          Calls,        \* bound: the withdrawals that are asked for
          MaxTries,     \* attempts of safe_send_usdc
          MaxCrashes,   \* bound: restarts of the server
          Null

ASSUME WithdrawalsAssumption ==
    /\ IsFiniteSet(Wins) /\ CardPaid \subseteq Wins
    /\ IsFiniteSet(Calls) /\ Null \notin Calls
    /\ MaxTries \in Nat \ {0} /\ MaxCrashes \in Nat

VARIABLES
    credits,   \* the wins credited, by kind of ledger entry
    lapsed,    \* card payments older than CHARGEBACK_HOLD_DAYS
    lock,      \* the call that holds the user's row, or Null
    call,      \* each call: where it is, what it has read, its attempts to send
    debit,     \* the WITHDRAWAL row of each call: 0 when there is none
    tx,        \* withdrawal_tx_hash of that row, once it is finalised
    freePlay,  \* FREE_PLAY
    sent,      \* the chain: what the treasury transferred for each call
    crashes,
    killed,    \* ghost: calls that a restart ended
    unheard    \* ghost: calls that were not told of a transfer that was made

vars == <<credits, lapsed, lock, call, debit, tx, freePlay, sent, crashes, killed, unheard>>

Kinds == {"RESELL", "CARD_RESELL"}
NoCall == [at |-> "none", total |-> 0, amount |-> 0, tries |-> 0]

Init ==
    /\ credits = [k \in Kinds |-> {}]
    /\ lapsed = {}
    /\ lock = Null
    /\ call = [c \in Calls |-> NoCall]
    /\ debit = [c \in Calls |-> 0]
    /\ tx = [c \in Calls |-> Null]
    /\ freePlay \in BOOLEAN
    /\ sent = [c \in Calls |-> 0]
    /\ crashes = 0
    /\ killed = {} /\ unheard = {}

-----------------------------------------------------------------------------
(* The sums.  A RESELL names its win, and through it the payment; a        *)
(* CARD_RESELL names nothing and is never held.  As credits are units, a   *)
(* sum of debits counts the units that each of them is made of.            *)

Credited == credits["RESELL"] \cup credits["CARD_RESELL"]
Units == UNION {{c} \X (1 .. debit[c]) : c \in Calls}
Debited == Cardinality(Units)
Held == (credits["RESELL"] \cap CardPaid) \ lapsed

off_chain_balance == Cardinality(Credited) - Debited

max0(n) == IF n > 0 THEN n ELSE 0

(* The player settles a win, or resells a card of his collection.          *)
Resell(w, kind) ==
    /\ w \notin Credited
    /\ credits' = [credits EXCEPT ![kind] = @ \cup {w}]
    /\ UNCHANGED <<lapsed, lock, call, debit, tx, freePlay, sent, crashes, killed, unheard>>

(* Time passes.                                                            *)
HoldLapses(w) ==
    /\ w \in CardPaid \ lapsed
    /\ lapsed' = lapsed \cup {w}
    /\ UNCHANGED <<credits, lock, call, debit, tx, freePlay, sent, crashes, killed, unheard>>

-----------------------------------------------------------------------------
(* withdraw.                                                               *)

MoveOn(c, at) == call' = [call EXCEPT ![c].at = at]

(* SELECT ... FOR UPDATE on the user's row.                                *)
TakeLockNot(c) == UNCHANGED lock                      \* mutant: no lock
TakeLock(c) == lock = Null /\ lock' = c

FreeLockNot(c) == UNCHANGED lock                      \* mutant: the session stays open
FreeLock(c) == lock' = IF lock = c THEN Null ELSE lock

Ask(c) ==
    /\ call[c].at = "none"
    /\ MoveOn(c, "asked")
    /\ UNCHANGED <<credits, lapsed, lock, debit, tx, freePlay, sent, crashes, killed, unheard>>

LockUser(c) ==
    /\ call[c].at = "asked"
    /\ TakeLock(c)
    /\ MoveOn(c, "locked")
    /\ UNCHANGED <<credits, lapsed, debit, tx, freePlay, sent, crashes, killed, unheard>>

(* off_chain_balance_cents, of withdrawable_balance_cents.                 *)
ReadTotal(c) ==
    /\ call[c].at = "locked"
    /\ call' = [call EXCEPT ![c].at = "total", ![c].total = off_chain_balance]
    /\ UNCHANGED <<credits, lapsed, lock, debit, tx, freePlay, sent, crashes, killed, unheard>>

(* held_balance_cents; then max(0, total - held).                          *)
WithdrawableBelow0(c) == call[c].total - Cardinality(Held)   \* mutant: no max(0, ...)
Withdrawable(c) == max0(call[c].total - Cardinality(Held))

ReadHeld(c) ==
    /\ call[c].at = "total"
    /\ call' = [call EXCEPT ![c].at = "read", ![c].amount = Withdrawable(c)]
    /\ UNCHANGED <<credits, lapsed, lock, debit, tx, freePlay, sent, crashes, killed, unheard>>

(* Nothing to withdraw: an early return, which closes the session.         *)
Refuse(c) ==
    /\ call[c].at = "read" /\ call[c].amount = 0
    /\ MoveOn(c, "done")
    /\ FreeLock(c)
    /\ UNCHANGED <<credits, lapsed, debit, tx, freePlay, sent, crashes, killed, unheard>>

Reserve(c) ==
    /\ call[c].at = "read" /\ call[c].amount > 0
    /\ debit' = [debit EXCEPT ![c] = call[c].amount]
    /\ MoveOn(c, "paying")
    /\ FreeLock(c)
    /\ UNCHANGED <<credits, lapsed, tx, freePlay, sent, crashes, killed, unheard>>

(* While plays are comped the payout is simulated.                         *)
Simulate(c) ==
    /\ call[c].at = "paying" /\ freePlay
    /\ MoveOn(c, "simulated")
    /\ UNCHANGED <<credits, lapsed, lock, debit, tx, freePlay, sent, crashes, killed, unheard>>

(* An RPC error is retried by safe_send_usdc, three times in all; any      *)
(* other exception ends it.  Both mean "not paid".                         *)
Retry(c) ==
    \/ call[c].tries + 1 < MaxTries /\ call' = [call EXCEPT ![c].tries = @ + 1]
    \/ MoveOn(c, "failed")

Transfer(c) == sent' = [sent EXCEPT ![c] = @ + call[c].amount]

Paying(c) ==
    /\ call[c].at = "paying" /\ ~freePlay
    /\ UNCHANGED <<credits, lapsed, lock, debit, tx, freePlay, crashes, killed>>

(* send_usdc: the transfer is mined and the receipt is read,               *)
Send(c) == Paying(c) /\ Transfer(c) /\ MoveOn(c, "paid") /\ UNCHANGED unheard

(* or no transfer is made: an error before it is broadcast, or a receipt   *)
(* that says it was reverted,                                              *)
SendFails(c) == Paying(c) /\ Retry(c) /\ UNCHANGED <<sent, unheard>>

(* or it is made but the answer to the broadcast or the receipt does not   *)
(* come: a broken connection, or a receipt that is waited for too long.    *)
SendUnheard(c) == Paying(c) /\ Transfer(c) /\ Retry(c) /\ unheard' = unheard \cup {c}

Finalise(c) ==
    /\ call[c].at \in {"paid", "simulated"}
    /\ tx' = [tx EXCEPT ![c] = call[c].at]
    /\ MoveOn(c, "done")
    /\ UNCHANGED <<credits, lapsed, lock, debit, freePlay, sent, crashes, killed, unheard>>

UndebitNot(c) == UNCHANGED debit                      \* mutant: the debit stays
Undebit(c) == debit' = [debit EXCEPT ![c] = 0]

Reverse(c) ==
    /\ call[c].at = "failed"
    /\ Undebit(c)
    /\ MoveOn(c, "done")
    /\ UNCHANGED <<credits, lapsed, lock, tx, freePlay, sent, crashes, killed, unheard>>

(* The server restarts: its sessions are closed, its tasks are gone.       *)
InWork(c) == call[c].at \notin {"none", "done"}

Crash ==
    /\ crashes < MaxCrashes
    /\ crashes' = crashes + 1
    /\ lock' = Null
    /\ killed' = killed \cup {c \in Calls : InWork(c)}
    /\ call' = [c \in Calls |-> IF InWork(c) THEN [call[c] EXCEPT !.at = "done"] ELSE call[c]]
    /\ freePlay' \in BOOLEAN
    /\ UNCHANGED <<credits, lapsed, debit, tx, sent, unheard>>

Work(c) ==
    \/ LockUser(c) \/ ReadTotal(c) \/ ReadHeld(c) \/ Refuse(c) \/ Reserve(c)
    \/ Simulate(c) \/ Send(c) \/ SendFails(c) \/ SendUnheard(c)
    \/ Finalise(c) \/ Reverse(c)

Next ==
    \/ \E w \in Wins, kind \in Kinds : Resell(w, kind)
    \/ \E w \in Wins : HoldLapses(w)
    \/ \E c \in Calls : Ask(c) \/ Work(c)
    \/ Crash

Spec == Init /\ [][Next]_vars

(* A call that has been made goes on; whether one is made is up to the     *)
(* player.  An attempt to send ends, well or badly: every request has a    *)
(* time-out.  The database grants the row's lock when it is free.          *)
Fairness == \A c \in Calls : WF_vars(Work(c))

FairSpec == Spec /\ Fairness

-----------------------------------------------------------------------------
(* Properties.                                                             *)

CallStates ==
    [at : {"none", "asked", "locked", "total", "read", "paying", "paid", "simulated",
           "failed", "done"},
     total : 0 .. Cardinality(Wins), amount : 0 .. Cardinality(Wins), tries : 0 .. MaxTries - 1]

(* Every variable has its type; the balance is never negative.             *)
TypeOK ==
    /\ credits \in [Kinds -> SUBSET Wins] /\ lapsed \subseteq CardPaid
    /\ lock \in Calls \cup {Null}
    /\ call \in [Calls -> CallStates]
    /\ debit \in [Calls -> 0 .. Cardinality(Wins)]
    /\ tx \in [Calls -> {"paid", "simulated", Null}] /\ sent \in [Calls -> Nat]
    /\ freePlay \in BOOLEAN /\ crashes \in 0 .. MaxCrashes
    /\ killed \subseteq Calls /\ unheard \subseteq Calls

(* What is debited, and what a withdrawal is about to debit, is covered by *)
(* credits that are not held: concurrent withdrawals do not spend a credit *)
(* twice, and a credit that comes between a withdrawal's two sums does not *)
(* let a held one slip out (events_queue.py:101-131, helpers.py:71-75).    *)
Covered ==
    Debited + (IF lock # Null /\ call[lock].at = "read" THEN call[lock].amount ELSE 0)
        + Cardinality(Held) <= Cardinality(Credited)

(* A withdrawal that ran to its end, and that heard of every transfer it   *)
(* made, has debited exactly what it sent: nothing when the payout failed, *)
(* however often it was tried (events_queue.py:146-156).                   *)
DebitIsPayout ==
    \A c \in Calls \ (killed \cup unheard) :
        call[c].at = "done" /\ tx[c] # "simulated" => sent[c] = debit[c]

(* A withdrawal that has begun ends, and so does its hold on the user's    *)
(* row: the early returns and the restart release it.                      *)
WithdrawalsEnd ==
    /\ \A c \in Calls : InWork(c) ~> ~InWork(c)
    /\ \A c \in Calls : lock = c ~> lock # c

(* What leaves the treasury was debited: the debit is only reversed if the *)
(* payout failed, and a payout is made once (events_queue.py:103-107).     *)
PayoutIsDebited == \A c \in Calls : sent[c] <= debit[c]
=============================================================================
