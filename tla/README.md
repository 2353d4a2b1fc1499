# Peluchera: a TLA+ model of the claw machine

Peluchera is a claw machine that is played over the Internet.  A player pays
for a turn, waits in a queue, moves a real claw, and wins what the ball that
falls into the chute stands for: a card, a sealed booster pack or a plush.
This directory models the parts of the system whose correctness depends on the
order in which things happen: the chute's firmware and its tag reader, the
Raspberry Pi in the cabinet, the turn coordinator of the central server, the
life of a win, and the money: tickets and withdrawals.

Paths below are relative to `src/`.

## Inventory

| Component | Code | State it keeps | Talks to |
|---|---|---|---|
| chute firmware | `esp/src` | state, fault, deadline, captured serial, solenoid; two beam flags set by interrupts; the pending tag, set by a task on the other core | the Pi, by JSON lines on a UART |
| FDX-B reader | `esp/src/Fifo.cpp`, `Decoder.cpp`, `Parser.cpp`, `FdxB.h` | ring buffer of intervals, half-bit decoder, header search, checksum | edges from an interrupt; a tag to the loop, by `fdxb_reader.cpp` |
| cabinet controller | `raspberry/server` | turn machine, two event queues, serial link with a mirror of the latch, drop-test waiter | the chute (UART), central (websocket), the claw (GPIO) |
| turn coordinator | `central/fastapi/app/pi_client.py`, `schedulers.py`, `machine.py`, `state.py`, `versioning.py` | current turn, turn awaiting a verdict, faults, the queue table | the Pi (websocket), the players (socket.io), the database |
| wins and inventory | `win_transitions.py`, `socket/events_inventory.py`, `admin/router.py`, `models.py` | Ball, ClosedBooster, OpenedBooster, Card, Win rows | players, operator, coordinator |
| payments | `payments.py`, `stripe_rail.py`, `socket/events_payments.py`, `socket/events_queue.py` | Payment, QueueEntry, LedgerEntry rows | players, Stripe, the chain |
| withdrawals and balance | `socket/events_queue.py`, `helpers.py` | LedgerEntry rows, payment references | players, the chain |
| enrolment of tags | `admin/router.py`, `pi_client.py`, `raspberry/server/main.py`, `esp/src/fsm.cpp` | the enrolment slot of `state.py` | operator, Pi, chute |
| simulator | `mock`, `sim` | a copy of the Pi's code over a simulated chute; tests against the real central server | - |
| front ends, proxy, video, deployment | `central/next`, `central/next-admin`, `central/proxy`, `central/mediamtx` | presentation and configuration | - |

A turn, end to end: the coordinator makes the oldest queued entry active and
sends `turn_start`; the Pi pulses the coin input and waits for the claw's
optocoupler; when it fires the Pi sends `turn_end` and arms the chute; the
chute watches the entry beam, reads the ball's tag, opens its gate and watches
the exit beam, and reports one verdict; the Pi forwards it; the coordinator
attributes it to the turn that ended, reserves the prize, and starts the next
turn or pauses the queue.

## What is hard here

- **Two processors and two interrupts in the chute.**  The tag parser runs on
  the other core and the beams raise interrupts; the loop sees flags and one
  pending tag, whenever they were set.  What must be right: the gate is open
  only while a read ball is let out, every accepted arm gets one verdict, a
  verdict's serial was read during its arm, time windows survive the wrap of
  `millis()`.
- **A bit stream with no beginning.**  An interrupt measures the time between two
  edges on a counter that wraps and puts it in a ring buffer, whose read index
  both sides change; the parser finds the header in whatever it gets.  What must
  be right: the ring loses old entries only, a disturbed reader is in step again
  after one telegram, hands over nothing but the tag in the field from then on, and
  has read it by the end of the next.
- **Queues that outlive a turn in the Pi.**  The chute's answers go through an
  unbounded queue that the turn machine reads one message at a time; a boot
  announcement, a drop test or a late answer shifts every later turn.  What
  must be right: a turn is given its own verdict, the backlog does not grow, a
  turn always ends.
- **asyncio tasks in the coordinator.**  Every `turn_end` is a task; verdicts,
  faults, the scheduler and the operator's requests run beside it and read
  before an await what they use after it.  What must be right: one active
  entry, a ball is credited to the turn that caught it, a faulty cabinet starts
  no turn, a jam pauses the queue until it is cleared, the queue moves, nobody
  is overtaken.
- **Loss and restarts.**  The websocket loses messages that nothing resends,
  the server forgets all but its tables, the chute forgets its latch.
- **Two services that answer late, twice or never.**  Stripe's answer to a charge
  and its webhook settle one payment; the chain makes a transfer whose receipt
  the server may not see.  What must be right: a payment buys one play, a play
  was paid for, a transfer funds one play, a payout is what was debited,
  a decided charge is not left pending, no winnings are withdrawn twice or while
  they are held.
- **Transactions that read without a lock.**  A win is settled, a ball bound or
  voided, from what an earlier read found.  `reserve_win` commits the ball
  first and the prize second.  What must be right: a fallen ball is not counted
  as loaded, who catches a ball that the gate checked finds its prize, a pending
  win holds its prize alone; and where a read may be out of date, what comes of it.

## Modules

`ChuteProtocol` has the messages between chute and Pi, `ChuteContract` the
abstract chute, and the other modules are one per component.  `MC*` modules
instantiate them; `*Proofs` modules prove about them.

**Chute** (`esp/src`).  The variables are the globals of `fsm.cpp` (`state`,
`fault`, `deadline`, `pendingUid`, `solenoid`), the flags of `sensors.cpp`
(`edges`), the tag handed over by the parser task (`pendingTag`), the position
of `loop()`, `millis()`, the serial lines and the balls in the chute.  One pass
of the loop is two steps, the handling of at most one line and `tick()`;
between and within them interrupts, the parser task, the clock and the balls
interleave.  `Restart` is a power cycle.  Ghosts: `left`, the true time left in
the open window; `fresh`, the tags parsed since the arm.

**ChuteContract** is what `protocol.h` promises: a ready chute that is armed
answers with one verdict, whose outcome agrees with the serial it carries and
with the latch it leaves; a latched one answers `still_blocked`; a restart
announces itself and empties the latch.  `Chute` implements it under the mapping
`Phase` (the property `ImplementsContract` and the theorem
`ChuteImplementsContract`), and `Cabinet` is built on it.

**Fifo** (`Fifo.cpp`, `Decoder::getDelta`).  The ring buffer, one access to shared
memory at a time: `push` in the interrupt stores, moves `mWrite` and drops the
oldest entry by moving `mRead`; `pop` in the parser's task loads `mRead`, fetches,
and loads, decrements and stores `mRead` again.  Both interleave in every way, for
`fdxb_reader.cpp:18` puts the parser on the other core.  Ghost `collided`: a push has
filled the buffer in the middle of a pop, or a pop has emptied it in the middle of a
push; both sides then move `mRead` for the same reason, and the model goes on with
what that leaves.  `LossyQueue` is the queue it should be: consecutive entries are
added at one end, and taken or lost at the other.  Until the first collision `Fifo`
implements it with the entries that `mRead` and `mWrite` delimit (`ImplementsQueue`).

**TagReader** (`Decoder.cpp`, `Parser.cpp`, `fdxb_reader.cpp`).  Tags send real
telegrams of 128 bits, from any bit on and again and again; the half bits and bits
last what the tolerance allows (`Short`, `Long`).  One action is one interval: it
is measured on the 16-bit counter, rounded to half bits, paired to a bit, and
taken by the header search or the byte reader, with control bits, the checksum
and the hand-over.  A ball enters and leaves, a spike cuts an interval in three,
an edge is missed.  Ghosts: `whole`, unhurt telegrams since the last disturbance,
`unhurt`, whether the current one is, `heard`, whether the tag was read since,
`upsets`, the disturbances so far.

**Cabinet** (`raspberry/server`).  The serial link with its mirror of the latch
(`link`, `mirror`), the queue of the chute's messages (`espEvents`), the queue
of claw edges and requests (`events`), the turn machine (`piState`), the drop
test's waiter (`tester`).  One action is what a task does between two awaits.
`drains`, chosen at the start and never changed, says which turn machine runs: the
deployed one or the simulator's (`mock/raspberry/fsm.py`), which empties the queue
before it arms.  Ghost marks say whose arm a message answers.

**TurnCoordinator** (`pi_client.py`, `schedulers.py`, `machine.py`, `state.py`,
`admin/router.py`).  The queue table (`entries`), `state.py`'s variables
(`current`, `awaiting`, `verdictReady`, `fault`, `lock`), the `turn_end` tasks
(`ender`), the scheduler (`sched`), the verdict's task, the two directions of
the websocket and the Pi's turn machine in the detail that central sees.
`_turn_lock` is held from before a turn is closed until the next one has been
announced, the verification window included, as `turn_end` does.  A window times
out when the Pi has nothing left to say of the turn whose end it reported
(`PiIsSilent`: 20 s are more than its 15), whatever it does of another turn; the
window of an end that the operator forced, of which the Pi has reported nothing,
may time out at any moment.  Ghosts: `credited`; the turn a message is of; `told`,
a verdict reported a jam that nothing the model lets central forget by has followed.

**TurnContract** is what all this is for, without messages, tasks, locks and faults:
whoever has paid joins the queue behind those who have (`Join`); the next one's turn
begins and nobody else's goes on (`Start`, `End`); a turn's win is credited to it,
once, and before the next turn starts (`Credit`).  `InOrder` says what follows for a
player.  `TurnCoordinator` implements it with its queue table and the ghost that
records which turn's ball each win was, until a message is lost or the end of a turn
that is not stuck is forced (the property `ImplementsContract`, the theorem
`CoordinatorImplementsContract`).

**Inventory** (`win_transitions.py`, `socket/events_inventory.py`,
`admin/router.py`).  The rows of balls, boosters, cards and wins, the operator's
request and one request per session, each with a step that reads and a step
that commits, and the turn: gate, fall, and the two transactions of
`reserve_win`, the second of which may fail.  Nothing that the code lets happen is
left out: the operator creates, binds (also what was won before), voids and sets
packs out of stock in the middle of turns, and requests overlap.  Ghosts: `checked`,
the balls of which what the gate found still holds as far as the operator goes (a
bind takes its ball out of it, packs out of stock the balls of boosters);
`stale`, a transaction was committed on a read that no longer held: a ball voided
that was caught since, a prize bound that was reserved since, a win settled twice.

**Payments** (`payments.py`, `stripe_rail.py`, `socket/events_payments.py`,
`socket/events_queue.py`).  The payment rows (`payment`), the queue table
(`entries`), the socket calls in work (`call`), Stripe's charges and unacknowledged
events (`charge`, `hooks`) and the transfers on the chain (`mined`).  `ConfirmPayment`
is the one transaction on which the rails converge; a crypto payment is recorded
under the text the player submitted (`Refs`), and the chain finds the transfer that
the text names however it is written (`TransferOf`); `ConfirmCard` and `FailCard`
are the guarded ones around it.  A charge is answered at once, later through
`ChargeDecided`, or its answer is lost (`NoAnswer`), before or after Stripe has
acted; events are repeated until they are acknowledged; a restart ends the calls
and may switch free play.  Ghost `hasty`: players who called while a payment of
theirs was open.

**Withdrawals** (`socket/events_queue.py`, `helpers.py`).  One player's ledger
(`credits`, `debit`), the age of the card payments behind it (`lapsed`), the lock
of his row, his calls and what the treasury sent.  The two sums of a withdrawal
are two steps, so that a win may be resold between them.  An attempt to send
succeeds, fails before the transfer is made, or makes it without the server
hearing of it (`SendUnheard`).  Credits are units; a withdrawal's amount is how
many it takes.

How they compose: `Fifo` carries the intervals of `TagReader`, whose tags are the
`pendingTag` of `Chute`; `Chute` implements `ChuteContract`, `Cabinet` contains it,
`TurnCoordinator` takes from `Cabinet` that a turn is given the verdict of its
own arm (which the deployed Pi breaks, see below) and that no latch refuses a turn
(`MirrorNeverLatched`), and the turn of `Inventory`
is a turn of `TurnContract`: one at a time, in which at most one win is credited;
that it is gated is `TurnCoordinator`'s `NoStartWhileFaulted`.  `TurnCoordinator` starts
from entries of `Payments`, one unplayed entry per player, which holds for
players who do not pay twice at once; `Withdrawals` takes its credits from the
settlements of `Inventory`.  That `Chute` implements its contract, `Fifo` its queue
and `TurnCoordinator` the contract with the players is checked and proved; the
other steps are made by hand.

## Runs

| Run | Instance | Shows |
|---|---|---|
| `chute` | one ball, clock modulo 6, windows 3, 2, 2, 3, a loop that may skip a tick, a line of one message each way | types, gate, latch, windows, enrolment, contract, every arm and enrolment ends |
| `chute_stale` | as `chute` | violation: a verdict with the serial of an earlier ball |
| `fifo` | four slots, indices of eight values, ten pushes, two cores | types, the ring is a queue that loses its oldest entries, until a push and a pop collide |
| `fifo_collides` | the same with three pushes | violation: an interval is returned twice |
| `tag_reader` | two tags with their real telegrams, intervals at the edges of the tolerance, a counter that wraps, two disturbances | types, in step after one telegram, read by the second |
| `cabinet` | both turn machines, drop tests, one loss of the port, one restart of the chute or one enrolment | the backlog is bounded, a turn ends, the turn machine that drains gives a turn its own verdict |
| `coordinator` | three turns, two players, two concurrent `turn_end`s, short turns, one trouble: a lost connection, a restart between turns, or an end forced at any time | types, one active entry, first come first served, no start on a fault, a jam pauses, the queue moves, the contract with the players |
| `coordinator_late` | the same without troubles, turns of any length | violation: a ball is credited to the next player |
| `inventory` | two balls, a booster that reveals a card, a single card, two turns, two sessions, the operator at any time | types, no phantom ball, prizes that the gate checked, prizes set aside |
| `payments` | two calls, two players, one transfer whose hash is written in two ways, one restart | types, one play per payment and per reference, plays are paid, one entry for the patient, what is written off, decided charges are settled |
| `payments_spelling` | as `payments` | violation: one transfer funds two plays |
| `withdrawals` | two wins, one of them card-paid, two withdrawals, three attempts to send, one restart | types, debits are covered, a debit is what was sent, withdrawals end |

**Bounds.**  A clock of six ticks wraps within two windows.  Lines of one or two
messages are enough for a message to be queued behind another or to be lost;
where a full line would hold somebody back (`Emit`, `SendPi`) the bound is the
checker's, the code's buffers never fill.  In `cabinet` restarts and enrolments share
a bound (`MaxMissed`): both are ways for an arm to be missed.  Three turns of
`coordinator` are the turn that goes
wrong, the one its effect falls on, and one more, which the overtaking
`turn_end` needs and for which a player returns to the queue; drops, restarts and
hasty ends share a bound (`MaxTroubles`), for a lost connection and a hasty end
together break `OneTurnAtATime` (see the disagreements).
Two `turn_end` tasks, two sessions and one of the operator's requests are all
the pairs that can meet.  Two balls, a booster and a card let a prize be bound
again, to another ball, after it was voided or came back, and two turns win a ball
again that was won.  Two calls are what
can race in `payments` (for one row there are a call and the events anyway) and
in `withdrawals`; one held and one free win let a withdrawal take a part, and
three attempts are the code's.  Ten pushes take the four slots of `fifo` round
two and a half times, so that it overruns after it has wrapped, and an index of eight
values shows an underflow that the ring's size would hide; the three pushes of
`fifo_collides` cannot overrun it, so that the collision is the other one.  In
`tag_reader` the telegram, the counter and the rounding have their
real sizes; the lengths are the shortest and the longest that round to half a bit
(61 and 178 us) and a short and a long one that round to a bit or are cut to 255
(180 and 300), the counter wraps within one of them (65446), a ball wakes up at a
header, behind it and inside a byte (bits 0, 11, 60), one of the tags is nearly
all zeros, in the places where a piece of it may be taken for a header, and two
disturbances are a ball that leaves in the middle of a telegram
and one that hurts the next.

**Assumptions of the passing runs**, each of which some code path can break.  They
are values of constants or premises inside a property, and the disagreements below
say what happens without them:

- `coordinator`: `TurnsAreShort`, a turn lasts less than the 33 s of the scheduler
  (`coordinator_late` is the run without it), and a restart comes between turns
  (`CrashesMidTurn`).  `NoStartWhileFaulted` and `StaysPaused` speak until a turn that
  is not stuck is forced to end (`hasty`), `ImplementsContract` until a message is
  lost as well, and `StaysPaused` takes a new connection's greeting for the end of
  the pause.
- `cabinet`: `VerdictIsThisTurns` is about the turn machine that drains its queue,
  until the chute's board restarts; the other two properties are about both.
- `payments`: `OneEntryForThePatient` is about players who pay again only when
  nothing of theirs is open; one unplayed entry per player is also what
  `TurnCoordinator` starts from.
- `inventory`: `PrizeIsThere` and `HeldForPending` speak until `stale`, the former of
  `checked` balls.  `withdrawals`: `DebitIsPayout` is about withdrawals that heard of
  their transfers.
- `fifo`: `ImplementsQueue` speaks until the first collision, which nothing in the
  code prevents.
- `tag_reader`: half bits of 61 to 178 us and bits of 180 us and more, and an interval
  queue that loses nothing, which is so until `Fifo` collides or overruns.

**Fairness.**  The loop, the clock and the Pi's reading of its port (`Chute`);
the tasks of the Pi, the chute, and the retry of a closed port (`Cabinet`, with
strong fairness for the arm because the bound on the line may disable it); the
server's tasks, its timers, the reconnection and the Pi's turn
(`TurnCoordinator`, strong for the scheduler's 33 s because turns disable it).
The webhook
repeats an event until it is acknowledged (`Payments`); a withdrawal that was
asked for goes on, for each of its requests has a time-out (`Withdrawals`).
No player, ball, operator or fault has to act.

## Disagreements between code and documentation

Four are runs that TLC finds violated; PROJECT.json quotes the lines:

- `chute_stale` (`VerdictTagIsFresh`, `esp/src/fsm.cpp:65-70`): an arm clears the
  captured serial but not the tag that the parser task has pending, so a ball is
  reported with the serial of an earlier one.
- `coordinator_late` (`WinToItsTurn`, `schedulers.py:42`): the scheduler hands the
  machine over after 33 s whatever the Pi is doing; the late `turn_end` remembers the
  next turn's key, and the ball is credited to the next player, against
  `state.py:17-24`.
- `payments_spelling` (`OnePlayPerTransfer`, `events_queue.py:255`): the replay guard
  and the unique index compare the submitted text, the chain finds a receipt whatever
  the case of the digits and with or without `0x`; one transfer funds two plays.
- `fifo_collides` (`FirstInFirstOut`, `FdxB.h:40`, "Simple first in, first out (FIFO)
  ring buffer"): a pop between `push`'s move of `mWrite` and its test for an overrun
  empties the buffer, the test takes that for an overrun (`Fifo.cpp:15`), `mRead`
  passes `mWrite`, and up to 242 old intervals are read again.

The others are no runs: each is what is left out by a premise or a value of a constant
named above, and shows when that is given up.

Cabinet and chute:

- `VerdictIsThisTurns` without `drains`: the deployed turn machine does
  not empty the queue of chute messages before it arms (`raspberry/server/fsm.py:137`,
  `:149`), the simulator's does and says why (`mock/raspberry/fsm.py:128-130`); a
  turn gets the verdict of the turn before.  So it does, in either, after a restart
  of the chute between its arm and its answer, for the boot announcement is one
  answer too many.
- `NoTurnOnBlockedChute`: the mirror of the latch is not set by the
  verdict that latches the chute, so the next turn spends its coin
  (`raspberry/server/fsm.py:15-17`).  With this firmware it is never set at all
  (`MirrorNeverLatched`): no `turn_start` is ever refused.
- Nothing keeps the queue from starting a turn during the chute's enrolment window;
  its arm is dropped and the turn ends by the Pi's ceiling (`esp/src/fsm.cpp:77-78`).
- `enroll_cancel` promises that a late scan is ignored, which is so unless the
  operator has started another enrolment (`admin/router.py:358-364`).

Tag reader:

- `NothingInvented` with two disturbances: the beginning of one telegram and a piece
  of another can pass the control bits and the checksum together, and the header search
  takes ten zeros and a one inside a tag whose first bytes of number and extra data
  are 0 for a header (`Parser.cpp:23-40`).  The run finds it with its second tag.
- An interval of 255 us or more, however long, is cut to 255, which rounds to the
  two half bits of a 1 (`Decoder.cpp:28-32`, `:41`): a pause is a 1, never an error.

Turn coordinator:

- `WinToItsTurn` with a lost message (`MaxDrops`): a lost `turn_end` or verdict leaves
  `awaiting_verdict_key` to the next verdict (`state.py:17-24`).
- `WinToItsTurn` and `ImplementsContract` with a hasty end (`MaxHasty`): a `turn_end`
  that waited for `_turn_lock` acts on the turn that the first one has started; that
  turn is closed unplayed and its ball is credited to another (`pi_client.py:314`).
- `WinToItsTurn` and the others with `CrashesMidTurn`: the server forgets a turn that
  the Pi plays on (`schedulers.py:110`).
- `NoStartWhileFaulted` and `StaysPaused` after a hasty end: the gate is read
  before awaits (`machine.py:67`, `schedulers.py:90`); a forced end lets a clear
  reach a Pi that is playing, which drops it, or that awaits its verdict, which answers
  it with a clear status after the jam (`admin/router.py:1100`).
- The greeting of a reconnection replaces the fault (`pi_client.py:168` against
  `machine.py:9-10`, "stay paused until an operator resolves them"): the end of the
  pause that `StaysPaused` allows for.
- `OneTurnAtATime` with a hasty end and a lost connection together, with
  `CrashesMidTurn`, or without `TurnsAreShort`:
  the scheduler commits an active entry and sets `current` after a delay
  (`schedulers.py:77-93`), and what happens between finds none: a turn that ends late,
  during that delay, hands the claw to the next player as well.

Wins and inventory:

- `HeldForPending` after `stale`: two requests settle one win, for it is found pending
  without a lock (`win_transitions.py:544`), or a void frees the prize of a ball that
  was caught since it was read (`:498`).
- `PrizeIsThere` for a ball that is not in `checked`: the gate is there lest a player
  "pay, physically win, and get nothing" (`win_transitions.py:80-90`), and
  `pi_client.py:454-455` calls that branch unreachable; but an operator who binds a
  ball, creates one without a prize or sets packs out of stock after the gate is not
  seen before the ball falls.  `sim/tests/test_unclaimable_prize.py` knows of the race
  and tests that the lost prize is not announced as a win.
- A ball or single card that was won is bound again, as the bind request's docstring
  says it may be (`admin/router.py:102-106`), and passes the gate, but `Win.ball_id` and
  `Win.prize_card_id` are unique (`models.py:365`, `:373`): the next win of it cannot be
  recorded (`CanReserve`, `ReserveFails`).
- A card that a booster reveals may be bound to a ball by itself, and is then taken
  from its winner when the booster is opened (`RevealedApart` is the operator's).

Money:

- `NotWrittenOff`: a charge whose answer does not come is written off
  as FAILED, and the webhook that says it succeeded is then ignored
  (`events_payments.py:104-107` against the safety net of `stripe_rail.py:10-13`).
  Nothing else fails a charge that succeeded (`OnlyUnheardWrittenOff`).
- `OneEntryForThePatient` without the ghost: two calls of one player both pass
  `already_in_queue` (`payments.py:25-33`).
- `PayoutIsDebited`: a transfer whose receipt the
  server does not see is sent again (`helpers.py:192`, `events_queue.py:103-107`);
  more is sent than was debited.  A crash between debit and payout leaves the debit
  (`events_queue.py:130`).

## Proofs

TLAPS proves, for all values of the constants that satisfy the modules'
assumptions:

**ChuteProofs.**  `TypeCorrect` and `ChuteSafe` from one inductive invariant,
`ChuteIInv`: types and the three facts about gate, latch and serial depend on
each other, because a verdict is well typed only if a clearing chute knows its
serial.  `WindowsExact` ties
the wrapped comparison to the ghost `left`: `deadline` is `now + left` modulo `Wrap`,
and `left` stays within half of it
because the loop is called often enough.  `EnrolmentFresh`: the enrolment drains
the pending tag.  `ChuteImplementsContract`: Init maps to the contract's Init and
every action to one of its actions or a stutter.

**InventoryProofs.**  `TypeCorrect` and `NoPhantom` hold without conditions.
`PrizesHeld` (`HeldForPending`) and `GateSuffices` (`PrizeIsThere`) have one premise,
`RevealedApart`: a card a booster reveals is not bound by itself, which the code leaves
to the operator.  The operator may work in the middle of turns, requests may overlap
and what was won may be bound again.  The
inductive invariant `IInv` holds what follows until something is committed on a read
that no longer held (`stale`): balls point to different prizes and a loaded ball's is in
the pool (`BallsApart`); what the operator, the turn and each session read still holds
(`OpCurrent`, `TurnOwnsPrize`, `RequestsCurrent`); a card is won once
(`WinsApart`); and revealed cards wait in the pool (`RevealedWait`).  Without
`RequestsCurrent` a request could settle a settled win; without `RevealedWait` opening a
booster could take a card from its owner.  `GateSuffices` adds that the checked balls
are as the gate saw them, and that the ball which falls still names its prize (`Gated`).

**PaymentsProofs.**  `TypeCorrect`, `OnePlay`, `Paid`, `OneRef`
(`OnePlayPerRef`) and `OneEntry`, for any number of calls, players, transfers, spellings
of their hashes and restarts, without conditions.  The
inductive invariant `IInv` adds that a call has a row only once it was committed
and that only a card's is PENDING (`Placed`), that Stripe's answers and events
tell the truth (`Truthful`), that a crypto payment names its transfer
(`CryptoRefs`) and that no two rows name the same (`RefsApart`).  Every step
that settles a row changes a PENDING one or none (`SettledOrSame`), whichever of
the answer, the webhook and the write-off it is.  For `OneEntry`
(`OneEntryForThePatient`) the invariant `Alone` counts, for each player who never
called while a payment of his was open, the calls that may still queue a play
(`Due`) together with the unplayed entries (`Waiting`): there is one of them at most.
`OneEntryForThePatient` alone is not inductive, for a pending charge is an entry to
come.  `SettledForGood` (`SettlementsStand`) is an action property: a settled payment
stays as it is, whichever of answer, write-off and webhook comes second.
`HeardChargesStand` (`OnlyUnheardWrittenOff`) is the part of `NotWrittenOff` that is
true: a payment that FAILED although its charge succeeded is one whose answer never
came.  Its invariant says that a refusal which is heard, as an answer or an event, is
what became of the charge (`RefusalsTrue`), and that a FAILED row was either refused or
written off by its own call (`FailedTruly`).

**WithdrawalsProofs.**  `TypeCorrect`, `CreditsCoverDebits` (`Covered`), `DebitsArePayouts`
(`DebitIsPayout`) and `HeardPayoutsAreDebited`, for any number of wins, withdrawals,
attempts and restarts, without conditions.  The debits are summed as the number of
units debited (`Debited`), so that the sum is a cardinality and needs no induction;
that it is finite takes finitely many calls and wins (`WithdrawalsAssumption`).
`CallsOwn` says what a call has debited and sent by where it is, and that it holds
the user's row exactly while it computes.  `TotalCovered` is what makes `Covered`
inductive: the balance that a call has read may be out of date, but only too low,
because while it holds the row there are credits and reversals and no other debit.
`HeardPayoutsAreDebited` is the part of `PayoutIsDebited` (see the disagreements) that
is true: only a transfer that its withdrawal did not hear of is paid twice.

**FifoProofs.**  `TypeCorrect` and `QueueImplemented`, for every size of the buffer
and width of an index, with the interrupt and the parser on cores of their own.  The
types hold whatever happens: also after a collision the interrupt writes inside the
buffer.  The invariant for the queue holds until the first collision and says which
entries the slots between the indices hold (`Held`), what each side is about to do to
`mRead` (`Pushing`, `Popping`), and that a push which drops an entry meets no pop
(`Apart`), which is what a collision breaks.

**TagReaderProofs.**  `TypeCorrect`, `ParserInStep` and `SecondTelegram`, for all
tags, lengths within the tolerance, counters, and any number of disturbances.
`ParserInStep` says that after one whole telegram the parser takes no part of one for
a header, and that what it hands over is the tag in the field (`OnlyTheTag`).  The
invariant adds to the types that nothing is left of a telegram between two
(`Fresh`), what `whole`, `unhurt` and `heard` say of each other (`Counted`), and
`Synced`: while the header of an unhurt telegram is sent, a parser that is still
reading something else takes one of the ten zeros for a control bit and gives up,
and one that is in step counts them (`InHeader`); after it, the parser either reads
along, at the bit that is being sent and with the bits before it as data, or waits
for the next header, for no ten zeros are between two control bits (`InBody`).
`NothingInventedUndisturbed`: as long as nothing was disturbed, nothing is invented,
whatever is on the tags and wherever in its telegram the first ball wakes up.  Its
invariant, `FirstBall`, covers the piece that comes before the first whole telegram:
the parser searches throughout, for it counts fewer than ten zeros there, also when
halves of two neighbouring bits are paired.  From the first whole telegram on it reads
along.

**TurnCoordinatorProofs.**  `TypeCorrect` and `QueueOrder` (`FirstComeFirstServed`)
without conditions, for any number of turns, players and `turn_end` tasks, and
whatever is lost, forced or restarted.  The types need `Named`: what is about to be
started is a turn.  The other four have premises, each no stronger than those below it:

| Theorem | Property | Premise | What it allows |
|---|---|---|---|
| `OneTurn` | `OneTurnAtATime` | `Exclusive` | short turns, and either forced ends at any time and no losses, or forced ends of stuck turns, lost connections and restarts between turns |
| `GateHolds` | `NoStartWhileFaulted` | `Orderly` | short turns, forced ends of stuck turns, lost connections, restarts between turns |
| `PauseHolds` | `StaysPaused` | `Orderly` | the same |
| `CoordinatorImplementsContract` | `ImplementsContract` | `Lossless` | as `Orderly`, but no connection is lost |

Short turns are shorter than the scheduler's 33 s (`TurnsAreShort`): no theorem but
`TypeCorrect` and `QueueOrder` speaks of longer ones, and `coordinator_late` shows why.
TLC finds each of the four violated when its premise is given up: by turns that are not
short alone, by a restart in the middle of a turn alone, and `OneTurnAtATime` by a hasty
end and a lost connection together.
The other three say themselves how far they go without hasty ends and losses.
The disagreements above say how they fail.  That a ball is credited to the turn that
caught it (`WinToItsTurn`) is no theorem of its own: it is part of the contract and has
its premise.

The proofs are built on one another.  `TurnExclusion` is the invariant for `OneTurn`:
`_turn_lock` is held by the one task at work (`LockKept`); when the scheduler's 33 s are
over nothing of the turn before is left (`Rests`), and only then does it start one
(`SchedAlone`); which entry may be active follows from where the scheduler and the
holder of the lock are (`OneActive`, `HolderKnows`); without losses a current turn is on
its way somewhere (`Flow`).  `GateInv` adds that on the lines and in the Pi there is one
turn at a time, also when messages get lost (`OneOnWay`); that nothing which could set
a fault is in work from the moment the gate was asked (`OpenOnNoFault`, `TurnDone`); and
that a window for a verdict is closed by the answer to its own turn (`VerdictIn`).
`KeyInv` follows the key of the next verdict (`Key`), which is the current turn until
`turn_end()` runs and `awaiting_verdict_key` afterwards: the Pi plays the turn it names
(`KeysMatch`).  For `PauseHolds`, `EndsKnown` says which turn a `turn_end` task reports the end of, so
that its window cannot time out before the verdict, and `PauseInv` keeps a status that
answers a clear ahead of the turn's own messages on either line: when a verdict reports
a jam, the only status still to come is a greeting.

For `CoordinatorImplementsContract` the refinement mapping is the status of the
entries and the history variable `credited`; every step of a task, message or timeout
is a step of the contract or a stutter.  Two of its obligations follow from no
invariant above: that whoever is about to be started is still queued (`PicksWait`),
although he was picked before an await, and that a verdict which may still come is of
the latest turn, whose win is not credited yet (`Uncredited`).  `ContractKeepsOrder`
proves of the contract itself what it is for (`InOrder`): whoever plays, everybody
before him has played, and every credited win is of a turn that was started, and its
own.

**CabinetProofs.**  `TypeCorrect`, `QueueStaysShort` (`BacklogBounded`) and
`MirrorNeverLatched` (`NeverRefused`), for both turn machines, and `OwnVerdict`
(`VerdictIsThisTurns`), for the one that drains its queue until the chute restarts, as
the property says; no theorem has a premise.  For `OwnVerdict` the invariant says that of the arms on the line, running and answered there is at most one
of a drop test and one of the turn, in this order (`InTurn`), which messages answer an
arm (`Marked`), and that whatever reached the queue since the turn machine emptied it
is the turn's own (`OwnAnswer`).  For `QueueStaysShort` every answer is accounted for
(`Paid`): one for each start of the chute's board, one for the turn that waits and one
for the drop test that waits; a drop test is not armed behind a turn (`Ordered`), and
the ceiling of the turn and of the test is long enough for the arm to have been
answered.  The backlog counts messages by the cardinality of
their places on a line (`Count`), and a few lemmas (`CountPut` and the like) say how it
changes when one is put on a line or taken off it, so that no induction is needed.
`MirrorNeverLatched` says that the Pi's mirror of the latch is never set, whatever jams,
restarts or is lost: no answer of the deployed firmware sets it.  `TurnCoordinator`
relies on this where its Pi starts every turn that reaches it idle and reports a clear
chute.

Only model-checked: every liveness property - `TurnsResolve`, `TurnIsOver`,
`QueueMoves`, `DecidedIsSettled`, `WithdrawalsEnd` and those of the chute - for TLAPS
proves nothing about `ENABLED` and so nothing under fairness.

## Not modelled

Central's enrolment slot and protocol versions are planned.  Amounts, shipments,
videos, card types and commitment batches are data no property here tells
apart.  Front ends, proxy, video, migrations, the update and bench firmware are
presentation, configuration or code that runs before or instead of the machine.
`listeners.py`, `round_end_scheduler` and `run_auto_resell_expired` are started by
nothing.

`esp/.pio/libdeps` holds three copies of ArduinoJson, a general-purpose library
whose sources are by far the largest part of the C++ in the repository; the
firmware uses it to format and parse single lines, which here are records.  It is
not part of the system's logic and is not modelled.  Of the project's own
firmware, `fsm.cpp`, `sensors.cpp`, `protocol.cpp`, `Fifo.cpp`, `Decoder.cpp`,
`Parser.cpp` and the parser task are; most of the rest of the models is of Python.

## Plan

Done: chute, contract, ring buffer, tag reader, cabinet, coordinator, inventory,
payments, withdrawals, the contract of a turn, and the proofs above.  What is left, in
this order:

1. The enrolment slot and the protocol versions, as parts of the coordinator: both
   are causes of a pause and of messages that its model abstracts.
2. Inventory's turn and the entries of Payments as refinements of `TurnContract`,
   which the coordinator implements: the three would then be composed by it.
3. `NothingInvented` with disturbances as a theorem, from an assumption on the tags
   (no window of a telegram or of two passes the control bits and the checksum).
4. What central still promises of turns that are longer than the scheduler's 33 s.
