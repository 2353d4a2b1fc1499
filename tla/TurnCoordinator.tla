-------------------------- MODULE TurnCoordinator --------------------------
(***************************************************************************)
(* The turn coordinator of the central server: the handlers of the Pi's    *)
(* messages (pi_client.py), the turn scheduler (schedulers.py), the gate   *)
(* "is the machine fit to play" (machine.py) and the operator's overrides  *)
(* (admin/router.py), over the queue table and the Pi's turn machine.      *)
(*                                                                         *)
(* turn_end, a verdict and the scheduler are asyncio tasks: one action is  *)
(* what a task does between two awaits.  Every turn_end is a task of its   *)
(* own; only these take _turn_lock, and each holds it until it is done.  A *)
(* turn is a paid entry of the queue; current_player and current_key are   *)
(* always set together, and so are the two awaiting_verdict_ variables.    *)
(***************************************************************************)
EXTENDS ChuteProtocol, FiniteSets

CONSTANTS MaxTurns,       \* bound: entries that are ever queued
          Players, PlayerOf(_),
          Enders,         \* identities of concurrent turn_end tasks
          TurnsAreShort,  \* TRUE: play, verdict and settling last less than the 33 s
                          \* after which the scheduler takes over
          MaxHasty,       \* bound: ends the operator forces of a turn that is not stuck
          MaxDrops,       \* bound: losses of the connection to the Pi
          MaxCrashes,     \* bound: restarts of the server
          MaxTroubles,    \* bound: all of these together
          CrashesMidTurn, \* FALSE: it is only restarted between two turns
          MaxLine         \* bound: messages in flight in each direction

Turns == 1 .. MaxTurns

ASSUME CoordinatorAssumption ==
    /\ MaxTurns \in Nat \ {0} /\ MaxLine \in Nat \ {0}
    /\ MaxDrops \in Nat /\ MaxCrashes \in Nat /\ MaxHasty \in Nat /\ MaxTroubles \in Nat
    /\ TurnsAreShort \in BOOLEAN /\ CrashesMidTurn \in BOOLEAN
    /\ \A n \in Turns : PlayerOf(n) \in Players
    /\ Null \notin Turns /\ Null \notin Enders /\ Null \notin {"internal_error", "verdict_timeout"}
    /\ Null \notin [key : Turns, outcome : Outcomes, of : Turns]

VARIABLES
    entries,       \* the queue table: status of each entry
    current,       \* current_key, or Null
    awaiting,      \* awaiting_verdict_key, or Null
    verdictReady,  \* _verdict_ready
    fault,         \* cabinet_fault's kind or reason, or Null
    rested,        \* 33 s have passed since last_start
    fit,           \* no inventory fault
    lock,          \* the task that holds _turn_lock, or Null
    ender,         \* where each turn_end task is, the turn it deals with, and (ghost)
                   \* the turn of which the Pi reported the end, or Null
    sched,         \* where the scheduler is, and the entries it read
    verdictTask,   \* the on_chute_verdict task that credits a win, or Null
    con,           \* pi_connected
    toPi, toCentral,
    piState, piTurn, jammed,   \* the Pi's turn machine and the chute's latch
    credited,      \* ghost: the turn whose ball a turn's win was
    told,          \* ghost: a verdict reported a jam; no operator cleared it and no
                   \* greeting, no restart made central forget it since
    drops, crashes, hasty

queueVars == <<entries, current, rested>>
turnVars  == <<awaiting, verdictReady, lock, ender, verdictTask>>
faultVars == <<fault, fit, told>>
lineVars  == <<con, toPi, toCentral>>
piVars    == <<piState, piTurn, jammed>>
bounds    == <<drops, crashes, hasty>>
vars == <<queueVars, turnVars, faultVars, sched, lineVars, piVars, credited, bounds>>

Status == {"absent", "queued", "active", "played"}
EnderAt == {"idle", "lock", "close", "emit", "waiting", "released",
            "settle", "fit", "pick", "claim", "announce"}
SchedAt == {"boot", "top", "fit", "active", "oldest", "commit", "gap", "announce"}
MaybeTurn == Turns \cup {Null}
FaultKinds == Faults \cup {"internal_error", "verdict_timeout"}

(* The turn a message is "of", which the Pi plays, and the mark of the      *)
(* status sent on a connection are ghosts: no message says so.             *)
TurnStart(n)  == [type |-> "turn_start", turn |-> n]
FaultClear    == [type |-> "fault_clear", turn |-> Null]
TurnEnded(n)  == [type |-> "turn_end", of |-> n, outcome |-> Null]
Outcome(o, n) == [type |-> "verdict", of |-> n, outcome |-> o]
PiFault(k, n) == [type |-> "fault", of |-> n, outcome |-> k]
EspStatus     == [type |-> "esp_status", of |-> Null, outcome |-> Null]
Greeting      == [type |-> "esp_status", of |-> Null, outcome |-> "greeting"]

ToPi == {TurnStart(n) : n \in Turns} \cup {FaultClear}
ToCentral == {Outcome(o, n) : o \in Outcomes, n \in Turns}
               \cup {PiFault(k, n) : k \in {"internal_error", "still_blocked"}, n \in Turns}
               \cup {TurnEnded(n) : n \in Turns} \cup {EspStatus, Greeting}

NoEnder == [at |-> "idle", turn |-> Null, of |-> Null]

TypeOK ==
    /\ entries \in [Turns -> Status]
    /\ current \in MaybeTurn /\ awaiting \in MaybeTurn
    /\ verdictReady \in BOOLEAN /\ rested \in BOOLEAN /\ fit \in BOOLEAN
    /\ fault \in FaultKinds \cup {Null}
    /\ lock \in Enders \cup {Null}
    /\ ender \in [Enders -> [at : EnderAt, turn : MaybeTurn, of : MaybeTurn]]
    /\ sched \in [at : SchedAt, old : MaybeTurn, new : MaybeTurn]
    /\ verdictTask \in [key : Turns, outcome : Outcomes, of : Turns] \cup {Null}
    /\ con \in {"up", "down"}
    /\ toPi \in Seq(ToPi) /\ toCentral \in Seq(ToCentral)
    /\ piState \in {"IDLE", "PLAYING", "AWAITING"} /\ piTurn \in MaybeTurn
    /\ jammed \in BOOLEAN /\ told \in BOOLEAN
    /\ credited \in [Turns -> MaybeTurn]
    /\ drops \in 0 .. MaxDrops /\ crashes \in 0 .. MaxCrashes /\ hasty \in 0 .. MaxHasty

Init ==
    /\ entries = [n \in Turns |-> "absent"]
    /\ current = Null /\ awaiting = Null /\ verdictReady = FALSE
    /\ fault = Null /\ rested = TRUE /\ fit = TRUE /\ lock = Null
    /\ ender = [e \in Enders |-> NoEnder]
    /\ sched = [at |-> "boot", old |-> Null, new |-> Null]
    /\ verdictTask = Null
    /\ con = "up" /\ toPi = <<>> /\ toCentral = <<Greeting>>
    /\ piState = "IDLE" /\ piTurn = Null /\ jammed = FALSE
    /\ credited = [n \in Turns |-> Null] /\ told = FALSE
    /\ drops = 0 /\ crashes = 0 /\ hasty = 0

(***************************************************************************)
(* Helpers.                                                                *)
(***************************************************************************)
(* safe_pi_emit: dropped when the Pi is not connected.                     *)
SendPi(m) ==
    IF con = "up" THEN Len(toPi) < MaxLine /\ toPi' = Append(toPi, m)
                  ELSE UNCHANGED toPi
SendCentral(m) ==
    IF con = "up" THEN Len(toCentral) < MaxLine /\ toCentral' = Append(toCentral, m)
                  ELSE UNCHANGED toCentral
Receive(type) ==
    /\ toCentral # <<>> /\ Head(toCentral).type = type
    /\ toCentral' = Tail(toCentral)

InStatus(s) == {n \in Turns : entries[n] = s}

(* The query for the active entry of the player whose turn it is.          *)
ActiveOf(turn) ==
    IF turn = Null THEN {}
    ELSE {n \in InStatus("active") : PlayerOf(n) = PlayerOf(turn)}
OneOf(set) == IF set = {} THEN {Null} ELSE set

Newest == IF InStatus("queued") = {} THEN Null   \* mutant: the order is reversed
          ELSE CHOOSE n \in InStatus("queued") : \A k \in InStatus("queued") : n >= k
Oldest == IF InStatus("queued") = {} THEN Null
          ELSE CHOOSE n \in InStatus("queued") : \A k \in InStatus("queued") : n <= k

At(e, place) == ender[e].at = place
Goto(e, place) == ender' = [ender EXCEPT ![e].at = place] /\ UNCHANGED lock
Finish(e) == ender' = [ender EXCEPT ![e] = NoEnder] /\ lock' = Null

(* A loss, a restart or a hasty end more is within the bound.              *)
OneMore == drops + crashes + hasty < MaxTroubles

(***************************************************************************)
(* turn_end().                                                             *)
(***************************************************************************)
(* Nothing of a turn is left in work but its entry.                        *)
TurnOver ==
    /\ piState = "IDLE" /\ toPi = <<>> /\ toCentral = <<>> /\ verdictTask = Null
    /\ sched.at = "top" /\ \A e \in Enders : At(e, "idle")

Remember == current

(* The turn whose verdict will come is remembered, the lock is taken or    *)
(* waited for.                                                             *)
BeginTurnEnd(e, n) ==
    /\ At(e, "idle")
    /\ awaiting' = Remember
    /\ verdictReady' = FALSE
    /\ IF lock = Null
       THEN /\ lock' = e
            /\ ender' = [ender EXCEPT ![e] = [at |-> "close", turn |-> current, of |-> n]]
       ELSE /\ ender' = [ender EXCEPT ![e] = [at |-> "lock", turn |-> Null, of |-> n]]
            /\ UNCHANGED lock
    /\ UNCHANGED <<queueVars, verdictTask, faultVars, sched, con, toPi, piVars, credited, drops, crashes>>

PiTurnEnd(e) ==
    /\ Receive("turn_end")
    /\ BeginTurnEnd(e, Head(toCentral).of)
    /\ UNCHANGED hasty

(* The operator forces the end of a turn that is stuck, its turn_start or  *)
(* turn_end having been lost, or of any other.                             *)
ForceTurnEnd(e) ==
    /\ current # Null
    /\ \/ ~ rested /\ TurnOver /\ UNCHANGED hasty
       \/ hasty < MaxHasty /\ OneMore /\ hasty' = hasty + 1
    /\ BeginTurnEnd(e, Null)
    /\ UNCHANGED toCentral

TakeLock(e) ==
    /\ At(e, "lock") /\ lock = Null
    /\ lock' = e
    /\ ender' = [ender EXCEPT ![e].at = "close", ![e].turn = current]
    /\ UNCHANGED <<queueVars, awaiting, verdictReady, verdictTask, faultVars, sched, lineVars,
                   piVars, credited, bounds>>

ClosedNot(n) == entries                          \* mutant: the entry stays active
Closed(n) == IF n = Null THEN entries ELSE [entries EXCEPT ![n] = "played"]

(* The query and the commit are one action: a turn_end that has the lock   *)
(* can only lose to another writer that closes the same entry.             *)
CloseEntry(e) ==
    /\ At(e, "close")
    /\ \E n \in OneOf(ActiveOf(ender[e].turn)) : entries' = Closed(n)
    /\ Goto(e, "emit")
    /\ UNCHANGED <<current, rested, awaiting, verdictReady, verdictTask, faultVars, sched,
                   lineVars, piVars, credited, bounds>>

OpenWindow(e) ==
    /\ At(e, "emit")
    /\ Goto(e, IF verdictReady THEN "released" ELSE "waiting")
    /\ UNCHANGED <<queueVars, awaiting, verdictReady, verdictTask, faultVars, sched,
                   lineVars, piVars, credited, bounds>>

(* 20 s are longer than the Pi's 15: by then it has answered for the turn  *)
(* whose end it reported.  An end that the operator forced is not the Pi's.*)
AnswerToCome(n) ==
    \/ piState = "AWAITING" /\ piTurn = n
    \/ verdictTask # Null /\ verdictTask.of = n
    \/ \E i \in 1 .. Len(toCentral) :
          toCentral[i].type \in {"verdict", "fault"} /\ toCentral[i].of = n
PiIsSilent(e) == ~ AnswerToCome(ender[e].of)

(* No verdict: the queue is paused, whatever else happened.                *)
WindowTimesOut(e) ==
    /\ At(e, "waiting") /\ PiIsSilent(e)
    /\ fault' = IF fault = Null THEN "verdict_timeout" ELSE fault
    /\ current' = Null
    /\ Finish(e)
    /\ UNCHANGED <<entries, rested, awaiting, verdictReady, verdictTask, fit, told, sched,
                   lineVars, piVars, credited, bounds>>

WindowClosesUngated(e) ==                        \* mutant: the gate is not asked
    /\ At(e, "released")
    /\ current' = Null
    /\ Goto(e, "pick")
    /\ UNCHANGED <<entries, rested, awaiting, verdictReady, verdictTask, faultVars, sched,
                   lineVars, piVars, credited, bounds>>
WindowCloses(e) ==
    /\ At(e, "released")
    /\ current' = Null
    /\ IF fault # Null THEN Finish(e) ELSE Goto(e, "settle")
    /\ UNCHANGED <<entries, rested, awaiting, verdictReady, verdictTask, faultVars, sched,
                   lineVars, piVars, credited, bounds>>

(* _start_next_turn(): machine.blocked() looks at the cabinet's fault, and *)
(* then at the inventory after a query.                                    *)
CheckFault(e) ==
    /\ At(e, "settle")
    /\ IF fault # Null THEN Finish(e) ELSE Goto(e, "fit")
    /\ UNCHANGED <<queueVars, awaiting, verdictReady, verdictTask, faultVars, sched,
                   lineVars, piVars, credited, bounds>>

CheckFit(e) ==
    /\ At(e, "fit")
    /\ IF fit THEN Goto(e, "pick") ELSE Finish(e)
    /\ UNCHANGED <<queueVars, awaiting, verdictReady, verdictTask, faultVars, sched,
                   lineVars, piVars, credited, bounds>>

Pick(e) ==
    /\ At(e, "pick")
    /\ IF Oldest = Null
       THEN Finish(e)
       ELSE ender' = [ender EXCEPT ![e].at = "claim", ![e].turn = Oldest] /\ UNCHANGED lock
    /\ UNCHANGED <<queueVars, awaiting, verdictReady, verdictTask, faultVars, sched,
                   lineVars, piVars, credited, bounds>>

Claim(e) ==
    /\ At(e, "claim")
    /\ entries' = [entries EXCEPT ![ender[e].turn] = "active"]
    /\ current' = ender[e].turn
    /\ rested' = FALSE
    /\ Goto(e, "announce")
    /\ UNCHANGED <<awaiting, verdictReady, verdictTask, faultVars, sched, lineVars, piVars,
                   credited, bounds>>

Announce(e) ==
    /\ At(e, "announce")
    /\ SendPi(TurnStart(ender[e].turn))
    /\ Finish(e)
    /\ UNCHANGED <<queueVars, awaiting, verdictReady, verdictTask, faultVars, sched, con,
                   toCentral, piVars, credited, bounds>>

TurnEnd(e) ==
    \/ TakeLock(e) \/ CloseEntry(e) \/ OpenWindow(e) \/ WindowCloses(e)
    \/ CheckFault(e) \/ CheckFit(e) \/ Pick(e) \/ Claim(e) \/ Announce(e)

(***************************************************************************)
(* The other messages of the Pi.                                           *)
(***************************************************************************)
Release == [e \in Enders |->
               IF At(e, "waiting") THEN [ender[e] EXCEPT !.at = "released"] ELSE ender[e]]

OnVerdictReleases ==                             \* mutant: the event is set before the win
    /\ Receive("verdict") /\ verdictTask = Null   \* has been recorded
    /\ awaiting' = Null
    /\ verdictReady' = TRUE /\ ender' = Release
    /\ LET m == Head(toCentral) IN
       IF awaiting = Null
       THEN UNCHANGED verdictTask
       ELSE verdictTask' = [key |-> awaiting, outcome |-> m.outcome, of |-> m.of]
    /\ UNCHANGED <<queueVars, lock, faultVars, sched, con, toPi, piVars, credited, bounds>>
(* on_chute_verdict(): the key of the turn is consumed at once.            *)
OnVerdict ==
    /\ Receive("verdict") /\ verdictTask = Null
    /\ awaiting' = Null
    /\ LET m == Head(toCentral) IN
       IF awaiting = Null
       THEN verdictReady' = TRUE /\ ender' = Release /\ UNCHANGED verdictTask
       ELSE /\ verdictTask' = [key |-> awaiting, outcome |-> m.outcome, of |-> m.of]
            /\ UNCHANGED <<verdictReady, ender>>
    /\ UNCHANGED <<queueVars, lock, faultVars, sched, con, toPi, piVars, credited, bounds>>

HealthyNoExit == {"no_fall", "ok", "no_exit"}    \* mutant: a row of the table is wrong
(* _VERDICT_TABLE and _VERDICT_FAULT.                                      *)
Healthy == {"no_fall", "ok"}
Won     == {"no_exit", "ok"}
VerdictFaultAsIs(outcome) == outcome             \* mutant: the outcome is taken for a kind
VerdictFault(outcome) == IF outcome = "no_read" THEN "rfid_failed" ELSE "exit_timeout"

VerdictHandled ==
    /\ verdictTask # Null /\ verdictTask' = Null
    /\ LET v == verdictTask IN
       /\ credited' = IF v.outcome \in Won THEN [credited EXCEPT ![v.key] = v.of] ELSE credited
       /\ fault' = IF v.outcome \in Healthy THEN fault ELSE VerdictFault(v.outcome)
       /\ told' = (told \/ v.outcome \in Jammed)
    /\ verdictReady' = TRUE
    /\ ender' = Release
    /\ UNCHANGED <<queueVars, awaiting, lock, fit, sched, lineVars, piVars, bounds>>

OnPiFault ==
    /\ Receive("fault")
    /\ fault' = IF Head(toCentral).outcome = "still_blocked" THEN fault ELSE "internal_error"
    /\ UNCHANGED <<queueVars, turnVars, fit, told, sched, con, toPi, piVars, credited, bounds>>

(* on_esp_status(): the mirror of the latch that the Pi reports, which is  *)
(* always null, replaces whatever central knew.                            *)
OnEspStatus ==
    /\ Receive("esp_status")
    /\ fault' = Null
    /\ told' = (told /\ Head(toCentral).outcome # "greeting")
    /\ UNCHANGED <<queueVars, turnVars, fit, sched, con, toPi, piVars, credited, bounds>>

(***************************************************************************)
(* The scheduler.                                                          *)
(***************************************************************************)
SchedStep == UNCHANGED <<turnVars, faultVars, con, toCentral, piVars, credited, bounds>>

(* Crash recovery: what an earlier run of the server left active is closed.*)
SchedBoot ==
    /\ sched.at = "boot"
    /\ entries' = [n \in Turns |-> IF entries[n] = "active" THEN "played" ELSE entries[n]]
    /\ sched' = [sched EXCEPT !.at = "top"]
    /\ UNCHANGED <<current, rested, toPi>> /\ SchedStep

SchedCheckFault ==
    /\ sched.at = "top" /\ fault = Null
    /\ sched' = [sched EXCEPT !.at = "fit"]
    /\ UNCHANGED <<queueVars, toPi>> /\ SchedStep

SchedRestsIfCurrent ==                           \* mutant: a started turn always ends
    /\ sched.at = "fit"
    /\ sched' = [sched EXCEPT !.at = IF fit /\ rested /\ current = Null THEN "active" ELSE "top"]
    /\ UNCHANGED <<queueVars, toPi>> /\ SchedStep
SchedCheckRest ==
    /\ sched.at = "fit"
    /\ sched' = [sched EXCEPT !.at = IF fit /\ rested THEN "active" ELSE "top"]
    /\ UNCHANGED <<queueVars, toPi>> /\ SchedStep

(* One transaction: two queries, then a commit that does not look whether  *)
(* another task has changed the two rows since.                            *)
SchedActive ==
    /\ sched.at = "active"
    /\ \E old \in OneOf(ActiveOf(current)) :
          sched' = [at |-> "oldest", old |-> old, new |-> Null]
    /\ UNCHANGED <<queueVars, toPi>> /\ SchedStep

SchedOldest ==
    /\ sched.at = "oldest"
    /\ sched' = [sched EXCEPT !.at = "commit", !.new = Oldest]
    /\ UNCHANGED <<queueVars, toPi>> /\ SchedStep

SchedCommit ==
    /\ sched.at = "commit"
    /\ entries' = [n \in Turns |-> IF n = sched.new THEN "active"
                                   ELSE IF n = sched.old THEN "played" ELSE entries[n]]
    /\ IF sched.new = Null
       THEN /\ current' = Null
            /\ sched' = [at |-> "top", old |-> Null, new |-> Null]
       ELSE /\ UNCHANGED current
            /\ sched' = [sched EXCEPT !.at = "gap", !.old = Null]
    /\ UNCHANGED <<rested, toPi>> /\ SchedStep

SchedStart ==
    /\ sched.at = "gap"
    /\ current' = sched.new
    /\ rested' = FALSE
    /\ sched' = [sched EXCEPT !.at = "announce"]
    /\ UNCHANGED <<entries, toPi>> /\ SchedStep

SchedAnnounce ==
    /\ sched.at = "announce"
    /\ SendPi(TurnStart(sched.new))
    /\ sched' = [at |-> "top", old |-> Null, new |-> Null]
    /\ UNCHANGED queueVars /\ SchedStep

Scheduler == SchedBoot \/ SchedCheckFault \/ SchedCheckRest \/ SchedActive \/ SchedOldest
               \/ SchedCommit \/ SchedStart \/ SchedAnnounce

(***************************************************************************)
(* Players, operator, time, connection, restarts.                          *)
(***************************************************************************)
(* A paid entry is queued (confirm_payment); a player has at most one that *)
(* is not yet played (already_in_queue).                                   *)
Join(n) ==
    /\ entries[n] = "absent" /\ \A k \in 1 .. (n - 1) : entries[k] # "absent"
    /\ \A k \in InStatus("queued") \cup InStatus("active") : PlayerOf(k) # PlayerOf(n)
    /\ entries' = [entries EXCEPT ![n] = "queued"]
    /\ UNCHANGED <<current, rested, turnVars, faultVars, sched, lineVars, piVars, credited, bounds>>

ClearFault ==
    /\ con = "up" /\ fault # Null
    /\ SendPi(FaultClear)
    /\ fault' = Null /\ told' = FALSE
    /\ UNCHANGED <<queueVars, turnVars, fit, sched, con, toCentral, piVars, credited, bounds>>

FitChanges ==
    /\ fit' = ~fit
    /\ UNCHANGED <<queueVars, turnVars, fault, told, sched, lineVars, piVars, credited, bounds>>

(* 33 s, in which any message has arrived.  Nothing limits play (_await_opto*)
(* has no timeout): that turns are short is up to the players.             *)
TimePasses ==
    /\ ~rested /\ rested' = TRUE
    /\ toPi = <<>> /\ toCentral = <<>>
    /\ TurnsAreShort => TurnOver
    /\ UNCHANGED <<entries, current, turnVars, faultVars, sched, lineVars, piVars, credited, bounds>>

(* Messages on their way are lost; the first few may have arrived.         *)
LinesLost ==
    /\ con' = "down"
    /\ toCentral' = <<>>
    /\ \E k \in 0 .. Len(toPi) : toPi' = SubSeq(toPi, 1, k)

Disconnect ==
    /\ con = "up" /\ drops < MaxDrops /\ OneMore
    /\ drops' = drops + 1
    /\ LinesLost
    /\ UNCHANGED <<queueVars, turnVars, faultVars, sched, piVars, credited, crashes, hasty>>

(* The Pi greets every connection with its esp_status.  A restarted server *)
(* has cleaned the queue up before its first connection.                   *)
Reconnect ==
    /\ con = "down" /\ sched.at # "boot"
    /\ con' = "up"
    /\ toCentral' = <<Greeting>>
    /\ UNCHANGED <<queueVars, turnVars, faultVars, sched, toPi, piVars, credited, bounds>>

(* Only the tables survive a restart of the server.                        *)
Crash ==
    /\ crashes < MaxCrashes /\ OneMore /\ crashes' = crashes + 1
    /\ CrashesMidTurn \/ TurnOver
    /\ LinesLost
    /\ current' = Null /\ awaiting' = Null /\ verdictReady' = FALSE
    /\ fault' = Null /\ rested' = TRUE /\ lock' = Null
    /\ ender' = [e \in Enders |-> NoEnder]
    /\ sched' = [at |-> "boot", old |-> Null, new |-> Null]
    /\ verdictTask' = Null /\ told' = FALSE
    /\ UNCHANGED <<entries, fit, piVars, credited, drops, hasty>>

(***************************************************************************)
(* The Pi, as central sees it: every turn gets the verdict of its own arm  *)
(* (module Cabinet shows when), and a verdict that jams the chute does not *)
(* make the Pi refuse the next turn_start.                                 *)
(***************************************************************************)
PiStep == UNCHANGED <<queueVars, turnVars, faultVars, sched, con, credited, bounds>>

PiStarts ==
    /\ piState = "IDLE" /\ toPi # <<>> /\ Head(toPi).type = "turn_start"
    /\ piState' = "PLAYING" /\ piTurn' = Head(toPi).turn
    /\ toPi' = Tail(toPi)
    /\ UNCHANGED <<jammed, toCentral>> /\ PiStep

PiClears ==
    /\ piState = "IDLE" /\ toPi # <<>> /\ Head(toPi).type = "fault_clear"
    /\ jammed' = FALSE
    /\ SendCentral(EspStatus)
    /\ toPi' = Tail(toPi)
    /\ UNCHANGED <<piState, piTurn>> /\ PiStep

PiDrops ==
    /\ piState = "PLAYING" /\ toPi # <<>>
    /\ toPi' = Tail(toPi)
    /\ UNCHANGED <<piVars, toCentral>> /\ PiStep

PiOpto ==
    /\ piState = "PLAYING" /\ piState' = "AWAITING"
    /\ SendCentral(TurnEnded(piTurn))
    /\ UNCHANGED <<piTurn, jammed, toPi>> /\ PiStep

PiAnswers ==
    /\ piState = "AWAITING" /\ piState' = "IDLE" /\ piTurn' = Null
    /\ \/ \E o \in Outcomes :
             ~jammed /\ jammed' = (o \in Jammed) /\ SendCentral(Outcome(o, piTurn))
       \/ jammed /\ UNCHANGED jammed /\ SendCentral(PiFault("still_blocked", piTurn))
       \/ UNCHANGED jammed /\ SendCentral(PiFault("internal_error", piTurn))
    /\ UNCHANGED toPi /\ PiStep

Pi == PiStarts \/ PiClears \/ PiDrops \/ PiOpto \/ PiAnswers

Handlers == OnVerdict \/ VerdictHandled \/ OnPiFault \/ OnEspStatus

Next ==
    \/ \E e \in Enders : PiTurnEnd(e) \/ ForceTurnEnd(e) \/ TurnEnd(e) \/ WindowTimesOut(e)
    \/ Handlers \/ Scheduler
    \/ \E n \in Turns : Join(n)
    \/ ClearFault \/ FitChanges \/ TimePasses \/ Disconnect \/ Reconnect \/ Crash
    \/ Pi

Spec == Init /\ [][Next]_vars

(* The event loop runs every task, time passes, a lost connection is       *)
(* retried, and a turn of the claw ends.                                   *)
FairSpec ==
    /\ Spec
    /\ \A e \in Enders : WF_vars(TurnEnd(e)) /\ WF_vars(WindowTimesOut(e)) /\ WF_vars(PiTurnEnd(e))
    /\ WF_vars(Handlers) /\ WF_vars(Scheduler) /\ SF_vars(TimePasses)
    /\ WF_vars(Reconnect) /\ WF_vars(Pi)

-----------------------------------------------------------------------------
(***************************************************************************)
(* Properties.                                                             *)
(***************************************************************************)
Contract == INSTANCE TurnContract

(* Queueing, the hand-over of the claw and the crediting of wins, taken    *)
(* together, are what TurnContract promises: in particular a turn's win is *)
(* credited at most once, and before the next turn starts, which the wait  *)
(* for _verdict_ready is for (pi_client.py:283-304).  That is so until a   *)
(* message is lost or the end of a turn that is not stuck is forced.       *)
ImplementsContract ==
    /\ Contract!Init
    /\ [][drops' = 0 /\ hasty' = 0 => Contract!Next]_(Contract!vars)

(* The claw is handed to one player at a time (pi_client.py:301-304).      *)
OneTurnAtATime == Cardinality(InStatus("active")) <= 1

(* A ball is credited to the turn that caught it, also when its verdict    *)
(* comes after the next turn has begun (state.py:17-24; the test           *)
(* test_verdict_attribution.py says the same).  Not when it is the         *)
(* scheduler that has begun it: the key that turn_end() remembers is then  *)
(* that of the next turn.                                                  *)
WinToItsTurn == \A n \in Turns : credited[n] \in {n, Null}

(* No turn is started on a cabinet known to be faulty (pi_client.py:262),  *)
(* as long as the operator forces no turn to end that is not stuck.        *)
NoStartWhileFaulted ==
    [][hasty' = 0 => \A n \in Turns : toPi' = Append(toPi, TurnStart(n)) => fault = Null]_vars

(* Once a verdict has reported a jam the queue stays paused until an       *)
(* operator clears it (machine.py:9-10), or the Pi greets a new connection *)
(* or the server is restarted: no status that answers an earlier clear and *)
(* no verdict that is still to come makes central forget it.               *)
StaysPaused == told /\ hasty = 0 => fault # Null

(* A queued player gets the machine unless it is unfit: also when the      *)
(* turn_start before it, or its end, was lost.                             *)
QueueMoves ==
    \A n \in Turns : entries[n] = "queued" ~> (entries[n] # "queued" \/ fault # Null \/ ~fit)

(* However turns are forced to end or overrun, nobody is overtaken in the  *)
(* queue, which turn_end tasks and the scheduler pick from concurrently.   *)
FirstComeFirstServed ==
    \A n \in Turns : entries[n] = "queued" =>
        \A k \in Turns : k > n => entries[k] \in {"absent", "queued"}
=============================================================================
