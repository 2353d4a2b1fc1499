------------------------------ MODULE Cabinet ------------------------------
(***************************************************************************)
(* The Raspberry Pi of the cabinet (raspberry/server): the serial link to  *)
(* the chute with its mirror of the latch (esp_link.py), the pump that     *)
(* hands the chute's messages to the turn state machine (main.py), the     *)
(* turn state machine (fsm.py), the operator's drop test and enrolment.    *)
(* The chute is its contract, ChuteContract.                               *)
(*                                                                         *)
(* asyncio tasks switch at an await that really waits, so one action is    *)
(* what a task does between two such awaits.  Messages carry, as ghost     *)
(* data, whose arm they answer: "this" for the newest arm of a turn, "old" *)
(* for an earlier turn's, "test" for a drop test's, "none" otherwise.      *)
(***************************************************************************)
EXTENDS ChuteProtocol, FiniteSets

CONSTANTS MaxIn, MaxOut,   \* bounds on the two directions of the serial link
          MaxMissed,       \* bound: restarts of the chute's board and enrolments, in
                           \* which the chute misses an arm
          MaxLinkDrops,    \* bound: times the serial port is lost
          MaxEvents        \* bound: length of the queue of claw and central events

ASSUME CabinetAssumption ==
    /\ MaxIn \in Nat \ {0} /\ MaxOut \in Nat \ {0}
    /\ MaxMissed \in Nat /\ MaxLinkDrops \in Nat /\ MaxEvents \in Nat \ {0}

VARIABLES
    phase, latch, fromPi, toPi,   \* the chute, see ChuteContract
    link,       \* EspLink.connected
    mirror,     \* EspLink.latched_fault
    espEvents,  \* EspLink._queue and esp_events: what the chute said, with its mark
    events,     \* the turn machine's other queue: claw edges and central's requests
    piState,    \* where the turn machine waits
    tester,     \* "waiting" while arm_and_wait has set _verdict_waiter
    lineOf, armOf, answerOf,      \* ghosts: marks of fromPi, of the running arm, of toPi
    forwarded,  \* ghost: whose verdict the newest turn was given
    drains,     \* whether the turn machine empties espEvents before it arms: TRUE in
                \* mock/raspberry/fsm.py, FALSE in raspberry/server/fsm.py
    restarts, enrolls, linkDrops  \* counters for the bounds

chuteVars == <<phase, latch, fromPi, toPi, lineOf, armOf, answerOf>>
linkVars  == <<link, mirror, linkDrops>>
turnVars  == <<espEvents, events, piState, forwarded, drains>>
vars == <<chuteVars, linkVars, turnVars, tester, restarts, enrolls>>

Esp == INSTANCE ChuteContract

Marks  == {"this", "old", "test", "none"}
Events == {"turn_start", "fault_clear", "opto"}

TypeOK ==
    /\ Esp!ContractTypeOK
    /\ link \in {"up", "down"}
    /\ mirror \in Faults \cup {Null}
    /\ espEvents \in Seq([msg : Outbound, of : Marks])
    /\ events \in Seq(Events)
    /\ piState \in {"IDLE", "PULSE", "PLAYING", "ARMING", "AWAITING"}
    /\ tester \in {"none", "waiting"}
    /\ lineOf \in Seq(Marks) /\ Len(lineOf) = Len(fromPi)
    /\ answerOf \in Seq(Marks) /\ Len(answerOf) = Len(toPi)
    /\ armOf \in Marks
    /\ forwarded \in Marks /\ drains \in BOOLEAN
    /\ restarts \in 0 .. MaxMissed /\ enrolls \in 0 .. MaxMissed
    /\ linkDrops \in 0 .. MaxLinkDrops

(* Both boards have just been powered: the chute's announcement is on its  *)
(* way.                                                                    *)
Init ==
    /\ Esp!Init
    /\ lineOf = <<>> /\ armOf = "none" /\ answerOf = <<"none">>
    /\ link = "up" /\ mirror = Null /\ linkDrops = 0
    /\ espEvents = <<>> /\ events = <<>> /\ piState = "IDLE" /\ forwarded = "none"
    /\ tester = "none" /\ restarts = 0 /\ enrolls = 0
    /\ drains \in BOOLEAN

(***************************************************************************)
(* The chute.                                                              *)
(***************************************************************************)
ChuteTakesLine ==
    /\ \/ /\ Esp!AcceptArm
          /\ armOf' = Head(lineOf)
          /\ UNCHANGED answerOf
       \/ /\ Esp!RefuseArm
          /\ answerOf' = Append(answerOf, Head(lineOf))
          /\ UNCHANGED armOf
       \/ /\ Esp!StartEnroll \/ Esp!ClearLatch \/ Esp!IgnoreLine
          /\ UNCHANGED <<armOf, answerOf>>
    /\ lineOf' = Tail(lineOf)
    /\ UNCHANGED <<linkVars, turnVars, tester, restarts, enrolls>>

ChuteReports ==
    /\ \E o \in Outcomes, t \in Tags \cup {Null} : Esp!Report(o, t)
    /\ answerOf' = Append(answerOf, armOf)
    /\ armOf' = "none"
    /\ UNCHANGED <<lineOf, linkVars, turnVars, tester, restarts, enrolls>>

EnrollmentEnds ==
    /\ Esp!FinishEnroll(EnrollTimeout) \/ \E t \in Tags : Esp!FinishEnroll(TagScanned(t))
    /\ answerOf' = Append(answerOf, "none")
    /\ UNCHANGED <<lineOf, armOf, linkVars, turnVars, tester, restarts, enrolls>>

ChuteRestarts ==
    /\ restarts + enrolls < MaxMissed /\ restarts' = restarts + 1
    /\ Esp!Restart
    /\ lineOf' = <<>> /\ armOf' = "none" /\ answerOf' = Append(answerOf, "none")
    /\ UNCHANGED <<linkVars, turnVars, tester, enrolls>>

(***************************************************************************)
(* EspLink.                                                                *)
(***************************************************************************)
(* send(): the line is dropped when the port is closed.                    *)
Send(line, mark) ==
    IF link = "up"
    THEN Esp!PiWrites(line) /\ lineOf' = Append(lineOf, mark)
    ELSE UNCHANGED <<phase, latch, fromPi, toPi, lineOf>>

TakeLine == Esp!PiReads /\ answerOf' = Tail(answerOf)

MirrorOfOutcome(m) ==                            \* mutant: an outcome taken for a fault
    IF m.type = "ready" THEN m.fault
    ELSE IF m.type = "verdict" /\ m.outcome \in Jammed THEN m.outcome ELSE mirror
(* Only a boot and a fault that is not "still blocked" change the mirror.  *)
MirrorOf(m) ==
    IF m.type = "ready" THEN m.fault
    ELSE IF m.type = "fault" /\ m.reason # "still_blocked" THEN m.kind ELSE mirror

(* _read_loop(): the mirror, then the drop test if one waits for a verdict *)
(* or a fault, else the queue.  The pump sends an enrolment's result to    *)
(* central instead of the turn machine.                                    *)
ReadLine ==
    /\ link = "up"
    /\ TakeLine
    /\ LET m == Head(toPi)
           captured == tester = "waiting" /\ m.type \in {"verdict", "fault"}
       IN  /\ mirror' = MirrorOf(m)
           /\ tester' = IF captured THEN "none" ELSE tester
           /\ espEvents' = IF captured \/ m.type \in {"tag_scanned", "enroll_timeout"}
                           THEN espEvents
                           ELSE Append(espEvents, [msg |-> m, of |-> Head(answerOf)])
    /\ UNCHANGED <<lineOf, armOf, link, linkDrops, events, piState, forwarded,
                   restarts, enrolls, drains>>

(* The port is lost with whatever was in its buffers; what the chute       *)
(* writes until it is open again is lost too.                              *)
LinkDrops ==
    /\ link = "up" /\ linkDrops < MaxLinkDrops
    /\ link' = "down" /\ linkDrops' = linkDrops + 1
    /\ toPi' = <<>> /\ answerOf' = <<>>
    /\ UNCHANGED <<phase, latch, fromPi, lineOf, armOf, mirror, turnVars,
                   tester, restarts, enrolls>>

LineLost ==
    /\ link = "down"
    /\ TakeLine
    /\ UNCHANGED <<lineOf, armOf, linkVars, turnVars, tester, restarts, enrolls>>

LinkReturns ==
    /\ link = "down" /\ link' = "up"
    /\ UNCHANGED <<chuteVars, mirror, linkDrops, turnVars, tester, restarts, enrolls>>

(***************************************************************************)
(* main.py: central's requests, one at a time on its one connection (the   *)
(* drop test holds the connection until it is over), and the claw's opto.  *)
(***************************************************************************)
Put(ev) ==
    /\ Len(events) < MaxEvents
    /\ events' = Append(events, ev)
    /\ UNCHANGED <<chuteVars, linkVars, espEvents, piState, forwarded,
                   tester, restarts, enrolls, drains>>

CentralAsks == tester = "none" /\ (Put("turn_start") \/ Put("fault_clear"))

OptoEdge == Put("opto")

OnEnroll ==
    /\ restarts + enrolls < MaxMissed /\ enrolls' = enrolls + 1
    /\ tester = "none"
    /\ Send("enroll", "none")
    /\ UNCHANGED <<armOf, answerOf, linkVars, turnVars, tester, restarts>>

OnTestArm ==
    /\ tester = "none" /\ link = "up"
    /\ piState = "IDLE" /\ mirror = Null
    /\ Send("arm", "test")
    /\ tester' = "waiting"
    /\ UNCHANGED <<armOf, answerOf, linkVars, turnVars, restarts, enrolls>>

(* The ceilings of 15 s exceed the chute's 3 + 2 + 2 s: an arm with this   *)
(* mark is no longer on its way, running or being answered.                *)
Settled(mark) ==
    /\ mark # armOf
    /\ \A i \in DOMAIN lineOf : lineOf[i] # mark
    /\ \A i \in DOMAIN answerOf : answerOf[i] # mark

TestTimesOut ==
    /\ tester = "waiting" /\ Settled("test")
    /\ tester' = "none"
    /\ UNCHANGED <<chuteVars, linkVars, turnVars, restarts, enrolls>>

(***************************************************************************)
(* The turn machine.                                                       *)
(***************************************************************************)
GetEvent(ev) == events # <<>> /\ Head(events) = ev /\ events' = Tail(events)

IdleClear ==
    /\ piState = "IDLE"
    /\ GetEvent("fault_clear")
    /\ Send("fault_clear", "none")
    /\ mirror' = IF link = "up" THEN Null ELSE mirror
    /\ UNCHANGED <<armOf, answerOf, link, linkDrops, espEvents, piState, forwarded,
                   tester, restarts, enrolls, drains>>

(* A turn_start is refused while the mirror is latched, and a claw edge    *)
(* outside a turn means nothing.                                           *)
IdleDrop ==
    /\ piState = "IDLE"
    /\ GetEvent("opto") \/ (GetEvent("turn_start") /\ mirror # Null)
    /\ UNCHANGED <<chuteVars, linkVars, espEvents, piState, forwarded,
                   tester, restarts, enrolls, drains>>

StartTurn ==
    /\ piState = "IDLE"
    /\ GetEvent("turn_start") /\ mirror = Null
    /\ piState' = "PULSE"
    /\ forwarded' = "none"
    /\ UNCHANGED <<chuteVars, linkVars, espEvents, tester, restarts, enrolls, drains>>

(* The coin and start pulses take 0.3 s, a line at 115200 baud 10 ms.      *)
PulseEnds ==
    /\ piState = "PULSE" /\ toPi = <<>>
    /\ piState' = "PLAYING"
    /\ UNCHANGED <<chuteVars, linkVars, espEvents, events, forwarded,
                   tester, restarts, enrolls, drains>>

PlayDrop ==
    /\ piState = "PLAYING"
    /\ GetEvent("turn_start") \/ GetEvent("fault_clear")
    /\ UNCHANGED <<chuteVars, linkVars, espEvents, piState, forwarded,
                   tester, restarts, enrolls, drains>>

(* The ball passed the opto: turn_end is broadcast before the arm is sent. *)
OptoFires ==
    /\ piState = "PLAYING"
    /\ GetEvent("opto")
    /\ piState' = "ARMING"
    /\ UNCHANGED <<chuteVars, linkVars, espEvents, forwarded,
                   tester, restarts, enrolls, drains>>

Aged(marks) == [i \in DOMAIN marks |-> IF marks[i] = "this" THEN "old" ELSE marks[i]]
AgedQueue(q) == [i \in DOMAIN q |-> [q[i] EXCEPT !.of = IF @ = "this" THEN "old" ELSE @]]

KeptAll == AgedQueue(espEvents)                  \* mutant: nothing is drained
Kept == IF drains THEN <<>> ELSE AgedQueue(espEvents)

SendArm ==
    /\ piState = "ARMING" /\ piState' = "AWAITING"
    /\ IF link = "up"
       THEN Esp!PiWrites("arm") /\ lineOf' = Append(Aged(lineOf), "this")
       ELSE UNCHANGED <<phase, latch, fromPi, toPi>> /\ lineOf' = Aged(lineOf)
    /\ espEvents' = Kept
    /\ armOf' = IF armOf = "this" THEN "old" ELSE armOf
    /\ answerOf' = Aged(answerOf)
    /\ UNCHANGED <<linkVars, events, forwarded, tester, restarts, enrolls, drains>>

(* _await_verdict(): whatever comes first ends the turn; a verdict is      *)
(* forwarded to central untouched, a fault or a reset as a fault.          *)
TakeAnswer ==
    /\ piState = "AWAITING" /\ piState' = "IDLE"
    /\ espEvents # <<>> /\ espEvents' = Tail(espEvents)
    /\ forwarded' = IF Head(espEvents).msg.type = "verdict" THEN Head(espEvents).of ELSE "none"
    /\ UNCHANGED <<chuteVars, linkVars, events, tester, restarts, enrolls, drains>>

GiveUpEarly == TRUE                              \* mutant: a ceiling below the chute's 7 s
GiveUpNever == link = "down" /\ Settled("this")  \* mutant: it only gives up on a closed port
GiveUp == Settled("this")

AnswerTimesOut ==
    /\ piState = "AWAITING" /\ piState' = "IDLE"
    /\ espEvents = <<>> /\ GiveUp
    /\ UNCHANGED <<chuteVars, linkVars, espEvents, events, forwarded,
                   tester, restarts, enrolls, drains>>

Machine == \/ IdleClear \/ IdleDrop \/ StartTurn \/ PulseEnds \/ PlayDrop \/ OptoFires
           \/ SendArm \/ TakeAnswer \/ AnswerTimesOut

Next ==
    \/ ChuteTakesLine \/ ChuteReports \/ EnrollmentEnds \/ ChuteRestarts
    \/ ReadLine \/ LinkDrops \/ LineLost \/ LinkReturns
    \/ CentralAsks \/ OptoEdge \/ OnEnroll \/ OnTestArm \/ TestTimesOut
    \/ Machine

Spec == Init /\ [][Next]_vars

(* The tasks run, the chute reads its port and resolves what it accepted   *)
(* (Chute!TurnsResolve), a closed port is retried, and an arm is not kept  *)
(* from the line for ever: MaxIn is the checker's bound, not the UART's.   *)
(* Nobody has to ask, play, restart or unplug.                             *)
FairSpec ==
    /\ Spec
    /\ WF_vars(Machine) /\ SF_vars(SendArm)
    /\ WF_vars(ReadLine \/ LineLost \/ LinkReturns) /\ WF_vars(TestTimesOut)
    /\ WF_vars(ChuteTakesLine \/ ChuteReports \/ EnrollmentEnds)

-----------------------------------------------------------------------------
(***************************************************************************)
(* Properties.                                                             *)
(***************************************************************************)
(* The answers that are, or may still come, in the turn machine's queue:   *)
(* queued, on their way, or owed for an arm.                               *)
Count(line, S) == Cardinality({i \in 1 .. Len(line) : line[i] \in S})
ForTheQueue == {m \in Outbound : m.type \notin {"tag_scanned", "enroll_timeout"}}
Backlog ==
    LET queued == Len(espEvents)
        coming == Count(toPi, ForTheQueue)
        owed   == Count(fromPi, {"arm"}) + (IF phase = "armed" THEN 1 ELSE 0)
    IN  queued + coming + owed

(* The queue the turn machine never empties cannot grow: outside a turn    *)
(* there is at most one answer too many for each start of the chute's      *)
(* board, because a turn takes one answer whenever its arm causes one      *)
(* (fsm.py:52-56, the ceiling must exceed the chute's windows).            *)
BacklogBounded ==
    Backlog <= 1 + restarts
                 + (IF piState = "AWAITING" THEN 1 ELSE 0)
                 + (IF tester = "waiting" THEN 1 ELSE 0)

(* The verdict a turn is given is the one of its own arm (fsm.py:149, "its *)
(* single verdict for this arm"): a promise that the turn machine keeps if *)
(* it empties its queue of what the chute said before (the simulator's     *)
(* does, raspberry/server/fsm.py does not), whatever drop tests, enrol-    *)
(* ments and losses of the port come between, until the board restarts.    *)
VerdictIsThisTurns == drains /\ restarts = 0 => forwarded \in {"none", "this"}

(* No turn is started, and no coin spent, on a chute the Pi has been told  *)
(* is blocked (fsm.py:15-17).                                              *)
NoTurnOnBlockedChute == piState = "PULSE" => ~(phase = "blocked" /\ toPi = <<>>)

(* No turn_start is ever refused: nothing that the chute says sets the     *)
(* mirror of its latch (esp_link.py:121-142), which fsm.py:104-131 asks.   *)
NeverRefused == mirror = Null

(* A turn whose ball has passed the opto is over in the end, whatever the  *)
(* chute and the link do (fsm.py:52-56, "rather than hanging the turn").   *)
TurnIsOver == piState \in {"ARMING", "AWAITING"} ~> piState = "IDLE"
=============================================================================
