----------------------- MODULE TurnCoordinatorProofs -----------------------
(***************************************************************************)
(* What module TurnCoordinator promises for any number of turns, players   *)
(* and concurrent turn_end tasks, whatever is lost, restarted or forced.   *)
(***************************************************************************)
EXTENDS TurnCoordinator, FiniteSetTheorems, SequenceTheorems, WellFoundedInduction, TLAPS

USE CoordinatorAssumption, NullAssumption

(***************************************************************************)
(* The query "the oldest queued entry".                                    *)
(***************************************************************************)
(* A nonempty set of entries has a first one.                              *)
LEMMA First ==
    ASSUME NEW S, S \subseteq Nat, S # {}
    PROVE  \E x \in S : \A y \in S : x <= y
<1> DEFINE R == {p \in Nat \X Nat : p[1] < p[2]}
<1>1. IsWellFoundedOn(R, Nat)
    <2>1. R = OpToRel(<, Nat)  BY DEF OpToRel
    <2> QED  BY <2>1, NatLessThanWellFounded
<1>2. \A y, x \in Nat : y < x => <<y, x>> \in R  OBVIOUS
<1> HIDE DEF R
<1>3. PICK x \in S : \A y \in S : ~ (<<y, x>> \in R)  BY <1>1, WFMin
<1>4. ASSUME NEW y \in S PROVE x <= y
    <2>1. x \in Nat /\ y \in Nat  BY <1>3
    <2>2. <<y, x>> \notin R  BY <1>3, Zenon
    <2>3. ~ (y < x)  BY <2>1, <2>2, <1>2, Zenon
    <2> QED  BY <2>1, <2>3
<1> QED  BY <1>3, <1>4

LEMMA OldestIsFirst ==
    Oldest # Null =>
        /\ Oldest \in Turns /\ entries[Oldest] = "queued"
        /\ \A k \in Turns : k < Oldest => entries[k] # "queued"
<1> SUFFICES ASSUME Oldest # Null
             PROVE  /\ Oldest \in Turns /\ entries[Oldest] = "queued"
                    /\ \A k \in Turns : k < Oldest => entries[k] # "queued"
    OBVIOUS
<1> DEFINE S == InStatus("queued")
           first(n) == \A k \in S : n <= k
<1>1. S # {} /\ Oldest = CHOOSE n \in S : first(n)  BY DEF Oldest
<1>2. S \subseteq Nat  BY DEF InStatus, Turns
<1>3. \E n \in S : first(n)  BY <1>1, <1>2, First
<1>4. Oldest \in S /\ first(Oldest)
    <2> HIDE DEF first
    <2> QED  BY <1>1, <1>3, Zenon
<1>5. Oldest \in Turns /\ entries[Oldest] = "queued"  BY <1>4 DEF InStatus
<1>6. ASSUME NEW k \in Turns, k < Oldest PROVE entries[k] # "queued"
    <2>1. k \notin S  BY <1>4, <1>5, <1>6 DEF Turns
    <2> QED  BY <2>1 DEF InStatus
<1> QED  BY <1>5, <1>6

(***************************************************************************)
(* Types.                                                                  *)
(***************************************************************************)
(* What a task that starts a turn holds, and what the Pi plays, is one.    *)
Named ==
    /\ \A e \in Enders : ender[e].at \in {"claim", "announce"} => ender[e].turn \in Turns
    /\ sched.at \in {"gap", "announce"} => sched.new \in Turns
    /\ piState # "IDLE" => piTurn \in Turns

Typed == TypeOK /\ Named

(* What comes with the Pi's report of an end, and what it sends of a turn. *)
LEMMA EndIsOf ==
    ASSUME Typed, NEW e \in Enders, PiTurnEnd(e) \/ ForceTurnEnd(e)
    PROVE  \E n \in MaybeTurn : BeginTurnEnd(e, n)
<1>1. CASE PiTurnEnd(e)
    <2>1. toCentral # <<>> /\ Head(toCentral).type = "turn_end"  BY <1>1 DEF PiTurnEnd, Receive
    <2>2. Head(toCentral) \in ToCentral  BY <2>1 DEF Typed, TypeOK
    <2>3. Head(toCentral).of \in MaybeTurn
        BY <2>1, <2>2 DEF ToCentral, Outcome, PiFault, TurnEnded, EspStatus, Greeting, MaybeTurn
    <2> QED  BY <1>1, <2>3 DEF PiTurnEnd
<1>2. CASE ForceTurnEnd(e)  BY <1>2 DEF ForceTurnEnd, MaybeTurn
<1> QED  BY <1>1, <1>2

LEMMA PiMessages ==
    ASSUME Typed, piState # "IDLE"
    PROVE  /\ piTurn \in Turns /\ TurnEnded(piTurn) \in ToCentral
           /\ PiFault("still_blocked", piTurn) \in ToCentral
           /\ PiFault("internal_error", piTurn) \in ToCentral
BY DEF Typed, Named, ToCentral

QueueTyped == entries \in [Turns -> Status] /\ current \in MaybeTurn /\ awaiting \in MaybeTurn

LEMMA QueueStep == Typed /\ [Next]_vars => QueueTyped'
<1> SUFFICES ASSUME Typed, [Next]_vars PROVE QueueTyped'  OBVIOUS
<1>0. /\ QueueTyped
      /\ sched \in [at : SchedAt, old : MaybeTurn, new : MaybeTurn]
      /\ ender \in [Enders -> [at : EnderAt, turn : MaybeTurn, of : MaybeTurn]]
      /\ Named
    BY DEF Typed, TypeOK, QueueTyped
<1> USE DEF QueueTyped, MaybeTurn, Status
<1>1. ASSUME NEW e \in Enders, PiTurnEnd(e) \/ ForceTurnEnd(e) PROVE QueueTyped'
    BY <1>0, <1>1 DEF PiTurnEnd, ForceTurnEnd, BeginTurnEnd, Remember, queueVars
<1>2. ASSUME NEW e \in Enders, CloseEntry(e) PROVE QueueTyped'
    BY <1>0, <1>2 DEF CloseEntry, Closed, OneOf, ActiveOf, InStatus
<1>3. ASSUME NEW e \in Enders, Claim(e) PROVE QueueTyped'
    BY <1>0, <1>3 DEF Claim, At, Named
<1>4. ASSUME NEW e \in Enders, WindowTimesOut(e) \/ WindowCloses(e) PROVE QueueTyped'
    BY <1>0, <1>4 DEF WindowTimesOut, WindowCloses
<1>5. ASSUME NEW e \in Enders,
             TakeLock(e) \/ OpenWindow(e) \/ CheckFault(e) \/ CheckFit(e) \/ Pick(e) \/ Announce(e)
      PROVE  QueueTyped'
    BY <1>0, <1>5 DEF TakeLock, OpenWindow, CheckFault, CheckFit, Pick, Announce, queueVars
<1>6. CASE Handlers
    BY <1>0, <1>6 DEF Handlers, OnVerdict, VerdictHandled, OnPiFault, OnEspStatus, queueVars, turnVars
<1>7. CASE Scheduler
    <2>1. UNCHANGED awaiting
        BY <1>7 DEF Scheduler, SchedStep, SchedBoot, SchedCheckFault, SchedCheckRest, SchedActive,
            SchedOldest, SchedCommit, SchedStart, SchedAnnounce, turnVars
    <2>2. CASE SchedBoot  BY <1>0, <2>1, <2>2 DEF SchedBoot
    <2>3. CASE SchedCommit  BY <1>0, <2>1, <2>3 DEF SchedCommit
    <2>4. CASE SchedStart  BY <1>0, <2>1, <2>4 DEF SchedStart, Named
    <2>5. CASE SchedCheckFault \/ SchedCheckRest \/ SchedActive \/ SchedOldest \/ SchedAnnounce
        BY <1>0, <2>1, <2>5
        DEF SchedCheckFault, SchedCheckRest, SchedActive, SchedOldest, SchedAnnounce, queueVars
    <2> QED  BY <1>7, <2>2, <2>3, <2>4, <2>5 DEF Scheduler
<1>8. ASSUME NEW n \in Turns, Join(n) PROVE QueueTyped'
    BY <1>0, <1>8 DEF Join, turnVars
<1>9. CASE ClearFault \/ FitChanges \/ TimePasses \/ Disconnect \/ Reconnect
    BY <1>0, <1>9 DEF ClearFault, FitChanges, TimePasses, Disconnect, Reconnect, queueVars, turnVars
<1>10. CASE Crash  BY <1>0, <1>10 DEF Crash
<1>11. CASE Pi
    BY <1>0, <1>11 DEF Pi, PiStep, PiStarts, PiClears, PiDrops, PiOpto, PiAnswers, queueVars, turnVars
<1>12. CASE UNCHANGED vars  BY <1>0, <1>12 DEF vars, queueVars, turnVars
<1> QED
    BY <1>1, <1>2, <1>3, <1>4, <1>5, <1>6, <1>7, <1>8, <1>9, <1>10, <1>11, <1>12
    DEF Next, TurnEnd

FlagsTyped == /\ verdictReady \in BOOLEAN /\ rested \in BOOLEAN /\ fit \in BOOLEAN
              /\ jammed \in BOOLEAN /\ told \in BOOLEAN

LEMMA FlagsStep == Typed /\ [Next]_vars => FlagsTyped'
<1> SUFFICES ASSUME Typed, [Next]_vars PROVE FlagsTyped'  OBVIOUS
<1>0. FlagsTyped  BY DEF Typed, TypeOK, FlagsTyped
<1> USE DEF FlagsTyped, queueVars, turnVars, faultVars, piVars
<1>1. ASSUME NEW e \in Enders, PiTurnEnd(e) \/ ForceTurnEnd(e) PROVE FlagsTyped'
    BY <1>0, <1>1, Zenon DEF PiTurnEnd, ForceTurnEnd, BeginTurnEnd
<1>2. ASSUME NEW e \in Enders, TurnEnd(e) PROVE FlagsTyped'
    BY <1>0, <1>2, Zenon
    DEF TurnEnd, TakeLock, CloseEntry, OpenWindow, WindowCloses, CheckFault, CheckFit, Pick, Claim,
        Announce
<1>3. ASSUME NEW e \in Enders, WindowTimesOut(e) PROVE FlagsTyped'
    BY <1>0, <1>3, Zenon DEF WindowTimesOut
<1>4. CASE OnVerdict  BY <1>0, <1>4, Zenon DEF OnVerdict
<1>5. CASE VerdictHandled
    <2>1. told' \in BOOLEAN  BY <1>5, Zenon DEF VerdictHandled
    <2> QED  BY <1>0, <1>5, <2>1, Zenon DEF VerdictHandled
<1>6. CASE OnPiFault \/ OnEspStatus  BY <1>0, <1>6, Zenon DEF OnPiFault, OnEspStatus
<1>7. CASE Scheduler
    BY <1>0, <1>7, Zenon
    DEF Scheduler, SchedStep, SchedBoot, SchedCheckFault, SchedCheckRest, SchedActive,
        SchedOldest, SchedCommit, SchedStart, SchedAnnounce
<1>8. ASSUME NEW n \in Turns, Join(n) PROVE FlagsTyped'
    BY <1>0, <1>8, Zenon DEF Join
<1>9. CASE ClearFault \/ FitChanges \/ TimePasses \/ Disconnect \/ Reconnect \/ Crash
    BY <1>0, <1>9, Zenon DEF ClearFault, FitChanges, TimePasses, Disconnect, Reconnect, Crash
<1>10. CASE Pi
    <2>1. CASE PiAnswers
        <3>1. ASSUME NEW o \in Outcomes, jammed' = (o \in Jammed) PROVE jammed' \in BOOLEAN
            <4>1. (o \in Jammed) \in BOOLEAN  OBVIOUS
            <4> QED  BY <3>1, <4>1, Zenon
        <3>2. jammed' \in BOOLEAN  BY <1>0, <2>1, <3>1, Zenon DEF PiAnswers
        <3> QED  BY <1>0, <2>1, <3>2, Zenon DEF PiAnswers, PiStep
    <2> QED  BY <1>0, <1>10, <2>1, Zenon DEF Pi, PiStep, PiStarts, PiClears, PiDrops, PiOpto
<1>11. CASE UNCHANGED vars  BY <1>0, <1>11, Zenon DEF vars
<1> QED
    BY <1>1, <1>2, <1>3, <1>4, <1>5, <1>6, <1>7, <1>8, <1>9, <1>10, <1>11 DEF Next, Handlers

FaultTyped == fault \in FaultKinds \cup {Null} /\ con \in {"up", "down"}

LEMMA FaultStep == Typed /\ [Next]_vars => FaultTyped'
<1> SUFFICES ASSUME Typed, [Next]_vars PROVE FaultTyped'  OBVIOUS
<1>0. /\ FaultTyped
      /\ verdictTask \in [key : Turns, outcome : Outcomes, of : Turns] \cup {Null}
    BY DEF Typed, TypeOK, FaultTyped
<1> USE DEF FaultTyped, FaultKinds, faultVars, lineVars
<1>1. ASSUME NEW e \in Enders, PiTurnEnd(e) \/ ForceTurnEnd(e) PROVE FaultTyped'
    BY <1>0, <1>1 DEF PiTurnEnd, ForceTurnEnd, BeginTurnEnd
<1>2. ASSUME NEW e \in Enders, TurnEnd(e) PROVE FaultTyped'
    BY <1>0, <1>2
    DEF TurnEnd, TakeLock, CloseEntry, OpenWindow, WindowCloses, CheckFault, CheckFit, Pick, Claim,
        Announce
<1>3. ASSUME NEW e \in Enders, WindowTimesOut(e) PROVE FaultTyped'
    BY <1>0, <1>3 DEF WindowTimesOut
<1>4. CASE Handlers
    BY <1>0, <1>4
    DEF Handlers, OnVerdict, VerdictHandled, OnPiFault, OnEspStatus, VerdictFault, Faults
<1>5. CASE Scheduler
    BY <1>0, <1>5
    DEF Scheduler, SchedStep, SchedBoot, SchedCheckFault, SchedCheckRest, SchedActive,
        SchedOldest, SchedCommit, SchedStart, SchedAnnounce
<1>6. ASSUME NEW n \in Turns, Join(n) PROVE FaultTyped'
    BY <1>0, <1>6 DEF Join
<1>7. CASE ClearFault \/ FitChanges \/ TimePasses \/ Disconnect \/ Reconnect \/ Crash
    BY <1>0, <1>7 DEF ClearFault, FitChanges, TimePasses, Disconnect, Reconnect, Crash, LinesLost
<1>8. CASE Pi
    BY <1>0, <1>8 DEF Pi, PiStep, PiStarts, PiClears, PiDrops, PiOpto, PiAnswers
<1>9. CASE UNCHANGED vars  BY <1>0, <1>9 DEF vars
<1> QED
    BY <1>1, <1>2, <1>3, <1>4, <1>5, <1>6, <1>7, <1>8, <1>9 DEF Next

EnderTyped ==
    /\ lock \in Enders \cup {Null}
    /\ ender \in [Enders -> [at : EnderAt, turn : MaybeTurn, of : MaybeTurn]]
    /\ \A e \in Enders : ender[e].at \in {"claim", "announce"} => ender[e].turn \in Turns

LEMMA EnderStep == Typed /\ [Next]_vars => EnderTyped'
<1> SUFFICES ASSUME Typed, [Next]_vars PROVE EnderTyped'  OBVIOUS
<1>0. EnderTyped /\ current \in MaybeTurn  BY DEF Typed, TypeOK, Named, EnderTyped
<1> USE DEF EnderTyped, EnderAt, MaybeTurn, At, Goto, Finish, NoEnder, turnVars
<1>1. ASSUME NEW e \in Enders, PiTurnEnd(e) \/ ForceTurnEnd(e) PROVE EnderTyped'
    <2>1. PICK n \in MaybeTurn : BeginTurnEnd(e, n)  BY <1>1, EndIsOf
    <2> QED  BY <1>0, <2>1 DEF BeginTurnEnd
<1>2. ASSUME NEW e \in Enders, TakeLock(e) PROVE EnderTyped'
    <2>1. lock' = e /\ ender' = [ender EXCEPT ![e].at = "close", ![e].turn = current]
        BY <1>2 DEF TakeLock
    <2> DEFINE next == [ender[e] EXCEPT !.at = "close", !.turn = current]
    <2>2. ender[e] \in [at : EnderAt, turn : MaybeTurn, of : MaybeTurn]
        BY <1>0
    <2>3. next \in [at : EnderAt, turn : MaybeTurn, of : MaybeTurn]
        BY <1>0, <2>2
    <2>4. next.at = "close"  BY <2>2
    <2>5. ender' = [ender EXCEPT ![e] = next]  BY <1>0, <2>1, <2>2
    <2> HIDE DEF next
    <2>6. ender' \in [Enders -> [at : EnderAt, turn : MaybeTurn, of : MaybeTurn]]
          /\ ender'[e] = next /\ \A f \in Enders : f # e => ender'[f] = ender[f]
        BY <1>0, <2>3, <2>5
    <2> QED  BY <1>0, <2>1, <2>4, <2>6
<1>3. ASSUME NEW e \in Enders, CloseEntry(e) \/ OpenWindow(e) PROVE EnderTyped'
    BY <1>0, <1>3 DEF CloseEntry, OpenWindow
<1>4. ASSUME NEW e \in Enders, WindowTimesOut(e) \/ WindowCloses(e) PROVE EnderTyped'
    BY <1>0, <1>4 DEF WindowTimesOut, WindowCloses
<1>5. ASSUME NEW e \in Enders, CheckFault(e) \/ CheckFit(e) PROVE EnderTyped'
    BY <1>0, <1>5 DEF CheckFault, CheckFit
<1>6. ASSUME NEW e \in Enders, Pick(e) PROVE EnderTyped'
    BY <1>0, <1>6, OldestIsFirst DEF Pick
<1>7. ASSUME NEW e \in Enders, Claim(e) \/ Announce(e) PROVE EnderTyped'
    BY <1>0, <1>7 DEF Claim, Announce
<1>8. CASE OnVerdict \/ VerdictHandled
    BY <1>0, <1>8 DEF OnVerdict, VerdictHandled, Release
<1>9. CASE OnPiFault \/ OnEspStatus
    BY <1>0, <1>9 DEF OnPiFault, OnEspStatus
<1>10. CASE Scheduler
    BY <1>0, <1>10
    DEF Scheduler, SchedStep, SchedBoot, SchedCheckFault, SchedCheckRest, SchedActive,
        SchedOldest, SchedCommit, SchedStart, SchedAnnounce
<1>11. ASSUME NEW n \in Turns, Join(n) PROVE EnderTyped'
    BY <1>0, <1>11 DEF Join
<1>12. CASE ClearFault \/ FitChanges \/ TimePasses \/ Disconnect \/ Reconnect \/ Crash
    BY <1>0, <1>12 DEF ClearFault, FitChanges, TimePasses, Disconnect, Reconnect, Crash
<1>13. CASE Pi
    BY <1>0, <1>13 DEF Pi, PiStep, PiStarts, PiClears, PiDrops, PiOpto, PiAnswers
<1>14. CASE UNCHANGED vars  BY <1>0, <1>14 DEF vars
<1> QED
    BY <1>1, <1>2, <1>3, <1>4, <1>5, <1>6, <1>7, <1>8, <1>9, <1>10, <1>11, <1>12, <1>13, <1>14
    DEF Next, TurnEnd, Handlers

SchedTyped ==
    /\ sched \in [at : SchedAt, old : MaybeTurn, new : MaybeTurn]
    /\ sched.at \in {"gap", "announce"} => sched.new \in Turns

LEMMA SchedulerStep == Typed /\ [Next]_vars => SchedTyped'
<1> SUFFICES ASSUME Typed, [Next]_vars PROVE SchedTyped'  OBVIOUS
<1>0. SchedTyped  BY DEF Typed, TypeOK, Named, SchedTyped
<1> USE DEF SchedTyped, SchedAt, MaybeTurn
<1>1. ASSUME NEW e \in Enders,
             PiTurnEnd(e) \/ ForceTurnEnd(e) \/ TurnEnd(e) \/ WindowTimesOut(e)
      PROVE  SchedTyped'
    BY <1>0, <1>1
    DEF PiTurnEnd, ForceTurnEnd, BeginTurnEnd, TurnEnd, TakeLock, CloseEntry, OpenWindow,
        WindowTimesOut, WindowCloses, CheckFault, CheckFit, Pick, Claim, Announce
<1>2. CASE Handlers
    BY <1>0, <1>2 DEF Handlers, OnVerdict, VerdictHandled, OnPiFault, OnEspStatus
<1>3. CASE SchedBoot \/ SchedCheckFault \/ SchedCheckRest
    BY <1>0, <1>3 DEF SchedBoot, SchedCheckFault, SchedCheckRest
<1>4. CASE SchedActive
    BY <1>0, <1>4 DEF SchedActive, OneOf, ActiveOf, InStatus
<1>5. CASE SchedOldest
    <2>1. Oldest \in MaybeTurn  BY OldestIsFirst, Zenon DEF MaybeTurn
    <2>2. sched' = [at |-> "commit", old |-> sched.old, new |-> Oldest]
        BY <1>0, <1>5 DEF SchedOldest
    <2> QED  BY <1>0, <2>1, <2>2
<1>6. CASE SchedCommit
    <2>1. CASE sched.new = Null  BY <1>0, <1>6, <2>1 DEF SchedCommit
    <2>2. CASE sched.new # Null
        <3>1. sched' = [at |-> "gap", old |-> Null, new |-> sched.new]
            BY <1>0, <1>6, <2>2 DEF SchedCommit
        <3> QED  BY <1>0, <2>2, <3>1
    <2> QED  BY <2>1, <2>2
<1>7. CASE SchedStart \/ SchedAnnounce
    BY <1>0, <1>7 DEF SchedStart, SchedAnnounce
<1>8. ASSUME NEW n \in Turns, Join(n) PROVE SchedTyped'
    BY <1>0, <1>8 DEF Join
<1>9. CASE ClearFault \/ FitChanges \/ TimePasses \/ Disconnect \/ Reconnect \/ Crash
    BY <1>0, <1>9 DEF ClearFault, FitChanges, TimePasses, Disconnect, Reconnect, Crash
<1>10. CASE Pi
    BY <1>0, <1>10 DEF Pi, PiStep, PiStarts, PiClears, PiDrops, PiOpto, PiAnswers
<1>11. CASE UNCHANGED vars  BY <1>0, <1>11 DEF vars
<1> QED
    BY <1>1, <1>2, <1>3, <1>4, <1>5, <1>6, <1>7, <1>8, <1>9, <1>10, <1>11 DEF Next, Scheduler

VerdictTyped ==
    /\ verdictTask \in [key : Turns, outcome : Outcomes, of : Turns] \cup {Null}
    /\ credited \in [Turns -> MaybeTurn]

LEMMA VerdictStep == Typed /\ [Next]_vars => VerdictTyped'
<1> SUFFICES ASSUME Typed, [Next]_vars PROVE VerdictTyped'  OBVIOUS
<1>0. VerdictTyped /\ awaiting \in MaybeTurn /\ toCentral \in Seq(ToCentral)
    BY DEF Typed, TypeOK, VerdictTyped
<1> USE DEF VerdictTyped, MaybeTurn, turnVars
<1>1. ASSUME NEW e \in Enders,
             PiTurnEnd(e) \/ ForceTurnEnd(e) \/ TurnEnd(e) \/ WindowTimesOut(e)
      PROVE  VerdictTyped'
    BY <1>0, <1>1
    DEF PiTurnEnd, ForceTurnEnd, BeginTurnEnd, TurnEnd, TakeLock, CloseEntry, OpenWindow,
        WindowTimesOut, WindowCloses, CheckFault, CheckFit, Pick, Claim, Announce
<1>2. CASE OnVerdict
    <2>1. Head(toCentral) \in ToCentral  BY <1>0, <1>2 DEF OnVerdict, Receive
    <2>2. Head(toCentral).outcome \in Outcomes /\ Head(toCentral).of \in Turns
        BY <1>2, <2>1
        DEF OnVerdict, Receive, ToCentral, Outcome, PiFault, TurnEnded, EspStatus, Greeting
    <2> QED  BY <1>0, <1>2, <2>2 DEF OnVerdict
<1>3. CASE VerdictHandled  BY <1>0, <1>3 DEF VerdictHandled
<1>4. CASE OnPiFault \/ OnEspStatus  BY <1>0, <1>4 DEF OnPiFault, OnEspStatus
<1>5. CASE Scheduler
    BY <1>0, <1>5
    DEF Scheduler, SchedStep, SchedBoot, SchedCheckFault, SchedCheckRest, SchedActive,
        SchedOldest, SchedCommit, SchedStart, SchedAnnounce
<1>6. ASSUME NEW n \in Turns, Join(n) PROVE VerdictTyped'
    BY <1>0, <1>6 DEF Join
<1>7. CASE ClearFault \/ FitChanges \/ TimePasses \/ Disconnect \/ Reconnect \/ Crash
    BY <1>0, <1>7 DEF ClearFault, FitChanges, TimePasses, Disconnect, Reconnect, Crash
<1>8. CASE Pi
    BY <1>0, <1>8 DEF Pi, PiStep, PiStarts, PiClears, PiDrops, PiOpto, PiAnswers
<1>9. CASE UNCHANGED vars  BY <1>0, <1>9 DEF vars
<1> QED
    BY <1>1, <1>2, <1>3, <1>4, <1>5, <1>6, <1>7, <1>8, <1>9 DEF Next, Handlers

PiTyped ==
    /\ piState \in {"IDLE", "PLAYING", "AWAITING"} /\ piTurn \in MaybeTurn
    /\ piState # "IDLE" => piTurn \in Turns
    /\ drops \in 0 .. MaxDrops /\ crashes \in 0 .. MaxCrashes /\ hasty \in 0 .. MaxHasty

LEMMA PiMoves == Typed /\ [Next]_vars => PiTyped'
<1> SUFFICES ASSUME Typed, [Next]_vars PROVE PiTyped'  OBVIOUS
<1>0. PiTyped /\ toPi \in Seq(ToPi)  BY DEF Typed, TypeOK, Named, PiTyped
<1> USE DEF PiTyped, MaybeTurn, piVars, bounds
<1>1. ASSUME NEW e \in Enders,
             PiTurnEnd(e) \/ ForceTurnEnd(e) \/ TurnEnd(e) \/ WindowTimesOut(e)
      PROVE  PiTyped'
    BY <1>0, <1>1
    DEF PiTurnEnd, ForceTurnEnd, BeginTurnEnd, TurnEnd, TakeLock, CloseEntry, OpenWindow,
        WindowTimesOut, WindowCloses, CheckFault, CheckFit, Pick, Claim, Announce
<1>2. CASE Handlers
    BY <1>0, <1>2 DEF Handlers, OnVerdict, VerdictHandled, OnPiFault, OnEspStatus
<1>3. CASE Scheduler
    BY <1>0, <1>3
    DEF Scheduler, SchedStep, SchedBoot, SchedCheckFault, SchedCheckRest, SchedActive,
        SchedOldest, SchedCommit, SchedStart, SchedAnnounce
<1>4. ASSUME NEW n \in Turns, Join(n) PROVE PiTyped'
    BY <1>0, <1>4 DEF Join
<1>5. CASE ClearFault \/ FitChanges \/ TimePasses \/ Reconnect
    BY <1>0, <1>5 DEF ClearFault, FitChanges, TimePasses, Reconnect
<1>6. CASE Disconnect  BY <1>0, <1>6 DEF Disconnect
<1>7. CASE Crash  BY <1>0, <1>7 DEF Crash
<1>8. CASE PiStarts
    <2>1. Head(toPi) \in ToPi  BY <1>0, <1>8 DEF PiStarts
    <2>2. Head(toPi).turn \in Turns  BY <1>8, <2>1 DEF PiStarts, ToPi, TurnStart, FaultClear
    <2> QED  BY <1>0, <1>8, <2>2 DEF PiStarts, PiStep
<1>9. CASE PiClears \/ PiDrops \/ PiOpto \/ PiAnswers
    BY <1>0, <1>9 DEF PiStep, PiClears, PiDrops, PiOpto, PiAnswers
<1>10. CASE UNCHANGED vars  BY <1>0, <1>10 DEF vars
<1> QED
    BY <1>1, <1>2, <1>3, <1>4, <1>5, <1>6, <1>7, <1>8, <1>9, <1>10 DEF Next, Pi

LinesTyped == toPi \in Seq(ToPi) /\ toCentral \in Seq(ToCentral)

LEMMA Prefixes == ASSUME NEW k \in 0 .. Len(toPi), toPi \in Seq(ToPi)
                  PROVE  SubSeq(toPi, 1, k) \in Seq(ToPi)
BY SubSeqProperties

LEMMA LineMoves ==
    /\ toCentral \in Seq(ToCentral) /\ toCentral # <<>> => Tail(toCentral) \in Seq(ToCentral)
    /\ toCentral \in Seq(ToCentral) =>
           \A m \in ToCentral : Append(toCentral, m) \in Seq(ToCentral)
    /\ toPi \in Seq(ToPi) /\ toPi # <<>> => Tail(toPi) \in Seq(ToPi)
    /\ toPi \in Seq(ToPi) => \A m \in ToPi : Append(toPi, m) \in Seq(ToPi)
<1> HIDE CoordinatorAssumption, NullAssumption
<1> QED  OBVIOUS

LEMMA LinesStep == Typed /\ [Next]_vars => LinesTyped'
<1> SUFFICES ASSUME Typed, [Next]_vars PROVE LinesTyped'  OBVIOUS
<1>0. LinesTyped  BY DEF Typed, TypeOK, LinesTyped
<1> USE DEF LinesTyped, lineVars
<1>1. ASSUME NEW e \in Enders, PiTurnEnd(e) \/ ForceTurnEnd(e) PROVE LinesTyped'
    <2>1. toPi' = toPi  BY <1>1 DEF PiTurnEnd, ForceTurnEnd, BeginTurnEnd
    <2>2. toCentral' = toCentral \/ (toCentral # <<>> /\ toCentral' = Tail(toCentral))
        BY <1>1 DEF PiTurnEnd, ForceTurnEnd, Receive
    <2> QED  BY <1>0, <2>1, <2>2, LineMoves, Zenon
<1>2. ASSUME NEW e \in Enders, Announce(e) PROVE LinesTyped'
    <2>1. ender[e].turn \in Turns  BY <1>2 DEF Typed, Named, Announce, At
    <2>2. TurnStart(ender[e].turn) \in ToPi  BY <2>1 DEF ToPi
    <2>3. (toPi' = toPi \/ toPi' = Append(toPi, TurnStart(ender[e].turn))) /\ toCentral' = toCentral
        BY <1>2 DEF Announce, SendPi
    <2> QED  BY <1>0, <2>2, <2>3, LineMoves, Zenon
<1>3. ASSUME NEW e \in Enders, TurnEnd(e) \/ WindowTimesOut(e), ~ Announce(e) PROVE LinesTyped'
    <2>1. toPi' = toPi /\ toCentral' = toCentral
        BY <1>3
        DEF TurnEnd, TakeLock, CloseEntry, OpenWindow, WindowTimesOut, WindowCloses, CheckFault,
            CheckFit, Pick, Claim
    <2> QED  BY <1>0, <2>1, Zenon
<1>4. CASE Handlers
    <2>1. CASE VerdictHandled
        <3>1. toPi' = toPi /\ toCentral' = toCentral  BY <2>1 DEF VerdictHandled
        <3> QED  BY <1>0, <3>1, Zenon
    <2>2. CASE OnVerdict \/ OnPiFault \/ OnEspStatus
        <3>1. toPi' = toPi  BY <2>2 DEF OnVerdict, OnPiFault, OnEspStatus
        <3>2. toCentral # <<>> /\ toCentral' = Tail(toCentral)
            BY <2>2 DEF OnVerdict, OnPiFault, OnEspStatus, Receive
        <3> QED  BY <1>0, <3>1, <3>2, LineMoves, Zenon
    <2> QED  BY <1>4, <2>1, <2>2 DEF Handlers
<1>5. CASE SchedAnnounce
    <2>1. sched.new \in Turns  BY <1>5 DEF Typed, Named, SchedAnnounce
    <2>2. TurnStart(sched.new) \in ToPi  BY <2>1 DEF ToPi
    <2>3. (toPi' = toPi \/ toPi' = Append(toPi, TurnStart(sched.new))) /\ toCentral' = toCentral
        BY <1>5 DEF SchedAnnounce, SendPi, SchedStep
    <2> QED  BY <1>0, <2>2, <2>3, LineMoves, Zenon
<1>6. CASE Scheduler /\ ~ SchedAnnounce
    <2>1. toPi' = toPi /\ toCentral' = toCentral
        BY <1>6
        DEF Scheduler, SchedStep, SchedBoot, SchedCheckFault, SchedCheckRest, SchedActive,
            SchedOldest, SchedCommit, SchedStart
    <2> QED  BY <1>0, <2>1, Zenon
<1>7. ASSUME NEW n \in Turns, Join(n) PROVE LinesTyped'
    <2>1. toPi' = toPi /\ toCentral' = toCentral  BY <1>7 DEF Join
    <2> QED  BY <1>0, <2>1, Zenon
<1>8. CASE ClearFault
    <2>1. FaultClear \in ToPi  BY DEF ToPi
    <2>2. (toPi' = toPi \/ toPi' = Append(toPi, FaultClear)) /\ toCentral' = toCentral
        BY <1>8 DEF ClearFault, SendPi
    <2> QED  BY <1>0, <2>1, <2>2, LineMoves, Zenon
<1>9. CASE FitChanges \/ TimePasses
    <2>1. toPi' = toPi /\ toCentral' = toCentral  BY <1>9 DEF FitChanges, TimePasses
    <2> QED  BY <1>0, <2>1, Zenon
<1>10. CASE Disconnect \/ Crash
    <2>1. PICK k \in 0 .. Len(toPi) : toCentral' = <<>> /\ toPi' = SubSeq(toPi, 1, k)
        BY <1>10, Zenon DEF Disconnect, Crash, LinesLost
    <2>2. toPi' \in Seq(ToPi)  BY <1>0, <2>1, Prefixes, Zenon
    <2> QED  BY <2>1, <2>2
<1>11. EspStatus \in ToCentral /\ Greeting \in ToCentral  BY DEF ToCentral
<1>12. CASE Reconnect
    <2>1. toCentral' = <<Greeting>> /\ toPi' = toPi  BY <1>12 DEF Reconnect
    <2> QED  BY <1>0, <1>11, <2>1
<1>13. CASE PiStarts \/ PiDrops
    <2>1. toPi' = Tail(toPi) /\ toPi # <<>> /\ toCentral' = toCentral
        BY <1>13 DEF PiStarts, PiDrops, PiStep
    <2> QED  BY <1>0, <2>1, LineMoves, Zenon
<1>14. CASE PiClears
    <2>1. toPi' = Tail(toPi) /\ toPi # <<>>  BY <1>14 DEF PiClears
    <2>2. toCentral' = toCentral \/ toCentral' = Append(toCentral, EspStatus)
        BY <1>14 DEF PiClears, SendCentral
    <2> QED  BY <1>0, <1>11, <2>1, <2>2, LineMoves, Zenon
<1>15. CASE PiOpto
    <2>1. TurnEnded(piTurn) \in ToCentral  BY <1>15, PiMessages DEF PiOpto
    <2>2. toPi' = toPi /\ (toCentral' = toCentral \/ toCentral' = Append(toCentral, TurnEnded(piTurn)))
        BY <1>15 DEF PiOpto, SendCentral
    <2> QED  BY <1>0, <2>1, <2>2, LineMoves, Zenon
<1>16. CASE PiAnswers
    <2>1. piTurn \in Turns  BY <1>16 DEF Typed, Named, PiAnswers
    <2>2. \A o \in Outcomes : Outcome(o, piTurn) \in ToCentral  BY <2>1 DEF ToCentral
    <2>3. PiFault("still_blocked", piTurn) \in ToCentral /\ PiFault("internal_error", piTurn) \in ToCentral
        BY <1>16, PiMessages DEF PiAnswers
    <2>4. toPi' = toPi  BY <1>16 DEF PiAnswers
    <2>5. \/ \E o \in Outcomes : SendCentral(Outcome(o, piTurn))
          \/ SendCentral(PiFault("still_blocked", piTurn))
          \/ SendCentral(PiFault("internal_error", piTurn))
        BY <1>16, Zenon DEF PiAnswers
    <2>6. ASSUME NEW m \in ToCentral, SendCentral(m) PROVE toCentral' \in Seq(ToCentral)
        <3>1. toCentral' = toCentral \/ toCentral' = Append(toCentral, m)  BY <2>6 DEF SendCentral
        <3> QED  BY <1>0, <2>6, <3>1, LineMoves, Zenon
    <2> QED  BY <1>0, <2>2, <2>3, <2>4, <2>5, <2>6
<1>17. CASE UNCHANGED vars
    <2>1. toPi' = toPi /\ toCentral' = toCentral  BY <1>17 DEF vars
    <2> QED  BY <1>0, <2>1, Zenon
<1> QED
    BY <1>1, <1>2, <1>3, <1>4, <1>5, <1>6, <1>7, <1>8, <1>9, <1>10, <1>12, <1>13, <1>14,
       <1>15, <1>16, <1>17 DEF Next, Pi

LEMMA TypedStep == Typed /\ [Next]_vars => Typed'
BY QueueStep, FlagsStep, FaultStep, EnderStep, SchedulerStep, VerdictStep, PiMoves, LinesStep
   DEF Typed, TypeOK, Named, QueueTyped, FlagsTyped, FaultTyped, EnderTyped, SchedTyped,
       VerdictTyped, PiTyped, LinesTyped

LEMMA TypedInit == Init => Typed
<1> SUFFICES ASSUME Init PROVE Typed  OBVIOUS
<1>1. QueueTyped /\ PiTyped
    BY DEF Init, QueueTyped, PiTyped, MaybeTurn, Status
<1>2. FlagsTyped  BY Zenon DEF Init, FlagsTyped
<1>3. FaultTyped  BY DEF Init, FaultTyped
<1>4. EnderTyped /\ SchedTyped
    BY DEF Init, EnderTyped, SchedTyped, NoEnder, MaybeTurn, EnderAt, SchedAt
<1>5. VerdictTyped  BY DEF Init, VerdictTyped, MaybeTurn
<1>6. Greeting \in ToCentral  BY DEF ToCentral
<1>7. LinesTyped  BY <1>6 DEF Init, LinesTyped
<1> QED
    BY <1>1, <1>2, <1>3, <1>4, <1>5, <1>7
    DEF Typed, TypeOK, Named, QueueTyped, FlagsTyped, FaultTyped, EnderTyped, SchedTyped,
        VerdictTyped, PiTyped, LinesTyped

LEMMA TypedAlways == Spec => []Typed
BY TypedInit, TypedStep, PTL DEF Spec

(* Central's variables, the messages in flight and the Pi's turn keep      *)
(* their types: who starts a turn always has one to start, and a verdict   *)
(* names the turn of its arm (pi_client.py, schedulers.py).                *)
THEOREM TypeCorrect == Spec => []TypeOK
BY TypedAlways, PTL DEF Typed

(***************************************************************************)
(* Nobody is overtaken.  Entries arrive in order and never come back to    *)
(* the queue; an entry that a task has picked was the first when it was    *)
(* picked, and remains ahead of all that are still queued, however many    *)
(* tasks pick at once and however long they take to claim it.              *)
(***************************************************************************)
Arrived == \A n, k \in Turns : k < n /\ entries[n] # "absent" => entries[k] # "absent"

NoneBefore(table, n) == table[n] # "absent" /\ \A k \in Turns : k < n => table[k] # "queued"

OrderInv ==
    /\ Arrived
    /\ \A n \in Turns : entries[n] \in {"active", "played"} => NoneBefore(entries, n)
    /\ \A e \in Enders : ender[e].at = "claim" => NoneBefore(entries, ender[e].turn)
    /\ sched.at = "commit" /\ sched.new # Null => NoneBefore(entries, sched.new)
    /\ sched.at \in {"oldest", "commit"} /\ sched.old # Null => NoneBefore(entries, sched.old)

LEMMA OrderImplies == Typed /\ OrderInv => FirstComeFirstServed
<1> SUFFICES ASSUME Typed, OrderInv, NEW n \in Turns, entries[n] = "queued",
                    NEW k \in Turns, k > n
             PROVE  entries[k] \in {"absent", "queued"}
    BY DEF FirstComeFirstServed
<1>1. entries[k] \in Status  BY DEF Typed, TypeOK
<1>2. n < k  BY DEF Turns
<1>3. ~ NoneBefore(entries, k)  BY <1>2 DEF NoneBefore
<1> QED  BY <1>1, <1>3 DEF OrderInv, Status

(* A step that only moves entries forward, of those that nobody queued     *)
(* precedes, leaves them ahead; so does one that joins the queue.          *)
Forward ==
    /\ \A n \in Turns : entries'[n] = "queued" => entries[n] = "queued"
    /\ \A n \in Turns : entries'[n] = "absent" <=> entries[n] = "absent"
    /\ \A n \in Turns : entries'[n] \in {"active", "played"} => NoneBefore(entries, n)

Ahead ==
    /\ Arrived'
    /\ \A n \in Turns : NoneBefore(entries, n) => NoneBefore(entries', n)
    /\ \A n \in Turns : entries'[n] \in {"active", "played"} => NoneBefore(entries', n)

LEMMA StaysAhead == Forward /\ Arrived => Ahead
BY DEF Forward, Arrived, NoneBefore, Ahead

LEMMA JoinsBehind ==
    ASSUME Typed, OrderInv, NEW n \in Turns, Join(n)
    PROVE  Ahead
<1>1. /\ entries \in [Turns -> Status] /\ entries[n] = "absent"
      /\ \A k \in 1 .. (n - 1) : entries[k] # "absent"
      /\ entries' = [entries EXCEPT ![n] = "queued"]
    BY DEF Join, Typed, TypeOK
<1>2. n \in Nat /\ \A k \in Turns : k \in Nat /\ (k < n => k \in 1 .. (n - 1))  BY DEF Turns
<1>3. Arrived'  BY <1>1, <1>2 DEF Arrived, OrderInv
<1>4. ASSUME NEW k \in Turns, NoneBefore(entries, k) PROVE NoneBefore(entries', k)
    <2>1. ~ (n < k)  BY <1>1, <1>4 DEF OrderInv, Arrived, NoneBefore
    <2> QED  BY <1>1, <1>2, <1>4, <2>1 DEF NoneBefore
<1>5. ASSUME NEW k \in Turns, entries'[k] \in {"active", "played"} PROVE NoneBefore(entries', k)
    <2>1. entries[k] = entries'[k]  BY <1>1, <1>5
    <2> QED  BY <1>4, <1>5, <2>1 DEF OrderInv
<1> QED  BY <1>3, <1>4, <1>5 DEF Ahead

LEMMA OrderStep == Typed /\ OrderInv /\ [Next]_vars => OrderInv'
<1> SUFFICES ASSUME Typed, OrderInv, [Next]_vars PROVE OrderInv'  OBVIOUS
<1>0. /\ entries \in [Turns -> Status]
      /\ ender \in [Enders -> [at : EnderAt, turn : MaybeTurn, of : MaybeTurn]]
      /\ \A e \in Enders : ender[e].at = "claim" => ender[e].turn \in Turns
      /\ sched \in [at : SchedAt, old : MaybeTurn, new : MaybeTurn]
      /\ Arrived
    BY DEF Typed, TypeOK, Named, OrderInv
<1>1. \A n \in Turns : entries[n] \in {"active", "played"} => NoneBefore(entries, n)
    BY DEF OrderInv
<1>2. Oldest # Null => Oldest \in Turns /\ NoneBefore(entries, Oldest)
    BY OldestIsFirst DEF NoneBefore
(* What is left to show of a step: it moves entries forward, and whatever  *)
(* it picks is one that nobody queued precedes.                            *)
<1> DEFINE EndersPick == \A e \in Enders : ender'[e].at = "claim" =>
                             ender'[e].turn \in Turns /\ NoneBefore(entries, ender'[e].turn)
           SchedPicks ==
               /\ sched'.at = "commit" /\ sched'.new # Null =>
                      sched'.new \in Turns /\ NoneBefore(entries, sched'.new)
               /\ sched'.at \in {"oldest", "commit"} /\ sched'.old # Null =>
                      sched'.old \in Turns /\ NoneBefore(entries, sched'.old)
<1>3. ASSUME Ahead, EndersPick, SchedPicks PROVE OrderInv'
    BY <1>3 DEF OrderInv, Ahead
<1>4. UNCHANGED ender => EndersPick  BY <1>0 DEF OrderInv
<1>5. UNCHANGED sched => SchedPicks  BY <1>0 DEF OrderInv, MaybeTurn
<1>6. UNCHANGED entries => Ahead  BY <1>0, <1>1, StaysAhead DEF Forward
<1> HIDE DEF EndersPick, SchedPicks
<1>7. ASSUME NEW e \in Enders, PiTurnEnd(e) \/ ForceTurnEnd(e) PROVE OrderInv'
    <2>1. UNCHANGED <<entries, sched>>
        BY <1>7 DEF PiTurnEnd, ForceTurnEnd, BeginTurnEnd, queueVars
    <2>2. EndersPick
        BY <1>0, <1>7
        DEF EndersPick, PiTurnEnd, ForceTurnEnd, BeginTurnEnd, OrderInv
    <2> QED  BY <1>3, <1>5, <1>6, <2>1, <2>2
<1>8. ASSUME NEW e \in Enders, CloseEntry(e) PROVE OrderInv'
    <2>1. UNCHANGED sched  BY <1>8 DEF CloseEntry
    <2>2. EndersPick  BY <1>0, <1>8 DEF EndersPick, CloseEntry, Goto, OrderInv
    <2>3. Forward
        BY <1>0, <1>1, <1>8
        DEF Forward, CloseEntry, Closed, OneOf, ActiveOf, InStatus, Status
    <2> QED  BY <1>0, <1>3, <1>5, <2>1, <2>2, <2>3, StaysAhead
<1>9. ASSUME NEW e \in Enders, Claim(e) PROVE OrderInv'
    <2>1. UNCHANGED sched  BY <1>9 DEF Claim
    <2>2. EndersPick  BY <1>0, <1>9 DEF EndersPick, Claim, Goto, OrderInv
    <2>3. ender[e].turn \in Turns /\ NoneBefore(entries, ender[e].turn)
        BY <1>0, <1>9 DEF Claim, At, OrderInv
    <2>4. Forward
        <3>1. \A n \in Turns : entries'[n] = IF n = ender[e].turn THEN "active" ELSE entries[n]
            BY <1>0, <1>9, <2>3 DEF Claim
        <3> QED  BY <1>1, <2>3, <3>1 DEF Forward, NoneBefore
    <2> QED  BY <1>0, <1>3, <1>5, <2>1, <2>2, <2>4, StaysAhead
<1>10. ASSUME NEW e \in Enders, Pick(e) PROVE OrderInv'
    <2>1. UNCHANGED <<entries, sched>>  BY <1>10 DEF Pick, queueVars
    <2>2. EndersPick
        <3>1. CASE Oldest = Null
            BY <1>0, <1>10, <3>1 DEF EndersPick, Pick, Finish, NoEnder, OrderInv
        <3>2. CASE Oldest # Null
            BY <1>0, <1>2, <1>10, <3>2 DEF EndersPick, Pick, OrderInv
        <3> QED  BY <3>1, <3>2
    <2> QED  BY <1>3, <1>5, <1>6, <2>1, <2>2
<1>11. ASSUME NEW e \in Enders,
              TakeLock(e) \/ OpenWindow(e) \/ WindowTimesOut(e) \/ WindowCloses(e) \/ CheckFault(e)
                \/ CheckFit(e) \/ Announce(e)
       PROVE  OrderInv'
    <2>1. UNCHANGED <<entries, sched>>
        BY <1>11 DEF TakeLock, OpenWindow, WindowTimesOut, WindowCloses, CheckFault, CheckFit,
            Announce, queueVars
    <2>2. EndersPick
        BY <1>0, <1>11
        DEF EndersPick, TakeLock, OpenWindow, WindowTimesOut, WindowCloses, CheckFault, CheckFit,
            Announce, Goto, Finish, NoEnder, OrderInv
    <2> QED  BY <1>3, <1>5, <1>6, <2>1, <2>2
<1>12. CASE OnVerdict \/ VerdictHandled
    <2>1. UNCHANGED <<entries, sched>>  BY <1>12 DEF OnVerdict, VerdictHandled, queueVars
    <2>2. ender' \in {ender, Release}  BY <1>12 DEF OnVerdict, VerdictHandled
    <2>3. EndersPick  BY <1>0, <2>2 DEF EndersPick, Release, At, OrderInv
    <2> QED  BY <1>3, <1>5, <1>6, <2>1, <2>3
<1>13. CASE OnPiFault \/ OnEspStatus
    <2>1. UNCHANGED <<entries, ender, sched>>
        BY <1>13 DEF OnPiFault, OnEspStatus, queueVars, turnVars
    <2> QED  BY <1>3, <1>4, <1>5, <1>6, <2>1
<1>14. CASE SchedBoot
    <2>1. UNCHANGED ender  BY <1>14 DEF SchedBoot, SchedStep, turnVars
    <2>2. SchedPicks  BY <1>0, <1>14 DEF SchedPicks, SchedBoot
    <2>3. Forward  BY <1>0, <1>1, <1>14 DEF Forward, SchedBoot, Status
    <2> QED  BY <1>0, <1>3, <1>4, <2>1, <2>2, <2>3, StaysAhead
<1>15. CASE SchedCheckFault \/ SchedCheckRest \/ SchedStart \/ SchedAnnounce
    <2>1. UNCHANGED <<entries, ender>>
        BY <1>15 DEF SchedCheckFault, SchedCheckRest, SchedStart, SchedAnnounce, SchedStep,
            queueVars, turnVars
    <2>2. SchedPicks
        BY <1>0, <1>15
        DEF SchedPicks, SchedCheckFault, SchedCheckRest, SchedStart, SchedAnnounce
    <2> QED  BY <1>3, <1>4, <1>6, <2>1, <2>2
<1>16. CASE SchedActive
    <2>1. UNCHANGED <<entries, ender>>  BY <1>16 DEF SchedActive, SchedStep, queueVars, turnVars
    <2>2. PICK old \in OneOf(ActiveOf(current)) : sched' = [at |-> "oldest", old |-> old, new |-> Null]
        BY <1>16 DEF SchedActive
    <2>3. old # Null => old \in Turns /\ NoneBefore(entries, old)
        BY <1>1, <2>2 DEF OneOf, ActiveOf, InStatus
    <2>4. SchedPicks  BY <2>2, <2>3 DEF SchedPicks
    <2> QED  BY <1>3, <1>4, <1>6, <2>1, <2>4
<1>17. CASE SchedOldest
    <2>1. UNCHANGED <<entries, ender>>  BY <1>17 DEF SchedOldest, SchedStep, queueVars, turnVars
    <2>2. sched' = [at |-> "commit", old |-> sched.old, new |-> Oldest]
        BY <1>0, <1>17 DEF SchedOldest
    <2>3. sched.old # Null => sched.old \in Turns /\ NoneBefore(entries, sched.old)
        BY <1>0, <1>17 DEF SchedOldest, OrderInv, MaybeTurn
    <2>4. SchedPicks  BY <1>2, <2>2, <2>3 DEF SchedPicks
    <2> QED  BY <1>3, <1>4, <1>6, <2>1, <2>4
<1>18. CASE SchedCommit
    <2>1. UNCHANGED ender  BY <1>18 DEF SchedCommit, SchedStep, turnVars
    <2>2. sched'.at \in {"top", "gap"}
        <3>1. CASE sched.new = Null  BY <1>18, <3>1 DEF SchedCommit
        <3>2. CASE sched.new # Null
            <4>1. sched' = [at |-> "gap", old |-> Null, new |-> sched.new]
                BY <1>0, <1>18, <3>2 DEF SchedCommit
            <4> QED  BY <4>1
        <3> QED  BY <3>1, <3>2
    <2>3. SchedPicks  BY <2>2 DEF SchedPicks
    <2>4. /\ sched.new # Null => NoneBefore(entries, sched.new)
          /\ sched.old # Null => NoneBefore(entries, sched.old)
        BY <1>18 DEF SchedCommit, OrderInv
    <2>5. \A n \in Turns : entries'[n] = IF n = sched.new THEN "active"
                                         ELSE IF n = sched.old THEN "played" ELSE entries[n]
        BY <1>18 DEF SchedCommit
    <2>6. Forward  BY <1>1, <2>4, <2>5 DEF Forward, NoneBefore
    <2> QED  BY <1>0, <1>3, <1>4, <2>1, <2>3, <2>6, StaysAhead
<1>19. ASSUME NEW n \in Turns, Join(n) PROVE OrderInv'
    <2>1. UNCHANGED <<ender, sched>>  BY <1>19 DEF Join, turnVars
    <2>2. Ahead  BY <1>19, JoinsBehind
    <2> QED  BY <1>3, <1>4, <1>5, <2>1, <2>2
<1>20. CASE ClearFault \/ FitChanges \/ TimePasses \/ Disconnect \/ Reconnect
    <2>1. UNCHANGED <<entries, ender, sched>>
        BY <1>20 DEF ClearFault, FitChanges, TimePasses, Disconnect, Reconnect, queueVars, turnVars
    <2> QED  BY <1>3, <1>4, <1>5, <1>6, <2>1
<1>21. CASE Crash
    <2>1. UNCHANGED entries  BY <1>21 DEF Crash
    <2>2. EndersPick  BY <1>21 DEF EndersPick, Crash, NoEnder
    <2>3. SchedPicks  BY <1>21 DEF SchedPicks, Crash
    <2> QED  BY <1>3, <1>6, <2>1, <2>2, <2>3
<1>22. CASE Pi
    <2>1. UNCHANGED <<entries, ender, sched>>
        BY <1>22 DEF Pi, PiStep, PiStarts, PiClears, PiDrops, PiOpto, PiAnswers, queueVars, turnVars
    <2> QED  BY <1>3, <1>4, <1>5, <1>6, <2>1
<1>23. CASE UNCHANGED vars
    <2>1. UNCHANGED <<entries, ender, sched>>  BY <1>23 DEF vars, queueVars, turnVars
    <2> QED  BY <1>3, <1>4, <1>5, <1>6, <2>1
<1> QED
    BY <1>7, <1>8, <1>9, <1>10, <1>11, <1>12, <1>13, <1>14, <1>15, <1>16, <1>17, <1>18, <1>19,
       <1>20, <1>21, <1>22, <1>23
    DEF Next, TurnEnd, Handlers, Scheduler

LEMMA OrderInit == Init => OrderInv
BY DEF Init, OrderInv, Arrived, NoEnder

(* Whatever is lost, restarted, forced or late: an entry of the queue      *)
(* becomes active only when every earlier one has been (pi_client.py:269,  *)
(* schedulers.py:88-100).                                                  *)
THEOREM QueueOrder == Spec => []FirstComeFirstServed
<1>1. Spec => []OrderInv  BY TypedAlways, OrderInit, OrderStep, PTL DEF Spec
<1> QED  BY <1>1, TypedAlways, OrderImplies, PTL

-----------------------------------------------------------------------------
(***************************************************************************)
(* One turn at a time.  With turns shorter than the 33 s after which the   *)
(* scheduler takes over it is enough that either nothing is lost (then the *)
(* operator may force the end of a turn at any time), or the operator      *)
(* forces only the end of a turn whose end was lost (then the connection   *)
(* may drop at any time, and the server may be restarted between turns).   *)
(* README.md lists what goes wrong otherwise.                              *)
(***************************************************************************)
Exclusive ==
    /\ TurnsAreShort
    /\ \/ MaxHasty # 0 /\ MaxDrops = 0 /\ MaxCrashes = 0
       \/ MaxHasty = 0 /\ (MaxCrashes = 0 \/ ~ CrashesMidTurn)

Active == InStatus("active")

(* A task that is past the acquisition of _turn_lock holds it.             *)
Works(e) == ender[e].at \notin {"idle", "lock"}
LockKept == \A e \in Enders : Works(e) <=> lock = e

(* A turn is being played, about to be, or its end is on its way.          *)
Sent(line, types) == \E i \in 1 .. Len(line) : line[i].type \in types
StartSent == Sent(toPi, {"turn_start"})
EndSent == Sent(toCentral, {"turn_end"})
Busy == piState = "PLAYING" \/ StartSent \/ EndSent

(* When 33 s have passed since the last start, nothing of it is in work.   *)
EndersIdle == \A e \in Enders : At(e, "idle")
Quiet == EndersIdle /\ ~ Busy /\ sched.at # "announce" /\ (MaxHasty # 0 => current = Null)
Rests == rested => Quiet

(* The scheduler starts a turn only then.                                  *)
Polling == sched.at \in {"top", "fit", "announce"}
SchedAlone == ~ Polling => rested

(* Which entry may be active, by where the scheduler and the holder of the *)
(* lock are.                                                               *)
Held(place) == lock # Null /\ ender[lock].at \in place
Windows == {"emit", "waiting", "released"}
Gates == {"settle", "fit", "pick", "claim"}
OneActive ==
    /\ sched.at = "boot" => \E n \in Turns : Active \subseteq {n}
    /\ sched.at \in {"oldest", "commit"} => Active \subseteq {sched.old}
    /\ sched.at = "gap" => Active \subseteq {sched.new}
    /\ Polling \/ sched.at = "active" =>
          Active \subseteq (IF Held(Windows \cup Gates) THEN {} ELSE {current})
HolderKnows ==
    /\ \A e \in Enders : At(e, "close") => ender[e].turn = current
    /\ \A e \in Enders : ender[e].at \in Gates => current = Null

(* While nothing is lost, a current turn is on its way somewhere.          *)
Flow ==
    MaxHasty # 0 =>
        /\ con = "up"
        /\ current # Null => Busy \/ sched.at = "announce" \/ ~ EndersIdle

TurnExclusion == LockKept /\ Rests /\ SchedAlone /\ OneActive /\ HolderKnows /\ Flow

LEMMA ExclusionInit == Init => TurnExclusion
<1> SUFFICES ASSUME Init PROVE TurnExclusion  OBVIOUS
<1>1. Active = {} /\ EndersIdle /\ lock = Null /\ current = Null
    BY DEF Init, Active, InStatus, EndersIdle, At, NoEnder
<1>2. ~ Busy  BY DEF Init, Busy, StartSent, EndSent, Sent, Greeting
<1>3. LockKept /\ HolderKnows
    BY <1>1 DEF LockKept, Works, HolderKnows, EndersIdle, At, Gates
<1>4. Rests /\ SchedAlone /\ Flow
    BY <1>1, <1>2 DEF Init, Rests, Quiet, SchedAlone, Polling, Flow
<1>5. OneActive
    <2>1. 1 \in Turns  BY DEF Turns
    <2> QED  BY <1>1, <2>1 DEF Init, OneActive, Polling
<1> QED  BY <1>3, <1>4, <1>5 DEF TurnExclusion

(* What a message that is sent, received or lost does to a line.           *)
LEMMA SentMore ==
    ASSUME NEW S, NEW line \in Seq(S), NEW m \in S, NEW types
    PROVE  Sent(Append(line, m), types) <=> Sent(line, types) \/ m.type \in types
<1> HIDE CoordinatorAssumption, NullAssumption
<1>1. /\ Len(Append(line, m)) = Len(line) + 1 /\ Len(line) \in Nat
      /\ Append(line, m)[Len(line) + 1] = m
      /\ \A i \in 1 .. Len(line) : Append(line, m)[i] = line[i]
    OBVIOUS
<1>2. 1 .. Len(line) + 1 = (1 .. Len(line)) \cup {Len(line) + 1}  BY <1>1
<1> QED  BY <1>1, <1>2, Zenon DEF Sent

LEMMA SentLess ==
    ASSUME NEW S, NEW line \in Seq(S), line # <<>>, NEW types
    PROVE  Sent(line, types) <=> Sent(Tail(line), types) \/ Head(line).type \in types
<1> HIDE CoordinatorAssumption, NullAssumption
<1>1. /\ Len(Tail(line)) = Len(line) - 1 /\ Len(line) \in Nat \ {0}
      /\ Head(line) = line[1]
      /\ \A i \in 1 .. Len(line) - 1 : Tail(line)[i] = line[i + 1]
    OBVIOUS
<1>2. ASSUME Sent(line, types), Head(line).type \notin types PROVE Sent(Tail(line), types)
    <2>1. PICK i \in 1 .. Len(line) : line[i].type \in types  BY <1>2 DEF Sent
    <2>2. i - 1 \in 1 .. Len(line) - 1 /\ (i - 1) + 1 = i  BY <1>1, <1>2, <2>1
    <2>3. Tail(line)[i - 1] = line[i]  BY <1>1, <2>2
    <2> QED  BY <1>1, <2>1, <2>2, <2>3 DEF Sent
<1>3. ASSUME Sent(Tail(line), types) PROVE Sent(line, types)
    <2>1. PICK i \in 1 .. Len(line) - 1 : Tail(line)[i].type \in types  BY <1>1, <1>3 DEF Sent
    <2>2. i + 1 \in 1 .. Len(line) /\ line[i + 1].type \in types  BY <1>1, <2>1
    <2> QED  BY <2>2 DEF Sent
<1>4. Head(line).type \in types => Sent(line, types)
    <2>1. 1 \in 1 .. Len(line)  BY <1>1
    <2> QED  BY <1>1, <2>1 DEF Sent
<1> QED  BY <1>2, <1>3, <1>4

LEMMA SentPrefix ==
    ASSUME NEW S, NEW line \in Seq(S), NEW k \in 0 .. Len(line), NEW types
    PROVE  Sent(SubSeq(line, 1, k), types) => Sent(line, types)
<1> HIDE CoordinatorAssumption, NullAssumption
<1>1. Len(SubSeq(line, 1, k)) = k /\ \A i \in 1 .. k : SubSeq(line, 1, k)[i] = line[i]
    BY SubSeqProperties
<1>2. 1 .. k \subseteq 1 .. Len(line)  OBVIOUS
<1> QED  BY <1>1, <1>2, Zenon DEF Sent

(* A task at work: the turn is not over, and the scheduler only polls.     *)
LEMMA AtWork ==
    ASSUME Typed, TurnExclusion, NEW e \in Enders, ~ At(e, "idle")
    PROVE  ~ rested /\ Polling
BY DEF TurnExclusion, Rests, Quiet, EndersIdle, SchedAlone, Typed, TypeOK

(* When 33 s have passed nobody holds the lock.                            *)
LEMMA NoneAtWork ==
    ASSUME Typed, TurnExclusion, rested
    PROVE  lock = Null /\ EndersIdle /\ ~ Busy /\ sched.at # "announce"
<1>1. EndersIdle /\ ~ Busy /\ sched.at # "announce"  BY DEF TurnExclusion, Rests, Quiet
<1>2. lock = Null
    BY <1>1 DEF TurnExclusion, LockKept, Works, EndersIdle, At, Typed, TypeOK
<1> QED  BY <1>1, <1>2

(* A step that moves no task to another part of its work.                  *)
SamePart(a, b) == a = b \/ {a, b} \subseteq Windows \/ {a, b} \subseteq Gates

LEMMA Unmoved ==
    ASSUME Typed, TurnExclusion, Active' = Active,
           current' = current, rested' = rested, lock' = lock, sched' = sched,
           \A e \in Enders : /\ SamePart(ender[e].at, ender'[e].at)
                             /\ At(e, "close") => ender'[e].turn = ender[e].turn,
           Busy' => Busy, MaxHasty # 0 => con' = con /\ (Busy => Busy')
    PROVE  TurnExclusion'
<1>1. \A e \in Enders : (At(e, "idle"))' = At(e, "idle") /\ Works(e)' = Works(e)
    BY DEF SamePart, Windows, Gates, At, Works
<1>2. EndersIdle' = EndersIdle  BY <1>1 DEF EndersIdle
<1>3. LockKept'  BY <1>1 DEF TurnExclusion, LockKept
<1>4. Rests'  BY <1>2 DEF TurnExclusion, Rests, Quiet
<1>5. SchedAlone'  BY DEF TurnExclusion, SchedAlone, Polling
<1>6. Held(Windows \cup Gates)' = Held(Windows \cup Gates)
    BY DEF Held, SamePart, Windows, Gates, Typed, TypeOK
<1>7. OneActive'  BY <1>6 DEF TurnExclusion, OneActive, Polling
<1>8. HolderKnows'  BY DEF TurnExclusion, HolderKnows, SamePart, Windows, Gates, At
<1>9. Flow'  BY <1>2 DEF TurnExclusion, Flow
<1> QED  BY <1>3, <1>4, <1>5, <1>7, <1>8, <1>9 DEF TurnExclusion

(* A task that holds the lock gives it back: what the turn was is settled, *)
(* or the turn it has started is announced.                                *)
LEMMA GivesBack ==
    ASSUME Typed, TurnExclusion, NEW e \in Enders, Works(e), Finish(e),
           Active' = Active, rested' = rested, sched' = sched, con' = con,
           \/ Active = {} /\ current' = Null
           \/ Active \subseteq {current} /\ current' = current /\ (MaxHasty # 0 => Busy')
    PROVE  TurnExclusion'
<1>1. ~ rested /\ Polling  BY AtWork DEF Works, At
<1>2. lock = e /\ lock' = Null /\ \A d \in Enders : ~ Works(d)'
    <2>1. \A d \in Enders : ender'[d] = IF d = e THEN NoEnder ELSE ender[d]
        BY DEF Finish, Typed, TypeOK
    <2>2. lock = e /\ \A d \in Enders \ {e} : ~ Works(d)  BY DEF TurnExclusion, LockKept
    <2> QED  BY <2>1, <2>2 DEF Works, NoEnder, Finish
<1>3. LockKept'  BY <1>2 DEF LockKept
<1>4. Rests' /\ SchedAlone'  BY <1>1 DEF Rests, SchedAlone, Polling
<1>5. OneActive'  BY <1>1, <1>2 DEF OneActive, Polling, Held
<1>6. HolderKnows'  BY <1>2 DEF HolderKnows, Works, At, Gates
<1>7. Flow'  BY DEF TurnExclusion, Flow
<1> QED  BY <1>3, <1>4, <1>5, <1>6, <1>7 DEF TurnExclusion

(* A task that holds the lock goes on with its work.                       *)
LEMMA WorksOn ==
    ASSUME Typed, TurnExclusion, NEW e \in Enders, Works(e), NEW place, Goto(e, place),
           place \notin {"idle", "lock", "close"},
           rested' = rested \/ rested' = FALSE, sched' = sched, con' = con,
           place \in Gates => current' = Null,
           IF place \in Windows \cup Gates THEN Active' = {} ELSE Active' \subseteq {current'}
    PROVE  TurnExclusion'
<1>1. ~ rested /\ Polling  BY AtWork DEF Works, At
<1>2. lock = e /\ lock' = e /\ \A d \in Enders \ {e} : ~ Works(d) /\ ender'[d] = ender[d]
    BY DEF TurnExclusion, LockKept, Goto, Typed, TypeOK
<1>3. ender'[e].at = place  BY DEF Goto, Typed, TypeOK
<1>4. LockKept'  BY <1>2, <1>3 DEF LockKept, Works
<1>5. Rests' /\ SchedAlone'  BY <1>1 DEF Rests, SchedAlone, Polling
<1>6. Held(Windows \cup Gates)' = (place \in Windows \cup Gates)
    BY <1>2, <1>3 DEF Held
<1>7. OneActive'  BY <1>1, <1>6 DEF OneActive, Polling
<1>8. HolderKnows'  BY <1>2, <1>3 DEF HolderKnows, Works, At, Gates
<1>9. Flow'
    <2>1. ~ EndersIdle'  BY <1>3 DEF EndersIdle, At
    <2> QED  BY <2>1 DEF TurnExclusion, Flow
<1> QED  BY <1>4, <1>5, <1>7, <1>8, <1>9 DEF TurnExclusion

(* What the holder of the lock knows, by where it is.                      *)
LEMMA Working ==
    ASSUME Typed, TurnExclusion, NEW e \in Enders, Works(e)
    PROVE  /\ ender[e].at \in Windows \cup Gates => Active = {}
           /\ ender[e].at \in {"close", "announce"} => Active \subseteq {current}
           /\ At(e, "close") => ender[e].turn = current
           /\ ender[e].at \in Gates => current = Null
<1>1. Polling  BY AtWork DEF Works, At
<1>2. lock = e /\ lock # Null  BY DEF TurnExclusion, LockKept
<1>3. Held(Windows \cup Gates) <=> ender[e].at \in Windows \cup Gates  BY <1>2 DEF Held
<1> QED  BY <1>1, <1>3 DEF TurnExclusion, OneActive, HolderKnows, Windows, Gates

(* The query for the entry to close finds the active one.                  *)
LEMMA ActiveFound ==
    ASSUME NEW turn \in MaybeTurn, Active \subseteq {turn}
    PROVE  OneOf(ActiveOf(turn)) = IF Active = {} THEN {Null} ELSE {turn}
<1>1. CASE turn = Null
    <2>1. Active = {}  BY <1>1 DEF Active, InStatus
    <2> QED  BY <1>1, <2>1 DEF ActiveOf, OneOf
<1>2. CASE turn # Null
    <2>1. ActiveOf(turn) = Active  BY <1>2 DEF ActiveOf, Active
    <2>2. Active = {} \/ Active = {turn}  OBVIOUS
    <2> QED  BY <2>1, <2>2 DEF OneOf
<1> QED  BY <1>1, <1>2

LEMMA LockBegins ==
    ASSUME Typed, TurnExclusion, NEW e \in Enders, ~ rested, lock = Null,
           lock' = e, ender'[e].at = "close", ender'[e].turn = current,
           \A d \in Enders \ {e} : ender'[d] = ender[d],
           Active' = Active, current' = current, rested' = rested, sched' = sched, con' = con
    PROVE  TurnExclusion'
<1>1. Polling  BY DEF TurnExclusion, SchedAlone, Typed, TypeOK
<1>2. \A d \in Enders : ~ Works(d)  BY DEF TurnExclusion, LockKept
<1>3. LockKept'  BY <1>2 DEF LockKept, Works
<1>4. Rests' /\ SchedAlone'  BY <1>1 DEF Rests, SchedAlone, Polling
<1>5. ~ Held(Windows \cup Gates) /\ ~ Held(Windows \cup Gates)'  BY DEF Held, Windows, Gates
<1>6. Active \subseteq {current}  BY <1>1, <1>5 DEF TurnExclusion, OneActive
<1>7. OneActive'  BY <1>1, <1>5, <1>6 DEF OneActive, Polling
<1>8. HolderKnows'  BY <1>2 DEF HolderKnows, Works, At, Gates
<1>9. Flow'
    <2>1. ~ EndersIdle'  BY DEF EndersIdle, At
    <2> QED  BY <2>1 DEF TurnExclusion, Flow
<1> QED  BY <1>3, <1>4, <1>7, <1>8, <1>9 DEF TurnExclusion

LEMMA LockAwaited ==
    ASSUME Typed, TurnExclusion, NEW e \in Enders, ~ rested, At(e, "idle"), lock # Null,
           lock' = lock, ender'[e].at = "lock",
           \A d \in Enders \ {e} : ender'[d] = ender[d],
           Active' = Active, current' = current, rested' = rested, sched' = sched, con' = con
    PROVE  TurnExclusion'
<1>1. Polling  BY DEF TurnExclusion, SchedAlone, Typed, TypeOK
<1>2. lock \in Enders /\ lock # e  BY DEF TurnExclusion, LockKept, Works, At, Typed, TypeOK
<1>3. LockKept'  BY <1>2 DEF TurnExclusion, LockKept, Works, At
<1>4. Rests' /\ SchedAlone'  BY <1>1 DEF Rests, SchedAlone, Polling
<1>5. Held(Windows \cup Gates)' = Held(Windows \cup Gates)  BY <1>2 DEF Held
<1>6. OneActive'  BY <1>1, <1>5 DEF TurnExclusion, OneActive, Polling
<1>7. HolderKnows'  BY DEF TurnExclusion, HolderKnows, At, Gates
<1>8. Flow'
    <2>1. ~ EndersIdle'  BY DEF EndersIdle, At
    <2> QED  BY <2>1 DEF TurnExclusion, Flow
<1> QED  BY <1>3, <1>4, <1>6, <1>7, <1>8 DEF TurnExclusion

LEMMA LinesOfTypes == Typed => toPi \in Seq(ToPi) /\ toCentral \in Seq(ToCentral)
BY DEF Typed, TypeOK

LEMMA EndersBegin ==
    ASSUME Exclusive, Typed, TurnExclusion, NEW e \in Enders, PiTurnEnd(e) \/ ForceTurnEnd(e)
    PROVE  TurnExclusion'
<1>1. ~ rested
    <2>1. CASE PiTurnEnd(e)
        <3>1. toCentral # <<>> /\ Head(toCentral).type = "turn_end"
            BY <2>1 DEF PiTurnEnd, Receive
        <3>2. Busy  BY <3>1, LinesOfTypes, SentLess DEF Busy, EndSent
        <3> QED  BY <3>2, NoneAtWork
    <2>2. CASE ForceTurnEnd(e)
        BY <2>2 DEF ForceTurnEnd, TurnExclusion, Rests, Quiet, Typed, TypeOK
    <2> QED  BY <2>1, <2>2
<1>2. PICK n \in MaybeTurn : BeginTurnEnd(e, n)  BY EndIsOf
<1>3. /\ At(e, "idle") /\ Active' = Active /\ current' = current /\ rested' = rested
      /\ sched' = sched /\ con' = con
      /\ \A d \in Enders \ {e} : ender'[d] = ender[d]
    BY <1>2 DEF BeginTurnEnd, queueVars, Active, InStatus, Typed, TypeOK
<1>4. CASE lock = Null
    <2>1. lock' = e /\ ender'[e].at = "close" /\ ender'[e].turn = current
        BY <1>2, <1>4 DEF BeginTurnEnd, Typed, TypeOK
    <2> QED  BY <1>1, <1>3, <1>4, <2>1, LockBegins
<1>5. CASE lock # Null
    <2>1. lock' = lock /\ ender'[e].at = "lock"
        BY <1>2, <1>5 DEF BeginTurnEnd, Typed, TypeOK
    <2> QED  BY <1>1, <1>3, <1>5, <2>1, LockAwaited
<1> QED  BY <1>4, <1>5

LEMMA EnderTakes ==
    ASSUME Typed, TurnExclusion, NEW e \in Enders, TakeLock(e)
    PROVE  TurnExclusion'
<1>1. ~ rested  BY AtWork DEF TakeLock, At
<1>2. /\ lock = Null /\ lock' = e /\ ender'[e].at = "close" /\ ender'[e].turn = current
      /\ \A d \in Enders \ {e} : ender'[d] = ender[d]
    BY DEF TakeLock, Typed, TypeOK
<1>3. Active' = Active /\ current' = current /\ rested' = rested /\ sched' = sched /\ con' = con
    BY DEF TakeLock, queueVars, lineVars, Active, InStatus
<1> QED  BY <1>1, <1>2, <1>3, LockBegins

LEMMA EnderCloses ==
    ASSUME Typed, TurnExclusion, NEW e \in Enders, CloseEntry(e)
    PROVE  TurnExclusion'
<1>1. At(e, "close") /\ Works(e) /\ Goto(e, "emit")  BY DEF CloseEntry, At, Works
<1>2. Active \subseteq {current} /\ ender[e].turn = current  BY <1>1, Working DEF At
<1>3. current \in MaybeTurn  BY DEF Typed, TypeOK
<1>4. PICK n \in OneOf(ActiveOf(current)) : entries' = Closed(n)
    BY <1>2 DEF CloseEntry
<1>5. n = IF Active = {} THEN Null ELSE current
    BY <1>2, <1>3, <1>4, ActiveFound
<1>6. Active' = {}
    <2>1. Null \notin Turns /\ entries \in [Turns -> Status]  BY DEF Typed, TypeOK
    <2> QED  BY <1>2, <1>4, <1>5, <2>1 DEF Closed, Active, InStatus
<1>7. rested' = rested /\ sched' = sched /\ con' = con  BY DEF CloseEntry, lineVars
<1> QED  BY <1>1, <1>6, <1>7, WorksOn DEF Windows, Gates

LEMMA EnderOpens ==
    ASSUME Typed, TurnExclusion, NEW e \in Enders, OpenWindow(e)
    PROVE  TurnExclusion'
<1>1. Works(e) /\ At(e, "emit") /\ Active = {}  BY Working DEF OpenWindow, At, Works, Windows
<1>2. PICK place \in {"released", "waiting"} : Goto(e, place)  BY DEF OpenWindow
<1>3. Active' = Active /\ rested' = rested /\ sched' = sched /\ con' = con
    BY DEF OpenWindow, queueVars, lineVars, Active, InStatus
<1> QED  BY <1>1, <1>2, <1>3, WorksOn DEF Windows, Gates

LEMMA EnderTimesOut ==
    ASSUME Typed, TurnExclusion, NEW e \in Enders, WindowTimesOut(e)
    PROVE  TurnExclusion'
<1>1. Works(e) /\ Active = {}  BY Working DEF WindowTimesOut, At, Works, Windows
<1>2. /\ Active' = Active /\ rested' = rested /\ sched' = sched /\ con' = con
      /\ current' = Null /\ Finish(e)
    BY DEF WindowTimesOut, lineVars, Active, InStatus
<1> QED  BY <1>1, <1>2, GivesBack

LEMMA EnderGates ==
    ASSUME Typed, TurnExclusion, NEW e \in Enders,
           WindowCloses(e) \/ CheckFault(e) \/ CheckFit(e)
    PROVE  TurnExclusion'
<1>1. Works(e) /\ Active = {}
    BY Working DEF WindowCloses, CheckFault, CheckFit, At, Works, Windows, Gates
<1>2. current' = Null
    <2>1. CASE WindowCloses(e)  BY <2>1 DEF WindowCloses
    <2>2. CASE CheckFault(e) \/ CheckFit(e)
        <3>1. current' = current  BY <2>2 DEF CheckFault, CheckFit, queueVars
        <3>2. current = Null
            BY <1>1, <2>2, Working DEF CheckFault, CheckFit, At, Gates
        <3> QED  BY <3>1, <3>2
    <2> QED  BY <2>1, <2>2
<1>3. Active' = Active /\ rested' = rested /\ sched' = sched /\ con' = con
    BY DEF WindowCloses, CheckFault, CheckFit, queueVars, lineVars, Active, InStatus
<1>4. Finish(e) \/ \E place \in Gates : Goto(e, place)
    BY DEF WindowCloses, CheckFault, CheckFit, Gates
<1>5. CASE Finish(e)  BY <1>1, <1>2, <1>3, <1>5, GivesBack
<1>6. CASE \E place \in Gates : Goto(e, place)
    <2>1. PICK place \in Gates : Goto(e, place)  BY <1>6
    <2> QED  BY <1>1, <1>2, <1>3, <2>1, WorksOn DEF Windows, Gates
<1> QED  BY <1>4, <1>5, <1>6

LEMMA EnderPicks ==
    ASSUME Typed, TurnExclusion, NEW e \in Enders, Pick(e)
    PROVE  TurnExclusion'
<1>1. Works(e) /\ Active = {} /\ current = Null
    BY Working DEF Pick, At, Works, Gates
<1>2. /\ Active' = Active /\ current' = current /\ rested' = rested /\ sched' = sched
      /\ con' = con
    BY DEF Pick, queueVars, lineVars, Active, InStatus
<1>3. CASE Oldest = Null
    <2>1. Finish(e)  BY <1>3 DEF Pick
    <2> QED  BY <1>1, <1>2, <2>1, GivesBack
<1>4. CASE Oldest # Null
    <2>1. /\ ender[e].at = "pick" /\ ender'[e].at = "claim" /\ lock' = lock
          /\ \A d \in Enders \ {e} : ender'[d] = ender[d]
        BY <1>4 DEF Pick, At, Typed, TypeOK
    <2>2. \A d \in Enders : /\ SamePart(ender[d].at, ender'[d].at)
                            /\ At(d, "close") => ender'[d].turn = ender[d].turn
        BY <2>1 DEF SamePart, Gates, At
    <2>3. Busy' = Busy  BY DEF Busy, StartSent, EndSent, Sent, Pick, lineVars, piVars
    <2> QED  BY <1>2, <2>1, <2>2, <2>3, Unmoved
<1> QED  BY <1>3, <1>4

LEMMA EnderClaims ==
    ASSUME Typed, TurnExclusion, NEW e \in Enders, Claim(e)
    PROVE  TurnExclusion'
<1>1. Works(e) /\ Active = {}  BY Working DEF Claim, At, Works, Gates
<1>2. Active' \subseteq {current'}  BY <1>1 DEF Claim, Active, InStatus, Typed, TypeOK
<1>3. Goto(e, "announce") /\ rested' = FALSE /\ sched' = sched /\ con' = con
    BY DEF Claim, lineVars
<1> QED  BY <1>1, <1>2, <1>3, WorksOn DEF Windows, Gates

LEMMA EnderAnnounces ==
    ASSUME Typed, TurnExclusion, NEW e \in Enders, Announce(e)
    PROVE  TurnExclusion'
<1>1. Works(e) /\ Active \subseteq {current} /\ ender[e].turn \in Turns
    BY Working DEF Announce, At, Works, Typed, Named
<1>2. /\ Active' = Active /\ current' = current /\ rested' = rested /\ sched' = sched
      /\ con' = con /\ Finish(e)
    BY DEF Announce, queueVars, Active, InStatus
<1>3. MaxHasty # 0 => Busy'
    <2> SUFFICES ASSUME MaxHasty # 0 PROVE Busy'  OBVIOUS
    <2>1. con = "up"  BY DEF TurnExclusion, Flow
    <2>2. toPi' = Append(toPi, TurnStart(ender[e].turn))  BY <2>1 DEF Announce, SendPi
    <2>3. TurnStart(ender[e].turn) \in ToPi /\ TurnStart(ender[e].turn).type = "turn_start"
        BY <1>1 DEF ToPi, TurnStart
    <2>4. StartSent'  BY <2>2, <2>3, LinesOfTypes, SentMore DEF StartSent
    <2> QED  BY <2>4 DEF Busy, StartSent, EndSent, Sent
<1> QED  BY <1>1, <1>2, <1>3, GivesBack

(* The handlers of verdicts and faults, and what is outside the tasks.     *)
LEMMA HandlersMove ==
    ASSUME Typed, TurnExclusion, Handlers
    PROVE  TurnExclusion'
<1>1. /\ Active' = Active /\ current' = current /\ rested' = rested /\ lock' = lock
      /\ sched' = sched /\ con' = con /\ toPi' = toPi /\ piState' = piState
    BY DEF Handlers, OnVerdict, VerdictHandled, OnPiFault, OnEspStatus, queueVars, turnVars, lineVars,
           piVars, Active, InStatus
<1>2. ender' = ender \/ ender' = Release
    BY DEF Handlers, OnVerdict, VerdictHandled, OnPiFault, OnEspStatus, turnVars
<1>3. \A e \in Enders : /\ SamePart(ender[e].at, ender'[e].at)
                        /\ At(e, "close") => ender'[e].turn = ender[e].turn
    BY <1>2 DEF Release, SamePart, Windows, At, Typed, TypeOK
<1>4. EndSent' <=> EndSent
    <2>1. CASE VerdictHandled
        <3>1. toCentral' = toCentral  BY <2>1 DEF VerdictHandled, lineVars
        <3> QED  BY <3>1 DEF EndSent
    <2>2. CASE OnVerdict \/ OnPiFault \/ OnEspStatus
        <3>1. /\ toCentral # <<>> /\ Head(toCentral).type # "turn_end"
              /\ toCentral' = Tail(toCentral)
            BY <2>2 DEF OnVerdict, OnPiFault, OnEspStatus, Receive
        <3> QED  BY <3>1, LinesOfTypes, SentLess DEF EndSent
    <2> QED  BY <2>1, <2>2 DEF Handlers
<1>5. Busy' = Busy  BY <1>1, <1>4 DEF Busy, StartSent, EndSent, Sent
<1> QED  BY <1>1, <1>3, <1>5, Unmoved

LEMMA OutsideMoves ==
    ASSUME Typed, TurnExclusion, (\E n \in Turns : Join(n)) \/ ClearFault \/ FitChanges \/ UNCHANGED vars
    PROVE  TurnExclusion'
<1>1. Active' = Active
    <2>1. CASE \E n \in Turns : Join(n)
        <3>1. PICK n \in Turns : Join(n)  BY <2>1
        <3> QED  BY <3>1 DEF Join, Active, InStatus, Typed, TypeOK
    <2>2. CASE ClearFault \/ FitChanges \/ UNCHANGED vars
        BY <2>2 DEF ClearFault, FitChanges, vars, queueVars, Active, InStatus
    <2> QED  BY <2>1, <2>2
<1>2. /\ current' = current /\ rested' = rested /\ lock' = lock /\ ender' = ender
      /\ sched' = sched /\ con' = con /\ toCentral' = toCentral /\ piState' = piState
    BY DEF Join, ClearFault, FitChanges, vars, queueVars, turnVars, lineVars, piVars
<1>3. StartSent' <=> StartSent
    <2>1. CASE ClearFault
        <3>1. toPi' = Append(toPi, FaultClear)  BY <2>1 DEF ClearFault, SendPi
        <3>2. FaultClear \in ToPi /\ FaultClear.type # "turn_start"  BY DEF ToPi, FaultClear
        <3> QED  BY <3>1, <3>2, LinesOfTypes, SentMore DEF StartSent
    <2>2. CASE (\E n \in Turns : Join(n)) \/ FitChanges \/ UNCHANGED vars
        <3>1. toPi' = toPi  BY <2>2 DEF Join, FitChanges, vars, lineVars
        <3> QED  BY <3>1 DEF StartSent
    <2> QED  BY <2>1, <2>2
<1>4. Busy' = Busy  BY <1>2, <1>3 DEF Busy, StartSent, EndSent, Sent
<1>5. \A e \in Enders : /\ SamePart(ender[e].at, ender'[e].at)
                        /\ At(e, "close") => ender'[e].turn = ender[e].turn
    BY <1>2 DEF SamePart
<1> QED  BY <1>1, <1>2, <1>4, <1>5, Unmoved

(* The Pi: a turn that was on its way is played, then its end is on its    *)
(* way, unless it is lost because the connection is.                       *)
LEMMA PiPlays ==
    ASSUME Typed, TurnExclusion, Pi
    PROVE  TurnExclusion'
<1>1. /\ Active' = Active /\ current' = current /\ rested' = rested /\ lock' = lock
      /\ ender' = ender /\ sched' = sched /\ con' = con
    BY DEF Pi, PiStarts, PiClears, PiDrops, PiOpto, PiAnswers, PiStep, queueVars, turnVars,
           Active, InStatus
<1>2. ASSUME NEW m \in ToCentral, SendCentral(m)
      PROVE  /\ EndSent' => EndSent \/ m.type = "turn_end"
             /\ EndSent => EndSent'
             /\ con = "up" /\ m.type = "turn_end" => EndSent'
    <2>1. CASE con = "up"
        <3>1. toCentral' = Append(toCentral, m)  BY <1>2, <2>1 DEF SendCentral
        <3> QED  BY <3>1, LinesOfTypes, SentMore DEF EndSent
    <2>2. CASE con # "up"
        <3>1. toCentral' = toCentral  BY <1>2, <2>2 DEF SendCentral
        <3> QED  BY <2>2, <3>1 DEF EndSent
    <2> QED  BY <2>1, <2>2
<1>3. /\ EspStatus \in ToCentral /\ EspStatus.type # "turn_end"
      /\ TurnEnded(piTurn).type = "turn_end"
    BY DEF ToCentral, EspStatus, TurnEnded
<1>4. ASSUME toPi # <<>>, toPi' = Tail(toPi)
      PROVE  StartSent <=> StartSent' \/ Head(toPi).type = "turn_start"
    BY <1>4, LinesOfTypes, SentLess DEF StartSent
<1>5. (Busy' => Busy) /\ (con = "up" => (Busy => Busy'))
    <2>1. CASE PiStarts
        <3>1. /\ toPi # <<>> /\ toPi' = Tail(toPi) /\ Head(toPi).type = "turn_start"
              /\ piState' = "PLAYING"
            BY <2>1 DEF PiStarts
        <3> QED  BY <3>1, <1>4 DEF Busy
    <2>2. CASE PiClears
        <3>1. /\ toPi # <<>> /\ toPi' = Tail(toPi) /\ Head(toPi).type # "turn_start"
              /\ piState' = piState /\ SendCentral(EspStatus)
            BY <2>2 DEF PiClears
        <3>2. EndSent' <=> EndSent
            BY <3>1, <1>2, <1>3
        <3>3. StartSent' <=> StartSent  BY <3>1, <1>4
        <3> QED  BY <3>1, <3>2, <3>3 DEF Busy, StartSent, EndSent, Sent
    <2>3. CASE PiDrops
        <3>1. piState = "PLAYING" /\ piState' = piState  BY <2>3 DEF PiDrops, piVars
        <3> QED  BY <3>1 DEF Busy
    <2>4. CASE PiOpto
        <3>1. piState = "PLAYING" /\ SendCentral(TurnEnded(piTurn))  BY <2>4 DEF PiOpto
        <3>2. con = "up" => EndSent'  BY <3>1, <1>2, <1>3, PiMessages
        <3> QED  BY <3>1, <3>2 DEF Busy, StartSent, EndSent, Sent
    <2>5. CASE PiAnswers
        <3>1. piTurn \in Turns  BY <2>5 DEF Typed, Named, PiAnswers
        <3>2. /\ \A o \in Outcomes : Outcome(o, piTurn) \in ToCentral
              /\ PiFault("still_blocked", piTurn) \in ToCentral /\ PiFault("internal_error", piTurn) \in ToCentral
            BY <3>1 DEF ToCentral
        <3>3. \A o \in Outcomes : Outcome(o, piTurn).type # "turn_end"  BY DEF Outcome
        <3>4. PiFault("still_blocked", piTurn).type # "turn_end" /\ PiFault("internal_error", piTurn).type # "turn_end"
            BY DEF PiFault
        <3>5. \/ \E o \in Outcomes : SendCentral(Outcome(o, piTurn))
              \/ SendCentral(PiFault("still_blocked", piTurn))
              \/ SendCentral(PiFault("internal_error", piTurn))
            BY <2>5, Zenon DEF PiAnswers
        <3>6. PICK m \in ToCentral : SendCentral(m) /\ m.type # "turn_end"
            BY <3>2, <3>3, <3>4, <3>5, Zenon
        <3>7. EndSent' <=> EndSent  BY <3>6, <1>2
        <3>8. piState = "AWAITING" /\ piState' = "IDLE" /\ toPi' = toPi  BY <2>5 DEF PiAnswers
        <3> QED  BY <3>7, <3>8 DEF Busy, StartSent, EndSent, Sent
    <2> QED  BY <2>1, <2>2, <2>3, <2>4, <2>5 DEF Pi
<1>6. \A e \in Enders : /\ SamePart(ender[e].at, ender'[e].at)
                        /\ At(e, "close") => ender'[e].turn = ender[e].turn
    BY <1>1 DEF SamePart
<1>7. MaxHasty # 0 => con' = con /\ (Busy => Busy')
    BY <1>1, <1>5 DEF TurnExclusion, Flow
<1> QED  BY <1>1, <1>5, <1>6, <1>7, Unmoved

(* The scheduler.  Its steps leave the tasks, the Pi and the line to       *)
(* central alone.                                                          *)
LEMMA SchedFrame ==
    ASSUME Scheduler
    PROVE  /\ lock' = lock /\ ender' = ender /\ con' = con /\ toCentral' = toCentral
           /\ piState' = piState
           /\ EndersIdle' = EndersIdle
           /\ LockKept' = LockKept
<1>1. /\ lock' = lock /\ ender' = ender /\ con' = con /\ toCentral' = toCentral
      /\ piState' = piState
    BY DEF Scheduler, SchedStep, SchedBoot, SchedCheckFault, SchedCheckRest, SchedActive, SchedOldest,
           SchedCommit, SchedStart, SchedAnnounce, turnVars, piVars
<1> QED  BY <1>1 DEF EndersIdle, At, LockKept, Works

(* 33 s have passed: whatever the scheduler does before it starts a turn.  *)
LEMMA SchedQuiet ==
    ASSUME Typed, TurnExclusion, Scheduler, rested,
           toPi' = toPi, rested' = rested, sched'.at # "announce",
           current' \in {current, Null}, OneActive'
    PROVE  TurnExclusion'
<1>1. lock = Null /\ EndersIdle /\ ~ Busy  BY NoneAtWork
<1>2. EndersIdle' /\ ~ Busy'  BY <1>1, SchedFrame DEF Busy, StartSent, EndSent, Sent
<1>3. LockKept'  BY SchedFrame DEF TurnExclusion
<1>4. MaxHasty # 0 => current' = Null  BY DEF TurnExclusion, Rests, Quiet
<1>5. Rests'  BY <1>2, <1>4 DEF Rests, Quiet
<1>6. SchedAlone'  BY DEF SchedAlone
<1>7. HolderKnows'  BY <1>2 DEF HolderKnows, EndersIdle, At, Gates
<1>8. Flow'  BY <1>4, SchedFrame DEF TurnExclusion, Flow
<1> QED  BY <1>3, <1>5, <1>6, <1>7, <1>8 DEF TurnExclusion

LEMMA SchedReads ==
    ASSUME Typed, TurnExclusion, SchedBoot \/ SchedActive \/ SchedOldest \/ SchedCommit
    PROVE  TurnExclusion'
<1>1. rested  BY DEF TurnExclusion, SchedAlone, Polling, SchedBoot, SchedActive, SchedOldest, SchedCommit
<1>2. Scheduler  BY DEF Scheduler
<1>3. lock = Null  BY <1>1, NoneAtWork
<1>4. lock' = Null  BY <1>2, <1>3, SchedFrame
<1>5. ~ Held(Windows \cup Gates) /\ ~ Held(Windows \cup Gates)'  BY <1>3, <1>4 DEF Held
<1>6. /\ toPi' = toPi /\ rested' = rested
      /\ current' = current \/ current' = Null
      /\ sched'.at # "announce"
    <2>1. CASE SchedBoot  BY <2>1 DEF SchedBoot, Typed, TypeOK
    <2>2. CASE SchedActive  BY <2>2 DEF SchedActive, queueVars
    <2>3. CASE SchedOldest  BY <2>3 DEF SchedOldest, queueVars, Typed, TypeOK
    <2>4. CASE SchedCommit
        <3>1. toPi' = toPi /\ rested' = rested /\ (current' = current \/ current' = Null)
            BY <2>4 DEF SchedCommit
        <3>2. sched.new = Null => sched'.at = "top"  BY <2>4 DEF SchedCommit
        <3>3. sched.new # Null => sched'.at = "gap"  BY <2>4 DEF SchedCommit, Typed, TypeOK
        <3> QED  BY <3>1, <3>2, <3>3
    <2> QED  BY <2>1, <2>2, <2>3, <2>4
<1>7. OneActive'
    <2>1. CASE SchedBoot
        <3>1. Active' = {}  BY <2>1 DEF SchedBoot, Active, InStatus, Typed, TypeOK
        <3>2. sched'.at = "top"  BY <2>1 DEF SchedBoot, Typed, TypeOK
        <3> QED  BY <3>1, <3>2 DEF OneActive
    <2>2. CASE SchedActive
        <3>1. Active \subseteq {current} /\ current \in MaybeTurn
            BY <1>5, <2>2 DEF TurnExclusion, OneActive, SchedActive, Typed, TypeOK
        <3>2. \E old \in (IF Active = {} THEN {Null} ELSE {current}) :
                  sched' = [at |-> "oldest", old |-> old, new |-> Null]
            BY <2>2, <3>1, ActiveFound DEF SchedActive
        <3>3. Active \subseteq {sched'.old} /\ sched'.at = "oldest"  BY <3>1, <3>2
        <3>4. Active' = Active  BY <2>2 DEF SchedActive, queueVars, Active, InStatus
        <3> QED  BY <3>3, <3>4 DEF OneActive, Polling
    <2>3. CASE SchedOldest
        <3>1. sched'.at = "commit" /\ sched'.old = sched.old /\ Active' = Active
            BY <2>3 DEF SchedOldest, queueVars, Active, InStatus, Typed, TypeOK
        <3>2. Active \subseteq {sched.old}  BY <2>3 DEF SchedOldest, TurnExclusion, OneActive
        <3> QED  BY <3>1, <3>2 DEF OneActive, Polling
    <2>4. CASE SchedCommit
        <3>1. Active \subseteq {sched.old}  BY <2>4 DEF SchedCommit, TurnExclusion, OneActive
        <3>2. \A n \in Turns : entries'[n] = "active" =>
                  n = sched.new \/ (n # sched.old /\ entries[n] = "active")
            BY <2>4 DEF SchedCommit
        <3>3. Active' \subseteq {sched.new}  BY <3>1, <3>2 DEF Active, InStatus
        <3>4. CASE sched.new = Null
            <4>1. Active' = {}  BY <3>3, <3>4 DEF Active, InStatus
            <4>2. sched'.at = "top"  BY <2>4, <3>4 DEF SchedCommit
            <4> QED  BY <4>1, <4>2 DEF OneActive
        <3>5. CASE sched.new # Null
            <4>1. sched'.at = "gap" /\ sched'.new = sched.new
                BY <2>4, <3>5 DEF SchedCommit, Typed, TypeOK
            <4> QED  BY <3>3, <4>1 DEF OneActive, Polling
        <3> QED  BY <3>4, <3>5
    <2> QED  BY <2>1, <2>2, <2>3, <2>4
<1> QED  BY <1>1, <1>2, <1>6, <1>7, SchedQuiet

LEMMA SchedPolling ==
    ASSUME Typed, TurnExclusion, SchedCheckFault \/ SchedCheckRest
    PROVE  TurnExclusion'
<1>1. Scheduler  BY DEF Scheduler
<1>2. /\ sched.at \in {"top", "fit"} /\ sched'.at \in {"top", "fit", "active"}
      /\ sched'.at = "active" => rested
      /\ toPi' = toPi /\ Active' = Active /\ current' = current /\ rested' = rested
    BY DEF SchedCheckFault, SchedCheckRest, queueVars, Active, InStatus, Typed, TypeOK
<1>3. LockKept'  BY <1>1, SchedFrame DEF TurnExclusion
<1>4. Busy' = Busy /\ EndersIdle' = EndersIdle  BY <1>1, <1>2, SchedFrame DEF Busy, StartSent, EndSent, Sent
<1>5. Rests'  BY <1>2, <1>4 DEF TurnExclusion, Rests, Quiet
<1>6. SchedAlone'  BY <1>2 DEF SchedAlone, Polling
<1>7. Held(Windows \cup Gates)' = Held(Windows \cup Gates)  BY <1>1, SchedFrame DEF Held
<1>8. OneActive'  BY <1>2, <1>7 DEF TurnExclusion, OneActive, Polling
<1>9. HolderKnows'  BY <1>1, <1>2, SchedFrame DEF TurnExclusion, HolderKnows, At, Gates
<1>10. Flow'  BY <1>1, <1>2, <1>4, SchedFrame DEF TurnExclusion, Flow
<1> QED  BY <1>3, <1>5, <1>6, <1>8, <1>9, <1>10 DEF TurnExclusion

LEMMA SchedBegins ==
    ASSUME Typed, TurnExclusion, SchedStart
    PROVE  TurnExclusion'
<1>1. Scheduler  BY DEF Scheduler
<1>2. rested  BY DEF TurnExclusion, SchedAlone, Polling, SchedStart
<1>3. lock = Null /\ EndersIdle  BY <1>2, NoneAtWork
<1>4. lock' = Null /\ EndersIdle' /\ con' = con  BY <1>1, <1>3, SchedFrame
<1>5. LockKept'  BY <1>1, SchedFrame DEF TurnExclusion
<1>6. rested' = FALSE /\ sched'.at = "announce" /\ current' = sched.new /\ entries' = entries
    BY DEF SchedStart, Typed, TypeOK
<1>7. Active' \subseteq {current'}
    BY <1>6 DEF TurnExclusion, OneActive, SchedStart, Active, InStatus
<1>8. OneActive'  BY <1>4, <1>6, <1>7 DEF OneActive, Polling, Held
<1>9. Rests' /\ SchedAlone'  BY <1>6 DEF Rests, SchedAlone, Polling
<1>10. HolderKnows'  BY <1>4 DEF HolderKnows, EndersIdle, At, Gates
<1>11. Flow'  BY <1>4, <1>6 DEF TurnExclusion, Flow
<1> QED  BY <1>5, <1>8, <1>9, <1>10, <1>11 DEF TurnExclusion

LEMMA SchedSends ==
    ASSUME Typed, TurnExclusion, SchedAnnounce
    PROVE  TurnExclusion'
<1>1. Scheduler  BY DEF Scheduler
<1>2. sched.at = "announce" /\ sched.new \in Turns  BY DEF SchedAnnounce, Typed, Named
<1>3. ~ rested  BY <1>2, NoneAtWork
<1>4. /\ sched'.at = "top" /\ Active' = Active /\ current' = current /\ rested' = rested
      /\ SendPi(TurnStart(sched.new))
    BY DEF SchedAnnounce, queueVars, Active, InStatus
<1>5. LockKept'  BY <1>1, SchedFrame DEF TurnExclusion
<1>6. Rests' /\ SchedAlone'  BY <1>3, <1>4 DEF Rests, SchedAlone, Polling, Typed, TypeOK
<1>7. Held(Windows \cup Gates)' = Held(Windows \cup Gates)  BY <1>1, SchedFrame DEF Held
<1>8. OneActive'  BY <1>2, <1>4, <1>7 DEF TurnExclusion, OneActive, Polling
<1>9. HolderKnows'  BY <1>1, <1>4, SchedFrame DEF TurnExclusion, HolderKnows, At, Gates
<1>10. ASSUME MaxHasty # 0 PROVE con' = "up" /\ Busy'
    <2>1. con = "up" /\ con' = con  BY <1>1, <1>10, SchedFrame DEF TurnExclusion, Flow
    <2>2. toPi' = Append(toPi, TurnStart(sched.new))  BY <1>4, <2>1 DEF SendPi
    <2>3. TurnStart(sched.new) \in ToPi /\ TurnStart(sched.new).type = "turn_start"
        BY <1>2 DEF ToPi, TurnStart
    <2>4. StartSent'  BY <2>2, <2>3, LinesOfTypes, SentMore DEF StartSent
    <2> QED  BY <2>1, <2>4 DEF Busy, StartSent, EndSent, Sent
<1>11. Flow'  BY <1>10 DEF Flow
<1> QED  BY <1>5, <1>6, <1>8, <1>9, <1>11 DEF TurnExclusion

(* 33 s pass: the turn is over, or short as turns are.                     *)
LEMMA TimeGoesBy ==
    ASSUME Exclusive, Typed, TurnExclusion, TimePasses
    PROVE  TurnExclusion'
<1>1. TurnOver  BY DEF Exclusive, TimePasses
<1>2. EndersIdle /\ ~ Busy /\ sched.at = "top"
    <2>1. Len(toPi) = 0 /\ Len(toCentral) = 0  BY <1>1 DEF TurnOver
    <2> QED  BY <1>1, <2>1 DEF TurnOver, EndersIdle, Busy, StartSent, EndSent, Sent
<1>3. /\ Active' = Active /\ current' = current /\ lock' = lock /\ ender' = ender
      /\ sched' = sched /\ con' = con /\ toPi' = toPi /\ toCentral' = toCentral
      /\ piState' = piState
    BY DEF TimePasses, turnVars, lineVars, piVars, Active, InStatus
<1>4. EndersIdle' /\ ~ Busy' /\ sched'.at = "top"
    BY <1>2, <1>3 DEF EndersIdle, At, Busy, StartSent, EndSent, Sent
<1>5. MaxHasty # 0 => con = "up" /\ current = Null  BY <1>2 DEF TurnExclusion, Flow
<1>6. Rests'  BY <1>3, <1>4, <1>5 DEF Rests, Quiet
<1>7. LockKept'  BY <1>3 DEF TurnExclusion, LockKept, Works
<1>8. SchedAlone'  BY <1>4 DEF SchedAlone, Polling
<1>9. OneActive'  BY <1>3 DEF TurnExclusion, OneActive, Polling, Held
<1>10. HolderKnows'  BY <1>3 DEF TurnExclusion, HolderKnows, At
<1>11. Flow'  BY <1>3, <1>5 DEF Flow
<1> QED  BY <1>6, <1>7, <1>8, <1>9, <1>10, <1>11 DEF TurnExclusion

(* The connection is lost or comes back: what was on its way may be gone,  *)
(* so that this is excluded where the operator may force an end at any     *)
(* time.                                                                   *)
LEMMA ConnectionMoves ==
    ASSUME Exclusive, Typed, TurnExclusion, Disconnect \/ Reconnect
    PROVE  TurnExclusion'
<1>1. MaxHasty = 0
    <2>1. CASE Disconnect  BY <2>1 DEF Disconnect, Exclusive, Typed, TypeOK
    <2>2. CASE Reconnect  BY <2>2 DEF Reconnect, TurnExclusion, Flow
    <2> QED  BY <2>1, <2>2
<1>2. /\ Active' = Active /\ current' = current /\ rested' = rested /\ lock' = lock
      /\ ender' = ender /\ sched' = sched /\ piState' = piState
    BY DEF Disconnect, Reconnect, queueVars, turnVars, piVars, Active, InStatus
<1>3. StartSent' => StartSent
    <2>1. CASE Disconnect
        <3>1. PICK k \in 0 .. Len(toPi) : toPi' = SubSeq(toPi, 1, k)
            BY <2>1 DEF Disconnect, LinesLost
        <3> QED  BY <3>1, LinesOfTypes, SentPrefix DEF StartSent
    <2>2. CASE Reconnect
        <3>1. toPi' = toPi  BY <2>2 DEF Reconnect
        <3> QED  BY <3>1 DEF StartSent
    <2> QED  BY <2>1, <2>2
<1>4. ~ EndSent'
    <2>1. toCentral' = <<>> \/ toCentral' = <<Greeting>>
        BY DEF Disconnect, LinesLost, Reconnect
    <2> QED  BY <2>1 DEF EndSent, Sent, Greeting
<1>5. Busy' => Busy  BY <1>2, <1>3, <1>4 DEF Busy, StartSent, EndSent, Sent
<1>6. \A e \in Enders : /\ SamePart(ender[e].at, ender'[e].at)
                        /\ At(e, "close") => ender'[e].turn = ender[e].turn
    BY <1>2 DEF SamePart
<1> QED  BY <1>1, <1>2, <1>5, <1>6, Unmoved

(* A restart between two turns leaves the entry of the last one active at  *)
(* most.                                                                   *)
LEMMA ServerRestarts ==
    ASSUME Exclusive, Typed, TurnExclusion, Crash
    PROVE  TurnExclusion'
<1>1. MaxHasty = 0 /\ TurnOver  BY DEF Crash, Exclusive, Typed, TypeOK
<1>2. piState = "IDLE" /\ toPi = <<>> /\ sched.at = "top" /\ EndersIdle
    BY <1>1 DEF TurnOver, EndersIdle
<1>3. lock = Null
    BY <1>2 DEF TurnExclusion, LockKept, Works, EndersIdle, At, Typed, TypeOK
<1>4. Active \subseteq {current} /\ Active \subseteq Turns
    BY <1>2, <1>3 DEF TurnExclusion, OneActive, Polling, Held, Active, InStatus
<1>5. \E n \in Turns : Active \subseteq {n}
    <2>1. 1 \in Turns  BY DEF Turns
    <2> QED  BY <1>4, <2>1
<1>6. Active' = Active  BY DEF Crash, Active, InStatus
<1>7. EndersIdle' /\ lock' = Null  BY DEF Crash, EndersIdle, At, NoEnder
<1>8. ~ Busy'
    <2>1. PICK k \in 0 .. Len(toPi) : toPi' = SubSeq(toPi, 1, k)  BY DEF Crash, LinesLost
    <2>2. ~ StartSent  BY <1>2 DEF StartSent, Sent
    <2>3. ~ StartSent'  BY <2>1, <2>2, LinesOfTypes, SentPrefix DEF StartSent
    <2>4. toCentral' = <<>> /\ piState' = "IDLE"  BY <1>2 DEF Crash, LinesLost, piVars
    <2> QED  BY <2>3, <2>4 DEF Busy, StartSent, EndSent, Sent
<1>9. sched'.at = "boot" /\ rested' = TRUE /\ current' = Null  BY DEF Crash
<1>10. LockKept' /\ HolderKnows'
    BY <1>7 DEF LockKept, Works, HolderKnows, EndersIdle, At, Gates
<1>11. Rests' /\ SchedAlone' /\ Flow'
    BY <1>1, <1>7, <1>8, <1>9 DEF Rests, Quiet, SchedAlone, Flow
<1>12. OneActive'  BY <1>5, <1>6, <1>9 DEF OneActive, Polling
<1> QED  BY <1>10, <1>11, <1>12 DEF TurnExclusion

LEMMA ExclusionStep == Exclusive /\ Typed /\ TurnExclusion /\ [Next]_vars => TurnExclusion'
<1> SUFFICES ASSUME Exclusive, Typed, TurnExclusion, [Next]_vars PROVE TurnExclusion'
    OBVIOUS
<1>1. CASE \E e \in Enders : PiTurnEnd(e) \/ ForceTurnEnd(e) \/ TurnEnd(e) \/ WindowTimesOut(e)
    <2>1. PICK e \in Enders : PiTurnEnd(e) \/ ForceTurnEnd(e) \/ TurnEnd(e) \/ WindowTimesOut(e)
        BY <1>1
    <2>2. CASE TurnEnd(e)
        BY <2>2, EnderTakes, EnderCloses, EnderOpens, EnderGates, EnderPicks, EnderClaims,
           EnderAnnounces DEF TurnEnd
    <2> QED  BY <2>1, <2>2, EndersBegin, EnderTimesOut
<1>2. CASE Handlers  BY <1>2, HandlersMove
<1>3. CASE Scheduler  BY <1>3, SchedReads, SchedPolling, SchedBegins, SchedSends DEF Scheduler
<1>4. CASE (\E n \in Turns : Join(n)) \/ ClearFault \/ FitChanges \/ UNCHANGED vars
    BY <1>4, OutsideMoves
<1>5. CASE TimePasses  BY <1>5, TimeGoesBy
<1>6. CASE Disconnect \/ Reconnect  BY <1>6, ConnectionMoves
<1>7. CASE Crash  BY <1>7, ServerRestarts
<1>8. CASE Pi  BY <1>8, PiPlays
<1> QED  BY <1>1, <1>2, <1>3, <1>4, <1>5, <1>6, <1>7, <1>8 DEF Next

LEMMA ExclusionAlways == Exclusive /\ Spec => []TurnExclusion
<1>1. CASE Exclusive
    <2>1. Typed /\ TurnExclusion /\ [Next]_vars => TurnExclusion'  BY <1>1, ExclusionStep
    <2> QED  BY <2>1, ExclusionInit, TypedAlways, PTL DEF Spec
<1>2. CASE ~ Exclusive  BY <1>2
<1> QED  BY <1>1, <1>2

(* The claw is handed to one player at a time, whichever of the tasks that *)
(* start turns - a turn_end under _turn_lock or the scheduler, which does  *)
(* not take it - is at work: the scheduler does so only when 33 s have     *)
(* passed since the last start and nothing of that turn is left in work,   *)
(* so that the entry its query finds is the only active one.               *)
THEOREM OneTurn == Exclusive /\ Spec => []OneTurnAtATime
<1>1. TurnExclusion /\ Typed => OneTurnAtATime
    <2> SUFFICES ASSUME TurnExclusion, Typed PROVE Cardinality(Active) <= 1
        BY DEF OneTurnAtATime, Active
    <2>1. sched.at \in SchedAt  BY DEF Typed, TypeOK
    <2>2. \E x : Active \subseteq {x}
        BY <2>1 DEF TurnExclusion, OneActive, Polling, SchedAt
    <2>3. Active = {} \/ \E x : Active = {x}  BY <2>2
    <2>4. Cardinality({}) = 0  BY FS_EmptySet
    <2>5. \A x : Cardinality({x}) = 1  BY FS_Singleton
    <2>6. CASE Active = {}  BY <2>4, <2>6
    <2>7. CASE \E x : Active = {x}
        <3>1. PICK x : Active = {x}  BY <2>7
        <3>2. Cardinality(Active) = 1  BY <2>5, <3>1, Zenon
        <3> QED  BY <3>2
    <2> QED  BY <2>3, <2>6, <2>7
<1> QED  BY <1>1, ExclusionAlways, TypedAlways, PTL

-----------------------------------------------------------------------------
(***************************************************************************)
(* The gate.  As long as turns are short, only the end of a stuck turn is  *)
(* forced and the server is restarted only between two turns, there is     *)
(* never more than one turn on its way through the Pi, also when the       *)
(* connection drops and messages are lost.                                 *)
(***************************************************************************)
Orderly == TurnsAreShort /\ MaxHasty = 0 /\ (MaxCrashes = 0 \/ ~ CrashesMidTurn)

Once(line, types) ==
    \A i, j \in 1 .. Len(line) : line[i].type \in types /\ line[j].type \in types => i = j

(* The Pi's answer to a turn is to come, on its way or being handled.      *)
Replies == {"verdict", "fault"}
ReplySent == Sent(toCentral, Replies)
Answering == piState = "AWAITING" \/ verdictTask # Null \/ ReplySent
OneReply ==
    /\ Once(toCentral, Replies)
    /\ piState = "AWAITING" => verdictTask = Null /\ ~ ReplySent
    /\ verdictTask # Null => ~ ReplySent

OneOnWay ==
    /\ Once(toPi, {"turn_start"}) /\ Once(toCentral, {"turn_end"}) /\ OneReply
    /\ StartSent => piState = "IDLE"
    /\ StartSent \/ piState = "PLAYING" => ~ EndSent /\ ~ Answering
    /\ Busy => EndersIdle /\ sched.at # "announce"

(* A task that has asked the gate and will start a turn.                   *)
Past(e) == ender[e].at \in {"fit", "pick", "claim", "announce"}
GateOpen ==
    \/ \E e \in Enders : Past(e)
    \/ sched.at = "announce"
    \/ rested /\ sched.at \in {"fit", "active", "oldest", "commit", "gap"}
OpenOnNoFault == GateOpen => fault = Null

(* By then nothing is left in work of the turn before.                     *)
TurnDone ==
    rested \/ sched.at = "announce" \/ (\E e \in Enders : Past(e) \/ At(e, "settle"))
        => ~ Busy /\ ~ Answering
OneTask == (sched.at = "announce" => EndersIdle) /\ \A e \in Enders : ~ At(e, "lock")

(* A window is closed by the answer to its own turn.                       *)
VerdictIn ==
    \A e \in Enders : (~ At(e, "idle") /\ verdictReady) \/ At(e, "released") => ~ Answering

GateInv == OneOnWay /\ OpenOnNoFault /\ TurnDone /\ OneTask /\ VerdictIn

LEMMA GateInit == Init => GateInv
<1> SUFFICES ASSUME Init PROVE GateInv  OBVIOUS
<1>1. EndersIdle /\ \A e \in Enders : ender[e].at = "idle"
    BY DEF Init, EndersIdle, At, NoEnder
<1>2. ~ StartSent /\ ~ EndSent /\ ~ ReplySent
    BY DEF Init, StartSent, EndSent, ReplySent, Replies, Sent, Greeting
<1>3. ~ Busy /\ ~ Answering  BY <1>2 DEF Init, Busy, Answering
<1>4. Once(toPi, {"turn_start"}) /\ Once(toCentral, {"turn_end"}) /\ Once(toCentral, Replies)
    BY DEF Init, Once
<1>5. OneOnWay  BY <1>2, <1>3, <1>4 DEF OneOnWay, OneReply, Init
<1> QED
    BY <1>1, <1>3, <1>5
    DEF GateInv, OpenOnNoFault, GateOpen, Past, TurnDone, OneTask, VerdictIn, At, Init

LEMMA OnceMore ==
    ASSUME NEW S, NEW line \in Seq(S), NEW m \in S, NEW types, Once(line, types),
           m.type \in types => ~ Sent(line, types)
    PROVE  Once(Append(line, m), types)
<1> HIDE CoordinatorAssumption, NullAssumption
<1>1. /\ Len(Append(line, m)) = Len(line) + 1 /\ Len(line) \in Nat
      /\ Append(line, m)[Len(line) + 1] = m
      /\ \A i \in 1 .. Len(line) : Append(line, m)[i] = line[i]
    OBVIOUS
<1>2. ASSUME NEW i \in 1 .. Len(line) + 1, NEW j \in 1 .. Len(line) + 1,
             Append(line, m)[i].type \in types, Append(line, m)[j].type \in types
      PROVE  i = j
    <2>1. CASE m.type \in types
        <3>1. \A l \in 1 .. Len(line) : Append(line, m)[l].type \notin types
            BY <1>1, <2>1, Zenon DEF Sent
        <3>2. i = Len(line) + 1 /\ j = Len(line) + 1  BY <1>1, <1>2, <3>1
        <3> QED  BY <3>2
    <2>2. CASE m.type \notin types
        <3>1. i # Len(line) + 1 /\ j # Len(line) + 1  BY <1>1, <1>2, <2>2
        <3>2. i \in 1 .. Len(line) /\ j \in 1 .. Len(line)  BY <1>1, <3>1
        <3>3. line[i].type \in types /\ line[j].type \in types  BY <1>1, <1>2, <3>2
        <3> QED  BY <3>2, <3>3 DEF Once
    <2> QED  BY <2>1, <2>2
<1> QED  BY <1>1, <1>2 DEF Once

LEMMA OnceLess ==
    ASSUME NEW S, NEW line \in Seq(S), line # <<>>, NEW types, Once(line, types)
    PROVE  /\ Once(Tail(line), types)
           /\ Head(line).type \in types => ~ Sent(Tail(line), types)
<1> HIDE CoordinatorAssumption, NullAssumption
<1>1. /\ Len(Tail(line)) = Len(line) - 1 /\ Len(line) \in Nat \ {0}
      /\ Head(line) = line[1]
      /\ \A i \in 1 .. Len(line) - 1 : Tail(line)[i] = line[i + 1] /\ i + 1 \in 1 .. Len(line)
    OBVIOUS
<1>2. Once(Tail(line), types)
    <2> SUFFICES ASSUME NEW i \in 1 .. Len(line) - 1, NEW j \in 1 .. Len(line) - 1,
                        Tail(line)[i].type \in types, Tail(line)[j].type \in types
                 PROVE  i = j
        BY <1>1 DEF Once
    <2>1. i + 1 = j + 1  BY <1>1 DEF Once
    <2> QED  BY <2>1
<1>3. ASSUME Head(line).type \in types, Sent(Tail(line), types) PROVE FALSE
    <2>1. PICK i \in 1 .. Len(line) - 1 : Tail(line)[i].type \in types  BY <1>1, <1>3 DEF Sent
    <2>2. 1 \in 1 .. Len(line)  BY <1>1
    <2>3. i + 1 = 1  BY <1>1, <1>3, <2>1, <2>2 DEF Once
    <2> QED  BY <2>3
<1> QED  BY <1>2, <1>3

LEMMA OncePrefix ==
    ASSUME NEW S, NEW line \in Seq(S), NEW k \in 0 .. Len(line), NEW types, Once(line, types)
    PROVE  Once(SubSeq(line, 1, k), types)
<1> HIDE CoordinatorAssumption, NullAssumption
<1>1. Len(SubSeq(line, 1, k)) = k /\ \A i \in 1 .. k : SubSeq(line, 1, k)[i] = line[i]
    BY SubSeqProperties
<1>2. 1 .. k \subseteq 1 .. Len(line)  OBVIOUS
<1> QED  BY <1>1, <1>2, Zenon DEF Once

(* A step that starts nothing, and may bring the turn nearer to its end.   *)
LEMMA Eases ==
    ASSUME Typed, GateInv, rested' = rested, sched' = sched,
           \A e \in Enders : \/ ender'[e].at = ender[e].at
                             \/ At(e, "waiting") /\ ender'[e].at = "released" /\ ~ Answering',
           verdictReady' = verdictReady \/ ~ Answering',
           fault' = fault \/ fault' = Null \/ Answering,
           StartSent' => StartSent, EndSent' => EndSent,
           piState' = "PLAYING" => piState = "PLAYING", piState = "IDLE" => piState' = "IDLE",
           Answering' => Answering, OneReply',
           Once(toPi', {"turn_start"}), Once(toCentral', {"turn_end"})
    PROVE  GateInv'
<1>1. Busy' => Busy  BY DEF Busy
<1>2. \A e \in Enders : /\ (At(e, "idle"))' = At(e, "idle") /\ Past(e)' = Past(e)
                        /\ (At(e, "settle"))' = At(e, "settle") /\ (At(e, "lock"))' = At(e, "lock")
                        /\ (At(e, "released"))' => At(e, "released") \/ ~ Answering'
    BY DEF At, Past
<1>3. EndersIdle' = EndersIdle  BY <1>2 DEF EndersIdle
<1>4. OneOnWay'  BY <1>1, <1>3 DEF GateInv, OneOnWay
<1>5. GateOpen' = GateOpen  BY <1>2 DEF GateOpen
<1>6. GateOpen => ~ Answering  BY DEF GateInv, TurnDone, GateOpen
<1>7. OpenOnNoFault'  BY <1>5, <1>6 DEF GateInv, OpenOnNoFault
<1>8. TurnDone'  BY <1>1, <1>2 DEF GateInv, TurnDone
<1>9. OneTask'  BY <1>2, <1>3 DEF GateInv, OneTask
<1>10. VerdictIn'  BY <1>2 DEF GateInv, VerdictIn
<1> QED  BY <1>4, <1>7, <1>8, <1>9, <1>10 DEF GateInv

(* The Pi, the task that credits a verdict and the lines are left alone.   *)
work == <<piState, verdictTask, toPi, toCentral>>

LEMMA SameWork ==
    ASSUME UNCHANGED work
    PROVE  /\ Busy' = Busy /\ Answering' = Answering /\ OneReply' = OneReply
           /\ StartSent' = StartSent /\ EndSent' = EndSent /\ piState' = piState
           /\ Once(toPi, {"turn_start"})' = Once(toPi, {"turn_start"})
           /\ Once(toCentral, {"turn_end"})' = Once(toCentral, {"turn_end"})
<1>1. piState' = piState /\ verdictTask' = verdictTask /\ toPi' = toPi /\ toCentral' = toCentral
    BY DEF work
<1>2. StartSent' = StartSent /\ EndSent' = EndSent /\ ReplySent' = ReplySent
    BY <1>1 DEF StartSent, EndSent, ReplySent, Sent
<1> QED  BY <1>1, <1>2 DEF Busy, Answering, OneReply, Once

LEMMA TheTask ==
    ASSUME Typed, TurnExclusion, GateInv, NEW e \in Enders, ~ At(e, "idle")
    PROVE  /\ Works(e) /\ lock = e /\ ~ rested /\ ~ Busy /\ sched.at \in {"top", "fit"}
           /\ \A d \in Enders \ {e} : At(d, "idle")
<1>1. ~ rested /\ Polling  BY AtWork
<1>2. \A d \in Enders : ~ At(d, "idle") => Works(d)
    BY DEF GateInv, OneTask, Works, At
<1>3. lock = e /\ \A d \in Enders \ {e} : At(d, "idle")
    BY <1>2 DEF TurnExclusion, LockKept
<1>4. ~ EndersIdle  BY DEF EndersIdle
<1>5. ~ Busy /\ sched.at # "announce"  BY <1>4 DEF GateInv, OneOnWay, OneTask
<1> QED  BY <1>1, <1>2, <1>3, <1>5 DEF Polling

(* A turn_end task goes on or is done.                                     *)
LEMMA TaskMoves ==
    ASSUME Typed, TurnExclusion, GateInv, NEW e \in Enders, ~ At(e, "idle"), UNCHANGED work,
           rested' = rested \/ rested' = FALSE, sched' = sched, verdictReady' = verdictReady,
           \A d \in Enders \ {e} : ender'[d] = ender[d],
           ender'[e].at # "lock",
           ender'[e].at \in {"settle", "fit", "pick", "claim", "announce", "released"} => ~ Answering,
           ender'[e].at \in {"fit", "pick", "claim", "announce"} => fault' = Null
    PROVE  GateInv'
<1>1. Busy' = Busy /\ Answering' = Answering  BY SameWork
<1>2. /\ ~ rested /\ ~ Busy /\ sched.at \in {"top", "fit"}
      /\ \A d \in Enders \ {e} : At(d, "idle")
    BY TheTask
<1>3. \A d \in Enders \ {e} : ender'[d].at = "idle"  BY <1>2 DEF At
<1>4. OneOnWay'  BY <1>1, <1>2, SameWork DEF GateInv, OneOnWay, Busy
<1>5. OpenOnNoFault'  BY <1>2, <1>3 DEF OpenOnNoFault, GateOpen, Past
<1>6. TurnDone'  BY <1>1, <1>2, <1>3 DEF TurnDone, Past, At
<1>7. OneTask'  BY <1>2, <1>3 DEF OneTask, At
<1>8. VerdictIn'  BY <1>1, <1>3 DEF GateInv, VerdictIn, At
<1> QED  BY <1>4, <1>5, <1>6, <1>7, <1>8 DEF GateInv


LEMMA TaskGoesOn ==
    ASSUME Typed, TurnExclusion, GateInv, NEW e \in Enders,
           TurnEnd(e) \/ WindowTimesOut(e), ~ Announce(e)
    PROVE  GateInv'
<1>0. ~ TakeLock(e)  BY DEF GateInv, OneTask, TakeLock
<1>1. /\ ~ At(e, "idle") /\ UNCHANGED work
      /\ rested' = rested \/ rested' = FALSE
      /\ sched' = sched /\ verdictReady' = verdictReady
    BY <1>0
    DEF TurnEnd, CloseEntry, OpenWindow, WindowTimesOut, WindowCloses, CheckFault, CheckFit, Pick,
        Claim, At, work, queueVars, lineVars, piVars
<1>2. \A d \in Enders \ {e} : ender'[d] = ender[d]
    BY <1>0
    DEF TurnEnd, CloseEntry, OpenWindow, WindowTimesOut, WindowCloses, CheckFault, CheckFit, Pick,
        Claim, Goto, Finish, Typed, TypeOK
<1>3. CASE CloseEntry(e) \/ OpenWindow(e)
    <2>1. ender'[e].at \in {"emit", "waiting"} \/ (ender'[e].at = "released" /\ verdictReady)
        BY <1>3 DEF CloseEntry, OpenWindow, Goto, Typed, TypeOK
    <2>2. verdictReady => ~ Answering  BY <1>1 DEF GateInv, VerdictIn
    <2> QED  BY <1>1, <1>2, <2>1, <2>2, TaskMoves
<1>4. CASE WindowTimesOut(e)
    <2>1. ender'[e].at = "idle"  BY <1>4 DEF WindowTimesOut, Finish, NoEnder, Typed, TypeOK
    <2> QED  BY <1>1, <1>2, <2>1, TaskMoves
<1>5. CASE WindowCloses(e)
    <2>1. ender'[e].at \in {"idle", "settle"}
        BY <1>5 DEF WindowCloses, Goto, Finish, NoEnder, Typed, TypeOK
    <2>2. ~ Answering  BY <1>5 DEF GateInv, VerdictIn, WindowCloses
    <2> QED  BY <1>1, <1>2, <2>1, <2>2, TaskMoves
<1>6. CASE CheckFault(e)
    <2>1. ender'[e].at = "idle" \/ (ender'[e].at = "fit" /\ fault = Null)
        BY <1>6 DEF CheckFault, Goto, Finish, NoEnder, Typed, TypeOK
    <2>2. ~ Answering /\ fault' = fault  BY <1>6 DEF GateInv, TurnDone, CheckFault, faultVars
    <2> QED  BY <1>1, <1>2, <2>1, <2>2, TaskMoves
<1>7. CASE CheckFit(e) \/ Pick(e) \/ Claim(e)
    <2>1. Past(e)  BY <1>7 DEF CheckFit, Pick, Claim, At, Past
    <2>2. ~ Answering /\ fault = Null
        BY <2>1 DEF GateInv, TurnDone, OpenOnNoFault, GateOpen
    <2>3. fault' = fault  BY <1>7 DEF CheckFit, Pick, Claim, faultVars
    <2>4. ender'[e].at # "lock"
        BY <1>7 DEF CheckFit, Pick, Claim, Goto, Finish, NoEnder, Typed, TypeOK
    <2> QED  BY <1>1, <1>2, <2>2, <2>3, <2>4, TaskMoves
<1> QED  BY <1>0, <1>3, <1>4, <1>5, <1>6, <1>7 DEF TurnEnd

(* The Pi's turn_end, or a forced one when the Pi's was lost: no other is  *)
(* at work.                                                                *)
LEMMA TaskBegins ==
    ASSUME Orderly, Typed, TurnExclusion, GateInv, NEW e \in Enders, PiTurnEnd(e) \/ ForceTurnEnd(e)
    PROVE  GateInv'
<1>1. PICK n \in MaybeTurn : BeginTurnEnd(e, n)  BY EndIsOf
<1>2. /\ EndersIdle /\ ~ rested /\ sched.at # "announce"
      /\ Once(toCentral', {"turn_end"}) /\ ~ EndSent'
      /\ ReplySent' = ReplySent /\ Once(toCentral', Replies)
      /\ ~ StartSent /\ piState # "PLAYING"
    <2>1. CASE PiTurnEnd(e)
        <3>1. toCentral # <<>> /\ Head(toCentral).type = "turn_end" /\ toCentral' = Tail(toCentral)
            BY <2>1 DEF PiTurnEnd, Receive
        <3>2. EndSent /\ Busy  BY <3>1, LinesOfTypes, SentLess DEF Busy, EndSent
        <3>3. EndersIdle /\ sched.at # "announce" /\ ~ StartSent /\ piState # "PLAYING"
            BY <3>2 DEF GateInv, OneOnWay
        <3>4. ~ rested  BY <3>2, NoneAtWork
        <3>5. Once(toCentral, {"turn_end"}) /\ Once(toCentral, Replies)
            BY DEF GateInv, OneOnWay, OneReply
        <3>6. Once(toCentral', {"turn_end"}) /\ ~ EndSent'
            BY <3>1, <3>5, LinesOfTypes, OnceLess DEF EndSent
        <3>7. Once(toCentral', Replies)  BY <3>1, <3>5, LinesOfTypes, OnceLess
        <3>8. Head(toCentral).type \notin Replies  BY <3>1 DEF Replies
        <3>9. ReplySent' <=> ReplySent  BY <3>1, <3>8, LinesOfTypes, SentLess DEF ReplySent
        <3> QED  BY <3>3, <3>4, <3>6, <3>7, <3>9 DEF ReplySent, Sent
    <2>2. CASE ForceTurnEnd(e)
        <3>1. ~ rested /\ TurnOver /\ toCentral' = toCentral
            BY <2>2 DEF ForceTurnEnd, Orderly, Typed, TypeOK
        <3>2. EndersIdle /\ sched.at # "announce" /\ toCentral = <<>> /\ toPi = <<>> /\ piState = "IDLE"
            BY <3>1 DEF TurnOver, EndersIdle
        <3>3. ~ EndSent' /\ ~ StartSent /\ ReplySent' = ReplySent
            BY <3>1, <3>2 DEF EndSent, StartSent, ReplySent, Sent
        <3>4. Once(toCentral', {"turn_end"}) /\ Once(toCentral', Replies)
            BY <3>1, <3>2 DEF Once
        <3> QED  BY <3>1, <3>2, <3>3, <3>4
    <2> QED  BY <2>1, <2>2
<1>3. lock = Null
    BY <1>2 DEF TurnExclusion, LockKept, Works, EndersIdle, At, Typed, TypeOK
<1>4. /\ rested' = rested /\ sched' = sched /\ verdictReady' = FALSE /\ toPi' = toPi
      /\ piState' = piState /\ verdictTask' = verdictTask
      /\ ender'[e].at = "close" /\ \A d \in Enders \ {e} : ender'[d] = ender[d]
    BY <1>1, <1>3 DEF BeginTurnEnd, queueVars, piVars, Typed, TypeOK
<1>5. \A d \in Enders \ {e} : ender'[d].at = "idle"  BY <1>2, <1>4 DEF EndersIdle, At
<1>6. ~ StartSent' /\ Once(toPi', {"turn_start"})
    BY <1>2, <1>4 DEF StartSent, Sent, Once, GateInv, OneOnWay
<1>7. ~ Busy'  BY <1>2, <1>4, <1>6 DEF Busy
<1>8. OneReply'  BY <1>2, <1>4 DEF GateInv, OneOnWay, OneReply
<1>9. OneOnWay'  BY <1>2, <1>4, <1>6, <1>7, <1>8 DEF OneOnWay
<1>10. OpenOnNoFault'  BY <1>2, <1>4, <1>5 DEF OpenOnNoFault, GateOpen, Past
<1>11. TurnDone'  BY <1>2, <1>4, <1>5 DEF TurnDone, Past, At
<1>12. OneTask'  BY <1>2, <1>4, <1>5 DEF OneTask, At
<1>13. VerdictIn'  BY <1>4, <1>5 DEF VerdictIn, At
<1> QED  BY <1>9, <1>10, <1>11, <1>12, <1>13 DEF GateInv

(* A turn_start is sent, or dropped when the connection is down.           *)
LEMMA StartIsSent ==
    ASSUME Typed, GateInv, NEW n \in Turns, SendPi(TurnStart(n)), ~ Busy, ~ Answering,
           EndersIdle', sched'.at \in {"top", "fit"}, rested' = FALSE,
           piState' = piState, verdictTask' = verdictTask, toCentral' = toCentral
    PROVE  GateInv'
<1>1. /\ ~ EndSent' /\ ~ ReplySent' /\ OneReply' = OneReply
      /\ Once(toCentral', {"turn_end"})
    BY DEF Busy, Answering, EndSent, ReplySent, Sent, OneReply, Once, GateInv, OneOnWay
<1>2. piState' = "IDLE"  BY DEF Busy, Answering, Typed, TypeOK
<1>3. ~ Answering'  BY <1>1, <1>2 DEF Answering
<1>4. Once(toPi', {"turn_start"})
    <2>1. TurnStart(n) \in ToPi  BY DEF ToPi
    <2>2. toPi' = toPi \/ toPi' = Append(toPi, TurnStart(n))  BY DEF SendPi
    <2>3. Once(toPi, {"turn_start"}) /\ ~ Sent(toPi, {"turn_start"})
        BY DEF GateInv, OneOnWay, Busy, StartSent
    <2>4. Once(Append(toPi, TurnStart(n)), {"turn_start"})
        BY <2>1, <2>3, LinesOfTypes, OnceMore
    <2> QED  BY <2>2, <2>3, <2>4
<1>5. \A e \in Enders : ender'[e].at = "idle"  BY DEF EndersIdle, At
<1>6. OneReply  BY DEF GateInv, OneOnWay
<1>7. OneOnWay'  BY <1>1, <1>2, <1>3, <1>4, <1>6 DEF OneOnWay
<1>8. OpenOnNoFault' /\ TurnDone'
    BY <1>5 DEF OpenOnNoFault, GateOpen, Past, TurnDone, At
<1>9. OneTask' /\ VerdictIn'  BY <1>3, <1>5 DEF OneTask, VerdictIn, At
<1> QED  BY <1>7, <1>8, <1>9 DEF GateInv

LEMMA StartsAnnounced ==
    ASSUME Typed, TurnExclusion, GateInv, SchedAnnounce \/ \E e \in Enders : Announce(e)
    PROVE  GateInv'
<1>1. CASE SchedAnnounce
    <2>1. sched.at = "announce" /\ sched.new \in Turns  BY <1>1 DEF SchedAnnounce, Typed, Named
    <2>2. ~ Busy /\ ~ Answering /\ EndersIdle  BY <2>1 DEF GateInv, TurnDone, OneTask
    <2>3. ~ rested  BY <2>1, NoneAtWork
    <2>4. /\ SendPi(TurnStart(sched.new)) /\ sched'.at = "top" /\ rested' = rested
          /\ ender' = ender /\ piState' = piState /\ verdictTask' = verdictTask
          /\ toCentral' = toCentral
        BY <1>1 DEF SchedAnnounce, SchedStep, queueVars, turnVars, piVars
    <2>5. EndersIdle'  BY <2>2, <2>4 DEF EndersIdle, At
    <2>6. rested' = FALSE  BY <2>3, <2>4 DEF Typed, TypeOK
    <2> QED  BY <2>1, <2>2, <2>4, <2>5, <2>6, StartIsSent
<1>2. ASSUME NEW e \in Enders, Announce(e) PROVE GateInv'
    <2>1. At(e, "announce") /\ Past(e) /\ ~ At(e, "idle") /\ ender[e].turn \in Turns
        BY <1>2 DEF Announce, At, Past, Typed, Named
    <2>2. ~ Busy /\ ~ Answering  BY <2>1 DEF GateInv, TurnDone
    <2>3. ~ rested /\ sched.at \in {"top", "fit"} /\ \A d \in Enders \ {e} : At(d, "idle")
        BY <2>1, TheTask
    <2>4. /\ SendPi(TurnStart(ender[e].turn)) /\ Finish(e) /\ sched' = sched /\ rested' = rested
          /\ piState' = piState /\ verdictTask' = verdictTask /\ toCentral' = toCentral
        BY <1>2 DEF Announce, queueVars, piVars
    <2>5. EndersIdle'  BY <2>3, <2>4 DEF EndersIdle, At, Finish, NoEnder, Typed, TypeOK
    <2>6. rested' = FALSE  BY <2>3, <2>4 DEF Typed, TypeOK
    <2> QED  BY <2>1, <2>2, <2>3, <2>4, <2>5, <2>6, StartIsSent
<1> QED  BY <1>1, <1>2


(* The scheduler looks, and starts a turn when nothing of the last is left.*)
LEMMA SchedulerMoves ==
    ASSUME Typed, TurnExclusion, GateInv, Scheduler, ~ SchedAnnounce
    PROVE  GateInv'
<1>1. /\ ender' = ender /\ verdictReady' = verdictReady /\ fault' = fault /\ UNCHANGED work
      /\ EndersIdle' = EndersIdle
    BY SchedFrame
    DEF Scheduler, SchedStep, SchedBoot, SchedCheckFault, SchedCheckRest, SchedActive, SchedOldest,
        SchedCommit, SchedStart, turnVars, faultVars, piVars, work
<1>2. /\ Busy' = Busy /\ Answering' = Answering /\ OneReply' = OneReply
      /\ StartSent' = StartSent /\ EndSent' = EndSent /\ piState' = piState
      /\ Once(toPi, {"turn_start"})' = Once(toPi, {"turn_start"})
      /\ Once(toCentral, {"turn_end"})' = Once(toCentral, {"turn_end"})
    BY <1>1, SameWork
<1>3. CASE SchedCheckFault \/ SchedCheckRest
    <2>1. /\ rested' = rested /\ sched.at # "announce" /\ sched'.at \in {"top", "fit", "active"}
          /\ sched'.at = "fit" => fault = Null
          /\ sched'.at = "active" => sched.at = "fit" /\ rested
        BY <1>3 DEF SchedCheckFault, SchedCheckRest, queueVars, Typed, TypeOK
    <2>2. OneOnWay'  BY <1>1, <1>2, <2>1 DEF GateInv, OneOnWay
    <2>3. OpenOnNoFault'  BY <1>1, <2>1 DEF GateInv, OpenOnNoFault, GateOpen, Past
    <2>4. TurnDone'  BY <1>1, <1>2, <2>1 DEF GateInv, TurnDone, Past, At
    <2>5. OneTask' /\ VerdictIn'  BY <1>1, <1>2, <2>1 DEF GateInv, OneTask, VerdictIn, At
    <2> QED  BY <2>2, <2>3, <2>4, <2>5 DEF GateInv
<1>4. CASE SchedBoot \/ SchedActive \/ SchedOldest \/ SchedCommit \/ SchedStart
    <2>1. rested
        BY <1>4
        DEF TurnExclusion, SchedAlone, Polling, SchedBoot, SchedActive, SchedOldest, SchedCommit,
            SchedStart
    <2>2. EndersIdle /\ ~ Busy /\ ~ Answering  BY <2>1, NoneAtWork DEF GateInv, TurnDone
    <2>3. \A e \in Enders : ender'[e].at = "idle"  BY <1>1, <2>2 DEF EndersIdle, At
    <2>4. fault = Null \/ sched'.at = "top"
        <3>1. CASE SchedBoot  BY <3>1 DEF SchedBoot, Typed, TypeOK
        <3>2. CASE SchedActive \/ SchedOldest \/ SchedCommit \/ SchedStart
            BY <2>1, <3>2
            DEF GateInv, OpenOnNoFault, GateOpen, SchedActive, SchedOldest, SchedCommit, SchedStart
        <3> QED  BY <1>4, <3>1, <3>2
    <2>5. OneOnWay'  BY <1>2, <2>2 DEF GateInv, OneOnWay, Busy
    <2>6. OpenOnNoFault'  BY <1>1, <2>3, <2>4 DEF OpenOnNoFault, GateOpen, Past
    <2>7. TurnDone'  BY <1>2, <2>2 DEF TurnDone
    <2>8. OneTask' /\ VerdictIn'  BY <1>1, <2>2, <2>3 DEF OneTask, VerdictIn, At
    <2> QED  BY <2>5, <2>6, <2>7, <2>8 DEF GateInv
<1> QED  BY <1>3, <1>4 DEF Scheduler

(* The answer of the Pi comes in and is dealt with.                        *)
LEMMA AnswerComes ==
    ASSUME Typed, GateInv, Handlers
    PROVE  GateInv'
<1>1. rested' = rested /\ sched' = sched /\ toPi' = toPi /\ piState' = piState
    BY DEF Handlers, OnVerdict, VerdictHandled, OnPiFault, OnEspStatus, queueVars, lineVars, piVars
<1>2. StartSent' = StartSent /\ Once(toPi', {"turn_start"})
    BY <1>1 DEF StartSent, Sent, GateInv, OneOnWay, Once
<1>3. Once(toCentral, {"turn_end"}) /\ Once(toCentral, Replies)
    BY DEF GateInv, OneOnWay, OneReply
<1>4. ASSUME toCentral # <<>>, toCentral' = Tail(toCentral)
      PROVE  /\ EndSent' => EndSent
             /\ ReplySent <=> ReplySent' \/ Head(toCentral).type \in Replies
             /\ Head(toCentral).type \in Replies => ~ ReplySent'
             /\ Once(toCentral', {"turn_end"}) /\ Once(toCentral', Replies)
    BY <1>3, <1>4, LinesOfTypes, SentLess, OnceLess DEF EndSent, ReplySent
<1>5. CASE OnVerdict
    <2>1. /\ toCentral # <<>> /\ toCentral' = Tail(toCentral) /\ Head(toCentral).type \in Replies
          /\ verdictTask = Null /\ fault' = fault
        BY <1>5 DEF OnVerdict, Receive, Replies, faultVars
    <2>2. piState # "AWAITING" /\ ~ ReplySent' /\ Answering
        BY <1>4, <2>1 DEF GateInv, OneOnWay, OneReply, Answering
    <2>3. OneReply'  BY <1>1, <1>4, <2>1, <2>2 DEF OneReply
    <2>4. CASE awaiting = Null
        <3>1. verdictTask' = Null /\ ender' = Release  BY <1>5, <2>1, <2>4 DEF OnVerdict
        <3>2. ~ Answering'  BY <1>1, <2>2, <3>1 DEF Answering
        <3>3. \A e \in Enders : ender'[e].at = ender[e].at \/ (At(e, "waiting") /\ ender'[e].at = "released")
            BY <3>1 DEF Release, At, Typed, TypeOK
        <3> QED  BY <1>1, <1>2, <1>4, <2>1, <2>2, <2>3, <3>2, <3>3, Eases
    <2>5. CASE awaiting # Null
        <3>1. verdictReady' = verdictReady /\ ender' = ender  BY <1>5, <2>5 DEF OnVerdict
        <3> QED  BY <1>1, <1>2, <1>4, <2>1, <2>2, <2>3, <3>1, Eases
    <2> QED  BY <2>4, <2>5
<1>6. CASE VerdictHandled
    <2>1. /\ verdictTask # Null /\ verdictTask' = Null /\ ender' = Release /\ toCentral' = toCentral
        BY <1>6 DEF VerdictHandled, lineVars
    <2>2. EndSent' = EndSent /\ ReplySent' = ReplySent /\ Once(toCentral', Replies)
             /\ Once(toCentral', {"turn_end"})
        BY <1>3, <2>1 DEF EndSent, ReplySent, Sent, Once
    <2>3. Answering /\ ~ ReplySent /\ piState # "AWAITING"
        BY <2>1 DEF Answering, GateInv, OneOnWay, OneReply
    <2>4. ~ Answering' /\ OneReply'  BY <1>1, <2>1, <2>2, <2>3 DEF Answering, OneReply
    <2>5. \A e \in Enders : ender'[e].at = ender[e].at \/ (At(e, "waiting") /\ ender'[e].at = "released")
        BY <2>1 DEF Release, At, Typed, TypeOK
    <2> QED  BY <1>1, <1>2, <2>2, <2>3, <2>4, <2>5, Eases
<1>7. CASE OnPiFault \/ OnEspStatus
    <2>1. /\ toCentral # <<>> /\ toCentral' = Tail(toCentral)
          /\ verdictTask' = verdictTask /\ verdictReady' = verdictReady /\ ender' = ender
        BY <1>7 DEF OnPiFault, OnEspStatus, Receive, turnVars
    <2>2. fault' = Null \/ Answering
        <3>1. CASE OnPiFault
            <4>1. Head(toCentral).type \in Replies  BY <3>1 DEF OnPiFault, Receive, Replies
            <4> QED  BY <1>4, <2>1, <4>1 DEF Answering
        <3>2. CASE OnEspStatus  BY <3>2 DEF OnEspStatus
        <3> QED  BY <1>7, <3>1, <3>2
    <2>3. OneReply'  BY <1>1, <1>4, <2>1 DEF OneReply, GateInv, OneOnWay
    <2>4. Answering' => Answering  BY <1>1, <1>4, <2>1 DEF Answering
    <2> QED  BY <1>1, <1>2, <1>4, <2>1, <2>2, <2>3, <2>4, Eases
<1> QED  BY <1>5, <1>6, <1>7 DEF Handlers

(* Players, the operator, the connection.                                  *)
LEMMA OutsideEases ==
    ASSUME Typed, GateInv,
           \/ \E n \in Turns : Join(n)
           \/ ClearFault \/ FitChanges \/ Disconnect \/ Reconnect \/ UNCHANGED vars
    PROVE  GateInv'
<1>1. /\ rested' = rested /\ sched' = sched /\ ender' = ender /\ verdictReady' = verdictReady
      /\ fault' = fault \/ fault' = Null
      /\ piState' = piState /\ verdictTask' = verdictTask
    BY DEF Join, ClearFault, FitChanges, Disconnect, Reconnect, vars, queueVars, turnVars, faultVars,
           piVars
<1>2. Once(toPi, {"turn_start"}) /\ Once(toCentral, {"turn_end"}) /\ Once(toCentral, Replies)
    BY DEF GateInv, OneOnWay, OneReply
<1>3. (StartSent' => StartSent) /\ Once(toPi', {"turn_start"})
    <2>1. CASE ClearFault
        <3>1. toPi' = Append(toPi, FaultClear)  BY <2>1 DEF ClearFault, SendPi
        <3>2. FaultClear \in ToPi /\ FaultClear.type \notin {"turn_start"}  BY DEF ToPi, FaultClear
        <3> QED  BY <1>2, <3>1, <3>2, LinesOfTypes, SentMore, OnceMore DEF StartSent
    <2>2. CASE Disconnect
        <3>1. PICK k \in 0 .. Len(toPi) : toPi' = SubSeq(toPi, 1, k)
            BY <2>2 DEF Disconnect, LinesLost
        <3> QED  BY <1>2, <3>1, LinesOfTypes, SentPrefix, OncePrefix DEF StartSent
    <2>3. CASE (\E n \in Turns : Join(n)) \/ FitChanges \/ Reconnect \/ UNCHANGED vars
        <3>1. toPi' = toPi  BY <2>3 DEF Join, FitChanges, Reconnect, vars, lineVars
        <3> QED  BY <1>2, <3>1 DEF StartSent, Sent
    <2> QED  BY <2>1, <2>2, <2>3
<1>4. toCentral' = toCentral \/ toCentral' = <<>> \/ toCentral' = <<Greeting>>
    BY DEF Join, ClearFault, FitChanges, Disconnect, LinesLost, Reconnect, vars, lineVars
<1>5. /\ EndSent' => EndSent
      /\ ReplySent' => ReplySent
      /\ Once(toCentral', {"turn_end"}) /\ Once(toCentral', Replies)
    <2>1. CASE toCentral' = toCentral  BY <1>2, <2>1 DEF EndSent, ReplySent, Sent
    <2>2. CASE toCentral' = <<>> \/ toCentral' = <<Greeting>>
        BY <2>2 DEF EndSent, ReplySent, Replies, Sent, Once, Greeting
    <2> QED  BY <1>4, <2>1, <2>2
<1>6. OneReply'  BY <1>1, <1>5 DEF GateInv, OneOnWay, OneReply
<1>7. Answering' => Answering  BY <1>1, <1>5 DEF Answering
<1> QED  BY <1>1, <1>3, <1>5, <1>6, <1>7, Eases

LEMMA TimeEases ==
    ASSUME Orderly, Typed, GateInv, TimePasses \/ Crash
    PROVE  GateInv'
<1>1. TurnOver  BY DEF Orderly, TimePasses, Crash, Typed, TypeOK
<1>2. /\ piState = "IDLE" /\ toPi = <<>> /\ toCentral = <<>> /\ verdictTask = Null
      /\ EndersIdle /\ sched.at = "top"
    BY <1>1 DEF TurnOver, EndersIdle
<1>3. piState' = "IDLE" /\ verdictTask' = Null /\ toCentral' = <<>>
    BY <1>2 DEF TimePasses, Crash, LinesLost, turnVars, lineVars, piVars
<1>4. ~ StartSent' /\ Once(toPi', {"turn_start"})
    <2>1. \E k \in 0 .. Len(toPi) : toPi' = SubSeq(toPi, 1, k)
        <3>1. CASE Crash  BY <3>1 DEF Crash, LinesLost
        <3>2. CASE TimePasses
            <4>1. toPi' = <<>>  BY <1>2, <3>2 DEF TimePasses, lineVars
            <4>2. SubSeq(toPi, 1, 0) = <<>> /\ Len(toPi) = 0  BY <1>2
            <4> QED  BY <4>1, <4>2
        <3> QED  BY <3>1, <3>2
    <2>2. PICK k \in 0 .. Len(toPi) : toPi' = SubSeq(toPi, 1, k)  BY <2>1
    <2>3. ~ Sent(toPi, {"turn_start"}) /\ Once(toPi, {"turn_start"})
        BY <1>2 DEF Sent, Once
    <2> QED  BY <2>2, <2>3, LinesOfTypes, SentPrefix, OncePrefix DEF StartSent
<1>5. ~ EndSent' /\ ~ ReplySent' /\ Once(toCentral', {"turn_end"}) /\ Once(toCentral', Replies)
    BY <1>3 DEF EndSent, ReplySent, Sent, Once
<1>6. ~ Busy' /\ ~ Answering'  BY <1>3, <1>4, <1>5 DEF Busy, Answering
<1>7. \A e \in Enders : ender'[e].at = "idle"
    BY <1>2 DEF TimePasses, Crash, turnVars, EndersIdle, At, NoEnder
<1>8. sched'.at \in {"boot", "top"}  BY <1>2 DEF TimePasses, Crash
<1>9. OneOnWay'  BY <1>3, <1>4, <1>5, <1>6 DEF OneOnWay, OneReply
<1>10. OpenOnNoFault'  BY <1>7, <1>8 DEF OpenOnNoFault, GateOpen, Past
<1>11. TurnDone' /\ OneTask' /\ VerdictIn'
    BY <1>6, <1>7, <1>8 DEF TurnDone, OneTask, VerdictIn, At
<1> QED  BY <1>9, <1>10, <1>11 DEF GateInv


(* The Pi: a start becomes a turn, the turn an end and an answer to come.  *)
LEMMA PiFrame ==
    ASSUME Pi
    PROVE  /\ rested' = rested /\ sched' = sched /\ ender' = ender /\ verdictReady' = verdictReady
           /\ fault' = fault /\ verdictTask' = verdictTask /\ con' = con /\ current' = current
           /\ awaiting' = awaiting /\ credited' = credited
BY DEF Pi, PiStarts, PiClears, PiDrops, PiOpto, PiAnswers, PiStep, queueVars, turnVars, faultVars

(* It sends one message to central, or drops it.                           *)
LEMMA CentralIsSent ==
    ASSUME Typed, NEW m \in ToCentral, SendCentral(m), NEW types, Once(toCentral, types),
           m.type \in types => ~ Sent(toCentral, types)
    PROVE  /\ Once(toCentral', types)
           /\ Sent(toCentral', types) => Sent(toCentral, types) \/ m.type \in types
           /\ Sent(toCentral, types) => Sent(toCentral', types)
<1>1. CASE con = "up"
    <2>1. toCentral' = Append(toCentral, m)  BY <1>1 DEF SendCentral
    <2> QED  BY <2>1, LinesOfTypes, SentMore, OnceMore
<1>2. CASE con # "up"
    <2>1. toCentral' = toCentral  BY <1>2 DEF SendCentral
    <2> QED  BY <2>1
<1> QED  BY <1>1, <1>2

LEMMA PiTakesStart ==
    ASSUME Typed, TurnExclusion, GateInv, PiStarts
    PROVE  GateInv'
<1>1. /\ toPi # <<>> /\ Head(toPi).type \in {"turn_start"} /\ toPi' = Tail(toPi)
      /\ piState' = "PLAYING" /\ toCentral' = toCentral
    BY DEF PiStarts
<1>2. /\ rested' = rested /\ sched' = sched /\ ender' = ender /\ verdictReady' = verdictReady
      /\ fault' = fault /\ verdictTask' = verdictTask
    BY PiFrame DEF Pi
<1>3. Once(toPi, {"turn_start"})  BY DEF GateInv, OneOnWay
<1>4. StartSent /\ ~ StartSent' /\ Once(toPi', {"turn_start"})
    BY <1>1, <1>3, LinesOfTypes, SentLess, OnceLess DEF StartSent
<1>5. /\ ~ EndSent /\ ~ Answering /\ EndersIdle /\ sched.at # "announce" /\ Busy
      /\ Once(toCentral, {"turn_end"}) /\ OneReply
    BY <1>4 DEF GateInv, OneOnWay, Busy
<1>6. ~ rested  BY <1>5, NoneAtWork
<1>7. EndSent' = EndSent /\ ReplySent' = ReplySent  BY <1>1 DEF EndSent, ReplySent, Sent
<1>8. ~ Answering' /\ OneReply'
    BY <1>1, <1>2, <1>5, <1>7 DEF Answering, OneReply, Once
<1>9. \A e \in Enders : ender'[e].at = "idle"  BY <1>2, <1>5 DEF EndersIdle, At
<1>10. EndersIdle'  BY <1>9 DEF EndersIdle, At
<1>11. OneOnWay'  BY <1>1, <1>2, <1>4, <1>5, <1>7, <1>8, <1>10 DEF OneOnWay, Once
<1>12. OpenOnNoFault' /\ TurnDone'
    BY <1>2, <1>5, <1>6, <1>9 DEF OpenOnNoFault, GateOpen, Past, TurnDone, At
<1>13. OneTask' /\ VerdictIn'  BY <1>8, <1>9, <1>10 DEF OneTask, VerdictIn, At
<1> QED  BY <1>11, <1>12, <1>13 DEF GateInv

LEMMA PiEndsTurn ==
    ASSUME Typed, TurnExclusion, GateInv, PiOpto
    PROVE  GateInv'
<1>1. piState = "PLAYING" /\ piState' = "AWAITING" /\ toPi' = toPi /\ SendCentral(TurnEnded(piTurn))
    BY DEF PiOpto
<1>2. /\ rested' = rested /\ sched' = sched /\ ender' = ender /\ verdictReady' = verdictReady
      /\ fault' = fault /\ verdictTask' = verdictTask
    BY PiFrame DEF Pi
<1>3. /\ Busy /\ ~ EndSent /\ ~ Answering /\ EndersIdle /\ sched.at # "announce" /\ ~ StartSent
      /\ Once(toPi, {"turn_start"}) /\ Once(toCentral, {"turn_end"}) /\ Once(toCentral, Replies)
    BY <1>1 DEF GateInv, OneOnWay, OneReply, Busy
<1>4. ~ rested  BY <1>3, NoneAtWork
<1>5. TurnEnded(piTurn) \in ToCentral /\ TurnEnded(piTurn).type \notin Replies
    BY <1>1, PiMessages DEF TurnEnded, Replies
<1>6. Once(toCentral', Replies) /\ ~ ReplySent'
    BY <1>1, <1>3, <1>5, CentralIsSent DEF ReplySent, Answering
<1>7. Once(toCentral', {"turn_end"})
    BY <1>1, <1>3, <1>5, CentralIsSent DEF EndSent
<1>8. OneReply'  BY <1>2, <1>3, <1>6 DEF OneReply, Answering
<1>9. ~ StartSent' /\ Once(toPi', {"turn_start"})  BY <1>1, <1>3 DEF StartSent, Sent, Once
<1>10. \A e \in Enders : ender'[e].at = "idle"  BY <1>2, <1>3 DEF EndersIdle, At
<1>11. EndersIdle'  BY <1>10 DEF EndersIdle, At
<1>12. OneOnWay'  BY <1>1, <1>2, <1>3, <1>7, <1>8, <1>9, <1>11 DEF OneOnWay
<1>13. OpenOnNoFault' /\ TurnDone'
    BY <1>2, <1>3, <1>4, <1>10 DEF OpenOnNoFault, GateOpen, Past, TurnDone, At
<1>14. OneTask' /\ VerdictIn'  BY <1>10, <1>11 DEF OneTask, VerdictIn, At
<1> QED  BY <1>12, <1>13, <1>14 DEF GateInv

(* What the Pi answers: one message that is no turn_end.                   *)
LEMMA PiAnswerIs ==
    ASSUME Typed, PiAnswers
    PROVE  \E m \in ToCentral : /\ SendCentral(m) /\ m.type \in Replies /\ m.type # "turn_end"
                                /\ m.of = piTurn
<1>1. piTurn \in Turns  BY DEF Typed, Named, PiAnswers
<1>2. /\ \A o \in Outcomes : Outcome(o, piTurn) \in ToCentral
      /\ PiFault("still_blocked", piTurn) \in ToCentral /\ PiFault("internal_error", piTurn) \in ToCentral
    BY <1>1 DEF ToCentral
<1>3. \A o \in Outcomes :
          /\ Outcome(o, piTurn).type = "verdict" /\ Outcome(o, piTurn).of = piTurn
    BY DEF Outcome
<1>4. /\ PiFault("still_blocked", piTurn).type = "fault" /\ PiFault("still_blocked", piTurn).of = piTurn
      /\ PiFault("internal_error", piTurn).type = "fault" /\ PiFault("internal_error", piTurn).of = piTurn
    BY DEF PiFault
<1>5. \/ \E o \in Outcomes : SendCentral(Outcome(o, piTurn))
      \/ SendCentral(PiFault("still_blocked", piTurn))
      \/ SendCentral(PiFault("internal_error", piTurn))
    BY Zenon DEF PiAnswers
<1>6. "verdict" \in Replies /\ "fault" \in Replies /\ "verdict" # "turn_end" /\ "fault" # "turn_end"
         /\ "fault" # "verdict"
    BY DEF Replies
<1>7. CASE \E o \in Outcomes : SendCentral(Outcome(o, piTurn))
    <2>1. PICK o \in Outcomes : SendCentral(Outcome(o, piTurn))  BY <1>7
    <2> QED  BY <1>2, <1>3, <1>6, <2>1
<1>8. CASE SendCentral(PiFault("still_blocked", piTurn)) \/ SendCentral(PiFault("internal_error", piTurn))
    BY <1>2, <1>4, <1>6, <1>8
<1> QED  BY <1>5, <1>7, <1>8

LEMMA PiGivesAnswer ==
    ASSUME Typed, GateInv, PiAnswers
    PROVE  GateInv'
<1>1. piState = "AWAITING" /\ piState' = "IDLE" /\ toPi' = toPi  BY DEF PiAnswers
<1>2. /\ rested' = rested /\ sched' = sched /\ ender' = ender /\ verdictReady' = verdictReady
      /\ fault' = fault /\ verdictTask' = verdictTask
    BY PiFrame DEF Pi
<1>3. PICK m \in ToCentral : SendCentral(m) /\ m.type \in Replies /\ m.type # "turn_end"
    BY PiAnswerIs
<1>4. /\ Once(toPi, {"turn_start"}) /\ Once(toCentral, {"turn_end"}) /\ Once(toCentral, Replies)
      /\ ~ ReplySent /\ verdictTask = Null /\ Answering
    BY <1>1 DEF GateInv, OneOnWay, OneReply, Answering
<1>5. Once(toCentral', Replies)  BY <1>3, <1>4, CentralIsSent DEF ReplySent
<1>6. Once(toCentral', {"turn_end"}) /\ (EndSent' => EndSent)
    BY <1>3, <1>4, CentralIsSent DEF EndSent
<1>7. OneReply'  BY <1>1, <1>2, <1>4, <1>5 DEF OneReply
<1>8. StartSent' = StartSent /\ Once(toPi', {"turn_start"})
    BY <1>1, <1>4 DEF StartSent, Sent, Once
<1> QED  BY <1>1, <1>2, <1>4, <1>6, <1>7, <1>8, Eases

LEMMA PiTakesRest ==
    ASSUME Typed, GateInv, PiClears \/ PiDrops
    PROVE  GateInv'
<1>1. toPi # <<>> /\ toPi' = Tail(toPi) /\ piState' = piState  BY DEF PiClears, PiDrops, piVars
<1>2. /\ rested' = rested /\ sched' = sched /\ ender' = ender /\ verdictReady' = verdictReady
      /\ fault' = fault /\ verdictTask' = verdictTask
    BY PiFrame DEF Pi
<1>3. Once(toPi, {"turn_start"}) /\ Once(toCentral, {"turn_end"}) /\ Once(toCentral, Replies)
    BY DEF GateInv, OneOnWay, OneReply
<1>4. (StartSent' => StartSent) /\ Once(toPi', {"turn_start"})
    BY <1>1, <1>3, LinesOfTypes, SentLess, OnceLess DEF StartSent
<1>5. toCentral' = toCentral \/ SendCentral(EspStatus)  BY DEF PiClears, PiDrops
<1>6. EspStatus \in ToCentral /\ EspStatus.type \notin Replies /\ EspStatus.type \notin {"turn_end"}
    BY DEF ToCentral, EspStatus, Replies
<1>7. /\ (EndSent' => EndSent) /\ (ReplySent' => ReplySent)
      /\ Once(toCentral', {"turn_end"}) /\ Once(toCentral', Replies)
    <2>1. CASE toCentral' = toCentral  BY <1>3, <2>1 DEF EndSent, ReplySent, Sent
    <2>2. CASE SendCentral(EspStatus)
        BY <1>3, <1>6, <2>2, CentralIsSent DEF EndSent, ReplySent
    <2> QED  BY <1>5, <2>1, <2>2
<1>8. OneReply' /\ (Answering' => Answering)
    BY <1>1, <1>2, <1>7 DEF GateInv, OneOnWay, OneReply, Answering
<1> QED  BY <1>1, <1>2, <1>4, <1>7, <1>8, Eases

LEMMA GateKept == Orderly /\ Typed /\ TurnExclusion /\ GateInv /\ [Next]_vars => GateInv'
<1> SUFFICES ASSUME Orderly, Typed, TurnExclusion, GateInv, [Next]_vars PROVE GateInv'
    OBVIOUS
<1>1. CASE \E e \in Enders : PiTurnEnd(e) \/ ForceTurnEnd(e) \/ TurnEnd(e) \/ WindowTimesOut(e)
    BY <1>1, TaskBegins, TaskGoesOn, StartsAnnounced
<1>2. CASE Handlers  BY <1>2, AnswerComes
<1>3. CASE Scheduler  BY <1>3, SchedulerMoves, StartsAnnounced
<1>4. CASE \/ \E n \in Turns : Join(n)
           \/ ClearFault \/ FitChanges \/ Disconnect \/ Reconnect \/ UNCHANGED vars
    BY <1>4, OutsideEases
<1>5. CASE TimePasses \/ Crash  BY <1>5, TimeEases
<1>6. CASE Pi
    BY <1>6, PiTakesStart, PiEndsTurn, PiGivesAnswer, PiTakesRest DEF Pi
<1> QED  BY <1>1, <1>2, <1>3, <1>4, <1>5, <1>6 DEF Next

LEMMA GateAlways == Orderly /\ Spec => []GateInv
<1>1. CASE Orderly
    <2>1. Exclusive  BY <1>1, CoordinatorAssumption DEF Orderly, Exclusive
    <2>2. Typed /\ TurnExclusion /\ GateInv /\ [Next]_vars => GateInv'  BY <1>1, GateKept
    <2> QED  BY <2>1, <2>2, GateInit, TypedAlways, ExclusionAlways, PTL DEF Spec
<1>2. CASE ~ Orderly  BY <1>2
<1> QED  BY <1>1, <1>2

(* Only the two tasks that start a turn send a turn_start.                 *)
LEMMA StartsOnly ==
    ASSUME Typed, Next, NEW n \in Turns, toPi' = Append(toPi, TurnStart(n))
    PROVE  SchedAnnounce \/ \E e \in Enders : Announce(e)
<1>1. toPi \in Seq(ToPi) /\ TurnStart(n) \in ToPi /\ FaultClear \in ToPi /\ TurnStart(n) # FaultClear
    BY DEF Typed, TypeOK, ToPi, TurnStart, FaultClear
<1>2. Len(toPi') = Len(toPi) + 1 /\ Len(toPi) \in Nat  BY <1>1
<1>3. toPi' # toPi /\ (toPi # <<>> => toPi' # Tail(toPi)) /\ toPi' # Append(toPi, FaultClear)
    <2>1. toPi'[Len(toPi) + 1] = TurnStart(n)  BY <1>1
    <2>2. toPi # <<>> => Len(Tail(toPi)) = Len(toPi) - 1  BY <1>1
    <2>3. Append(toPi, FaultClear)[Len(toPi) + 1] = FaultClear  BY <1>1
    <2> QED  BY <1>1, <1>2, <2>1, <2>2, <2>3
<1>4. \A k \in 0 .. Len(toPi) : toPi' # SubSeq(toPi, 1, k)
    <2> SUFFICES ASSUME NEW k \in 0 .. Len(toPi), toPi' = SubSeq(toPi, 1, k) PROVE FALSE
        OBVIOUS
    <2>1. Len(SubSeq(toPi, 1, k)) = k  BY <1>1, SubSeqProperties
    <2> QED  BY <1>2, <2>1
<1>5. ~ ClearFault  BY <1>3 DEF ClearFault, SendPi
<1>6. ~ Pi  BY <1>3 DEF Pi, PiStarts, PiClears, PiDrops, PiOpto, PiAnswers
<1>7. ~ Handlers  BY <1>3 DEF Handlers, OnVerdict, VerdictHandled, OnPiFault, OnEspStatus, lineVars
<1>8. /\ \A k \in Turns : ~ Join(k)
      /\ ~ FitChanges /\ ~ TimePasses /\ ~ Reconnect
    BY <1>3 DEF Join, FitChanges, TimePasses, Reconnect, lineVars
<1>9. ~ Disconnect /\ ~ Crash  BY <1>4 DEF Disconnect, Crash, LinesLost
<1>10. Scheduler => SchedAnnounce
    BY <1>3
    DEF Scheduler, SchedBoot, SchedCheckFault, SchedCheckRest, SchedActive, SchedOldest, SchedCommit,
        SchedStart
<1>11. \A e \in Enders :
          PiTurnEnd(e) \/ ForceTurnEnd(e) \/ TurnEnd(e) \/ WindowTimesOut(e) => Announce(e)
    BY <1>3
    DEF PiTurnEnd, ForceTurnEnd, BeginTurnEnd, WindowTimesOut, TurnEnd, TakeLock, CloseEntry,
        OpenWindow, WindowCloses, CheckFault, CheckFit, Pick, Claim, lineVars
<1> QED  BY <1>5, <1>6, <1>7, <1>8, <1>9, <1>10, <1>11 DEF Next

(* No turn is started on a cabinet known to be faulty, although the gate   *)
(* (machine.blocked) is asked several awaits before the turn_start is      *)
(* sent: nothing that would set a fault is in work between the two, also   *)
(* when messages were lost, the end of a stuck turn was forced or the      *)
(* server came up again between two turns.                                 *)
THEOREM GateHolds == Orderly /\ Spec => NoStartWhileFaulted
<1>1. GateInv /\ (SchedAnnounce \/ \E e \in Enders : Announce(e)) => fault = Null
    BY DEF GateInv, OpenOnNoFault, GateOpen, Past, SchedAnnounce, Announce, At
<1>2. Typed /\ GateInv /\ [Next]_vars =>
          [\A n \in Turns : toPi' = Append(toPi, TurnStart(n)) => fault = Null]_vars
    BY <1>1, StartsOnly
<1>3. CASE Orderly
    <2> QED  BY <1>2, <1>3, GateAlways, TypedAlways, PTL DEF Spec, NoStartWhileFaulted
<1>4. CASE ~ Orderly  BY <1>4
<1> QED  BY <1>3, <1>4

-----------------------------------------------------------------------------
(***************************************************************************)
(* If no message of a turn is lost either, the key that central remembers  *)
(* for a verdict is that of the turn whose ball it tells of.               *)
(***************************************************************************)
Lossless == Orderly /\ MaxDrops = 0

Messages(line) == {line[i] : i \in 1 .. Len(line)}
InOrder(line, early, late) ==
    \A i, j \in 1 .. Len(line) : line[i].type \in early /\ line[j].type \in late => i < j
EndsFirst(line) == InOrder(line, {"turn_end"}, Replies)

(* A task that has started a turn tells the Pi of it.                      *)
Announced ==
    /\ sched.at = "announce" => sched.new = current
    /\ \A e \in Enders : At(e, "announce") => ender[e].turn = current

(* The connection is only lost while nothing of a turn is in flight.       *)
Linked == con = "down" => ~ Busy /\ ~ Answering

(* The key that the next verdict finds: turn_end() remembers the current   *)
(* one before the verdict comes.                                           *)
Key == IF EndSent THEN current ELSE awaiting
KeysMatch ==
    /\ \A m \in Messages(toPi) : m.type = "turn_start" => m.turn = current
    /\ piState = "PLAYING" => piTurn = current
    /\ piState = "AWAITING" => piTurn = Key
    /\ \A m \in Messages(toCentral) : m.type = "verdict" => m.of = Key
    /\ EndsFirst(toCentral)
    /\ EndSent => verdictTask = Null
    /\ verdictTask # Null => verdictTask.of = verdictTask.key

KeyInv == Announced /\ Linked /\ KeysMatch

LEMMA KeyInit == Init => KeyInv
<1> SUFFICES ASSUME Init PROVE KeyInv  OBVIOUS
<1>1. /\ toPi = <<>> /\ toCentral = <<Greeting>> /\ con = "up" /\ piState = "IDLE"
      /\ sched.at = "boot" /\ verdictTask = Null /\ \A e \in Enders : ender[e].at = "idle"
    BY DEF Init, NoEnder
<1>2. ~ EndSent  BY <1>1 DEF EndSent, Sent, Greeting
<1>3. Announced /\ Linked  BY <1>1 DEF Announced, Linked, At
<1>4. Messages(toPi) = {}  BY <1>1 DEF Messages
<1>5. \A i \in 1 .. Len(toCentral) : toCentral[i].type = "esp_status"  BY <1>1 DEF Greeting
<1>6. /\ \A m \in Messages(toCentral) : m.type # "verdict"
      /\ EndsFirst(toCentral)
    BY <1>5 DEF Messages, EndsFirst, InOrder, Replies
<1> QED  BY <1>1, <1>2, <1>3, <1>4, <1>6 DEF KeyInv, KeysMatch

LEMMA LineMessages ==
    ASSUME NEW S, NEW line \in Seq(S)
    PROVE  /\ \A m \in S : Messages(Append(line, m)) = Messages(line) \cup {m}
           /\ line # <<>> => Messages(Tail(line)) \subseteq Messages(line) /\ Head(line) \in Messages(line)
           /\ \A k \in 0 .. Len(line) : Messages(SubSeq(line, 1, k)) \subseteq Messages(line)
           /\ Messages(line) \subseteq S
<1> HIDE CoordinatorAssumption, NullAssumption
<1>1. ASSUME NEW m \in S PROVE Messages(Append(line, m)) = Messages(line) \cup {m}
    <2>1. /\ Len(Append(line, m)) = Len(line) + 1 /\ Len(line) \in Nat
          /\ Append(line, m)[Len(line) + 1] = m
          /\ \A i \in 1 .. Len(line) : Append(line, m)[i] = line[i]
        OBVIOUS
    <2>2. 1 .. Len(line) + 1 = (1 .. Len(line)) \cup {Len(line) + 1}  BY <2>1
    <2> QED  BY <2>1, <2>2, Zenon DEF Messages
<1>2. ASSUME line # <<>>
      PROVE  Messages(Tail(line)) \subseteq Messages(line) /\ Head(line) \in Messages(line)
    <2>1. /\ Len(Tail(line)) = Len(line) - 1 /\ Len(line) \in Nat \ {0} /\ Head(line) = line[1]
          /\ \A i \in 1 .. Len(line) - 1 : Tail(line)[i] = line[i + 1] /\ i + 1 \in 1 .. Len(line)
        BY <1>2
    <2>2. 1 \in 1 .. Len(line)  BY <2>1
    <2>3. Head(line) \in Messages(line)  BY <2>1, <2>2, Zenon DEF Messages
    <2>4. ASSUME NEW m \in Messages(Tail(line)) PROVE m \in Messages(line)
        <3>1. PICK i \in 1 .. Len(line) - 1 : m = Tail(line)[i]  BY <2>1, <2>4 DEF Messages
        <3>2. m = line[i + 1] /\ i + 1 \in 1 .. Len(line)  BY <2>1, <3>1
        <3> QED  BY <3>2, Zenon DEF Messages
    <2> QED  BY <2>3, <2>4
<1>3. ASSUME NEW k \in 0 .. Len(line)
      PROVE  Messages(SubSeq(line, 1, k)) \subseteq Messages(line)
    <2>1. Len(SubSeq(line, 1, k)) = k /\ \A i \in 1 .. k : SubSeq(line, 1, k)[i] = line[i]
        BY SubSeqProperties
    <2>2. 1 .. k \subseteq 1 .. Len(line)  OBVIOUS
    <2> QED  BY <2>1, <2>2, Zenon DEF Messages
<1>4. Messages(line) \subseteq S  BY DEF Messages
<1> QED  BY <1>1, <1>2, <1>3, <1>4

LEMMA OrderKept ==
    ASSUME NEW S, NEW line \in Seq(S), NEW early, NEW late, early \cap late = {},
           InOrder(line, early, late)
    PROVE  /\ \A m \in S : (m.type \in early => ~ Sent(line, late)) =>
                  InOrder(Append(line, m), early, late)
           /\ line # <<>> =>
                  /\ InOrder(Tail(line), early, late)
                  /\ Head(line).type \in late => ~ Sent(line, early)
<1> HIDE CoordinatorAssumption, NullAssumption
<1>1. ASSUME NEW m \in S, m.type \in early => ~ Sent(line, late)
      PROVE  InOrder(Append(line, m), early, late)
    <2>1. /\ Len(Append(line, m)) = Len(line) + 1 /\ Len(line) \in Nat
          /\ Append(line, m)[Len(line) + 1] = m
          /\ \A i \in 1 .. Len(line) : Append(line, m)[i] = line[i]
        OBVIOUS
    <2> SUFFICES ASSUME NEW i \in 1 .. Len(line) + 1, NEW j \in 1 .. Len(line) + 1,
                        Append(line, m)[i].type \in early, Append(line, m)[j].type \in late
                 PROVE  i < j
        BY <2>1 DEF InOrder
    <2>2. CASE i = Len(line) + 1
        <3>1. ~ Sent(line, late) /\ m.type \notin late  BY <1>1, <2>1, <2>2
        <3>2. j # Len(line) + 1  BY <2>1, <3>1
        <3>3. j \in 1 .. Len(line)  BY <2>1, <3>2
        <3> QED  BY <2>1, <3>1, <3>3 DEF Sent
    <2>3. CASE i # Len(line) + 1
        <3>1. i \in 1 .. Len(line)  BY <2>1, <2>3
        <3>2. CASE j = Len(line) + 1  BY <2>1, <3>1, <3>2
        <3>3. CASE j # Len(line) + 1
            <4>1. j \in 1 .. Len(line)  BY <2>1, <3>3
            <4> QED  BY <2>1, <3>1, <4>1 DEF InOrder
        <3> QED  BY <3>2, <3>3
    <2> QED  BY <2>2, <2>3
<1>2. ASSUME line # <<>>
      PROVE  /\ InOrder(Tail(line), early, late)
             /\ Head(line).type \in late => ~ Sent(line, early)
    <2>1. /\ Len(Tail(line)) = Len(line) - 1 /\ Len(line) \in Nat \ {0} /\ Head(line) = line[1]
          /\ \A i \in 1 .. Len(line) - 1 : Tail(line)[i] = line[i + 1] /\ i + 1 \in 1 .. Len(line)
        BY <1>2
    <2>2. InOrder(Tail(line), early, late)
        <3> SUFFICES ASSUME NEW i \in 1 .. Len(line) - 1, NEW j \in 1 .. Len(line) - 1,
                            Tail(line)[i].type \in early, Tail(line)[j].type \in late
                     PROVE  i < j
            BY <2>1 DEF InOrder
        <3>1. i + 1 < j + 1  BY <2>1 DEF InOrder
        <3> QED  BY <3>1
    <2>3. ASSUME Head(line).type \in late, Sent(line, early) PROVE FALSE
        <3>1. PICK i \in 1 .. Len(line) : line[i].type \in early  BY <2>3 DEF Sent
        <3>2. 1 \in 1 .. Len(line)  BY <2>1
        <3>3. i < 1  BY <2>1, <2>3, <3>1, <3>2 DEF InOrder
        <3> QED  BY <3>3
    <2> QED  BY <2>2, <2>3
<1> QED  BY <1>1, <1>2

LEMMA EndsStayFirst ==
    ASSUME NEW S, NEW line \in Seq(S), EndsFirst(line)
    PROVE  /\ \A m \in S : (m.type = "turn_end" => ~ Sent(line, Replies)) =>
                  EndsFirst(Append(line, m))
           /\ line # <<>> =>
                  /\ EndsFirst(Tail(line))
                  /\ Head(line).type \in Replies => ~ Sent(line, {"turn_end"})
<1>1. {"turn_end"} \cap Replies = {}  BY DEF Replies
<1>2. \A m : m.type \in {"turn_end"} <=> m.type = "turn_end"  OBVIOUS
<1> QED  BY <1>1, <1>2, OrderKept DEF EndsFirst

(* A step that starts or ends no turn and brings no answer.                *)
LEMMA KeysKept ==
    ASSUME Typed, KeyInv,
           con' = con \/ con' = "up", Busy' => Busy, Answering' => Answering,
           awaiting' = awaiting, current' = current \/ ~ Busy, EndSent' = EndSent,
           piTurn' = piTurn \/ piState' = "IDLE", piState' = piState \/ piState' = "IDLE",
           verdictTask' = verdictTask \/ verdictTask' = Null,
           \A m \in Messages(toPi') : m.type = "turn_start" => m \in Messages(toPi),
           \A m \in Messages(toCentral') : m.type = "verdict" => m \in Messages(toCentral),
           EndsFirst(toCentral')
    PROVE  Linked' /\ KeysMatch'
<1>1. Linked'  BY DEF KeyInv, Linked
<1>2. Key' = Key  BY DEF Key, Busy
<1>3. \A m \in Messages(toPi) : m.type = "turn_start" => StartSent
    BY DEF Messages, StartSent, Sent
<1>4. \A m \in Messages(toPi') : m.type = "turn_start" => m.turn = current'
    BY <1>3 DEF KeyInv, KeysMatch, Busy
<1>5. piState' = "PLAYING" => piTurn' = current'  BY DEF KeyInv, KeysMatch, Busy
<1>6. piState' = "AWAITING" => piTurn' = Key'  BY <1>2 DEF KeyInv, KeysMatch
<1>7. \A m \in Messages(toCentral') : m.type = "verdict" => m.of = Key'
    BY <1>2 DEF KeyInv, KeysMatch
<1>8. /\ EndSent' => verdictTask' = Null
      /\ verdictTask' # Null => verdictTask'.of = verdictTask'.key
    BY DEF KeyInv, KeysMatch
<1> QED  BY <1>1, <1>4, <1>5, <1>6, <1>7, <1>8 DEF KeysMatch

(* The current turn changes only while none is on its way through the Pi.  *)
LEMMA CurrentStays ==
    ASSUME Orderly, Typed, TurnExclusion, GateInv, [Next]_vars
    PROVE  current' = current \/ ~ Busy
<1>1. ASSUME NEW e \in Enders, WindowTimesOut(e) \/ WindowCloses(e) \/ Claim(e)
      PROVE  ~ Busy
    <2>1. ~ At(e, "idle")  BY <1>1 DEF WindowTimesOut, WindowCloses, Claim, At
    <2> QED  BY <2>1, TheTask
<1>2. ASSUME SchedCommit \/ SchedStart PROVE ~ Busy
    <2>1. rested  BY <1>2 DEF TurnExclusion, SchedAlone, Polling, SchedCommit, SchedStart
    <2> QED  BY <2>1 DEF GateInv, TurnDone
<1>3. ASSUME Crash PROVE ~ Busy
    <2>1. TurnOver  BY <1>3 DEF Orderly, Crash, Typed, TypeOK
    <2> QED  BY <2>1 DEF TurnOver, Busy, StartSent, EndSent, Sent
<1>4. CASE \E e \in Enders : PiTurnEnd(e) \/ ForceTurnEnd(e) \/ TurnEnd(e) \/ WindowTimesOut(e)
    BY <1>1, <1>4
    DEF PiTurnEnd, ForceTurnEnd, BeginTurnEnd, TurnEnd, TakeLock, CloseEntry, OpenWindow, CheckFault,
        CheckFit, Pick, Announce, queueVars
<1>5. CASE Handlers
    BY <1>5 DEF Handlers, OnVerdict, VerdictHandled, OnPiFault, OnEspStatus, queueVars
<1>6. CASE Scheduler
    BY <1>2, <1>6
    DEF Scheduler, SchedBoot, SchedCheckFault, SchedCheckRest, SchedActive, SchedOldest,
        SchedAnnounce, queueVars
<1>7. CASE \/ \E n \in Turns : Join(n)
           \/ ClearFault \/ FitChanges \/ TimePasses \/ Disconnect \/ Reconnect \/ UNCHANGED vars
    BY <1>7 DEF Join, ClearFault, FitChanges, TimePasses, Disconnect, Reconnect, vars, queueVars
<1>8. CASE Pi  BY <1>8, PiFrame
<1> QED  BY <1>3, <1>4, <1>5, <1>6, <1>7, <1>8 DEF Next

LEMMA AnnouncedStep ==
    ASSUME Orderly, Typed, TurnExclusion, GateInv, Announced, [Next]_vars
    PROVE  Announced'
<1>1. ASSUME NEW e \in Enders, TurnEnd(e) \/ WindowTimesOut(e), ~ TakeLock(e)
      PROVE  Announced'
    <2>1. ~ At(e, "idle") /\ sched' = sched /\ \A d \in Enders \ {e} : ender'[d] = ender[d]
        BY <1>1
        DEF TurnEnd, CloseEntry, OpenWindow, WindowTimesOut, WindowCloses, CheckFault, CheckFit, Pick,
            Claim, Announce, Goto, Finish, At, Typed, TypeOK
    <2>2. sched.at # "announce" /\ \A d \in Enders \ {e} : At(d, "idle")  BY <2>1, TheTask
    <2>3. \A d \in Enders \ {e} : ender'[d].at = "idle"  BY <2>1, <2>2 DEF At
    <2>4. ender'[e].at = "announce" => ender'[e].turn = current'
        BY <1>1
        DEF TurnEnd, CloseEntry, OpenWindow, WindowTimesOut, WindowCloses, CheckFault, CheckFit, Pick,
            Claim, Announce, Goto, Finish, NoEnder, At, Typed, TypeOK
    <2> QED  BY <2>1, <2>2, <2>3, <2>4 DEF Announced, At
<1>2. ASSUME NEW e \in Enders PROVE ~ TakeLock(e)  BY DEF GateInv, OneTask, TakeLock
<1>3. ASSUME NEW e \in Enders, PiTurnEnd(e) \/ ForceTurnEnd(e) PROVE Announced'
    <2>1. /\ sched' = sched /\ current' = current /\ ender'[e].at # "announce"
          /\ \A d \in Enders \ {e} : ender'[d] = ender[d]
        BY <1>3 DEF PiTurnEnd, ForceTurnEnd, BeginTurnEnd, queueVars, Typed, TypeOK
    <2> QED  BY <2>1 DEF Announced, At
<1>4. CASE Handlers
    <2>1. sched' = sched /\ current' = current /\ (ender' = ender \/ ender' = Release)
        BY <1>4
        DEF Handlers, OnVerdict, VerdictHandled, OnPiFault, OnEspStatus, queueVars, turnVars
    <2>2. \A e \in Enders : ender'[e].at = "announce" => ender'[e] = ender[e]
        BY <2>1 DEF Release, At, Typed, TypeOK
    <2> QED  BY <2>1, <2>2 DEF Announced, At
<1>5. CASE Scheduler
    <2>1. ender' = ender  BY <1>5, SchedFrame
    <2>2. sched'.at = "announce" => sched'.new = current'
        <3>1. CASE SchedStart  BY <3>1 DEF SchedStart, Typed, TypeOK
        <3>2. CASE SchedCommit
            <4>1. CASE sched.new = Null  BY <3>2, <4>1 DEF SchedCommit
            <4>2. CASE sched.new # Null
                <5>1. sched' = [sched EXCEPT !.at = "gap", !.old = Null]
                    BY <3>2, <4>2 DEF SchedCommit
                <5> QED  BY <5>1 DEF Typed, TypeOK
            <4> QED  BY <4>1, <4>2
        <3>3. CASE SchedCheckRest  BY <3>3 DEF SchedCheckRest, Typed, TypeOK
        <3>4. CASE SchedBoot \/ SchedCheckFault \/ SchedOldest
            BY <3>4 DEF SchedBoot, SchedCheckFault, SchedOldest, Typed, TypeOK
        <3>5. CASE SchedActive
            <4>1. sched'.at = "oldest"  BY <3>5 DEF SchedActive
            <4> QED  BY <4>1
        <3>6. CASE SchedAnnounce
            <4>1. sched'.at = "top"  BY <3>6 DEF SchedAnnounce
            <4> QED  BY <4>1
        <3> QED  BY <1>5, <3>1, <3>2, <3>3, <3>4, <3>5, <3>6 DEF Scheduler
    <2>3. current' = current \/ SchedCommit \/ SchedStart
        BY <1>5
        DEF Scheduler, SchedBoot, SchedCheckFault, SchedCheckRest, SchedActive, SchedOldest,
            SchedAnnounce, queueVars
    <2>4. SchedCommit \/ SchedStart => EndersIdle
        BY NoneAtWork DEF TurnExclusion, SchedAlone, Polling, SchedCommit, SchedStart
    <2>5. \A e \in Enders : (At(e, "announce"))' => ender'[e].turn = current'
        BY <2>1, <2>3, <2>4 DEF Announced, EndersIdle, At
    <2> QED  BY <2>2, <2>5 DEF Announced
<1>6. CASE \/ \E n \in Turns : Join(n)
           \/ ClearFault \/ FitChanges \/ TimePasses \/ Disconnect \/ Reconnect \/ Pi
           \/ UNCHANGED vars
    <2>1. sched' = sched /\ current' = current /\ ender' = ender
        BY <1>6, PiFrame
        DEF Join, ClearFault, FitChanges, TimePasses, Disconnect, Reconnect, vars, queueVars, turnVars
    <2> QED  BY <2>1 DEF Announced, At
<1>7. CASE Crash
    <2>1. sched'.at = "boot" /\ \A e \in Enders : ender'[e].at = "idle"
        BY <1>7 DEF Crash, NoEnder
    <2> QED  BY <2>1 DEF Announced, At
<1> QED  BY <1>1, <1>2, <1>3, <1>4, <1>5, <1>6, <1>7 DEF Next

(* Nothing of a turn is left in work.                                      *)
LEMMA KeysAtRest ==
    ASSUME ~ Busy', ~ Answering', EndsFirst(toCentral')
    PROVE  Linked' /\ KeysMatch'
<1>1. Linked'  BY DEF Linked
<1>2. /\ \A m \in Messages(toPi') : m.type # "turn_start"
      /\ \A m \in Messages(toCentral') : m.type # "verdict"
    BY DEF Busy, Answering, StartSent, ReplySent, Replies, Sent, Messages
<1>3. KeysMatch'  BY <1>2 DEF KeysMatch, Busy, Answering
<1> QED  BY <1>1, <1>3

(* turn_end() remembers the key of the turn whose end it was told.         *)
LEMMA KeysRemembered ==
    ASSUME Orderly, Typed, TurnExclusion, GateInv, KeyInv, NEW e \in Enders,
           PiTurnEnd(e) \/ ForceTurnEnd(e)
    PROVE  Linked' /\ KeysMatch'
<1>1. /\ awaiting' = current /\ current' = current /\ con' = con /\ toPi' = toPi
      /\ piState' = piState /\ piTurn' = piTurn /\ verdictTask' = verdictTask
    BY DEF PiTurnEnd, ForceTurnEnd, BeginTurnEnd, Remember, queueVars, piVars
<1>2. CASE PiTurnEnd(e)
    <2>1. toCentral # <<>> /\ Head(toCentral).type = "turn_end" /\ toCentral' = Tail(toCentral)
        BY <1>2 DEF PiTurnEnd, Receive
    <2>2. EndSent /\ Busy  BY <2>1, LinesOfTypes, SentLess DEF Busy, EndSent
    <2>3. ~ StartSent /\ piState # "PLAYING" /\ con = "up"
        BY <2>2 DEF GateInv, OneOnWay, KeyInv, Linked, Typed, TypeOK
    <2>4. ~ EndSent'
        BY <2>1, LinesOfTypes, OnceLess DEF GateInv, OneOnWay, EndSent
    <2>5. Key = current /\ Key' = current  BY <1>1, <2>2, <2>4 DEF Key
    <2>6. \A m \in Messages(toPi) : m.type # "turn_start"
        BY <2>3 DEF StartSent, Sent, Messages
    <2>7. \A m \in Messages(toCentral') : m.type = "verdict" => m.of = Key'
        BY <2>1, <2>5, LinesOfTypes, LineMessages DEF KeyInv, KeysMatch
    <2>8. EndsFirst(toCentral')
        BY <2>1, LinesOfTypes, EndsStayFirst DEF KeyInv, KeysMatch
    <2>9. Linked'  BY <1>1, <2>3 DEF Linked
    <2>10. KeysMatch'
        BY <1>1, <2>3, <2>4, <2>5, <2>6, <2>7, <2>8 DEF KeyInv, KeysMatch
    <2> QED  BY <2>9, <2>10
<1>3. CASE ForceTurnEnd(e)
    <2>1. TurnOver /\ toCentral' = toCentral  BY <1>3 DEF ForceTurnEnd, Orderly, Typed, TypeOK
    <2>2. toPi' = <<>> /\ toCentral' = <<>> /\ piState' = "IDLE" /\ verdictTask' = Null
        BY <1>1, <2>1 DEF TurnOver
    <2>3. ~ Busy' /\ ~ Answering'
        BY <2>2 DEF Busy, Answering, StartSent, EndSent, ReplySent, Sent
    <2>4. EndsFirst(toCentral')  BY <2>2 DEF EndsFirst, InOrder
    <2> QED  BY <2>3, <2>4, KeysAtRest
<1> QED  BY <1>2, <1>3

(* The verdict finds the key of its own turn.                              *)
LEMMA KeysConsumed ==
    ASSUME Typed, GateInv, KeyInv, OnVerdict
    PROVE  Linked' /\ KeysMatch'
<1>1. /\ toCentral # <<>> /\ toCentral' = Tail(toCentral) /\ Head(toCentral).type = "verdict"
      /\ awaiting' = Null /\ current' = current /\ con' = con /\ toPi' = toPi
      /\ piState' = piState /\ piTurn' = piTurn
      /\ verdictTask = Null
      /\ verdictTask' = IF awaiting = Null THEN Null
                        ELSE [key |-> awaiting, outcome |-> Head(toCentral).outcome,
                              of |-> Head(toCentral).of]
    BY DEF OnVerdict, Receive, queueVars, piVars
<1>2. Head(toCentral).type \in Replies  BY <1>1 DEF Replies
<1>3. ReplySent  BY <1>1, <1>2, LinesOfTypes, SentLess DEF ReplySent
<1>4. Once(toCentral, Replies) /\ piState # "AWAITING" /\ con = "up"
    BY <1>3 DEF GateInv, OneOnWay, OneReply, KeyInv, Linked, Answering, Typed, TypeOK
<1>5. ~ Sent(toCentral', Replies)  BY <1>1, <1>2, <1>4, LinesOfTypes, OnceLess
<1>6. EndsFirst(toCentral') /\ ~ EndSent
    BY <1>1, <1>2, LinesOfTypes, EndsStayFirst DEF KeyInv, KeysMatch, EndSent
<1>7. ~ EndSent'  BY <1>1, <1>6, LinesOfTypes, SentLess DEF EndSent
<1>8. Head(toCentral).of = awaiting
    <2>1. Head(toCentral) \in Messages(toCentral)  BY <1>1, LinesOfTypes, LineMessages
    <2> QED  BY <1>1, <1>6, <2>1 DEF KeyInv, KeysMatch, Key
<1>9. verdictTask' # Null => verdictTask'.of = verdictTask'.key  BY <1>1, <1>8
<1>10. \A m \in Messages(toCentral') : m.type # "verdict"
    BY <1>5 DEF Sent, Messages, Replies
<1>11. Linked'  BY <1>1, <1>4 DEF Linked
<1>12. KeysMatch'  BY <1>1, <1>4, <1>6, <1>7, <1>9, <1>10 DEF KeyInv, KeysMatch
<1> QED  BY <1>11, <1>12

LEMMA KeysHandled ==
    ASSUME Typed, GateInv, KeyInv, VerdictHandled \/ OnPiFault \/ OnEspStatus
    PROVE  Linked' /\ KeysMatch'
<1>1. /\ awaiting' = awaiting /\ current' = current /\ con' = con /\ toPi' = toPi
      /\ piState' = piState /\ piTurn' = piTurn
      /\ verdictTask' = verdictTask \/ verdictTask' = Null
    BY DEF VerdictHandled, OnPiFault, OnEspStatus, queueVars, turnVars, lineVars, piVars
<1>2. CASE toCentral' = toCentral
    <2>1. /\ EndSent' = EndSent /\ ReplySent' = ReplySent /\ StartSent' = StartSent
          /\ EndsFirst(toCentral')
        BY <1>1, <1>2 DEF EndSent, ReplySent, StartSent, Sent, KeyInv, KeysMatch
    <2>2. (Busy' => Busy) /\ (Answering' => Answering)  BY <1>1, <2>1 DEF Busy, Answering
    <2> QED  BY <1>1, <1>2, <2>1, <2>2, KeysKept
<1>3. CASE toCentral # <<>> /\ toCentral' = Tail(toCentral) /\ Head(toCentral).type # "turn_end"
    <2>1. EndSent' <=> EndSent  BY <1>3, LinesOfTypes, SentLess DEF EndSent
    <2>2. ReplySent' => ReplySent  BY <1>3, LinesOfTypes, SentLess DEF ReplySent
    <2>3. StartSent' = StartSent  BY <1>1 DEF StartSent, Sent
    <2>4. EndsFirst(toCentral')  BY <1>3, LinesOfTypes, EndsStayFirst DEF KeyInv, KeysMatch
    <2>5. \A m \in Messages(toCentral') : m \in Messages(toCentral)
        BY <1>3, LinesOfTypes, LineMessages
    <2>6. (Busy' => Busy) /\ (Answering' => Answering)
        BY <1>1, <2>1, <2>2, <2>3 DEF Busy, Answering
    <2>7. EndSent' = EndSent  BY <2>1 DEF EndSent, Sent
    <2> QED  BY <1>1, <2>4, <2>5, <2>6, <2>7, KeysKept
<1>4. VerdictHandled => toCentral' = toCentral  BY DEF VerdictHandled, lineVars
<1>5. OnPiFault \/ OnEspStatus =>
          toCentral # <<>> /\ toCentral' = Tail(toCentral) /\ Head(toCentral).type # "turn_end"
    BY DEF OnPiFault, OnEspStatus, Receive
<1> QED  BY <1>2, <1>3, <1>4, <1>5

(* A turn_start names the current turn.                                    *)
LEMMA KeysSent ==
    ASSUME Typed, TurnExclusion, GateInv, KeyInv, SchedAnnounce \/ \E e \in Enders : Announce(e)
    PROVE  Linked' /\ KeysMatch'
<1>1. current \in Turns /\ SendPi(TurnStart(current))
    <2>1. CASE SchedAnnounce
        BY <2>1 DEF SchedAnnounce, KeyInv, Announced, Typed, Named
    <2>2. ASSUME NEW e \in Enders, Announce(e)
          PROVE  current \in Turns /\ SendPi(TurnStart(current))
        BY <2>2 DEF Announce, At, KeyInv, Announced, Typed, Named
    <2> QED  BY <2>1, <2>2
<1>2. /\ awaiting' = awaiting /\ current' = current /\ con' = con /\ toCentral' = toCentral
      /\ piState' = piState /\ piTurn' = piTurn /\ verdictTask' = verdictTask
    BY DEF SchedAnnounce, SchedStep, Announce, queueVars, turnVars, piVars
<1>3. EndSent' = EndSent /\ ReplySent' = ReplySent /\ EndsFirst(toCentral')
    BY <1>2 DEF EndSent, ReplySent, Sent, KeyInv, KeysMatch
<1>4. CASE con = "up"
    <2>1. toPi' = Append(toPi, TurnStart(current)) /\ TurnStart(current) \in ToPi
        BY <1>1, <1>4 DEF SendPi, ToPi
    <2>2. \A m \in Messages(toPi') : m = TurnStart(current) \/ m \in Messages(toPi)
        BY <2>1, LinesOfTypes, LineMessages
    <2>3. \A m \in Messages(toPi') : m.type = "turn_start" => m.turn = current'
        BY <1>2, <2>2 DEF KeyInv, KeysMatch, TurnStart
    <2>4. Linked'  BY <1>2, <1>4 DEF Linked
    <2>5. Key' = Key  BY <1>2, <1>3 DEF Key
    <2>6. KeysMatch'  BY <1>2, <1>3, <2>3, <2>5 DEF KeyInv, KeysMatch
    <2> QED  BY <2>4, <2>6
<1>5. CASE con # "up"
    <2>1. toPi' = toPi  BY <1>1, <1>5 DEF SendPi
    <2>2. StartSent' = StartSent  BY <2>1 DEF StartSent, Sent
    <2>3. Busy' = Busy /\ Answering' = Answering  BY <1>2, <1>3, <2>2 DEF Busy, Answering
    <2> QED  BY <1>2, <1>3, <2>1, <2>3, KeysKept
<1> QED  BY <1>4, <1>5

(* The tasks go on, the scheduler looks, players and the operator act.     *)
LEMMA KeysUntouched ==
    ASSUME Orderly, Typed, TurnExclusion, GateInv, KeyInv, [Next]_vars,
           \/ \E e \in Enders : (TurnEnd(e) \/ WindowTimesOut(e)) /\ ~ Announce(e)
           \/ Scheduler /\ ~ SchedAnnounce
           \/ \E n \in Turns : Join(n)
           \/ ClearFault \/ FitChanges \/ TimePasses \/ Reconnect \/ UNCHANGED vars
    PROVE  Linked' /\ KeysMatch'
<1>1. /\ awaiting' = awaiting /\ piState' = piState /\ piTurn' = piTurn
      /\ verdictTask' = verdictTask
      /\ con' = con \/ con' = "up"
    BY DEF TurnEnd, TakeLock, CloseEntry, OpenWindow, WindowTimesOut, WindowCloses, CheckFault,
           CheckFit, Pick, Claim, Scheduler, SchedStep, SchedBoot, SchedCheckFault, SchedCheckRest,
           SchedActive, SchedOldest, SchedCommit, SchedStart, Join, ClearFault, FitChanges,
           TimePasses, Reconnect, vars, turnVars, lineVars, piVars
<1>2. toPi' = toPi \/ toPi' = Append(toPi, FaultClear)
    BY DEF TurnEnd, TakeLock, CloseEntry, OpenWindow, WindowTimesOut, WindowCloses, CheckFault,
           CheckFit, Pick, Claim, Scheduler, SchedStep, SchedBoot, SchedCheckFault, SchedCheckRest,
           SchedActive, SchedOldest, SchedCommit, SchedStart, Join, ClearFault, FitChanges,
           TimePasses, Reconnect, SendPi, vars, lineVars
<1>3. toCentral' = toCentral \/ (Reconnect /\ toCentral' = <<Greeting>>)
    BY DEF TurnEnd, TakeLock, CloseEntry, OpenWindow, WindowTimesOut, WindowCloses, CheckFault,
           CheckFit, Pick, Claim, Scheduler, SchedStep, SchedBoot, SchedCheckFault, SchedCheckRest,
           SchedActive, SchedOldest, SchedCommit, SchedStart, Join, ClearFault, FitChanges,
           TimePasses, Reconnect, vars, lineVars
<1>4. current' = current \/ ~ Busy  BY CurrentStays
<1>5. FaultClear \in ToPi /\ FaultClear.type # "turn_start"  BY DEF ToPi, FaultClear
<1>6. (StartSent' => StartSent) /\ \A m \in Messages(toPi') : m.type = "turn_start" => m \in Messages(toPi)
    <2>1. CASE toPi' = toPi  BY <2>1 DEF StartSent, Sent
    <2>2. CASE toPi' = Append(toPi, FaultClear)
        BY <1>5, <2>2, LinesOfTypes, SentMore, LineMessages DEF StartSent
    <2> QED  BY <1>2, <2>1, <2>2
<1>7. /\ EndSent' = EndSent /\ (ReplySent' => ReplySent) /\ EndsFirst(toCentral')
      /\ \A m \in Messages(toCentral') : m.type = "verdict" => m \in Messages(toCentral)
    <2>1. CASE toCentral' = toCentral
        BY <2>1 DEF EndSent, ReplySent, Sent, KeyInv, KeysMatch
    <2>2. CASE Reconnect /\ toCentral' = <<Greeting>>
        <3>1. ~ EndSent  BY <2>2 DEF Reconnect, KeyInv, Linked, Busy
        <3>2. Len(toCentral') = 1 /\ \A i \in 1 .. 1 : toCentral'[i].type = "esp_status"
            BY <2>2 DEF Greeting
        <3>3. ~ EndSent' /\ ~ ReplySent' /\ EndsFirst(toCentral')
                /\ \A m \in Messages(toCentral') : m.type # "verdict"
            BY <3>2 DEF EndSent, ReplySent, Replies, Sent, EndsFirst, InOrder, Messages
        <3>4. EndSent' = EndSent  BY <3>1, <3>3 DEF EndSent, Sent
        <3> QED  BY <3>3, <3>4
    <2> QED  BY <1>3, <2>1, <2>2
<1>8. (Busy' => Busy) /\ (Answering' => Answering)
    BY <1>1, <1>6, <1>7 DEF Busy, Answering
<1> QED  BY <1>1, <1>4, <1>6, <1>7, <1>8, KeysKept

LEMMA KeysLost ==
    ASSUME Orderly, Typed, Crash
    PROVE  Linked' /\ KeysMatch'
<1>1. TurnOver  BY DEF Orderly, Crash, Typed, TypeOK
<1>2. piState' = "IDLE" /\ verdictTask' = Null /\ toCentral' = <<>>
    BY <1>1 DEF TurnOver, Crash, LinesLost, piVars
<1>3. ~ StartSent'
    <2>1. PICK k \in 0 .. Len(toPi) : toPi' = SubSeq(toPi, 1, k)  BY DEF Crash, LinesLost
    <2>2. ~ Sent(toPi, {"turn_start"})  BY <1>1 DEF TurnOver, Sent
    <2> QED  BY <2>1, <2>2, LinesOfTypes, SentPrefix DEF StartSent
<1>4. ~ EndSent' /\ ~ ReplySent' /\ EndsFirst(toCentral')
    BY <1>2 DEF EndSent, ReplySent, Sent, EndsFirst, InOrder
<1>5. ~ Busy' /\ ~ Answering'  BY <1>2, <1>3, <1>4 DEF Busy, Answering
<1> QED  BY <1>4, <1>5, KeysAtRest

(* The Pi plays the current turn, tells of its end first and then of its   *)
(* ball.                                                                   *)
LEMMA KeysPlayed ==
    ASSUME Typed, TurnExclusion, GateInv, KeyInv, PiStarts
    PROVE  Linked' /\ KeysMatch'
<1>1. /\ toPi # <<>> /\ Head(toPi).type \in {"turn_start"} /\ toPi' = Tail(toPi)
      /\ piState' = "PLAYING" /\ piTurn' = Head(toPi).turn /\ toCentral' = toCentral
    BY DEF PiStarts
<1>2. current' = current /\ con' = con /\ verdictTask' = verdictTask  BY PiFrame DEF Pi
<1>3. StartSent  BY <1>1, LinesOfTypes, SentLess DEF StartSent
<1>4. ~ EndSent /\ ~ Answering /\ con = "up"
    BY <1>3 DEF GateInv, OneOnWay, KeyInv, Linked, Busy, Typed, TypeOK
<1>5. Head(toPi).turn = current
    BY <1>1, LinesOfTypes, LineMessages DEF KeyInv, KeysMatch
<1>6. \A m \in Messages(toPi') : m.type = "turn_start" => m.turn = current'
    BY <1>1, <1>2, LinesOfTypes, LineMessages DEF KeyInv, KeysMatch
<1>7. /\ ~ EndSent' /\ EndsFirst(toCentral')
      /\ \A m \in Messages(toCentral') : m.type # "verdict"
    BY <1>1, <1>4
    DEF EndSent, Answering, ReplySent, Replies, Sent, Messages, KeyInv, KeysMatch
<1>8. Linked'  BY <1>2, <1>4 DEF Linked
<1>9. KeysMatch'
    BY <1>1, <1>2, <1>4, <1>5, <1>6, <1>7 DEF KeysMatch, Answering
<1> QED  BY <1>8, <1>9

LEMMA KeysEnded ==
    ASSUME Typed, GateInv, KeyInv, PiOpto
    PROVE  Linked' /\ KeysMatch'
<1>1. piState = "PLAYING" /\ piState' = "AWAITING" /\ piTurn' = piTurn /\ toPi' = toPi
    BY DEF PiOpto
<1>2. current' = current /\ con' = con /\ verdictTask' = verdictTask  BY PiFrame DEF Pi
<1>3. Busy /\ ~ EndSent /\ ~ Answering /\ con = "up"
    BY <1>1 DEF GateInv, OneOnWay, KeyInv, Linked, Busy, Typed, TypeOK
<1>4. toCentral' = Append(toCentral, TurnEnded(piTurn)) /\ TurnEnded(piTurn) \in ToCentral
    BY <1>1, <1>3, PiMessages DEF PiOpto, SendCentral
<1>5. EndSent'  BY <1>4, LinesOfTypes, SentMore DEF EndSent, TurnEnded
<1>6. Key' = current  BY <1>2, <1>5 DEF Key
<1>7. \A m \in Messages(toCentral') : m.type # "verdict"
    <2>1. \A m \in Messages(toCentral) : m.type # "verdict"
        BY <1>3 DEF Answering, ReplySent, Replies, Sent, Messages
    <2> QED  BY <1>4, <2>1, LinesOfTypes, LineMessages DEF TurnEnded
<1>8. EndsFirst(toCentral')
    BY <1>3, <1>4, LinesOfTypes, EndsStayFirst DEF Answering, ReplySent, KeyInv, KeysMatch
<1>9. Linked'  BY <1>2, <1>3 DEF Linked
<1>10. KeysMatch'
    BY <1>1, <1>2, <1>3, <1>6, <1>7, <1>8 DEF KeyInv, KeysMatch, Answering
<1> QED  BY <1>9, <1>10

LEMMA KeysAnswered ==
    ASSUME Typed, GateInv, KeyInv, PiAnswers
    PROVE  Linked' /\ KeysMatch'
<1>1. piState = "AWAITING" /\ piState' = "IDLE" /\ toPi' = toPi  BY DEF PiAnswers
<1>2. /\ current' = current /\ awaiting' = awaiting /\ con' = con /\ verdictTask' = verdictTask
    BY PiFrame DEF Pi
<1>3. Answering /\ con = "up" /\ verdictTask = Null /\ ~ ReplySent
    BY <1>1 DEF GateInv, OneOnWay, OneReply, Answering, KeyInv, Linked, Typed, TypeOK
<1>4. PICK m \in ToCentral : /\ SendCentral(m) /\ m.type \in Replies /\ m.type # "turn_end"
                             /\ m.type = "verdict" => m.of = piTurn
    BY PiAnswerIs
<1>5. toCentral' = Append(toCentral, m)  BY <1>3, <1>4 DEF SendCentral
<1>6. EndSent' <=> EndSent  BY <1>4, <1>5, LinesOfTypes, SentMore DEF EndSent
<1>7. Key' = Key  BY <1>2, <1>6 DEF Key
<1>8. \A l \in Messages(toCentral') : l.type = "verdict" => l.of = Key'
    <2>1. \A l \in Messages(toCentral') : l = m \/ l \in Messages(toCentral)
        BY <1>5, LinesOfTypes, LineMessages
    <2> QED  BY <1>1, <1>4, <1>7, <2>1 DEF KeyInv, KeysMatch
<1>9. EndsFirst(toCentral')
    BY <1>4, <1>5, LinesOfTypes, EndsStayFirst DEF KeyInv, KeysMatch
<1>10. Linked'  BY <1>2, <1>3 DEF Linked
<1>11. KeysMatch'
    BY <1>1, <1>2, <1>3, <1>8, <1>9 DEF KeyInv, KeysMatch
<1> QED  BY <1>10, <1>11

LEMMA KeysPassed ==
    ASSUME Orderly, Typed, TurnExclusion, GateInv, KeyInv, [Next]_vars, PiClears \/ PiDrops
    PROVE  Linked' /\ KeysMatch'
<1>1. toPi # <<>> /\ toPi' = Tail(toPi) /\ piState' = piState /\ piTurn' = piTurn
    BY DEF PiClears, PiDrops, piVars
<1>2. /\ current' = current /\ awaiting' = awaiting /\ con' = con /\ verdictTask' = verdictTask
    BY PiFrame DEF Pi
<1>3. StartSent' => StartSent  BY <1>1, LinesOfTypes, SentLess DEF StartSent
<1>4. \A m \in Messages(toPi') : m \in Messages(toPi)  BY <1>1, LinesOfTypes, LineMessages
<1>5. toCentral' = toCentral \/ toCentral' = Append(toCentral, EspStatus)
    BY DEF PiClears, PiDrops, SendCentral
<1>6. EspStatus \in ToCentral /\ EspStatus.type \notin Replies /\ EspStatus.type # "turn_end"
         /\ EspStatus.type # "verdict"
    BY DEF ToCentral, EspStatus, Replies
<1>7. /\ EndSent' = EndSent /\ (ReplySent' => ReplySent) /\ EndsFirst(toCentral')
      /\ \A m \in Messages(toCentral') : m.type = "verdict" => m \in Messages(toCentral)
    <2>1. CASE toCentral' = toCentral
        BY <2>1 DEF EndSent, ReplySent, Sent, KeyInv, KeysMatch
    <2>2. CASE toCentral' = Append(toCentral, EspStatus)
        <3>1. (EndSent' <=> EndSent) /\ (ReplySent' => ReplySent)
            BY <1>6, <2>2, LinesOfTypes, SentMore DEF EndSent, ReplySent
        <3>2. EndsFirst(toCentral')
            BY <1>6, <2>2, LinesOfTypes, EndsStayFirst DEF KeyInv, KeysMatch
        <3>3. \A m \in Messages(toCentral') : m.type = "verdict" => m \in Messages(toCentral)
            BY <1>6, <2>2, LinesOfTypes, LineMessages
        <3>4. EndSent' = EndSent  BY <3>1 DEF EndSent, Sent
        <3> QED  BY <3>1, <3>2, <3>3, <3>4
    <2> QED  BY <1>5, <2>1, <2>2
<1>8. (Busy' => Busy) /\ (Answering' => Answering)
    BY <1>1, <1>2, <1>3, <1>7 DEF Busy, Answering
<1> QED  BY <1>1, <1>2, <1>4, <1>7, <1>8, KeysKept

LEMMA KeyStep ==
    Lossless /\ Typed /\ TurnExclusion /\ GateInv /\ KeyInv /\ [Next]_vars => KeyInv'
<1> SUFFICES ASSUME Lossless, Typed, TurnExclusion, GateInv, KeyInv, [Next]_vars PROVE KeyInv'
    OBVIOUS
<1> USE DEF Lossless
<1>1. Announced'  BY AnnouncedStep DEF KeyInv
<1>2. ~ Disconnect  BY DEF Disconnect, Typed, TypeOK
<1>3. Linked' /\ KeysMatch'
    <2>1. CASE \E e \in Enders : PiTurnEnd(e) \/ ForceTurnEnd(e) \/ TurnEnd(e) \/ WindowTimesOut(e)
        BY <2>1, KeysRemembered, KeysSent, KeysUntouched
    <2>2. CASE Handlers  BY <2>2, KeysConsumed, KeysHandled DEF Handlers
    <2>3. CASE Scheduler  BY <2>3, KeysSent, KeysUntouched
    <2>4. CASE \/ \E n \in Turns : Join(n)
               \/ ClearFault \/ FitChanges \/ TimePasses \/ Reconnect \/ UNCHANGED vars
        BY <2>4, KeysUntouched
    <2>5. CASE Crash  BY <2>5, KeysLost
    <2>6. CASE Pi  BY <2>6, KeysPlayed, KeysEnded, KeysAnswered, KeysPassed DEF Pi
    <2> QED  BY <1>2, <2>1, <2>2, <2>3, <2>4, <2>5, <2>6 DEF Next
<1> QED  BY <1>1, <1>3 DEF KeyInv

LEMMA KeyAlways == Lossless /\ Spec => []KeyInv
<1>1. CASE Lossless
    <2>1. Orderly /\ Exclusive
        BY <1>1, CoordinatorAssumption DEF Lossless, Orderly, Exclusive
    <2>2. Typed /\ TurnExclusion /\ GateInv /\ KeyInv /\ [Next]_vars => KeyInv'
        BY <1>1, KeyStep
    <2> QED  BY <2>1, <2>2, KeyInit, TypedAlways, ExclusionAlways, GateAlways, PTL DEF Spec
<1>2. CASE ~ Lossless  BY <1>2
<1> QED  BY <1>1, <1>2

-----------------------------------------------------------------------------
(***************************************************************************)
(* The pause.  Whatever is lost: as long as the Pi's answer to a turn is   *)
(* to come, it is the answer to the turn whose end was reported, for which *)
(* the window of a turn_end() waits.  So none times out before it.         *)
(***************************************************************************)
AskedOf(n) == Answering => AnswerToCome(n)
EndsKnown ==
    /\ \A m \in Messages(toCentral) : m.type = "turn_end" => AskedOf(m.of)
    /\ \A e \in Enders : ~ At(e, "idle") => AskedOf(ender[e].of)

ReplyIn(line, n) == \E m \in Messages(line) : m.type \in Replies /\ m.of = n

LEMMA EndsKnownInit == Init => EndsKnown
<1> SUFFICES ASSUME Init PROVE EndsKnown  OBVIOUS
<1>1. toCentral = <<Greeting>> /\ \A e \in Enders : ender[e].at = "idle"  BY DEF Init, NoEnder
<1>2. \A m \in Messages(toCentral) : m.type = "esp_status"  BY <1>1 DEF Messages, Greeting
<1> QED  BY <1>1, <1>2 DEF EndsKnown, At

LEMMA AnswerIs ==
    ASSUME NEW n
    PROVE  /\ AnswerToCome(n) <=> \/ piState = "AWAITING" /\ piTurn = n
                                  \/ verdictTask # Null /\ verdictTask.of = n
                                  \/ ReplyIn(toCentral, n)
           /\ AnswerToCome(n)' <=> \/ piState' = "AWAITING" /\ piTurn' = n
                                   \/ verdictTask' # Null /\ verdictTask'.of = n
                                   \/ ReplyIn(toCentral', n)
BY DEF AnswerToCome, ReplyIn, Messages, Replies

LEMMA RepliesSent == \A line, n : ReplyIn(line, n) => Sent(line, Replies)
BY DEF ReplyIn, Messages, Sent

LEMMA FirstOrLater ==
    ASSUME NEW S, NEW line \in Seq(S), line # <<>>
    PROVE  \A m \in Messages(line) : m = Head(line) \/ m \in Messages(Tail(line))
<1> HIDE CoordinatorAssumption, NullAssumption
<1>1. /\ Len(Tail(line)) = Len(line) - 1 /\ Len(line) \in Nat \ {0} /\ Head(line) = line[1]
      /\ \A i \in 1 .. Len(line) - 1 : Tail(line)[i] = line[i + 1]
    OBVIOUS
<1> SUFFICES ASSUME NEW m \in Messages(line), m # Head(line) PROVE m \in Messages(Tail(line))
    OBVIOUS
<1>2. PICK i \in 1 .. Len(line) : m = line[i]  BY DEF Messages
<1>3. i - 1 \in 1 .. Len(line) - 1 /\ (i - 1) + 1 = i  BY <1>1, <1>2
<1>4. m = Tail(line)[i - 1]  BY <1>1, <1>2, <1>3
<1> QED  BY <1>1, <1>3, <1>4, Zenon DEF Messages

LEMMA AskedLess ==
    ASSUME Typed, NEW n, AskedOf(n), piState' = piState, piTurn' = piTurn, verdictTask' = verdictTask,
           \/ toCentral' = toCentral
           \/ /\ toCentral # <<>> /\ toCentral' = Tail(toCentral)
              /\ Head(toCentral).type \notin Replies
    PROVE  AskedOf(n)'
<1>1. CASE toCentral' = toCentral
    <2>1. Answering' <=> Answering  BY <1>1 DEF Answering, ReplySent, Sent
    <2> QED  BY <1>1, <2>1, AnswerIs DEF AskedOf
<1>2. CASE /\ toCentral # <<>> /\ toCentral' = Tail(toCentral)
           /\ Head(toCentral).type \notin Replies
    <2>1. ReplySent' => ReplySent  BY <1>2, LinesOfTypes, SentLess DEF ReplySent
    <2>2. Answering' => Answering  BY <2>1 DEF Answering
    <2>3. ReplyIn(toCentral, n) => ReplyIn(toCentral', n)
        BY <1>2, LinesOfTypes, FirstOrLater DEF ReplyIn
    <2> QED  BY <2>2, <2>3, AnswerIs DEF AskedOf
<1> QED  BY <1>1, <1>2

(* No answer is on its way any more, or one that was stays on its way.     *)
LEMMA AnswerHandled ==
    ASSUME Typed, GateInv, NEW n, AskedOf(n), Handlers
    PROVE  AskedOf(n)'
<1>1. piState' = piState /\ piTurn' = piTurn
    BY DEF Handlers, OnVerdict, VerdictHandled, OnPiFault, OnEspStatus, piVars
<1>2. CASE VerdictHandled
    <2>1. verdictTask # Null /\ verdictTask' = Null /\ toCentral' = toCentral
        BY <1>2 DEF VerdictHandled, lineVars
    <2>2. ~ ReplySent /\ piState # "AWAITING"  BY <2>1 DEF GateInv, OneOnWay, OneReply
    <2>3. ~ ReplySent'  BY <2>1, <2>2 DEF ReplySent, Sent
    <2> QED  BY <1>1, <2>1, <2>2, <2>3 DEF AskedOf, Answering
<1>4. CASE OnEspStatus
    BY <1>1, <1>4, AskedLess DEF OnEspStatus, Receive, turnVars, Replies
<1>5. CASE OnVerdict \/ OnPiFault
    <2>1. /\ toCentral # <<>> /\ toCentral' = Tail(toCentral) /\ Head(toCentral).type \in Replies
        BY <1>5 DEF OnVerdict, OnPiFault, Receive, Replies
    <2>2. ReplySent  BY <2>1, LinesOfTypes, SentLess DEF ReplySent
    <2>3. verdictTask = Null /\ piState # "AWAITING" /\ Once(toCentral, Replies)
        BY <2>2 DEF GateInv, OneOnWay, OneReply
    <2>4. ~ ReplySent'  BY <2>1, <2>3, LinesOfTypes, OnceLess DEF ReplySent
    <2>5. CASE verdictTask' = Null  BY <1>1, <2>3, <2>4, <2>5 DEF AskedOf, Answering
    <2>6. CASE verdictTask' # Null
        <3>1. verdictTask'.of = Head(toCentral).of
            BY <1>5, <2>3, <2>6 DEF OnVerdict, OnPiFault, turnVars
        <3>2. ReplyIn(toCentral, n)  BY <2>2, <2>3, AnswerIs DEF AskedOf, Answering
        <3>3. PICK m \in Messages(toCentral) : m.type \in Replies /\ m.of = n
            BY <3>2 DEF ReplyIn
        <3>4. m = Head(toCentral)
            <4>1. m \notin Messages(Tail(toCentral))
                BY <2>1, <2>4, <3>3 DEF ReplySent, Sent, Messages
            <4> QED  BY <2>1, <4>1, LinesOfTypes, FirstOrLater
        <3> QED  BY <2>6, <3>1, <3>3, <3>4, AnswerIs DEF AskedOf
    <2> QED  BY <2>5, <2>6
<1> QED  BY <1>2, <1>4, <1>5 DEF Handlers

LEMMA AnswerSent ==
    ASSUME Typed, GateInv, NEW n, AskedOf(n), Pi, ~ PiOpto
    PROVE  AskedOf(n)'
<1>1. verdictTask' = verdictTask  BY PiFrame
<1>2. CASE PiAnswers
    <2>1. piState = "AWAITING" /\ piState' = "IDLE"  BY <1>2 DEF PiAnswers
    <2>2. Answering /\ verdictTask = Null /\ ~ ReplySent
        BY <2>1 DEF Answering, GateInv, OneOnWay, OneReply
    <2>3. piTurn = n  BY <2>2, AnswerIs, RepliesSent DEF AskedOf, ReplySent
    <2>4. PICK m \in ToCentral : SendCentral(m) /\ m.type \in Replies /\ m.of = piTurn
        BY <1>2, PiAnswerIs
    <2>5. CASE con = "up"
        <3>1. toCentral' = Append(toCentral, m)  BY <2>4, <2>5 DEF SendCentral
        <3>2. m \in Messages(toCentral')  BY <3>1, LinesOfTypes, LineMessages
        <3>3. ReplyIn(toCentral', n)  BY <2>3, <2>4, <3>2 DEF ReplyIn
        <3> QED  BY <3>3, AnswerIs DEF AskedOf
    <2>6. CASE con # "up"
        <3>1. toCentral' = toCentral  BY <2>4, <2>6 DEF SendCentral
        <3>2. ~ ReplySent'  BY <2>2, <3>1 DEF ReplySent, Sent
        <3> QED  BY <1>1, <2>1, <2>2, <3>2 DEF AskedOf, Answering
    <2> QED  BY <2>5, <2>6
<1>3. CASE PiStarts \/ PiDrops
    <2>1. toCentral' = toCentral /\ piState' = "PLAYING"
        BY <1>3 DEF PiStarts, PiDrops, piVars
    <2>2. ~ Answering
        <3>1. CASE PiDrops  BY <3>1 DEF PiDrops, GateInv, OneOnWay
        <3>2. CASE PiStarts
            BY <3>2, LinesOfTypes, SentLess DEF PiStarts, StartSent, GateInv, OneOnWay
        <3> QED  BY <1>3, <3>1, <3>2
    <2>3. ~ Answering'  BY <1>1, <2>1, <2>2 DEF Answering, ReplySent, Sent
    <2> QED  BY <2>3 DEF AskedOf
<1>4. CASE PiClears
    <2>1. piState' = piState /\ piTurn' = piTurn /\ SendCentral(EspStatus)  BY <1>4 DEF PiClears
    <2>2. EspStatus \in ToCentral /\ EspStatus.type \notin Replies
        BY DEF ToCentral, EspStatus, Replies
    <2>3. CASE con = "up"
        <3>1. toCentral' = Append(toCentral, EspStatus)  BY <2>1, <2>3 DEF SendCentral
        <3>2. ReplySent' => ReplySent  BY <2>2, <3>1, LinesOfTypes, SentMore DEF ReplySent
        <3>3. Answering' => Answering  BY <1>1, <2>1, <3>2 DEF Answering
        <3>4. Messages(toCentral) \subseteq Messages(toCentral')
            BY <2>2, <3>1, LinesOfTypes, LineMessages
        <3>5. ReplyIn(toCentral, n) => ReplyIn(toCentral', n)  BY <3>4 DEF ReplyIn
        <3> QED  BY <1>1, <2>1, <3>3, <3>5, AnswerIs DEF AskedOf
    <2>4. CASE con # "up"
        <3>1. toCentral' = toCentral  BY <2>1, <2>4 DEF SendCentral
        <3> QED  BY <1>1, <2>1, <3>1, AskedLess
    <2> QED  BY <2>3, <2>4
<1> QED  BY <1>2, <1>3, <1>4 DEF Pi

LEMMA AnswerLost ==
    ASSUME Typed, GateInv, NEW n, AskedOf(n), Disconnect \/ Reconnect
    PROVE  AskedOf(n)'
<1>1. piState' = piState /\ piTurn' = piTurn /\ verdictTask' = verdictTask
    BY DEF Disconnect, Reconnect, piVars, turnVars
<1>2. toCentral' = <<>> \/ toCentral' = <<Greeting>>  BY DEF Disconnect, Reconnect, LinesLost
<1>3. ~ ReplySent'  BY <1>2 DEF ReplySent, Sent, Replies, Greeting
<1>4. Answering' => piState = "AWAITING" \/ verdictTask # Null  BY <1>1, <1>3 DEF Answering
<1>5. Answering' => ~ ReplySent /\ Answering
    BY <1>4 DEF Answering, GateInv, OneOnWay, OneReply
<1>6. ReplyIn(toCentral, n) => ReplySent  BY RepliesSent DEF ReplySent
<1> QED  BY <1>1, <1>5, <1>6, AnswerIs DEF AskedOf

LEMMA AskedNow ==
    ASSUME Orderly, Typed, GateInv, [Next]_vars, ~ PiOpto, NEW n, AskedOf(n)
    PROVE  AskedOf(n)'
<1>1. CASE Crash \/ \E e \in Enders : ForceTurnEnd(e)
    <2>1. TurnOver /\ (toCentral' = <<>> \/ toCentral' = toCentral)
        BY <1>1 DEF Crash, LinesLost, ForceTurnEnd, Orderly, Typed, TypeOK
    <2>2. piState' = "IDLE" /\ verdictTask' = Null /\ toCentral' = <<>>
        BY <1>1, <2>1 DEF TurnOver, Crash, ForceTurnEnd, BeginTurnEnd, piVars
    <2> QED  BY <2>2 DEF AskedOf, Answering, ReplySent, Sent
<1>2. CASE \/ \E e \in Enders : PiTurnEnd(e) \/ TurnEnd(e) \/ WindowTimesOut(e)
           \/ Scheduler \/ (\E k \in Turns : Join(k))
           \/ ClearFault \/ FitChanges \/ TimePasses \/ UNCHANGED vars
    <2>1. piState' = piState /\ piTurn' = piTurn /\ verdictTask' = verdictTask
        BY <1>2
        DEF PiTurnEnd, BeginTurnEnd, TurnEnd, TakeLock, CloseEntry, OpenWindow, WindowTimesOut,
            WindowCloses, CheckFault, CheckFit, Pick, Claim, Announce, Scheduler, SchedStep,
            SchedBoot, SchedCheckFault, SchedCheckRest, SchedActive, SchedOldest, SchedCommit,
            SchedStart, SchedAnnounce, Join, ClearFault, FitChanges, TimePasses, vars, turnVars,
            piVars
    <2>2. \/ toCentral' = toCentral
          \/ /\ toCentral # <<>> /\ toCentral' = Tail(toCentral)
             /\ Head(toCentral).type \notin Replies
        BY <1>2
        DEF PiTurnEnd, Receive, Replies, TurnEnd, TakeLock, CloseEntry, OpenWindow, WindowTimesOut,
            WindowCloses, CheckFault, CheckFit, Pick, Claim, Announce, Scheduler, SchedStep,
            SchedBoot, SchedCheckFault, SchedCheckRest, SchedActive, SchedOldest, SchedCommit,
            SchedStart, SchedAnnounce, Join, ClearFault, FitChanges, TimePasses, vars, lineVars
    <2> QED  BY <2>1, <2>2, AskedLess
<1>3. CASE Handlers  BY <1>3, AnswerHandled
<1>4. CASE Disconnect \/ Reconnect  BY <1>4, AnswerLost
<1>5. CASE Pi  BY <1>5, AnswerSent
<1> QED  BY <1>1, <1>2, <1>3, <1>4, <1>5 DEF Next

(* Where an end that a task deals with comes from.                         *)
LEMMA EndsFrom ==
    ASSUME Typed, [Next]_vars, ~ PiOpto, ~ \E e \in Enders : ForceTurnEnd(e)
    PROVE  /\ \A m \in Messages(toCentral') : m.type = "turn_end" => m \in Messages(toCentral)
           /\ \A e \in Enders : ender'[e].at # "idle" =>
                 \/ ~ At(e, "idle") /\ ender'[e].of = ender[e].of
                 \/ \E m \in Messages(toCentral) : m.type = "turn_end" /\ ender'[e].of = m.of
<1>1. ASSUME NEW e \in Enders, PiTurnEnd(e)
      PROVE  \A d \in Enders : ender'[d].at # "idle" =>
                 \/ ~ At(d, "idle") /\ ender'[d].of = ender[d].of
                 \/ \E m \in Messages(toCentral) : m.type = "turn_end" /\ ender'[d].of = m.of
    <2>1. Head(toCentral) \in Messages(toCentral) /\ Head(toCentral).type = "turn_end"
        BY <1>1, LinesOfTypes, LineMessages DEF PiTurnEnd, Receive
    <2>2. /\ ender'[e].of = Head(toCentral).of
          /\ \A d \in Enders \ {e} : ender'[d] = ender[d]
        BY <1>1 DEF PiTurnEnd, BeginTurnEnd, Typed, TypeOK
    <2> QED  BY <2>1, <2>2 DEF At
<1>2. ASSUME ~ \E e \in Enders : PiTurnEnd(e)
      PROVE  \A e \in Enders : ender'[e].at # "idle" => ~ At(e, "idle") /\ ender'[e].of = ender[e].of
    <2>1. CASE \E e \in Enders : TurnEnd(e) \/ WindowTimesOut(e)
        <3>1. PICK e \in Enders : TurnEnd(e) \/ WindowTimesOut(e)  BY <2>1
        <3>2. ~ At(e, "idle")
            BY <3>1
            DEF TurnEnd, TakeLock, CloseEntry, OpenWindow, WindowTimesOut, WindowCloses, CheckFault,
                CheckFit, Pick, Claim, Announce, At
        <3>3. \/ ender' = [ender EXCEPT ![e] = NoEnder]
              \/ \E place : ender' = [ender EXCEPT ![e].at = place]
              \/ \E place, n : ender' = [ender EXCEPT ![e].at = place, ![e].turn = n]
            <4>1. CASE TakeLock(e) \/ Pick(e)
                <5>1. \/ ender' = [ender EXCEPT ![e].at = "close", ![e].turn = current]
                      \/ ender' = [ender EXCEPT ![e].at = "claim", ![e].turn = Oldest]
                      \/ ender' = [ender EXCEPT ![e] = NoEnder]
                    BY <4>1 DEF TakeLock, Pick, Finish
                <5> QED  BY <5>1, Zenon
            <4>2. CASE ~ (TakeLock(e) \/ Pick(e))
                BY <3>1, <4>2
                DEF TurnEnd, CloseEntry, OpenWindow, WindowTimesOut, WindowCloses, CheckFault,
                    CheckFit, Claim, Announce, Goto, Finish
            <4> QED  BY <4>1, <4>2
        <3>4. ender \in [Enders -> [at : EnderAt, turn : MaybeTurn, of : MaybeTurn]]
            BY DEF Typed, TypeOK
        <3>5. ender'[e].of = ender[e].of \/ ender'[e].at = "idle"
            <4>1. CASE ender' = [ender EXCEPT ![e] = NoEnder]
                <5>1. ender'[e] = NoEnder  BY <3>4, <4>1
                <5> QED  BY <5>1 DEF NoEnder
            <4>2. ASSUME NEW place, ender' = [ender EXCEPT ![e].at = place]
                  PROVE  ender'[e].of = ender[e].of
                BY <3>4, <4>2
            <4>3. ASSUME NEW place, NEW n, ender' = [ender EXCEPT ![e].at = place, ![e].turn = n]
                  PROVE  ender'[e].of = ender[e].of
                BY <3>4, <4>3
            <4> QED  BY <3>3, <4>1, <4>2, <4>3
        <3>6. \A d \in Enders \ {e} : ender'[d] = ender[d]  BY <3>3, <3>4
        <3> QED  BY <3>2, <3>5, <3>6 DEF At
    <2>2. CASE Handlers
        <3>1. ender' = ender \/ ender' = Release
            BY <2>2 DEF Handlers, OnVerdict, VerdictHandled, OnPiFault, OnEspStatus, turnVars
        <3>2. \A e \in Enders : Release[e].of = ender[e].of /\ (Release[e].at # "idle" => ~ At(e, "idle"))
            BY DEF Release, At, Typed, TypeOK
        <3> QED  BY <3>1, <3>2 DEF At
    <2>3. CASE Crash  BY <2>3 DEF Crash, NoEnder
    <2>4. CASE Pi  BY <2>4, PiFrame DEF At
    <2>5. CASE \/ Scheduler \/ (\E n \in Turns : Join(n)) \/ ClearFault \/ FitChanges \/ TimePasses
               \/ Disconnect \/ Reconnect \/ UNCHANGED vars
        BY <2>5
        DEF Scheduler, SchedStep, SchedBoot, SchedCheckFault, SchedCheckRest, SchedActive,
            SchedOldest, SchedCommit, SchedStart, SchedAnnounce, Join, ClearFault, FitChanges,
            TimePasses, Disconnect, Reconnect, vars, turnVars, At
    <2> QED  BY <1>2, <2>1, <2>2, <2>3, <2>4, <2>5 DEF Next
<1>3. \/ toCentral' = toCentral \/ (toCentral # <<>> /\ toCentral' = Tail(toCentral))
      \/ toCentral' = <<>> \/ toCentral' = <<Greeting>>
      \/ \E m \in ToCentral : m.type # "turn_end" /\ toCentral' = Append(toCentral, m)
    <2>1. CASE \E e \in Enders : PiTurnEnd(e) \/ TurnEnd(e) \/ WindowTimesOut(e)
        BY <2>1
        DEF PiTurnEnd, Receive, TurnEnd, TakeLock, CloseEntry, OpenWindow, WindowTimesOut,
            WindowCloses, CheckFault, CheckFit, Pick, Claim, Announce, lineVars
    <2>2. CASE Handlers
        BY <2>2 DEF Handlers, OnVerdict, VerdictHandled, OnPiFault, OnEspStatus, Receive, lineVars
    <2>3. CASE PiAnswers
        <3>1. PICK m \in ToCentral : SendCentral(m) /\ m.type # "turn_end"  BY <2>3, PiAnswerIs
        <3> QED  BY <3>1 DEF SendCentral
    <2>4. CASE PiClears
        <3>1. EspStatus \in ToCentral /\ EspStatus.type # "turn_end"  BY DEF ToCentral, EspStatus
        <3> QED  BY <2>4, <3>1 DEF PiClears, SendCentral
    <2>5. CASE PiStarts \/ PiDrops  BY <2>5 DEF PiStarts, PiDrops
    <2>6. CASE \/ Scheduler \/ (\E n \in Turns : Join(n)) \/ ClearFault \/ FitChanges \/ TimePasses
               \/ Disconnect \/ Reconnect \/ Crash \/ UNCHANGED vars
        BY <2>6
        DEF Scheduler, SchedStep, SchedBoot, SchedCheckFault, SchedCheckRest, SchedActive,
            SchedOldest, SchedCommit, SchedStart, SchedAnnounce, Join, ClearFault, FitChanges,
            TimePasses, Disconnect, Reconnect, Crash, LinesLost, vars, lineVars
    <2> QED  BY <2>1, <2>2, <2>3, <2>4, <2>5, <2>6 DEF Next, Pi
<1>4. \A m \in Messages(toCentral') : m.type = "turn_end" => m \in Messages(toCentral)
    <2>1. CASE toCentral' = <<>> \/ toCentral' = <<Greeting>>  BY <2>1 DEF Messages, Greeting
    <2>2. CASE toCentral' = toCentral  BY <2>2
    <2>3. CASE toCentral # <<>> /\ toCentral' = Tail(toCentral)
        BY <2>3, LinesOfTypes, LineMessages
    <2>4. CASE \E m \in ToCentral : m.type # "turn_end" /\ toCentral' = Append(toCentral, m)
        <3>1. PICK m \in ToCentral : m.type # "turn_end" /\ toCentral' = Append(toCentral, m)
            BY <2>4
        <3>2. Messages(toCentral') = Messages(toCentral) \cup {m}
            BY <3>1, LinesOfTypes, LineMessages
        <3> QED  BY <3>1, <3>2
    <2> QED  BY <1>3, <2>1, <2>2, <2>3, <2>4
<1> QED  BY <1>1, <1>2, <1>4

LEMMA EndsKnownStep == Orderly /\ Typed /\ GateInv /\ EndsKnown /\ [Next]_vars => EndsKnown'
<1> SUFFICES ASSUME Orderly, Typed, GateInv, EndsKnown, [Next]_vars PROVE EndsKnown'  OBVIOUS
<1>1. CASE PiOpto
    <2>1. /\ piState = "PLAYING" /\ piState' = "AWAITING" /\ piTurn' = piTurn
          /\ SendCentral(TurnEnded(piTurn)) /\ ender' = ender
        BY <1>1, PiFrame DEF PiOpto, Pi
    <2>2. ~ EndSent /\ EndersIdle  BY <2>1 DEF Busy, GateInv, OneOnWay
    <2>3. AnswerToCome(piTurn)'  BY <2>1 DEF AnswerToCome
    <2>4. TurnEnded(piTurn) \in ToCentral  BY <2>1, PiMessages
    <2>5. Messages(toCentral') \subseteq Messages(toCentral) \cup {TurnEnded(piTurn)}
        <3>1. toCentral' = toCentral \/ toCentral' = Append(toCentral, TurnEnded(piTurn))
            BY <2>1 DEF SendCentral
        <3>2. Messages(Append(toCentral, TurnEnded(piTurn))) = Messages(toCentral) \cup {TurnEnded(piTurn)}
            BY <2>4, LinesOfTypes, LineMessages
        <3> QED  BY <3>1, <3>2
    <2>6. \A m \in Messages(toCentral') : m.type = "turn_end" => m.of = piTurn
        BY <2>2, <2>5 DEF EndSent, Sent, Messages, TurnEnded
    <2> QED  BY <2>1, <2>2, <2>3, <2>6 DEF EndsKnown, AskedOf, EndersIdle, At
<1>2. CASE \E e \in Enders : ForceTurnEnd(e)
    <2>1. TurnOver /\ toCentral' = toCentral  BY <1>2 DEF ForceTurnEnd, Orderly, Typed, TypeOK
    <2>2. piState' = "IDLE" /\ verdictTask' = Null /\ toCentral' = <<>>
        BY <1>2, <2>1 DEF TurnOver, ForceTurnEnd, BeginTurnEnd, piVars
    <2>3. ~ Answering'  BY <2>2 DEF Answering, ReplySent, Sent
    <2> QED  BY <2>3 DEF EndsKnown, AskedOf
<1>3. CASE ~ PiOpto /\ ~ \E e \in Enders : ForceTurnEnd(e)
    <2>1. ASSUME NEW m \in Messages(toCentral'), m.type = "turn_end" PROVE AskedOf(m.of)'
        <3>1. AskedOf(m.of)  BY <1>3, <2>1, EndsFrom DEF EndsKnown
        <3>2. \A n : AskedOf(n) => AskedOf(n)'  BY <1>3, AskedNow
        <3> QED  BY <3>1, <3>2 DEF AskedOf, AnswerToCome
    <2>2. ASSUME NEW e \in Enders, ender'[e].at # "idle" PROVE AskedOf(ender[e].of)'
        <3>1. AskedOf(ender'[e].of)  BY <1>3, <2>2, EndsFrom DEF EndsKnown
        <3>2. \A n : AskedOf(n) => AskedOf(n)'  BY <1>3, AskedNow
        <3> QED  BY <3>1, <3>2 DEF AskedOf, AnswerToCome
    <2> QED  BY <2>1, <2>2 DEF EndsKnown, At
<1> QED  BY <1>1, <1>2, <1>3

(* While a turn is in the hands of the Pi no fault is known.  What can     *)
(* still arrive when the verdict that tells of a jam is handled is at most *)
(* the greeting on a connection made since.                                *)
OnlyGreets == \A m \in Messages(toCentral) : m = Greeting

PauseInv ==
    /\ EndsFirst(toCentral)
    /\ Busy \/ Answering => fault = Null
    /\ piState # "IDLE" \/ EndSent \/ Answering => toPi = <<>>
    /\ InOrder(toPi, {"fault_clear"}, {"turn_start"})
    /\ InOrder(toCentral, {"esp_status"}, {"turn_end"} \cup Replies)
    /\ verdictTask # Null => OnlyGreets
    /\ told => fault # Null /\ toPi = <<>> /\ OnlyGreets

(* Nothing of a turn is among greetings.                                   *)
LEMMA JustGreetings ==
    /\ OnlyGreets => ~ EndSent /\ ~ ReplySent
    /\ toCentral = <<>> \/ toCentral = <<Greeting>> =>
          /\ OnlyGreets /\ EndsFirst(toCentral)
          /\ InOrder(toCentral, {"esp_status"}, {"turn_end"} \cup Replies)
<1>1. OnlyGreets => ~ EndSent /\ ~ ReplySent
    BY DEF OnlyGreets, Messages, EndSent, ReplySent, Sent, Replies, Greeting
<1>2. ASSUME toCentral = <<>> \/ toCentral = <<Greeting>>
      PROVE  OnlyGreets /\ \A i \in 1 .. Len(toCentral) : toCentral[i].type = "esp_status"
    BY <1>2 DEF OnlyGreets, Messages, Greeting
<1>3. (\A i \in 1 .. Len(toCentral) : toCentral[i].type = "esp_status") =>
          EndsFirst(toCentral) /\ InOrder(toCentral, {"esp_status"}, {"turn_end"} \cup Replies)
    BY DEF EndsFirst, InOrder, Replies
<1> QED  BY <1>1, <1>2, <1>3

LEMMA PauseInit == Init => PauseInv
<1> SUFFICES ASSUME Init PROVE PauseInv  OBVIOUS
<1>1. /\ toPi = <<>> /\ toCentral = <<Greeting>> /\ piState = "IDLE"
      /\ verdictTask = Null /\ told = FALSE /\ fault = Null
    BY DEF Init
<1>2. InOrder(toPi, {"fault_clear"}, {"turn_start"})  BY <1>1 DEF InOrder
<1> QED  BY <1>1, <1>2, JustGreetings DEF PauseInv

(* What is left of a line when the last message it can hold was taken.     *)
LEMMA NothingLeft ==
    ASSUME NEW S, NEW line \in Seq(S), NEW types, \A m \in S : m.type \in types, ~ Sent(line, types)
    PROVE  line = <<>>
<1> HIDE CoordinatorAssumption, NullAssumption
<1>1. ASSUME line # <<>> PROVE FALSE
    <2>1. 1 \in 1 .. Len(line) /\ line[1] \in S  BY <1>1
    <2> QED  BY <2>1 DEF Sent
<1> QED  BY <1>1

LEMMA OrderIs ==
    /\ {"fault_clear"} \cap {"turn_start"} = {}
    /\ {"esp_status"} \cap ({"turn_end"} \cup Replies) = {}
    /\ \A m \in ToPi : m.type \in {"fault_clear", "turn_start"}
    /\ \A m \in ToCentral : m.type \in {"esp_status", "turn_end", "verdict", "fault"}
BY DEF Replies, ToPi, ToCentral, TurnStart, FaultClear, Outcome, PiFault, TurnEnded, EspStatus, Greeting

(* A line loses a message or stays.                                        *)
LEMMA PauseKept ==
    ASSUME Typed, PauseInv,
           fault' = fault \/ (~ Busy' /\ ~ Answering' /\ (told' => fault' # Null)), told' => told,
           toPi' = toPi \/ (toPi # <<>> /\ toPi' = Tail(toPi)),
           toCentral' = toCentral \/ (toCentral # <<>> /\ toCentral' = Tail(toCentral)),
           Busy' => Busy, Answering' => Answering, EndSent' => EndSent,
           piState' = piState, verdictTask' = verdictTask \/ verdictTask' = Null
    PROVE  PauseInv'
<1>1. Busy' \/ Answering' => fault' = Null  BY DEF PauseInv
<1>2. toPi = <<>> => toPi' = <<>>  OBVIOUS
<1>3. OnlyGreets => OnlyGreets'
    <2>1. Messages(toCentral') \subseteq Messages(toCentral)  BY LinesOfTypes, LineMessages
    <2> QED  BY <2>1 DEF OnlyGreets
<1>4. piState' # "IDLE" \/ EndSent' \/ Answering' => toPi' = <<>>  BY <1>2 DEF PauseInv
<1>5. InOrder(toPi', {"fault_clear"}, {"turn_start"})
    <2>1. CASE toPi' = toPi  BY <2>1 DEF PauseInv
    <2>2. CASE toPi # <<>> /\ toPi' = Tail(toPi)
        BY <2>2, OrderIs, LinesOfTypes, OrderKept DEF PauseInv
    <2> QED  BY <2>1, <2>2
<1>6. InOrder(toCentral', {"esp_status"}, {"turn_end"} \cup Replies) /\ EndsFirst(toCentral')
    <2>1. CASE toCentral' = toCentral  BY <2>1 DEF PauseInv
    <2>2. CASE toCentral # <<>> /\ toCentral' = Tail(toCentral)
        <3>1. EndsFirst(toCentral')  BY <2>2, LinesOfTypes, EndsStayFirst DEF PauseInv
        <3>2. InOrder(toCentral', {"esp_status"}, {"turn_end"} \cup Replies)
            BY <2>2, OrderIs, LinesOfTypes, OrderKept DEF PauseInv
        <3> QED  BY <3>1, <3>2
    <2> QED  BY <2>1, <2>2
<1>7. told' => fault' # Null /\ toPi' = <<>> /\ OnlyGreets'
    BY <1>2, <1>3 DEF PauseInv
<1>8. verdictTask' # Null => OnlyGreets'  BY <1>3 DEF PauseInv
<1> QED  BY <1>1, <1>4, <1>5, <1>6, <1>7, <1>8 DEF PauseInv

(* The verdict is the last message on its way, and what is left when it is *)
(* handled cannot replace the fault.                                       *)
LEMMA PauseAnswered ==
    ASSUME Typed, GateInv, PauseInv, Handlers
    PROVE  PauseInv'
<1>1. /\ toPi' = toPi /\ piState' = piState
      /\ StartSent' = StartSent
    BY DEF Handlers, OnVerdict, VerdictHandled, OnPiFault, OnEspStatus, queueVars, lineVars, piVars,
           StartSent, Sent
<1>2. CASE OnVerdict
    <2>1. /\ toCentral # <<>> /\ toCentral' = Tail(toCentral) /\ Head(toCentral).type = "verdict"
          /\ fault' = fault /\ told' = told
        BY <1>2 DEF OnVerdict, Receive, faultVars
    <2>2. Head(toCentral).type \in Replies  BY <2>1 DEF Replies
    <2>3. Answering /\ Once(toCentral, Replies)
        BY <2>1, <2>2, LinesOfTypes, SentLess
        DEF Answering, ReplySent, GateInv, OneOnWay, OneReply
    <2>4. ~ Sent(toCentral', Replies)  BY <2>1, <2>2, <2>3, LinesOfTypes, OnceLess
    <2>5. ~ Sent(toCentral, {"turn_end"})
        BY <2>1, <2>2, LinesOfTypes, EndsStayFirst DEF PauseInv
    <2>6. ~ Sent(toCentral, {"esp_status"})
        BY <2>1, <2>2, OrderIs, LinesOfTypes, OrderKept DEF PauseInv
    <2>7. ~ Sent(toCentral', {"turn_end"}) /\ ~ Sent(toCentral', {"esp_status"})
        BY <2>1, <2>5, <2>6, LinesOfTypes, SentLess
    <2>8. toCentral' = <<>>
        <3>1. Tail(toCentral) \in Seq(ToCentral)  BY <2>1, LinesOfTypes
        <3>2. ~ Sent(Tail(toCentral), {"esp_status", "turn_end", "verdict", "fault"})
            BY <2>1, <2>4, <2>7 DEF Sent, Replies
        <3> QED  BY <2>1, <3>1, <3>2, OrderIs, NothingLeft
    <2>9. toPi = <<>> /\ fault = Null  BY <2>3 DEF PauseInv
    <2>10. InOrder(toPi', {"fault_clear"}, {"turn_start"})  BY <1>1 DEF PauseInv
    <2>11. /\ InOrder(toCentral', {"esp_status"}, {"turn_end"} \cup Replies)
           /\ EndsFirst(toCentral') /\ OnlyGreets'
        BY <2>8 DEF InOrder, EndsFirst, OnlyGreets, Messages
    <2>12. ~ told  BY <2>9 DEF PauseInv
    <2> QED  BY <1>1, <2>1, <2>9, <2>10, <2>11, <2>12 DEF PauseInv
<1>3. CASE VerdictHandled
    <2>1. /\ verdictTask # Null /\ verdictTask' = Null /\ toCentral' = toCentral
          /\ verdictTask \in [key : Turns, outcome : Outcomes, of : Turns]
        BY <1>3 DEF VerdictHandled, lineVars, Typed, TypeOK
    <2>2. toPi = <<>> /\ OnlyGreets /\ fault = Null /\ ~ told
        BY <2>1 DEF PauseInv, Answering
    <2>3. ~ EndSent /\ ~ StartSent /\ ~ ReplySent  BY <2>2, JustGreetings DEF StartSent, Sent
    <2>4. piState # "PLAYING" /\ piState # "AWAITING"
        BY <2>1 DEF GateInv, OneOnWay, OneReply, Answering
    <2>5. ~ EndSent' /\ ~ ReplySent'  BY <2>1, <2>3 DEF EndSent, ReplySent, Sent
    <2>6. ~ Busy' /\ ~ Answering'  BY <1>1, <2>1, <2>3, <2>4, <2>5 DEF Busy, Answering
    <2>7. told' => fault' # Null
        <3>1. told' => verdictTask.outcome \in Jammed  BY <1>3, <2>2 DEF VerdictHandled
        <3>2. verdictTask.outcome \in Jammed => fault' = VerdictFault(verdictTask.outcome)
            BY <1>3 DEF VerdictHandled, Jammed, Healthy
        <3>3. VerdictFault(verdictTask.outcome) # Null  BY DEF VerdictFault, Faults
        <3> QED  BY <3>1, <3>2, <3>3
    <2>8. /\ InOrder(toCentral', {"esp_status"}, {"turn_end"} \cup Replies)
          /\ EndsFirst(toCentral') /\ InOrder(toPi', {"fault_clear"}, {"turn_start"})
        BY <1>1, <2>1 DEF PauseInv
    <2>9. OnlyGreets'  BY <2>1, <2>2 DEF OnlyGreets
    <2> QED  BY <1>1, <2>1, <2>2, <2>5, <2>6, <2>7, <2>8, <2>9 DEF PauseInv
<1>4. CASE OnPiFault \/ OnEspStatus
    <2>1. /\ toCentral # <<>> /\ toCentral' = Tail(toCentral)
          /\ verdictTask' = verdictTask
        BY <1>4 DEF OnPiFault, OnEspStatus, Receive, turnVars
    <2>2. (EndSent' => EndSent) /\ (ReplySent' => ReplySent)
        BY <2>1, LinesOfTypes, SentLess DEF EndSent, ReplySent
    <2>3. (Busy' => Busy) /\ (Answering' => Answering)
        BY <1>1, <2>1, <2>2 DEF Busy, Answering
    <2>4. ~ told'
        <3>1. CASE told
            <4>1. Head(toCentral) = Greeting
                BY <2>1, <3>1, LinesOfTypes, LineMessages DEF PauseInv, OnlyGreets
            <4>2. Head(toCentral).type = "esp_status" /\ Head(toCentral).outcome = "greeting"
                BY <4>1 DEF Greeting
            <4>3. ~ OnPiFault  BY <4>2 DEF OnPiFault, Receive
            <4> QED  BY <1>4, <4>2, <4>3 DEF OnEspStatus
        <3>2. CASE ~ told  BY <1>4, <3>2 DEF OnPiFault, OnEspStatus
        <3> QED  BY <3>1, <3>2
    <2>5. fault' = fault \/ (~ Busy' /\ ~ Answering')
        <3>1. CASE OnEspStatus
            <4>1. fault' = Null  BY <3>1 DEF OnEspStatus
            <4>2. CASE fault = Null  BY <4>1, <4>2
            <4>3. CASE fault # Null  BY <2>3, <4>3 DEF PauseInv
            <4> QED  BY <4>2, <4>3
        <3>2. CASE OnPiFault
            <4>1. Head(toCentral).type \in Replies  BY <3>2 DEF OnPiFault, Receive, Replies
            <4>2. ReplySent /\ Answering
                BY <2>1, <4>1, LinesOfTypes, SentLess DEF ReplySent, Answering
            <4>3. verdictTask = Null /\ piState # "AWAITING" /\ piState # "PLAYING" /\ ~ StartSent
                BY <4>2 DEF GateInv, OneOnWay, OneReply
            <4>4. ~ EndSent
                BY <2>1, <4>1, LinesOfTypes, EndsStayFirst DEF PauseInv, EndSent
            <4>5. ~ ReplySent'
                BY <2>1, <4>1, LinesOfTypes, OnceLess DEF GateInv, OneOnWay, OneReply, ReplySent
            <4> QED  BY <1>1, <2>1, <2>2, <4>3, <4>4, <4>5 DEF Busy, Answering
        <3> QED  BY <1>4, <3>1, <3>2
    <2> QED  BY <1>1, <2>1, <2>2, <2>3, <2>4, <2>5, PauseKept
<1> QED  BY <1>2, <1>3, <1>4 DEF Handlers

(* A turn starts after the gate found no fault.                            *)
LEMMA PauseEnds ==
    ASSUME Typed, TurnExclusion, GateInv, PauseInv,
           SchedAnnounce \/ \E e \in Enders : Announce(e)
    PROVE  PauseInv'
<1>1. PICK n \in Turns : SendPi(TurnStart(n))
    BY DEF SchedAnnounce, Announce, At, Typed, Named
<1>2. /\ fault' = fault /\ told' = told /\ toCentral' = toCentral
      /\ piState' = piState /\ verdictTask' = verdictTask
    BY DEF SchedAnnounce, SchedStep, Announce, turnVars, faultVars, piVars
<1>3. GateOpen /\ ~ Busy /\ ~ Answering
    BY DEF GateOpen, Past, GateInv, TurnDone, SchedAnnounce, Announce, At
<1>4. fault = Null /\ ~ told  BY <1>3 DEF GateInv, OpenOnNoFault, PauseInv
<1>5. /\ toPi' = toPi \/ toPi' = Append(toPi, TurnStart(n))
      /\ TurnStart(n) \in ToPi /\ TurnStart(n).type = "turn_start"
    BY <1>1 DEF SendPi, ToPi, TurnStart
<1>6. InOrder(toPi', {"fault_clear"}, {"turn_start"})
    <2>1. CASE toPi' = toPi  BY <2>1 DEF PauseInv
    <2>2. CASE toPi' = Append(toPi, TurnStart(n))
        BY <1>5, <2>2, OrderIs, LinesOfTypes, OrderKept DEF PauseInv
    <2> QED  BY <1>5, <2>1, <2>2
<1>7. EndSent' = EndSent /\ ReplySent' = ReplySent
    BY <1>2 DEF EndSent, ReplySent, Sent
<1>8. ~ EndSent' /\ ~ Answering' /\ piState' = "IDLE"
    BY <1>2, <1>3, <1>7 DEF Busy, Answering, Typed, TypeOK
<1>9. InOrder(toCentral', {"esp_status"}, {"turn_end"} \cup Replies) /\ EndsFirst(toCentral')
    BY <1>2 DEF PauseInv
<1> QED  BY <1>2, <1>4, <1>6, <1>8, <1>9 DEF PauseInv, Answering

LEMMA PauseCleared ==
    ASSUME Typed, GateInv, PauseInv, ClearFault
    PROVE  PauseInv'
<1>1. /\ fault # Null /\ told' = FALSE /\ toCentral' = toCentral
      /\ fault' = Null /\ piState' = piState /\ verdictTask' = verdictTask
    BY DEF ClearFault, turnVars, piVars
<1>2. ~ Busy /\ ~ Answering  BY <1>1 DEF PauseInv
<1>3. toPi' = Append(toPi, FaultClear) /\ FaultClear \in ToPi /\ FaultClear.type = "fault_clear"
    BY DEF ClearFault, SendPi, ToPi, FaultClear
<1>4. ~ Sent(toPi, {"turn_start"})  BY <1>2 DEF Busy, StartSent
<1>5. InOrder(toPi', {"fault_clear"}, {"turn_start"})
    BY <1>3, <1>4, OrderIs, LinesOfTypes, OrderKept DEF PauseInv
<1>6. EndSent' = EndSent /\ ReplySent' = ReplySent
    BY <1>1 DEF EndSent, ReplySent, Sent
<1>7. ~ EndSent' /\ ~ Answering' /\ piState' = "IDLE" /\ verdictTask' = Null
    BY <1>1, <1>2, <1>6 DEF Busy, Answering, Typed, TypeOK
<1>8. InOrder(toCentral', {"esp_status"}, {"turn_end"} \cup Replies) /\ EndsFirst(toCentral')
    BY <1>1 DEF PauseInv
<1> QED  BY <1>1, <1>5, <1>7, <1>8 DEF PauseInv

(* A window that times out reports a fault when there is nothing left that *)
(* a turn could send.                                                      *)
LEMMA PauseWaits ==
    ASSUME Orderly, Typed, TurnExclusion, GateInv, EndsKnown, PauseInv, [Next]_vars,
           \/ \E e \in Enders :
                 PiTurnEnd(e) \/ ForceTurnEnd(e) \/ (TurnEnd(e) /\ ~ Announce(e)) \/ WindowTimesOut(e)
           \/ Scheduler /\ ~ SchedAnnounce
           \/ \E n \in Turns : Join(n)
           \/ FitChanges \/ TimePasses \/ UNCHANGED vars
    PROVE  PauseInv'
<1>1. /\ told' = told /\ toPi' = toPi
      /\ piState' = piState /\ verdictTask' = verdictTask
    BY DEF PiTurnEnd, ForceTurnEnd, BeginTurnEnd, TurnEnd, TakeLock, CloseEntry, OpenWindow,
           WindowTimesOut, WindowCloses, CheckFault, CheckFit, Pick, Claim, Scheduler, SchedStep,
           SchedBoot, SchedCheckFault, SchedCheckRest, SchedActive, SchedOldest, SchedCommit,
           SchedStart, Join, FitChanges, TimePasses, vars, turnVars, faultVars, lineVars, piVars
<1>2. toCentral' = toCentral \/ (toCentral # <<>> /\ toCentral' = Tail(toCentral))
    BY DEF PiTurnEnd, Receive, ForceTurnEnd, BeginTurnEnd, TurnEnd, TakeLock, CloseEntry, OpenWindow,
           WindowTimesOut, WindowCloses, CheckFault, CheckFit, Pick, Claim, Scheduler, SchedStep,
           SchedBoot, SchedCheckFault, SchedCheckRest, SchedActive, SchedOldest, SchedCommit,
           SchedStart, Join, FitChanges, TimePasses, vars, lineVars
<1>3. (EndSent' => EndSent) /\ (ReplySent' => ReplySent)
    <2>1. CASE toCentral' = toCentral  BY <2>1 DEF EndSent, ReplySent, Sent
    <2>2. CASE toCentral # <<>> /\ toCentral' = Tail(toCentral)
        BY <2>2, LinesOfTypes, SentLess DEF EndSent, ReplySent
    <2> QED  BY <1>2, <2>1, <2>2
<1>4. StartSent' = StartSent  BY <1>1 DEF StartSent, Sent
<1>5. (Busy' => Busy) /\ (Answering' => Answering)
    BY <1>1, <1>3, <1>4 DEF Busy, Answering
<1>6. fault' = fault \/ (~ Busy' /\ ~ Answering' /\ fault' # Null)
    <2>1. CASE \E e \in Enders : WindowTimesOut(e)
        <3>1. PICK e \in Enders : WindowTimesOut(e)  BY <2>1
        <3>2. ~ AnswerToCome(ender[e].of) /\ ~ At(e, "idle")
            BY <3>1 DEF WindowTimesOut, PiIsSilent, At
        <3>3. ~ Busy  BY <3>2, TheTask
        <3>4. ~ Answering  BY <3>2 DEF EndsKnown, AskedOf
        <3>5. fault' # Null  BY <3>1 DEF WindowTimesOut
        <3> QED  BY <1>5, <3>3, <3>4, <3>5
    <2>2. CASE ~ \E e \in Enders : WindowTimesOut(e)
        <3>1. fault' = fault
            BY <2>2
            DEF PiTurnEnd, ForceTurnEnd, BeginTurnEnd, TurnEnd, TakeLock, CloseEntry, OpenWindow,
                WindowCloses, CheckFault, CheckFit, Pick, Claim, Scheduler, SchedStep, SchedBoot,
                SchedCheckFault, SchedCheckRest, SchedActive, SchedOldest, SchedCommit, SchedStart,
                Join, FitChanges, TimePasses, vars, faultVars
        <3> QED  BY <3>1
    <2> QED  BY <2>1, <2>2
<1> QED  BY <1>1, <1>2, <1>3, <1>5, <1>6, PauseKept

(* The Pi takes what was sent before the start of a turn before it.        *)
LEMMA PausePlayed ==
    ASSUME Typed, GateInv, PauseInv, PiStarts
    PROVE  PauseInv'
<1>1. /\ toPi # <<>> /\ Head(toPi).type = "turn_start" /\ toPi' = Tail(toPi)
      /\ piState' = "PLAYING" /\ toCentral' = toCentral
    BY DEF PiStarts
<1>2. /\ fault' = fault /\ told' = told /\ verdictTask' = verdictTask
    BY PiFrame DEF Pi, PiStarts, PiStep, faultVars
<1>3. StartSent /\ Once(toPi, {"turn_start"})
    BY <1>1, LinesOfTypes, SentLess DEF StartSent, GateInv, OneOnWay
<1>4. Busy /\ ~ Answering /\ fault = Null /\ ~ told
    BY <1>3 DEF Busy, PauseInv, GateInv, OneOnWay
<1>5. ~ Sent(toPi', {"turn_start"})  BY <1>1, <1>3, LinesOfTypes, OnceLess
<1>6. ~ Sent(toPi, {"fault_clear"})
    BY <1>1, OrderIs, LinesOfTypes, OrderKept DEF PauseInv
<1>7. ~ Sent(toPi', {"fault_clear"})  BY <1>1, <1>6, LinesOfTypes, SentLess
<1>8. toPi' = <<>>
    <2>1. Tail(toPi) \in Seq(ToPi)  BY <1>1, LinesOfTypes
    <2>2. ~ Sent(Tail(toPi), {"fault_clear", "turn_start"})  BY <1>1, <1>5, <1>7 DEF Sent
    <2> QED  BY <1>1, <2>1, <2>2, OrderIs, NothingLeft
<1>9. /\ InOrder(toPi', {"fault_clear"}, {"turn_start"})
      /\ InOrder(toCentral', {"esp_status"}, {"turn_end"} \cup Replies) /\ EndsFirst(toCentral')
    BY <1>1, <1>8 DEF InOrder, PauseInv
<1>10. verdictTask' = Null  BY <1>2, <1>4 DEF Answering
<1> QED  BY <1>1, <1>2, <1>4, <1>8, <1>9, <1>10 DEF PauseInv

(* It sends its message about a turn after every status.                   *)
LEMMA PauseSent ==
    ASSUME Typed, GateInv, PauseInv, PiOpto \/ PiAnswers
    PROVE  PauseInv'
<1>1. piState # "IDLE" /\ toPi' = toPi  BY DEF PiOpto, PiAnswers
<1>2. /\ fault' = fault /\ told' = told /\ verdictTask' = verdictTask
    BY PiFrame DEF Pi, PiOpto, PiAnswers, PiStep, faultVars
<1>3. Busy \/ Answering  BY <1>1 DEF Busy, Answering, Typed, TypeOK
<1>4. toPi = <<>> /\ fault = Null /\ ~ told  BY <1>1, <1>3 DEF PauseInv
<1>5. verdictTask = Null  BY <1>1 DEF GateInv, OneOnWay, OneReply, Answering, Typed, TypeOK
<1>6. PICK m \in ToCentral : /\ SendCentral(m) /\ m.type # "esp_status"
                             /\ m.type = "turn_end" => ~ ReplySent
    <2>1. CASE PiOpto
        <3>1. ~ ReplySent  BY <2>1 DEF PiOpto, GateInv, OneOnWay, Answering
        <3>2. TurnEnded(piTurn) \in ToCentral  BY <2>1, PiMessages DEF PiOpto
        <3> QED  BY <2>1, <3>1, <3>2 DEF PiOpto, TurnEnded
    <2>2. CASE PiAnswers  BY <2>2, PiAnswerIs DEF Replies
    <2> QED  BY <2>1, <2>2
<1>7. InOrder(toCentral', {"esp_status"}, {"turn_end"} \cup Replies) /\ EndsFirst(toCentral')
    <2>1. CASE toCentral' = toCentral  BY <2>1 DEF PauseInv
    <2>2. CASE toCentral' = Append(toCentral, m)
        <3>1. EndsFirst(toCentral')
            BY <1>6, <2>2, LinesOfTypes, EndsStayFirst DEF PauseInv, ReplySent
        <3>2. InOrder(toCentral', {"esp_status"}, {"turn_end"} \cup Replies)
            BY <1>6, <2>2, OrderIs, LinesOfTypes, OrderKept DEF PauseInv
        <3> QED  BY <3>1, <3>2
    <2> QED  BY <1>6, <2>1, <2>2 DEF SendCentral
<1>8. InOrder(toPi', {"fault_clear"}, {"turn_start"})  BY <1>1 DEF PauseInv
<1> QED  BY <1>1, <1>2, <1>4, <1>5, <1>7, <1>8 DEF PauseInv

(* It answers a fault_clear only when it has no turn to report on.         *)
LEMMA PausePassed ==
    ASSUME Typed, GateInv, PauseInv, PiClears \/ PiDrops
    PROVE  PauseInv'
<1>1. toPi # <<>> /\ toPi' = Tail(toPi) /\ piState' = piState  BY DEF PiClears, PiDrops, piVars
<1>2. /\ fault' = fault /\ told' = told /\ verdictTask' = verdictTask
    BY PiFrame DEF Pi, PiClears, PiDrops, PiStep, faultVars
<1>3. piState = "IDLE" /\ ~ EndSent /\ ~ Answering /\ ~ told  BY <1>1 DEF PauseInv
<1>4. /\ toCentral' = toCentral \/ toCentral' = Append(toCentral, EspStatus)
      /\ EspStatus \in ToCentral
    BY <1>3 DEF PiClears, PiDrops, SendCentral, ToCentral
<1>5. ~ Sent(toCentral, {"turn_end"} \cup Replies)
    BY <1>3 DEF EndSent, Answering, ReplySent, Sent
<1>6. InOrder(toPi', {"fault_clear"}, {"turn_start"})
    BY <1>1, OrderIs, LinesOfTypes, OrderKept DEF PauseInv
<1>7. ~ Sent(toCentral', {"turn_end"} \cup Replies)
    <2>1. EspStatus.type \notin {"turn_end"} \cup Replies  BY DEF EspStatus, Replies
    <2>2. CASE toCentral' = toCentral  BY <1>5, <2>2
    <2>3. CASE toCentral' = Append(toCentral, EspStatus)
        BY <1>4, <1>5, <2>1, <2>3, LinesOfTypes, SentMore
    <2> QED  BY <1>4, <2>2, <2>3
<1>8. /\ ~ EndSent' /\ ~ ReplySent' /\ EndsFirst(toCentral')
      /\ InOrder(toCentral', {"esp_status"}, {"turn_end"} \cup Replies)
    BY <1>7 DEF Sent, EndSent, ReplySent, EndsFirst, InOrder
<1>9. ~ Answering'  BY <1>1, <1>2, <1>3, <1>8 DEF Answering
<1>10. StartSent' => StartSent  BY <1>1, LinesOfTypes, SentLess DEF StartSent
<1>11. Busy' => Busy  BY <1>1, <1>8, <1>10 DEF Busy
<1> QED  BY <1>1, <1>2, <1>3, <1>6, <1>8, <1>9, <1>11 DEF PauseInv, Answering

(* Losing the connection, making it again and restarting the server leave  *)
(* at most a greeting on its way to central.                               *)
LEMMA PauseLost ==
    ASSUME Orderly, Typed, GateInv, PauseInv, Disconnect \/ Reconnect \/ Crash
    PROVE  PauseInv'
<1>1. toCentral' = <<>> \/ toCentral' = <<Greeting>>
    BY DEF Disconnect, Reconnect, Crash, LinesLost
<1>2. /\ OnlyGreets' /\ EndsFirst(toCentral')
      /\ InOrder(toCentral', {"esp_status"}, {"turn_end"} \cup Replies)
    <2>1. \A i \in 1 .. Len(toCentral') : toCentral'[i] = Greeting  BY <1>1
    <2>2. \A i \in 1 .. Len(toCentral') : toCentral'[i].type = "esp_status"  BY <2>1 DEF Greeting
    <2> QED  BY <2>1, <2>2 DEF OnlyGreets, Messages, EndsFirst, InOrder, Replies
<1>3. ~ EndSent' /\ ~ ReplySent'
    BY <1>1 DEF EndSent, ReplySent, Sent, Replies, Greeting
<1>4. PICK k \in 0 .. Len(toPi) : toPi' = SubSeq(toPi, 1, k)
    <2>1. CASE Reconnect
        <3>1. toPi' = toPi /\ toPi \in Seq(ToPi)  BY <2>1, LinesOfTypes DEF Reconnect
        <3>2. toPi = SubSeq(toPi, 1, Len(toPi)) /\ Len(toPi) \in 0 .. Len(toPi)  BY <3>1
        <3> QED  BY <3>1, <3>2
    <2>2. CASE Disconnect \/ Crash  BY <2>2 DEF Disconnect, Crash, LinesLost
    <2> QED  BY <2>1, <2>2
<1>5. toPi \in Seq(ToPi)  BY LinesOfTypes
<1>6. StartSent' => StartSent  BY <1>4, <1>5, SentPrefix DEF StartSent
<1>7. InOrder(toPi', {"fault_clear"}, {"turn_start"})
    <2>1. Len(toPi') = k /\ \A i \in 1 .. k : toPi'[i] = toPi[i]
        BY <1>4, <1>5, SubSeqProperties
    <2>2. 1 .. k \subseteq 1 .. Len(toPi)  BY <1>4, <1>5
    <2> QED  BY <2>1, <2>2 DEF PauseInv, InOrder
<1>8. toPi = <<>> => toPi' = <<>>
    <2>1. toPi = <<>> => Len(toPi') = 0  BY <1>4, <1>5, SubSeqProperties
    <2> QED  BY <2>1, LinesOfTypes, LinesStep
<1>9. piState' = piState  BY DEF Disconnect, Reconnect, Crash, piVars
<1>10. CASE Disconnect \/ Reconnect
    <2>1. fault' = fault /\ told' = told /\ verdictTask' = verdictTask
        BY <1>10 DEF Disconnect, Reconnect, faultVars, turnVars
    <2>2. (Busy' => Busy) /\ (Answering' => Answering)
        BY <1>3, <1>6, <1>9, <2>1 DEF Busy, Answering
    <2> QED  BY <1>2, <1>3, <1>7, <1>8, <1>9, <2>1, <2>2 DEF PauseInv
<1>11. CASE Crash
    <2>1. /\ TurnOver /\ fault' = Null /\ told' = FALSE /\ verdictTask' = Null
        BY <1>11 DEF Crash, Orderly, Typed, TypeOK
    <2>2. piState' = "IDLE" /\ ~ Answering'  BY <1>3, <1>9, <2>1 DEF TurnOver, Answering
    <2> QED  BY <1>2, <1>3, <1>7, <2>1, <2>2 DEF PauseInv
<1> QED  BY <1>10, <1>11

LEMMA PauseStep ==
    Orderly /\ Typed /\ TurnExclusion /\ GateInv /\ EndsKnown /\ PauseInv /\ [Next]_vars => PauseInv'
<1> SUFFICES ASSUME Orderly, Typed, TurnExclusion, GateInv, EndsKnown, PauseInv, [Next]_vars
             PROVE  PauseInv'
    OBVIOUS
<1>1. CASE Disconnect \/ Reconnect \/ Crash  BY <1>1, PauseLost
<1>2. CASE \E e \in Enders : PiTurnEnd(e) \/ ForceTurnEnd(e) \/ TurnEnd(e) \/ WindowTimesOut(e)
    BY <1>2, PauseWaits, PauseEnds
<1>3. CASE Handlers  BY <1>3, PauseAnswered
<1>4. CASE Scheduler  BY <1>4, PauseWaits, PauseEnds
<1>5. CASE (\E n \in Turns : Join(n)) \/ FitChanges \/ TimePasses \/ UNCHANGED vars
    BY <1>5, PauseWaits
<1>6. CASE ClearFault  BY <1>6, PauseCleared
<1>7. CASE Pi  BY <1>7, PausePlayed, PauseSent, PausePassed DEF Pi
<1> QED  BY <1>1, <1>2, <1>3, <1>4, <1>5, <1>6, <1>7 DEF Next

(* The queue stays paused after a jam until the operator clears it         *)
(* (machine.py), also when the connection drops and messages are lost: no  *)
(* esp_status that would replace the fault is on its way when the verdict  *)
(* that reports the jam is handled, but the greeting on a new connection.  *)
THEOREM PauseHolds == Orderly /\ Spec => []StaysPaused
<1>1. CASE Orderly
    <2>1. Exclusive  BY <1>1, CoordinatorAssumption DEF Orderly, Exclusive
    <2>2. Typed /\ GateInv /\ EndsKnown /\ [Next]_vars => EndsKnown'  BY <1>1, EndsKnownStep
    <2>3. Typed /\ TurnExclusion /\ GateInv /\ EndsKnown /\ PauseInv /\ [Next]_vars => PauseInv'
        BY <1>1, PauseStep
    <2>4. PauseInv => StaysPaused  BY DEF PauseInv, StaysPaused
    <2> QED
        BY <1>1, <2>1, <2>2, <2>3, <2>4, EndsKnownInit, PauseInit, TypedAlways, ExclusionAlways,
           GateAlways, PTL DEF Spec
<1>2. CASE ~ Orderly  BY <1>2
<1> QED  BY <1>1, <1>2

-----------------------------------------------------------------------------
(***************************************************************************)
(* The promise to the players, TurnContract.  A turn is on its way while a *)
(* verdict on it may still come: it is about to be announced to the Pi, it *)
(* is played, or its verdict is being handled.                             *)
(***************************************************************************)
Started(n) == entries[n] \in {"active", "played"}
Latest(n) == Started(n) /\ \A k \in Turns : k > n => ~ Started(k)

ToBeAnnounced(n) ==
    \/ \E e \in Enders : At(e, "announce") /\ ender[e].turn = n
    \/ sched.at \in {"gap", "announce"} /\ sched.new = n
InPlay(n) ==
    \/ \E m \in Messages(toPi) : m.type = "turn_start" /\ m.turn = n
    \/ piState # "IDLE" /\ piTurn = n
Reported(n) ==
    \/ \E m \in Messages(toCentral) : m.type = "verdict" /\ m.of = n
    \/ verdictTask # Null /\ verdictTask.of = n
OnItsWay(n) == ToBeAnnounced(n) \/ InPlay(n) \/ Reported(n)

(* What was picked to be started is still queued; what is to be closed was *)
(* started.                                                                *)
PicksWait ==
    /\ \A e \in Enders : At(e, "claim") => entries[ender[e].turn] = "queued"
    /\ sched.at = "commit" /\ sched.new # Null => entries[sched.new] = "queued"
    /\ sched.at \in {"oldest", "commit"} /\ sched.old # Null => Started(sched.old)

(* A turn whose verdict may still come is the latest one, and its win has  *)
(* not been credited yet; nor has that of a turn to come.                  *)
Uncredited ==
    /\ \A n \in Turns : ~ Started(n) => credited[n] = Null
    /\ \A n \in Turns : OnItsWay(n) => Latest(n) /\ credited[n] = Null

PromiseInv == PicksWait /\ Uncredited

LEMMA PromiseInit == Init => PromiseInv
<1> SUFFICES ASSUME Init PROVE PromiseInv  OBVIOUS
<1>1. /\ sched.at = "boot" /\ piState = "IDLE" /\ toPi = <<>> /\ toCentral = <<Greeting>>
      /\ verdictTask = Null /\ \A e \in Enders : ender[e].at = "idle"
      /\ credited = [n \in Turns |-> Null]
    BY DEF Init, NoEnder
<1>2. \A m \in Messages(toCentral) : m.type # "verdict"
    BY <1>1 DEF Messages, Greeting
<1>3. Messages(toPi) = {}  BY <1>1 DEF Messages
<1>4. \A n \in Turns : ~ OnItsWay(n)
    BY <1>1, <1>2, <1>3 DEF OnItsWay, ToBeAnnounced, InPlay, Reported, At
<1>5. PicksWait  BY <1>1 DEF PicksWait, At
<1> QED  BY <1>1, <1>4, <1>5 DEF PromiseInv, Uncredited

(* While a turn is to be started none is on its way.                       *)
LEMMA NoneOnItsWay ==
    ASSUME Typed, TurnExclusion, GateInv, NEW n \in Turns,
           \/ \E e \in Enders : At(e, "claim")
           \/ sched.at = "commit"
    PROVE  ~ OnItsWay(n)
<1>1. ~ Busy /\ ~ Answering
    BY DEF GateInv, TurnDone, Past, At, TurnExclusion, SchedAlone, Polling
<1>2. ~ InPlay(n) /\ ~ Reported(n)
    BY <1>1 DEF InPlay, Reported, Busy, Answering, StartSent, ReplySent, Replies, Sent, Messages,
                Typed, TypeOK
<1>3. CASE sched.at = "commit"
    <2>1. EndersIdle  BY <1>3, NoneAtWork DEF TurnExclusion, SchedAlone, Polling
    <2> QED  BY <1>2, <1>3, <2>1 DEF OnItsWay, ToBeAnnounced, EndersIdle, At
<1>4. ASSUME NEW e \in Enders, At(e, "claim") PROVE ~ OnItsWay(n)
    <2>1. sched.at \in {"top", "fit"} /\ \A d \in Enders \ {e} : At(d, "idle")
        BY <1>4, TheTask DEF At
    <2> QED  BY <1>2, <1>4, <2>1 DEF OnItsWay, ToBeAnnounced, At
<1> QED  BY <1>3, <1>4

(* Only a task that claims an entry, the scheduler's commit and an arrival *)
(* move an entry on to something that it was not; a close moves a started  *)
(* one.                                                                    *)
LEMMA EntriesStay ==
    ASSUME [Next]_vars,
           ~ (\E e \in Enders : CloseEntry(e) \/ Claim(e)), ~ (\E n \in Turns : Join(n)),
           ~ SchedBoot, ~ SchedCommit
    PROVE  entries' = entries
<1>1. CASE \E e \in Enders : PiTurnEnd(e) \/ ForceTurnEnd(e) \/ TurnEnd(e) \/ WindowTimesOut(e)
    BY <1>1
    DEF PiTurnEnd, ForceTurnEnd, BeginTurnEnd, TurnEnd, TakeLock, OpenWindow, WindowTimesOut,
        WindowCloses, CheckFault, CheckFit, Pick, Announce, queueVars
<1>2. CASE Handlers
    BY <1>2 DEF Handlers, OnVerdict, VerdictHandled, OnPiFault, OnEspStatus, queueVars
<1>3. CASE Scheduler
    BY <1>3
    DEF Scheduler, SchedCheckFault, SchedCheckRest, SchedActive, SchedOldest, SchedStart,
        SchedAnnounce, queueVars
<1>4. CASE ClearFault \/ FitChanges \/ TimePasses \/ Disconnect \/ Reconnect \/ Crash \/ UNCHANGED vars
    BY <1>4
    DEF ClearFault, FitChanges, TimePasses, Disconnect, Reconnect, Crash, vars, queueVars
<1>5. CASE Pi
    BY <1>5 DEF Pi, PiStarts, PiClears, PiDrops, PiOpto, PiAnswers, PiStep, queueVars
<1> QED  BY <1>1, <1>2, <1>3, <1>4, <1>5 DEF Next

LEMMA CreditsStay ==
    ASSUME [Next]_vars, ~ VerdictHandled
    PROVE  credited' = credited
<1>1. CASE \E e \in Enders : PiTurnEnd(e) \/ ForceTurnEnd(e) \/ TurnEnd(e) \/ WindowTimesOut(e)
    BY <1>1
    DEF PiTurnEnd, ForceTurnEnd, BeginTurnEnd, TurnEnd, TakeLock, CloseEntry, OpenWindow,
        WindowTimesOut, WindowCloses, CheckFault, CheckFit, Pick, Claim, Announce
<1>2. CASE Handlers
    BY <1>2 DEF Handlers, OnVerdict, OnPiFault, OnEspStatus
<1>3. CASE Scheduler
    BY <1>3
    DEF Scheduler, SchedStep, SchedBoot, SchedCheckFault, SchedCheckRest, SchedActive, SchedOldest,
        SchedCommit, SchedStart, SchedAnnounce
<1>4. CASE \/ \E n \in Turns : Join(n)
           \/ ClearFault \/ FitChanges \/ TimePasses \/ Disconnect \/ Reconnect \/ Crash
           \/ UNCHANGED vars
    BY <1>4
    DEF Join, ClearFault, FitChanges, TimePasses, Disconnect, Reconnect, Crash, vars
<1>5. CASE Pi  BY <1>5, PiFrame
<1> QED  BY <1>1, <1>2, <1>3, <1>4, <1>5 DEF Next

(* Where the messages in flight come from: a turn_start from who announces *)
(* the turn, a verdict from the Pi that plays it.                          *)
LEMMA StartMessages ==
    ASSUME Typed, [Next]_vars, NEW m \in Messages(toPi'), m.type = "turn_start"
    PROVE  m \in Messages(toPi) \/ ToBeAnnounced(m.turn)
<1>0. toPi \in Seq(ToPi)  BY LinesOfTypes
<1>1. ASSUME NEW s \in ToPi, toPi' = toPi \/ toPi' = Append(toPi, s) PROVE m \in Messages(toPi) \/ m = s
    <2>1. Messages(Append(toPi, s)) = Messages(toPi) \cup {s}  BY <1>0, LineMessages, Zenon
    <2>2. CASE toPi' = toPi  BY <2>2
    <2>3. CASE toPi' = Append(toPi, s)
        <3>1. Messages(toPi') = Messages(toPi) \cup {s}  BY <2>1, <2>3
        <3> QED  BY <3>1
    <2> QED  BY <1>1, <2>2, <2>3
<1>2. ASSUME \/ toPi' = toPi
             \/ toPi # <<>> /\ toPi' = Tail(toPi)
             \/ \E k \in 0 .. Len(toPi) : toPi' = SubSeq(toPi, 1, k)
      PROVE  m \in Messages(toPi)
    BY <1>0, <1>2, LineMessages, Zenon
<1>3. ASSUME NEW e \in Enders, Announce(e) PROVE m \in Messages(toPi) \/ ToBeAnnounced(m.turn)
    <2>1. ender[e].turn \in Turns /\ At(e, "announce")
        BY <1>3 DEF Typed, Named, Announce, At
    <2>2. TurnStart(ender[e].turn) \in ToPi  BY <2>1 DEF ToPi
    <2>3. toPi' = toPi \/ toPi' = Append(toPi, TurnStart(ender[e].turn))
        BY <1>3 DEF Announce, SendPi
    <2>4. m \in Messages(toPi) \/ m = TurnStart(ender[e].turn)  BY <1>1, <2>2, <2>3
    <2>5. m \in Messages(toPi) \/ m.turn = ender[e].turn  BY <2>4 DEF TurnStart
    <2> QED  BY <2>1, <2>5 DEF ToBeAnnounced
<1>4. CASE SchedAnnounce
    <2>1. sched.new \in Turns /\ sched.at = "announce"  BY <1>4 DEF Typed, Named, SchedAnnounce
    <2>2. TurnStart(sched.new) \in ToPi  BY <2>1 DEF ToPi
    <2>3. toPi' = toPi \/ toPi' = Append(toPi, TurnStart(sched.new))
        BY <1>4 DEF SchedAnnounce, SendPi
    <2>4. m \in Messages(toPi) \/ m = TurnStart(sched.new)  BY <1>1, <2>2, <2>3
    <2>5. m \in Messages(toPi) \/ m.turn = sched.new  BY <2>4 DEF TurnStart
    <2> QED  BY <2>1, <2>5 DEF ToBeAnnounced
<1>5. CASE ClearFault
    <2>1. FaultClear \in ToPi  BY DEF ToPi
    <2>2. toPi' = toPi \/ toPi' = Append(toPi, FaultClear)  BY <1>5 DEF ClearFault, SendPi
    <2>3. m # FaultClear  BY DEF FaultClear
    <2> QED  BY <1>1, <2>1, <2>2, <2>3
<1>6. CASE \E e \in Enders : /\ PiTurnEnd(e) \/ ForceTurnEnd(e) \/ TurnEnd(e) \/ WindowTimesOut(e)
                             /\ ~ Announce(e)
    <2>1. toPi' = toPi
        BY <1>6
        DEF PiTurnEnd, ForceTurnEnd, BeginTurnEnd, TurnEnd, TakeLock, CloseEntry, OpenWindow,
            WindowTimesOut, WindowCloses, CheckFault, CheckFit, Pick, Claim, lineVars
    <2> QED  BY <1>2, <2>1
<1>7. CASE Handlers \/ (Scheduler /\ ~ SchedAnnounce)
    <2>1. toPi' = toPi
        BY <1>7
        DEF Handlers, OnVerdict, VerdictHandled, OnPiFault, OnEspStatus, Scheduler, SchedBoot,
            SchedCheckFault, SchedCheckRest, SchedActive, SchedOldest, SchedCommit, SchedStart, lineVars
    <2> QED  BY <1>2, <2>1
<1>8. CASE (\E n \in Turns : Join(n)) \/ FitChanges \/ TimePasses \/ Reconnect \/ UNCHANGED vars
    <2>1. toPi' = toPi  BY <1>8 DEF Join, FitChanges, TimePasses, Reconnect, vars, lineVars
    <2> QED  BY <1>2, <2>1
<1>9. CASE Disconnect \/ Crash  BY <1>2, <1>9, Zenon DEF Disconnect, Crash, LinesLost
<1>10. CASE Pi  BY <1>2, <1>10 DEF Pi, PiStarts, PiClears, PiDrops, PiOpto, PiAnswers
<1> QED
    BY <1>3, <1>4, <1>5, <1>6, <1>7, <1>8, <1>9, <1>10 DEF Next

LEMMA VerdictMessages ==
    ASSUME Typed, [Next]_vars, NEW m \in Messages(toCentral'), m.type = "verdict"
    PROVE  m \in Messages(toCentral) \/ (piState # "IDLE" /\ piTurn = m.of)
<1>0. toCentral \in Seq(ToCentral)  BY LinesOfTypes
<1>1. ASSUME NEW s \in ToCentral, SendCentral(s) PROVE m \in Messages(toCentral) \/ m = s
    <2>1. toCentral' = toCentral \/ toCentral' = Append(toCentral, s)  BY <1>1 DEF SendCentral
    <2>2. Messages(Append(toCentral, s)) = Messages(toCentral) \cup {s}
        BY <1>0, LineMessages, Zenon
    <2>3. CASE toCentral' = Append(toCentral, s)
        <3>1. Messages(toCentral') = Messages(toCentral) \cup {s}  BY <2>2, <2>3
        <3> QED  BY <3>1
    <2> QED  BY <2>1, <2>3
<1>2. ASSUME toCentral' = toCentral \/ (toCentral # <<>> /\ toCentral' = Tail(toCentral))
      PROVE  m \in Messages(toCentral)
    BY <1>0, <1>2, LineMessages, Zenon
<1>3. ASSUME NEW e \in Enders, PiTurnEnd(e) \/ ForceTurnEnd(e) \/ TurnEnd(e) \/ WindowTimesOut(e)
      PROVE  m \in Messages(toCentral)
    <2>1. toCentral' = toCentral \/ (toCentral # <<>> /\ toCentral' = Tail(toCentral))
        BY <1>3
        DEF PiTurnEnd, ForceTurnEnd, Receive, TurnEnd, TakeLock, CloseEntry, OpenWindow,
            WindowTimesOut, WindowCloses, CheckFault, CheckFit, Pick, Claim, Announce, lineVars
    <2> QED  BY <1>2, <2>1
<1>4. CASE Handlers
    <2>1. toCentral' = toCentral \/ (toCentral # <<>> /\ toCentral' = Tail(toCentral))
        BY <1>4
        DEF Handlers, OnVerdict, VerdictHandled, OnPiFault, OnEspStatus, Receive, lineVars
    <2> QED  BY <1>2, <2>1
<1>5. CASE Scheduler
    <2>1. toCentral' = toCentral
        BY <1>5
        DEF Scheduler, SchedStep, SchedBoot, SchedCheckFault, SchedCheckRest, SchedActive,
            SchedOldest, SchedCommit, SchedStart, SchedAnnounce
    <2> QED  BY <1>2, <2>1
<1>6. CASE (\E n \in Turns : Join(n)) \/ ClearFault \/ FitChanges \/ TimePasses \/ UNCHANGED vars
    <2>1. toCentral' = toCentral
        BY <1>6 DEF Join, ClearFault, FitChanges, TimePasses, vars, lineVars
    <2> QED  BY <1>2, <2>1
<1>7. CASE Disconnect \/ Crash
    <2>1. toCentral' = <<>>  BY <1>7 DEF Disconnect, Crash, LinesLost
    <2> QED  BY <2>1 DEF Messages
<1>8. CASE Reconnect
    <2>1. toCentral' = <<Greeting>>  BY <1>8 DEF Reconnect
    <2>2. m.type = "esp_status"  BY <2>1 DEF Messages, Greeting
    <2> QED  BY <2>2
<1>9. CASE PiStarts \/ PiDrops
    <2>1. toCentral' = toCentral  BY <1>9 DEF PiStarts, PiDrops
    <2> QED  BY <1>2, <2>1
<1>10. CASE PiClears
    <2>1. EspStatus \in ToCentral /\ SendCentral(EspStatus)  BY <1>10 DEF PiClears, ToCentral
    <2>2. m # EspStatus  BY DEF EspStatus
    <2> QED  BY <1>1, <2>1, <2>2
<1>11. CASE PiOpto
    <2>1. TurnEnded(piTurn) \in ToCentral /\ SendCentral(TurnEnded(piTurn))
        BY <1>11, PiMessages DEF PiOpto
    <2>2. m # TurnEnded(piTurn)  BY DEF TurnEnded
    <2> QED  BY <1>1, <2>1, <2>2
<1>12. CASE PiAnswers
    <2>1. PICK s \in ToCentral : SendCentral(s) /\ (s.type = "verdict" => s.of = piTurn)
        BY <1>12, PiAnswerIs
    <2>2. piState # "IDLE"  BY <1>12 DEF PiAnswers
    <2> QED  BY <1>1, <2>1, <2>2
<1> QED
    BY <1>3, <1>4, <1>5, <1>6, <1>7, <1>8, <1>9, <1>10, <1>11, <1>12 DEF Next, Pi

(* A turn that was not on its way is so only once it is claimed.           *)
LEMMA AnnouncedFrom ==
    ASSUME Typed, [Next]_vars, ~ (\E e \in Enders : Claim(e)), ~ SchedCommit,
           NEW n \in Turns, ToBeAnnounced(n)'
    PROVE  ToBeAnnounced(n)
<1> DEFINE NoMore == \A e \in Enders : ender'[e].at = "announce" => ender'[e] = ender[e]
           SchedSame == sched'.at \in {"gap", "announce"} =>
                            sched.at \in {"gap", "announce"} /\ sched'.new = sched.new
<1>1. NoMore /\ SchedSame => ToBeAnnounced(n)  BY DEF ToBeAnnounced, At
<1>2. CASE \E e \in Enders : PiTurnEnd(e) \/ ForceTurnEnd(e) \/ TurnEnd(e) \/ WindowTimesOut(e)
    <2>1. PICK e \in Enders : PiTurnEnd(e) \/ ForceTurnEnd(e) \/ TurnEnd(e) \/ WindowTimesOut(e)
        BY <1>2
    <2>2. sched' = sched
        BY <2>1
        DEF PiTurnEnd, ForceTurnEnd, BeginTurnEnd, TurnEnd, TakeLock, CloseEntry, OpenWindow,
            WindowTimesOut, WindowCloses, CheckFault, CheckFit, Pick, Claim, Announce
    <2>3. CASE PiTurnEnd(e) \/ ForceTurnEnd(e)
        <3>1. NoMore  BY <2>3 DEF PiTurnEnd, ForceTurnEnd, BeginTurnEnd, Typed, TypeOK
        <3> QED  BY <1>1, <2>2, <3>1
    <2>4. CASE TurnEnd(e) \/ WindowTimesOut(e)
        <3>1. ~ Claim(e)  OBVIOUS
        <3>2. NoMore
            BY <2>4, <3>1
            DEF TurnEnd, TakeLock, CloseEntry, OpenWindow, WindowTimesOut, WindowCloses, CheckFault,
                CheckFit, Pick, Announce, Goto, Finish, NoEnder, Typed, TypeOK
        <3> QED  BY <1>1, <2>2, <3>2
    <2> QED  BY <2>1, <2>3, <2>4
<1>3. CASE Handlers
    <2>1. sched' = sched /\ (ender' = ender \/ ender' = Release)
        BY <1>3 DEF Handlers, OnVerdict, VerdictHandled, OnPiFault, OnEspStatus, turnVars
    <2>2. NoMore  BY <2>1 DEF Release, At, Typed, TypeOK
    <2> QED  BY <1>1, <2>1, <2>2
<1>4. CASE Scheduler
    <2>1. ender' = ender  BY <1>4, SchedFrame
    <2>2. SchedSame
        <3>1. CASE SchedStart  BY <3>1 DEF SchedStart, Typed, TypeOK
        <3>2. CASE SchedCheckRest  BY <3>2 DEF SchedCheckRest, Typed, TypeOK
        <3>3. CASE SchedBoot \/ SchedCheckFault \/ SchedOldest
            BY <3>3 DEF SchedBoot, SchedCheckFault, SchedOldest, Typed, TypeOK
        <3>4. CASE SchedActive
            <4>1. sched'.at = "oldest"  BY <3>4 DEF SchedActive
            <4> QED  BY <4>1
        <3>5. CASE SchedAnnounce
            <4>1. sched'.at = "top"  BY <3>5 DEF SchedAnnounce
            <4> QED  BY <4>1
        <3> QED  BY <1>4, <3>1, <3>2, <3>3, <3>4, <3>5 DEF Scheduler
    <2> QED  BY <1>1, <2>1, <2>2
<1>5. CASE \/ \E k \in Turns : Join(k)
           \/ ClearFault \/ FitChanges \/ TimePasses \/ Disconnect \/ Reconnect \/ Pi
           \/ UNCHANGED vars
    <2>1. sched' = sched /\ ender' = ender
        BY <1>5, PiFrame
        DEF Join, ClearFault, FitChanges, TimePasses, Disconnect, Reconnect, vars, turnVars
    <2> QED  BY <1>1, <2>1
<1>6. CASE Crash
    <2>1. sched'.at = "boot" /\ \A e \in Enders : ender'[e].at = "idle"
        BY <1>6 DEF Crash, NoEnder
    <2> QED  BY <1>1, <2>1
<1> QED  BY <1>2, <1>3, <1>4, <1>5, <1>6 DEF Next

LEMMA PlayFrom ==
    ASSUME Typed, [Next]_vars, NEW n \in Turns, InPlay(n)'
    PROVE  InPlay(n) \/ ToBeAnnounced(n)
<1>1. ASSUME NEW m \in Messages(toPi'), m.type = "turn_start", m.turn = n
      PROVE  InPlay(n) \/ ToBeAnnounced(n)
    BY <1>1, StartMessages DEF InPlay
<1>2. ASSUME piState' # "IDLE", piTurn' = n PROVE InPlay(n)
    <2>1. CASE PiStarts
        <3>1. Head(toPi) \in Messages(toPi)
            <4>1. toPi \in Seq(ToPi) /\ toPi # <<>>  BY <2>1, LinesOfTypes DEF PiStarts
            <4> QED  BY <4>1, LineMessages, Zenon
        <3> QED  BY <1>2, <2>1, <3>1 DEF PiStarts, InPlay
    <2>2. CASE ~ PiStarts
        <3>1. piTurn' = piTurn /\ (piState' # "IDLE" => piState # "IDLE")
            <4>1. CASE \E e \in Enders :
                           PiTurnEnd(e) \/ ForceTurnEnd(e) \/ TurnEnd(e) \/ WindowTimesOut(e)
                BY <4>1
                DEF PiTurnEnd, ForceTurnEnd, BeginTurnEnd, TurnEnd, TakeLock, CloseEntry, OpenWindow,
                    WindowTimesOut, WindowCloses, CheckFault, CheckFit, Pick, Claim, Announce, piVars
            <4>2. CASE Handlers
                BY <4>2 DEF Handlers, OnVerdict, VerdictHandled, OnPiFault, OnEspStatus, piVars
            <4>3. CASE Scheduler
                BY <4>3
                DEF Scheduler, SchedStep, SchedBoot, SchedCheckFault, SchedCheckRest, SchedActive,
                    SchedOldest, SchedCommit, SchedStart, SchedAnnounce, piVars
            <4>4. CASE \/ \E k \in Turns : Join(k)
                       \/ ClearFault \/ FitChanges \/ TimePasses \/ Disconnect \/ Reconnect \/ Crash
                       \/ UNCHANGED vars
                BY <4>4
                DEF Join, ClearFault, FitChanges, TimePasses, Disconnect, Reconnect, Crash, vars, piVars
            <4>5. CASE Pi
                BY <1>2, <2>2, <4>5 DEF Pi, PiClears, PiDrops, PiOpto, PiAnswers, piVars
            <4> QED  BY <4>1, <4>2, <4>3, <4>4, <4>5 DEF Next
        <3> QED  BY <1>2, <3>1 DEF InPlay
    <2> QED  BY <2>1, <2>2
<1> QED  BY <1>1, <1>2 DEF InPlay

LEMMA ReportFrom ==
    ASSUME Typed, [Next]_vars, NEW n \in Turns, Reported(n)'
    PROVE  Reported(n) \/ InPlay(n)
<1>1. ASSUME NEW m \in Messages(toCentral'), m.type = "verdict", m.of = n
      PROVE  Reported(n) \/ InPlay(n)
    BY <1>1, VerdictMessages DEF Reported, InPlay
<1>2. ASSUME verdictTask' # Null, verdictTask'.of = n PROVE Reported(n)
    <2>1. CASE OnVerdict
        <3>1. Head(toCentral) \in Messages(toCentral) /\ Head(toCentral).type = "verdict"
            <4>1. toCentral \in Seq(ToCentral) /\ toCentral # <<>>
                BY <2>1, LinesOfTypes DEF OnVerdict, Receive
            <4>2. Head(toCentral) \in Messages(toCentral)  BY <4>1, LineMessages, Zenon
            <4> QED  BY <2>1, <4>2 DEF OnVerdict, Receive
        <3>2. verdictTask' = verdictTask \/ verdictTask'.of = Head(toCentral).of
            BY <2>1 DEF OnVerdict
        <3> QED  BY <1>2, <3>1, <3>2 DEF Reported
    <2>2. CASE ~ OnVerdict
        <3>1. verdictTask' = verdictTask \/ verdictTask' = Null
            <4>1. CASE \E e \in Enders :
                           PiTurnEnd(e) \/ ForceTurnEnd(e) \/ TurnEnd(e) \/ WindowTimesOut(e)
                BY <4>1
                DEF PiTurnEnd, ForceTurnEnd, BeginTurnEnd, TurnEnd, TakeLock, CloseEntry, OpenWindow,
                    WindowTimesOut, WindowCloses, CheckFault, CheckFit, Pick, Claim, Announce
            <4>2. CASE Handlers
                BY <2>2, <4>2 DEF Handlers, VerdictHandled, OnPiFault, OnEspStatus, turnVars
            <4>3. CASE Scheduler
                BY <4>3
                DEF Scheduler, SchedStep, SchedBoot, SchedCheckFault, SchedCheckRest, SchedActive,
                    SchedOldest, SchedCommit, SchedStart, SchedAnnounce, turnVars
            <4>4. CASE \/ \E k \in Turns : Join(k)
                       \/ ClearFault \/ FitChanges \/ TimePasses \/ Disconnect \/ Reconnect \/ Crash
                       \/ UNCHANGED vars
                BY <4>4
                DEF Join, ClearFault, FitChanges, TimePasses, Disconnect, Reconnect, Crash, vars, turnVars
            <4>5. CASE Pi  BY <4>5, PiFrame
            <4> QED  BY <4>1, <4>2, <4>3, <4>4, <4>5 DEF Next
        <3> QED  BY <1>2, <3>1 DEF Reported
    <2> QED  BY <2>1, <2>2
<1> QED  BY <1>1, <1>2 DEF Reported

LEMMA WaysStay ==
    ASSUME Typed, [Next]_vars, ~ (\E e \in Enders : Claim(e)), ~ SchedCommit,
           NEW n \in Turns, OnItsWay(n)'
    PROVE  OnItsWay(n)
BY AnnouncedFrom, PlayFrom, ReportFrom DEF OnItsWay

(* Who has started stays so, and nobody else starts.                       *)
LEMMA StartedStays ==
    ASSUME Typed, [Next]_vars, ~ (\E e \in Enders : Claim(e)), ~ SchedCommit, NEW n \in Turns
    PROVE  Started(n)' <=> Started(n)
<1>0. entries \in [Turns -> Status]  BY DEF Typed, TypeOK
<1>1. ASSUME NEW e \in Enders, CloseEntry(e) PROVE Started(n)' <=> Started(n)
    <2>1. PICK k \in OneOf(ActiveOf(ender[e].turn)) : entries' = Closed(k)
        BY <1>1 DEF CloseEntry
    <2>2. k # Null => k \in Turns /\ entries[k] = "active"
        BY <2>1 DEF OneOf, ActiveOf, InStatus
    <2> QED  BY <1>0, <2>1, <2>2 DEF Closed, Started
<1>2. ASSUME NEW k \in Turns, Join(k) PROVE Started(n)' <=> Started(n)
    BY <1>0, <1>2 DEF Join, Started
<1>3. CASE SchedBoot  BY <1>0, <1>3 DEF SchedBoot, Started
<1> QED  BY <1>1, <1>2, <1>3, EntriesStay DEF Started

(* Nothing becomes on its way, nobody starts, nothing is credited.         *)
LEMMA UncreditedKept ==
    ASSUME Typed, [Next]_vars, Uncredited,
           ~ (\E e \in Enders : Claim(e)), ~ SchedCommit, ~ VerdictHandled
    PROVE  Uncredited'
<1>1. \A n \in Turns : (Started(n)' <=> Started(n)) /\ (OnItsWay(n)' => OnItsWay(n))
    BY StartedStays, WaysStay
<1>2. credited' = credited  BY CreditsStay
<1> QED  BY <1>1, <1>2 DEF Uncredited, Latest

(* A turn that is started is the latest, and its win is yet to come.       *)
LEMMA StartsUncredited ==
    ASSUME Typed, OrderInv, Uncredited, credited' = credited, NEW t \in Turns, entries[t] = "queued",
           \A n \in Turns : Started(n)' <=> Started(n) \/ n = t,
           \A n \in Turns : OnItsWay(n)' => n = t
    PROVE  Uncredited'
<1>1. ~ Started(t) /\ \A k \in Turns : k > t => ~ Started(k)
    BY OrderImplies DEF Started, FirstComeFirstServed
<1>2. \A k \in Turns : k > t => k # t  BY DEF Turns
<1> QED  BY <1>1, <1>2 DEF Uncredited, Latest

LEMMA ClaimUncredited ==
    ASSUME Typed, OrderInv, TurnExclusion, GateInv, PromiseInv, NEW e \in Enders, Claim(e)
    PROVE  Uncredited'
<1> DEFINE t == ender[e].turn
<1>1. At(e, "claim") /\ t \in Turns /\ entries[t] = "queued"
    BY DEF Claim, At, Typed, Named, PromiseInv, PicksWait
<1>2. \A n \in Turns : ~ OnItsWay(n)  BY <1>1, NoneOnItsWay
<1>3. /\ toPi' = toPi /\ toCentral' = toCentral /\ verdictTask' = verdictTask /\ sched' = sched
      /\ piState' = piState /\ piTurn' = piTurn /\ credited' = credited
      /\ \A d \in Enders \ {e} : ender'[d] = ender[d]
      /\ ender'[e].turn = t
    BY DEF Claim, Goto, lineVars, piVars, Typed, TypeOK
<1>4. ASSUME NEW n \in Turns, OnItsWay(n)' PROVE n = t
    <2>1. Reported(n)' = Reported(n) /\ InPlay(n)' = InPlay(n)
        BY <1>3 DEF Reported, InPlay, Messages
    <2>2. ToBeAnnounced(n)'  BY <1>2, <1>4, <2>1 DEF OnItsWay
    <2>3. ~ ToBeAnnounced(n)  BY <1>2 DEF OnItsWay
    <2> QED  BY <1>3, <2>2, <2>3 DEF ToBeAnnounced, At
<1>5. \A n \in Turns : Started(n)' <=> Started(n) \/ n = t
    BY <1>1 DEF Claim, Started, Typed, TypeOK
<1> HIDE DEF t
<1> QED  BY <1>1, <1>3, <1>4, <1>5, StartsUncredited DEF PromiseInv

LEMMA CommitUncredited ==
    ASSUME Typed, OrderInv, TurnExclusion, GateInv, PromiseInv, SchedCommit
    PROVE  Uncredited'
<1>1. \A n \in Turns : ~ OnItsWay(n)  BY NoneOnItsWay DEF SchedCommit
<1>2. /\ toPi' = toPi /\ toCentral' = toCentral /\ verdictTask' = verdictTask /\ ender' = ender
      /\ piState' = piState /\ piTurn' = piTurn /\ credited' = credited
    BY DEF SchedCommit, SchedStep, turnVars, piVars
<1>3. sched.old # Null => Started(sched.old)
    BY DEF SchedCommit, PromiseInv, PicksWait
<1>4. \A n \in Turns : Started(n)' <=> Started(n) \/ n = sched.new
    BY <1>3 DEF SchedCommit, Started
<1>5. ASSUME NEW n \in Turns, OnItsWay(n)' PROVE n = sched.new /\ sched.new # Null
    <2>1. Reported(n)' = Reported(n) /\ InPlay(n)' = InPlay(n)
        BY <1>2 DEF Reported, InPlay, Messages
    <2>2. ToBeAnnounced(n)'  BY <1>1, <1>5, <2>1 DEF OnItsWay
    <2>3. ~ ToBeAnnounced(n)  BY <1>1 DEF OnItsWay
    <2>4. sched'.at \in {"gap", "announce"} /\ sched'.new = n
        BY <1>2, <2>2, <2>3 DEF ToBeAnnounced, At
    <2>5. CASE sched.new = Null
        <3>1. sched'.at = "top"  BY <2>5 DEF SchedCommit
        <3> QED  BY <2>4, <3>1
    <2>6. CASE sched.new # Null
        <3>1. sched' = [sched EXCEPT !.at = "gap", !.old = Null]  BY <2>6 DEF SchedCommit
        <3>2. sched'.new = sched.new  BY <3>1 DEF Typed, TypeOK
        <3> QED  BY <2>4, <2>6, <3>2
    <2> QED  BY <2>5, <2>6
<1>6. CASE sched.new = Null
    <2>1. \A n \in Turns : ~ OnItsWay(n)'  BY <1>5, <1>6
    <2>2. \A n \in Turns : Started(n)' <=> Started(n)  BY <1>4, <1>6
    <2> QED  BY <1>2, <2>1, <2>2 DEF Uncredited, PromiseInv
<1>7. CASE sched.new # Null
    <2>1. sched.new \in Turns /\ entries[sched.new] = "queued"
        BY <1>7 DEF PromiseInv, PicksWait, SchedCommit, Typed, TypeOK, MaybeTurn
    <2>2. \A n \in Turns : OnItsWay(n)' => n = sched.new  BY <1>5
    <2> QED  BY <1>2, <1>4, <2>1, <2>2, StartsUncredited DEF PromiseInv
<1> QED  BY <1>6, <1>7

(* The turn whose win a verdict is credited to: the latest one.            *)
LEMMA CreditsLatest ==
    ASSUME Typed, KeyInv, PromiseInv, VerdictHandled
    PROVE  /\ verdictTask.key \in Turns /\ verdictTask.of = verdictTask.key
           /\ Latest(verdictTask.key) /\ credited[verdictTask.key] = Null
<1>1. verdictTask # Null /\ verdictTask.key \in Turns /\ verdictTask.of = verdictTask.key
    BY DEF VerdictHandled, KeyInv, KeysMatch, Typed, TypeOK
<1>2. OnItsWay(verdictTask.key)  BY <1>1 DEF OnItsWay, Reported
<1> QED  BY <1>1, <1>2 DEF PromiseInv, Uncredited

LEMMA HandledUncredited ==
    ASSUME Typed, TurnExclusion, GateInv, KeyInv, PromiseInv, [Next]_vars, VerdictHandled
    PROVE  Uncredited'
<1> DEFINE key == verdictTask.key
<1>1. key \in Turns /\ Started(key)  BY CreditsLatest DEF Latest
<1>2. credited' = credited \/ credited' = [credited EXCEPT ![key] = key]
    BY CreditsLatest DEF VerdictHandled
<1>3. verdictTask # Null /\ verdictTask' = Null /\ Answering
    BY DEF VerdictHandled, Answering
<1>4. /\ entries' = entries /\ sched' = sched /\ toPi' = toPi /\ toCentral' = toCentral
      /\ piState' = piState /\ piTurn' = piTurn /\ ender' = Release
    BY DEF VerdictHandled, queueVars, lineVars, piVars
<1>5. piState = "IDLE" /\ ~ StartSent /\ ~ ReplySent
    BY <1>3 DEF GateInv, OneOnWay, OneReply, Typed, TypeOK
<1>6. ASSUME NEW n \in Turns PROVE ~ OnItsWay(n)'
    <2>1. ~ ToBeAnnounced(n)
        <3>1. ~ rested /\ sched.at # "announce" /\ \A e \in Enders : ~ At(e, "announce")
            BY <1>3 DEF GateInv, TurnDone, Past, At
        <3>2. sched.at # "gap"  BY <3>1 DEF TurnExclusion, SchedAlone, Polling
        <3> QED  BY <3>1, <3>2 DEF ToBeAnnounced
    <2>2. ~ ToBeAnnounced(n)'
        <3>1. \A e \in Enders : ~ Claim(e)
            <4>1. \A e \in Enders : ~ At(e, "claim")  BY <1>3 DEF GateInv, TurnDone, Past, At
            <4> QED  BY <4>1 DEF Claim
        <3>2. ~ SchedCommit
            <4>1. ~ rested  BY <1>3 DEF GateInv, TurnDone
            <4> QED  BY <4>1 DEF SchedCommit, TurnExclusion, SchedAlone, Polling
        <3> QED  BY <2>1, <3>1, <3>2, AnnouncedFrom
    <2>3. ~ InPlay(n)'
        BY <1>4, <1>5 DEF InPlay, Messages, StartSent, Sent
    <2>4. ~ Reported(n)'
        BY <1>3, <1>4, <1>5 DEF Reported, Messages, ReplySent, Replies, Sent
    <2> QED  BY <2>2, <2>3, <2>4 DEF OnItsWay
<1>7. \A n \in Turns : (Started(n)' <=> Started(n)) /\ (~ Started(n) => credited[n] = Null)
    BY <1>4 DEF Started, PromiseInv, Uncredited
<1>8. ASSUME NEW n \in Turns, ~ Started(n)' PROVE credited'[n] = Null
    <2>1. n # key /\ credited[n] = Null  BY <1>1, <1>7, <1>8
    <2> HIDE DEF key
    <2> QED  BY <1>2, <2>1 DEF Typed, TypeOK
<1> QED  BY <1>6, <1>8 DEF Uncredited

LEMMA UncreditedStep ==
    Typed /\ OrderInv /\ TurnExclusion /\ GateInv /\ KeyInv /\ PromiseInv /\ [Next]_vars => Uncredited'
BY ClaimUncredited, CommitUncredited, HandledUncredited, UncreditedKept DEF PromiseInv

(* Who picks is alone at it, so that the entry it has picked waits.        *)
LEMMA EnderPicksWait ==
    ASSUME Typed, TurnExclusion, GateInv, PromiseInv, [Next]_vars,
           NEW e \in Enders, ender'[e].at = "claim"
    PROVE  entries'[ender'[e].turn] = "queued"
<1>1. CASE Pick(e)
    <2>1. entries' = entries /\ Oldest # Null
        BY <1>1 DEF Pick, Finish, NoEnder, queueVars, Typed, TypeOK
    <2>2. ender' = [ender EXCEPT ![e].at = "claim", ![e].turn = Oldest]  BY <1>1, <2>1 DEF Pick
    <2>3. ender'[e].turn = Oldest  BY <2>2 DEF Typed, TypeOK
    <2> QED  BY <2>1, <2>3, OldestIsFirst
<1>2. CASE ~ Pick(e)
    <2>1. ender'[e] = ender[e]
        <3>1. CASE \E d \in Enders : PiTurnEnd(d) \/ ForceTurnEnd(d)
            BY <1>2, <3>1 DEF PiTurnEnd, ForceTurnEnd, BeginTurnEnd, Typed, TypeOK
        <3>2. ASSUME NEW d \in Enders, TurnEnd(d) \/ WindowTimesOut(d) PROVE ender'[e] = ender[e]
            <4>1. CASE d = e
                BY <1>2, <3>2, <4>1
                DEF TurnEnd, TakeLock, CloseEntry, OpenWindow, WindowTimesOut, WindowCloses,
                    CheckFault, CheckFit, Claim, Announce, Goto, Finish, NoEnder, Typed, TypeOK
            <4>2. CASE d # e
                BY <3>2, <4>2
                DEF TurnEnd, TakeLock, CloseEntry, OpenWindow, WindowTimesOut, WindowCloses,
                    CheckFault, CheckFit, Pick, Claim, Announce, Goto, Finish, Typed, TypeOK
            <4> QED  BY <4>1, <4>2
        <3>3. CASE Handlers
            <4>1. ender' = ender \/ ender' = Release
                BY <3>3 DEF Handlers, OnVerdict, VerdictHandled, OnPiFault, OnEspStatus, turnVars
            <4> QED  BY <4>1 DEF Release, At, Typed, TypeOK
        <3>4. CASE Scheduler  BY <3>4, SchedFrame
        <3>5. CASE \/ \E k \in Turns : Join(k)
                   \/ ClearFault \/ FitChanges \/ TimePasses \/ Disconnect \/ Reconnect \/ Pi
                   \/ UNCHANGED vars
            BY <3>5, PiFrame
            DEF Join, ClearFault, FitChanges, TimePasses, Disconnect, Reconnect, vars, turnVars
        <3>6. CASE Crash  BY <3>6 DEF Crash, NoEnder
        <3> QED  BY <3>1, <3>2, <3>3, <3>4, <3>5, <3>6 DEF Next
    <2>2. At(e, "claim") /\ entries[ender[e].turn] = "queued" /\ ender[e].turn \in Turns
        BY <2>1 DEF At, PromiseInv, PicksWait, Typed, Named
    <2>3. sched.at \in {"top", "fit"} /\ \A d \in Enders \ {e} : At(d, "idle")
        BY <2>2, TheTask DEF At
    <2>4. ~ SchedBoot /\ ~ SchedCommit  BY <2>3 DEF SchedBoot, SchedCommit
    <2>5. ~ (\E d \in Enders : CloseEntry(d) \/ Claim(d))
        <3>1. ~ (\E d \in Enders \ {e} : CloseEntry(d) \/ Claim(d))
            BY <2>3 DEF CloseEntry, Claim, At
        <3>2. ~ CloseEntry(e)  BY <2>2 DEF CloseEntry, At
        <3>3. ~ Claim(e)  BY <2>1, <2>2 DEF Claim, Goto, At, Typed, TypeOK
        <3> QED  BY <3>1, <3>2, <3>3
    <2>6. CASE \E k \in Turns : Join(k)
        BY <2>1, <2>2, <2>6 DEF Join, Typed, TypeOK
    <2>7. CASE ~ (\E k \in Turns : Join(k))
        <3>1. entries' = entries  BY <2>4, <2>5, <2>7, EntriesStay
        <3> QED  BY <2>1, <2>2, <3>1
    <2> QED  BY <2>6, <2>7
<1> QED  BY <1>1, <1>2

LEMMA SchedulerPicksWait ==
    ASSUME Typed, TurnExclusion, GateInv, PromiseInv, [Next]_vars
    PROVE  /\ sched'.at = "commit" /\ sched'.new # Null => entries'[sched'.new] = "queued"
           /\ sched'.at \in {"oldest", "commit"} /\ sched'.old # Null => Started(sched.old)'
<1>1. CASE SchedOldest
    <2>1. sched' = [sched EXCEPT !.at = "commit", !.new = Oldest] /\ entries' = entries
          /\ sched.at = "oldest"
        BY <1>1 DEF SchedOldest, queueVars
    <2>2. sched'.new = Oldest /\ sched'.old = sched.old  BY <2>1 DEF Typed, TypeOK
    <2>3. sched.old # Null => Started(sched.old)  BY <2>1 DEF PromiseInv, PicksWait
    <2> QED  BY <2>1, <2>2, <2>3, OldestIsFirst DEF Started
<1>2. CASE SchedActive
    <2>1. PICK old \in OneOf(ActiveOf(current)) : sched' = [at |-> "oldest", old |-> old, new |-> Null]
        BY <1>2 DEF SchedActive
    <2>2. entries' = entries  BY <1>2 DEF SchedActive, queueVars
    <2>3. old # Null => entries[old] = "active"  BY <2>1 DEF OneOf, ActiveOf, InStatus
    <2> QED  BY <2>1, <2>2, <2>3 DEF Started
<1>3. CASE ~ SchedOldest /\ ~ SchedActive
    <2>1. sched' = sched \/ sched'.at \notin {"oldest", "commit"}
        <3>1. CASE SchedBoot \/ SchedCheckFault \/ SchedCheckRest \/ SchedStart
            BY <3>1 DEF SchedBoot, SchedCheckFault, SchedCheckRest, SchedStart, Typed, TypeOK
        <3>2. CASE SchedAnnounce
            <4>1. sched'.at = "top"  BY <3>2 DEF SchedAnnounce
            <4> QED  BY <4>1
        <3>3. CASE SchedCommit
            <4>1. CASE sched.new = Null
                <5>1. sched'.at = "top"  BY <3>3, <4>1 DEF SchedCommit
                <5> QED  BY <5>1
            <4>2. CASE sched.new # Null
                <5>1. sched' = [sched EXCEPT !.at = "gap", !.old = Null]
                    BY <3>3, <4>2 DEF SchedCommit
                <5> QED  BY <5>1 DEF Typed, TypeOK
            <4> QED  BY <4>1, <4>2
        <3>4. CASE Crash
            <4>1. sched'.at = "boot"  BY <3>4 DEF Crash
            <4> QED  BY <4>1
        <3>5. CASE \E e \in Enders : PiTurnEnd(e) \/ ForceTurnEnd(e) \/ TurnEnd(e) \/ WindowTimesOut(e)
            BY <3>5
            DEF PiTurnEnd, ForceTurnEnd, BeginTurnEnd, TurnEnd, TakeLock, CloseEntry, OpenWindow,
                WindowTimesOut, WindowCloses, CheckFault, CheckFit, Pick, Claim, Announce
        <3>6. CASE Handlers
            BY <3>6 DEF Handlers, OnVerdict, VerdictHandled, OnPiFault, OnEspStatus
        <3>7. CASE \/ \E k \in Turns : Join(k)
                   \/ ClearFault \/ FitChanges \/ TimePasses \/ Disconnect \/ Reconnect \/ Pi
                   \/ UNCHANGED vars
            BY <3>7, PiFrame
            DEF Join, ClearFault, FitChanges, TimePasses, Disconnect, Reconnect, vars
        <3> QED  BY <1>3, <3>1, <3>2, <3>3, <3>4, <3>5, <3>6, <3>7 DEF Next, Scheduler
    <2>2. CASE sched'.at \in {"oldest", "commit"}
        <3>1. sched' = sched  BY <2>1, <2>2
        <3>2. rested  BY <2>2, <3>1 DEF TurnExclusion, SchedAlone, Polling
        <3>3. EndersIdle  BY <3>2, NoneAtWork
        <3>4. ~ (\E e \in Enders : CloseEntry(e) \/ Claim(e))
            BY <3>3 DEF EndersIdle, CloseEntry, Claim, At
        <3>5. ~ SchedBoot  BY <2>2, <3>1 DEF SchedBoot
        <3>6. ~ SchedCommit
            <4>1. ASSUME SchedCommit PROVE FALSE
                <5>1. sched.at = "commit"  BY <4>1 DEF SchedCommit
                <5>2. CASE sched.new = Null
                    <6>1. sched'.at = "top"  BY <4>1, <5>2 DEF SchedCommit
                    <6> QED  BY <2>2, <6>1
                <5>3. CASE sched.new # Null
                    <6>1. sched' = [sched EXCEPT !.at = "gap", !.old = Null]
                        BY <4>1, <5>3 DEF SchedCommit
                    <6>2. sched'.at = "gap"  BY <6>1 DEF Typed, TypeOK
                    <6> QED  BY <2>2, <6>2
                <5> QED  BY <5>2, <5>3
            <4> QED  BY <4>1
        <3>7. /\ sched.at = "commit" /\ sched.new # Null =>
                     sched.new \in Turns /\ entries[sched.new] = "queued"
              /\ sched.old # Null => sched.old \in Turns /\ Started(sched.old)
            BY <2>2, <3>1 DEF PromiseInv, PicksWait, Typed, TypeOK, MaybeTurn
        <3>8. sched'.old # Null => Started(sched.old)'
            <4>1. PICK old : old = sched.old  OBVIOUS
            <4>2. old # Null => Started(old)'
                BY <3>4, <3>6, <3>7, <4>1, StartedStays DEF Started
            <4> QED  BY <3>1, <4>1, <4>2 DEF Started
        <3>9. sched.at = "commit" /\ sched.new # Null => entries'[sched.new] = "queued"
            <4>1. CASE \E k \in Turns : Join(k)
                BY <3>7, <4>1 DEF Join, Typed, TypeOK
            <4>2. CASE ~ (\E k \in Turns : Join(k))
                BY <3>4, <3>5, <3>6, <3>7, <4>2, EntriesStay
            <4> QED  BY <4>1, <4>2
        <3> QED  BY <3>1, <3>8, <3>9
    <2> QED  BY <2>2
<1> QED  BY <1>1, <1>2, <1>3

LEMMA PromiseStep ==
    Typed /\ OrderInv /\ TurnExclusion /\ GateInv /\ KeyInv /\ PromiseInv /\ [Next]_vars => PromiseInv'
BY UncreditedStep, EnderPicksWait, SchedulerPicksWait DEF PromiseInv, PicksWait, At

(* The steps of the contract: a claim or a commit of the scheduler starts  *)
(* the first that waits, whose predecessor has ended or ends with it.      *)
LEMMA JoinIsJoin ==
    ASSUME Typed, NEW n \in Turns, Join(n)
    PROVE  Contract!Join(n)
<1>1. \A k \in Turns : k < n => k \in 1 .. (n - 1)  BY DEF Turns
<1> QED  BY <1>1 DEF Join, Contract!Join, Contract!Turns, Turns

LEMMA ClosesAsEnd ==
    ASSUME NEW n \in Turns, entries[n] = "active", entries' = [entries EXCEPT ![n] = "played"],
           credited' = credited
    PROVE  Contract!Next
<1>1. Contract!End(n)  BY DEF Contract!End
<1> QED  BY <1>1 DEF Contract!Next, Contract!Turns, Turns

LEMMA StartsAsStart ==
    ASSUME Typed, OrderInv, NEW n \in Turns, entries[n] = "queued", NoneBefore(entries, n),
           entries' = [k \in Turns |-> IF k = n THEN "active"
                                       ELSE IF entries[k] = "active" THEN "played" ELSE entries[k]],
           credited' = credited
    PROVE  Contract!Next
<1>1. ASSUME NEW k \in Turns, k < n PROVE entries[k] \in {"active", "played"}
    <2>1. entries[k] \in Status /\ entries[k] # "queued"
        BY <1>1 DEF Typed, TypeOK, NoneBefore
    <2>2. entries[k] # "absent"  BY <1>1 DEF OrderInv, Arrived
    <2> QED  BY <2>1, <2>2 DEF Status
<1>2. Contract!Start(n)
    BY <1>1 DEF Contract!Start, Contract!Started, Contract!Turns, Turns
<1> QED  BY <1>2 DEF Contract!Next, Contract!Turns, Turns

LEMMA CloseImplements ==
    ASSUME Typed, NEW e \in Enders, CloseEntry(e)
    PROVE  Contract!Next \/ UNCHANGED Contract!vars
<1>1. PICK n \in OneOf(ActiveOf(ender[e].turn)) : entries' = Closed(n)
    BY DEF CloseEntry
<1>2. credited' = credited  BY DEF CloseEntry
<1>3. CASE n = Null  BY <1>1, <1>2, <1>3 DEF Closed, Contract!vars
<1>4. CASE n # Null
    <2>1. n \in Turns /\ entries[n] = "active"  BY <1>1, <1>4 DEF OneOf, ActiveOf, InStatus
    <2>2. entries' = [entries EXCEPT ![n] = "played"]  BY <1>1, <1>4 DEF Closed
    <2> QED  BY <1>2, <2>1, <2>2, ClosesAsEnd
<1> QED  BY <1>3, <1>4

LEMMA ClaimImplements ==
    ASSUME Typed, OrderInv, TurnExclusion, PromiseInv, NEW e \in Enders, Claim(e)
    PROVE  Contract!Next
<1>1. PICK n : n = ender[e].turn  OBVIOUS
<1>2. n \in Turns /\ entries[n] = "queued" /\ NoneBefore(entries, n)
    BY <1>1 DEF Claim, At, Typed, Named, PromiseInv, PicksWait, OrderInv
<1>3. Active = {}
    <2>1. Works(e) /\ ender[e].at \in Gates  BY DEF Claim, At, Works, Gates
    <2> QED  BY <2>1, Working
<1>4. \A k \in Turns : entries[k] # "active"  BY <1>3 DEF Active, InStatus
<1>5. entries' = [entries EXCEPT ![n] = "active"] /\ credited' = credited
    BY <1>1 DEF Claim
<1>6. entries' = [k \in Turns |-> IF k = n THEN "active"
                                  ELSE IF entries[k] = "active" THEN "played" ELSE entries[k]]
    BY <1>2, <1>4, <1>5 DEF Typed, TypeOK
<1> QED  BY <1>2, <1>5, <1>6, StartsAsStart

LEMMA CommitImplements ==
    ASSUME Typed, OrderInv, TurnExclusion, PromiseInv, SchedCommit
    PROVE  Contract!Next \/ UNCHANGED Contract!vars
<1>1. PICK old, new : old = sched.old /\ new = sched.new  OBVIOUS
<1>2. entries \in [Turns -> Status] /\ old \in MaybeTurn /\ new \in MaybeTurn /\ Null \notin Turns
    BY <1>1 DEF Typed, TypeOK
<1>3. \A k \in Turns : entries[k] = "active" => k = old
    BY <1>1 DEF SchedCommit, TurnExclusion, OneActive, Active, InStatus
<1>4. old # Null => entries[old] \in {"active", "played"}
    BY <1>1 DEF SchedCommit, PromiseInv, PicksWait, Started
<1>5. /\ entries' = [n \in Turns |-> IF n = new THEN "active"
                                     ELSE IF n = old THEN "played" ELSE entries[n]]
      /\ credited' = credited
    BY <1>1 DEF SchedCommit, SchedStep
<1>6. CASE new = Null
    <2>1. CASE old # Null /\ entries[old] = "active"
        <3>1. old \in Turns  BY <1>2, <2>1 DEF MaybeTurn
        <3>2. entries' = [entries EXCEPT ![old] = "played"]  BY <1>2, <1>5, <1>6, <3>1
        <3> QED  BY <1>5, <2>1, <3>1, <3>2, ClosesAsEnd
    <2>2. CASE old = Null \/ entries[old] = "played"
        <3>1. entries' = entries  BY <1>2, <1>5, <1>6, <2>2
        <3> QED  BY <1>5, <3>1 DEF Contract!vars
    <2> QED  BY <1>4, <2>1, <2>2
<1>7. CASE new # Null
    <2>1. new \in Turns /\ entries[new] = "queued" /\ NoneBefore(entries, new)
        BY <1>1, <1>2, <1>7 DEF SchedCommit, PromiseInv, PicksWait, OrderInv, MaybeTurn
    <2>2. entries' = [k \in Turns |-> IF k = new THEN "active"
                                      ELSE IF entries[k] = "active" THEN "played" ELSE entries[k]]
        BY <1>2, <1>3, <1>4, <1>5
    <2> QED  BY <1>5, <2>1, <2>2, StartsAsStart
<1> QED  BY <1>6, <1>7

LEMMA BootImplements ==
    ASSUME Typed, TurnExclusion, SchedBoot
    PROVE  Contract!Next \/ UNCHANGED Contract!vars
<1>0. entries \in [Turns -> Status]  BY DEF Typed, TypeOK
<1>1. PICK n \in Turns : Active \subseteq {n}
    BY DEF SchedBoot, TurnExclusion, OneActive
<1>2. \A k \in Turns : entries[k] = "active" => k = n  BY <1>1 DEF Active, InStatus
<1>3. /\ entries' = [k \in Turns |-> IF entries[k] = "active" THEN "played" ELSE entries[k]]
      /\ credited' = credited
    BY DEF SchedBoot, SchedStep
<1>4. CASE entries[n] = "active"
    <2>1. entries' = [entries EXCEPT ![n] = "played"]  BY <1>0, <1>2, <1>3, <1>4
    <2> QED  BY <1>3, <1>4, <2>1, ClosesAsEnd
<1>5. CASE entries[n] # "active"
    <2>1. \A k \in Turns : entries[k] # "active"  BY <1>2, <1>5
    <2>2. entries' = entries  BY <1>0, <1>3, <2>1
    <2> QED  BY <1>3, <2>2 DEF Contract!vars
<1> QED  BY <1>4, <1>5

LEMMA CreditImplements ==
    ASSUME Typed, KeyInv, PromiseInv, VerdictHandled
    PROVE  Contract!Next \/ UNCHANGED Contract!vars
<1>1. PICK n : n = verdictTask.key  OBVIOUS
<1>2. n \in Turns /\ verdictTask.of = n /\ Latest(n) /\ credited[n] = Null
    BY <1>1, CreditsLatest
<1>3. entries' = entries  BY DEF VerdictHandled, queueVars
<1>4. credited' = [credited EXCEPT ![n] = n] \/ credited' = credited
    BY <1>1, <1>2 DEF VerdictHandled
<1>5. CASE credited' = [credited EXCEPT ![n] = n]
    <2>1. \A k \in Turns : k > n => entries[k] \in {"absent", "queued"}
        <3>1. \A k \in Turns : entries[k] \in Status  BY DEF Typed, TypeOK
        <3> QED  BY <1>2, <3>1 DEF Latest, Started, Status
    <2>2. Contract!Credit(n)
        BY <1>2, <1>3, <1>5, <2>1
        DEF Contract!Credit, Contract!Started, Contract!Waiting, Contract!Turns, Turns, Latest, Started
    <2> QED  BY <1>2, <2>2 DEF Contract!Next, Contract!Turns, Turns
<1>6. CASE credited' = credited  BY <1>3, <1>6 DEF Contract!vars
<1> QED  BY <1>4, <1>5, <1>6

LEMMA ContractStep ==
    Typed /\ OrderInv /\ TurnExclusion /\ KeyInv /\ PromiseInv /\ [Next]_vars
        => [Contract!Next]_(Contract!vars)
<1> SUFFICES ASSUME Typed, OrderInv, TurnExclusion, KeyInv, PromiseInv, [Next]_vars
             PROVE  Contract!Next \/ UNCHANGED Contract!vars
    OBVIOUS
<1>1. ASSUME NEW n \in Turns, Join(n) PROVE Contract!Next
    BY <1>1, JoinIsJoin DEF Contract!Next, Contract!Turns, Turns
<1>2. CASE VerdictHandled  BY <1>2, CreditImplements
<1>3. CASE /\ ~ (\E e \in Enders : CloseEntry(e) \/ Claim(e)) /\ ~ (\E n \in Turns : Join(n))
           /\ ~ SchedBoot /\ ~ SchedCommit /\ ~ VerdictHandled
    BY <1>3, EntriesStay, CreditsStay DEF Contract!vars
<1> QED
    BY <1>1, <1>2, <1>3, CloseImplements, ClaimImplements, CommitImplements, BootImplements

LEMMA ContractInit == Init => Contract!Init
BY DEF Init, Contract!Init, Contract!Turns, Turns

(* With no message of a turn lost, turns that last less than 33 s and      *)
(* restarts only between two of them, the tasks, messages and timeouts of  *)
(* pi_client.py and schedulers.py are, as far as a player can tell, the    *)
(* steps of TurnContract: for any number of players and turns the claw is  *)
(* handed over in the order of the queue, and a turn's win is credited to  *)
(* it, once, before the next turn starts.                                  *)
THEOREM CoordinatorImplementsContract == Lossless /\ Spec => ImplementsContract
<1>1. CASE Lossless
    <2>1. Orderly /\ Exclusive
        BY <1>1, CoordinatorAssumption DEF Lossless, Orderly, Exclusive
    <2>2. Spec => []OrderInv  BY TypedAlways, OrderInit, OrderStep, PTL DEF Spec
    <2>3. Spec => []KeyInv  BY <1>1, KeyAlways, PTL
    <2>4. Spec => []PromiseInv
        BY <2>1, <2>2, <2>3, PromiseInit, PromiseStep, TypedAlways, ExclusionAlways, GateAlways, PTL
        DEF Spec
    <2> QED
        BY <2>1, <2>2, <2>3, <2>4, ContractInit, ContractStep, TypedAlways, ExclusionAlways, PTL
        DEF Spec, ImplementsContract, Contract!Spec
<1>2. CASE ~ Lossless  BY <1>2
<1> QED  BY <1>1, <1>2

(* TurnContract promises what it should: the claw goes from the first to   *)
(* the next, one at a time, and wins go to turns that were started.        *)
THEOREM ContractKeepsOrder == Contract!Spec => []Contract!InOrder
<1> USE DEF Contract!Turns, Turns, Contract!Started, Contract!Waiting
<1>1. Contract!Init => Contract!InOrder  BY DEF Contract!Init, Contract!InOrder
<1>2. Contract!InOrder /\ [Contract!Next]_(Contract!vars) => Contract!InOrder'
    <2> SUFFICES ASSUME Contract!InOrder, [Contract!Next]_(Contract!vars) PROVE Contract!InOrder'
        OBVIOUS
    <2>1. ASSUME NEW n \in Turns, Contract!Join(n) PROVE Contract!InOrder'
        BY <2>1 DEF Contract!Join, Contract!InOrder
    <2>2. ASSUME NEW n \in Turns, Contract!Start(n) PROVE Contract!InOrder'
        <3>1. /\ credited' = credited
              /\ entries' = [k \in Turns |-> IF k = n THEN "active"
                                ELSE IF entries[k] = "active" THEN "played" ELSE entries[k]]
              /\ \A k \in Turns : k < n => entries[k] \in {"active", "played"}
            BY <2>2 DEF Contract!Start
        <3>2. ASSUME NEW m \in Turns, NEW k \in Turns, k < m, entries'[m] \in {"active", "played"}
              PROVE  entries'[k] = "played"
            <4>1. m = n \/ entries[m] \in {"active", "played"}  BY <3>1, <3>2
            <4>2. n \in Nat /\ k \in Nat /\ k # n
                BY <2>2, <3>1, <3>2, <4>1 DEF Contract!InOrder, Contract!Start
            <4> QED  BY <3>1, <3>2, <4>1, <4>2 DEF Contract!InOrder
        <3> QED  BY <3>1, <3>2 DEF Contract!InOrder
    <2>3. ASSUME NEW n \in Turns, Contract!End(n) PROVE Contract!InOrder'
        BY <2>3 DEF Contract!End, Contract!InOrder
    <2>4. ASSUME NEW n \in Turns, Contract!Credit(n) PROVE Contract!InOrder'
        BY <2>4 DEF Contract!Credit, Contract!InOrder
    <2>5. CASE UNCHANGED Contract!vars  BY <2>5 DEF Contract!vars, Contract!InOrder
    <2> QED  BY <2>1, <2>2, <2>3, <2>4, <2>5 DEF Contract!Next
<1> QED  BY <1>1, <1>2, PTL DEF Contract!Spec
=============================================================================
