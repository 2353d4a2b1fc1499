--------------------------- MODULE CabinetProofs ---------------------------
(***************************************************************************)
(* What module Cabinet promises for any number of tags, restarts and       *)
(* losses of the port, and for lines and queues of any length.             *)
(***************************************************************************)
EXTENDS Cabinet, SequenceTheorems, FiniteSetTheorems, TLAPS

USE CabinetAssumption, NullAssumption

(***************************************************************************)
(* Types.                                                                  *)
(***************************************************************************)
(* A blocked chute has a fault to report: needed for what it answers.      *)
ChuteTyped ==
    /\ phase \in {"ready", "armed", "enrolling", "blocked"} /\ latch \in Faults \cup {Null}
    /\ phase = "blocked" => latch # Null
    /\ fromPi \in Seq(Inbound) /\ toPi \in Seq(Outbound)
    /\ lineOf \in Seq(Marks) /\ Len(lineOf) = Len(fromPi)
    /\ answerOf \in Seq(Marks) /\ Len(answerOf) = Len(toPi)
    /\ armOf \in Marks

PiTyped ==
    /\ link \in {"up", "down"} /\ mirror \in Faults \cup {Null}
    /\ espEvents \in Seq([msg : Outbound, of : Marks]) /\ events \in Seq(Events)
    /\ piState \in {"IDLE", "PULSE", "PLAYING", "ARMING", "AWAITING"}
    /\ tester \in {"none", "waiting"} /\ forwarded \in Marks /\ drains \in BOOLEAN
    /\ restarts \in 0 .. MaxMissed /\ enrolls \in 0 .. MaxMissed /\ linkDrops \in 0 .. MaxLinkDrops

Typed == ChuteTyped /\ PiTyped

(***************************************************************************)
(* With the turn machine that drains its queue, and no restart of the      *)
(* chute: the arms on their way, running and answered are a drop test's at *)
(* most and then a turn's at most.                                         *)
(***************************************************************************)
Dependable == drains /\ restarts = 0
GivenOwn == forwarded \in {"none", "this"}

(* What the chute still has to answer or answers comes before what it is   *)
(* sent later.                                                             *)
Before(a, b) ==
    \/ \E i, j \in 1 .. Len(answerOf) : i < j /\ answerOf[i] = a /\ answerOf[j] = b
    \/ \E i, j \in 1 .. Len(lineOf) : i < j /\ lineOf[i] = a /\ lineOf[j] = b
    \/ b = armOf /\ \E i \in 1 .. Len(answerOf) : answerOf[i] = a
    \/ a = armOf /\ \E j \in 1 .. Len(lineOf) : lineOf[j] = b
    \/ \E i \in 1 .. Len(answerOf), j \in 1 .. Len(lineOf) : answerOf[i] = a /\ lineOf[j] = b

InTurn == \A a, b \in Marks \ {"none"} : Before(a, b) => a = "test" /\ b = "this"

(* What has a mark: an arm, and the verdict or fault that answers it.      *)
Marked ==
    /\ \A i \in 1 .. Len(lineOf) : lineOf[i] # "none" <=> fromPi[i] = "arm"
    /\ armOf # "none" <=> phase = "armed"
    /\ \A i \in 1 .. Len(answerOf) : answerOf[i] # "none" <=> toPi[i].type \in {"verdict", "fault"}

Announced(m) == m.type \in {"ready", "pong"}

OwnAnswer ==
    /\ Settled("old")
    /\ ~ Settled("test") => tester = "waiting"
    /\ ~ Settled("this") => piState = "AWAITING" /\ espEvents = <<>>
    /\ piState = "AWAITING" => \A i \in 1 .. Len(espEvents) : espEvents[i].of = "this"
    /\ piState \in {"PLAYING", "ARMING", "AWAITING"} =>
           \A i \in 1 .. Len(toPi) : ~ Announced(toPi[i])
    /\ GivenOwn

IInv == InTurn /\ Marked /\ OwnAnswer

LEMMA SameMessages ==
    /\ \A f : Esp!Ready(f) = Ready(f)
    /\ \A o, t : Esp!Verdict(o, t) = Verdict(o, t)
    /\ \A f : Esp!StillBlocked(f) = StillBlocked(f)
    /\ Esp!Inbound = Inbound /\ Esp!Outbound = Outbound /\ Esp!Faults = Faults
    /\ Esp!Outcomes = Outcomes /\ Esp!Winning = Winning /\ Esp!Jammed = Jammed
    /\ \A o : Esp!FaultOf(o) = FaultOf(o)
<1>1. /\ \A f : Esp!Ready(f) = Ready(f)
      /\ \A o, t : Esp!Verdict(o, t) = Verdict(o, t)
      /\ \A f : Esp!StillBlocked(f) = StillBlocked(f)
      /\ \A t : Esp!TagScanned(t) = TagScanned(t)
      /\ Esp!Pong = Pong /\ Esp!EnrollTimeout = EnrollTimeout
    BY DEF Esp!Ready, Ready, Esp!Verdict, Verdict, Esp!StillBlocked, StillBlocked,
           Esp!TagScanned, TagScanned, Esp!Pong, Pong, Esp!EnrollTimeout, EnrollTimeout
<1>2. /\ Esp!Inbound = Inbound /\ Esp!Faults = Faults
      /\ Esp!Outcomes = Outcomes /\ Esp!Winning = Winning /\ Esp!Jammed = Jammed
      /\ \A o : Esp!FaultOf(o) = FaultOf(o)
    BY DEF Esp!Inbound, Inbound, Esp!Faults, Faults, Esp!Outcomes, Outcomes, Esp!Winning, Winning,
           Esp!Jammed, Jammed, Esp!FaultOf, FaultOf
<1>3. Esp!Outbound = Outbound
    BY <1>1, <1>2 DEF Esp!Outbound, Outbound
<1> QED  BY <1>1, <1>2, <1>3

LEMMA Messages ==
    /\ \A f \in Faults \cup {Null} : Ready(f) \in Outbound
    /\ \A f \in Faults : StillBlocked(f) \in Outbound
    /\ \A t \in Tags : TagScanned(t) \in Outbound
    /\ EnrollTimeout \in Outbound
    /\ \A o \in Outcomes, t \in Tags \cup {Null} : (t # Null <=> o \in Winning) => Verdict(o, t) \in Outbound
<1>1. ASSUME NEW o \in Outcomes, NEW t \in Tags \cup {Null}, t # Null <=> o \in Winning
      PROVE  Verdict(o, t) \in Outbound
    <2>1. CASE o \in Winning  BY <1>1, <2>1 DEF Outbound
    <2>2. CASE o \notin Winning  BY <1>1, <2>2 DEF Outbound
    <2> QED  BY <2>1, <2>2
<1> QED  BY <1>1 DEF Outbound

LEMMA Fields ==
    ASSUME NEW m \in Outbound
    PROVE  /\ m.type = "ready" => m.fault \in Faults \cup {Null}
           /\ m.type = "fault" => m.kind \in Faults
BY DEF Outbound, Ready, Verdict, StillBlocked, TagScanned, Pong, EnrollTimeout

LEMMA TypedImplies == Typed => TypeOK
<1>1. ChuteTyped => Esp!ContractTypeOK
    BY SameMessages DEF ChuteTyped, Esp!ContractTypeOK, Esp!Phases
<1> QED  BY <1>1 DEF Typed, ChuteTyped, PiTyped, TypeOK

LEMMA LineMoves ==
    ASSUME NEW S, NEW line \in Seq(S)
    PROVE  /\ Len(line) \in Nat /\ (Len(line) = 0 <=> line = <<>>)
           /\ line # <<>> => /\ Tail(line) \in Seq(S) /\ Len(Tail(line)) = Len(line) - 1
                             /\ Head(line) \in S /\ Head(line) = line[1]
                             /\ \A i \in 1 .. Len(line) - 1 : Tail(line)[i] = line[i + 1]
           /\ \A m \in S : /\ Append(line, m) \in Seq(S) /\ Len(Append(line, m)) = Len(line) + 1
                           /\ Append(line, m)[Len(line) + 1] = m
                           /\ \A i \in 1 .. Len(line) : Append(line, m)[i] = line[i]
<1> HIDE CabinetAssumption, NullAssumption
<1> QED  OBVIOUS

(* A line and the marks of its messages lose their first, or get one more. *)
LEMMA Taken ==
    ASSUME NEW S, NEW line \in Seq(S), NEW marks \in Seq(Marks), Len(marks) = Len(line), line # <<>>
    PROVE  /\ marks # <<>> /\ Head(marks) \in Marks
           /\ Tail(line) \in Seq(S) /\ Tail(marks) \in Seq(Marks) /\ Len(Tail(marks)) = Len(Tail(line))
BY LineMoves

LEMMA Put1 ==
    ASSUME NEW S, NEW line \in Seq(S), NEW marks \in Seq(Marks), Len(marks) = Len(line),
           NEW m \in S, NEW mark \in Marks
    PROVE  /\ Append(line, m) \in Seq(S) /\ Append(marks, mark) \in Seq(Marks)
           /\ Len(Append(marks, mark)) = Len(Append(line, m))
BY LineMoves

LEMMA TakesTyped == ChuteTyped /\ ChuteTakesLine => ChuteTyped'
<1> SUFFICES ASSUME ChuteTyped, ChuteTakesLine PROVE ChuteTyped'  OBVIOUS
<1>1. fromPi # <<>> /\ fromPi' = Tail(fromPi) /\ lineOf' = Tail(lineOf)
    BY DEF ChuteTakesLine, Esp!AcceptArm, Esp!RefuseArm, Esp!StartEnroll, Esp!ClearLatch,
           Esp!IgnoreLine, Esp!Take
<1>2. /\ Head(lineOf) \in Marks
      /\ fromPi' \in Seq(Inbound) /\ lineOf' \in Seq(Marks) /\ Len(lineOf') = Len(fromPi')
    BY <1>1, Taken DEF ChuteTyped
<1>3. /\ phase' \in {"ready", "armed", "enrolling", "blocked"} /\ latch' \in Faults \cup {Null}
      /\ phase' = "blocked" => latch' # Null
    BY DEF ChuteTyped, ChuteTakesLine, Esp!AcceptArm, Esp!RefuseArm, Esp!StartEnroll,
           Esp!ClearLatch, Esp!IgnoreLine
<1>4. CASE Esp!RefuseArm /\ answerOf' = Append(answerOf, Head(lineOf)) /\ armOf' = armOf
    <2>1. toPi' = Append(toPi, StillBlocked(latch)) /\ phase = "blocked"
        BY <1>4, SameMessages DEF Esp!RefuseArm, Esp!Emit
    <2>2. StillBlocked(latch) \in Outbound  BY <2>1, Messages DEF ChuteTyped
    <2>3. toPi' \in Seq(Outbound) /\ answerOf' \in Seq(Marks) /\ Len(answerOf') = Len(toPi')
        BY <1>2, <1>4, <2>1, <2>2, Put1 DEF ChuteTyped
    <2> QED  BY <1>2, <1>3, <1>4, <2>3 DEF ChuteTyped
<1>5. CASE toPi' = toPi /\ answerOf' = answerOf /\ armOf' \in {armOf, Head(lineOf)}
    BY <1>2, <1>3, <1>5 DEF ChuteTyped
<1> QED
    BY <1>4, <1>5
    DEF ChuteTakesLine, Esp!AcceptArm, Esp!StartEnroll, Esp!ClearLatch, Esp!IgnoreLine

LEMMA SpeaksTyped == ChuteTyped /\ (ChuteReports \/ EnrollmentEnds \/ ChuteRestarts) => ChuteTyped'
<1> SUFFICES ASSUME ChuteTyped, ChuteReports \/ EnrollmentEnds \/ ChuteRestarts PROVE ChuteTyped'
    OBVIOUS
<1> USE SameMessages
<1>1. CASE ChuteReports
    <2>1. PICK o \in Outcomes, t \in Tags \cup {Null} : Esp!Report(o, t)
        BY <1>1 DEF ChuteReports
    <2>2. /\ t # Null <=> o \in Winning
          /\ toPi' = Append(toPi, Verdict(o, t)) /\ fromPi' = fromPi
          /\ phase' = IF o \in Jammed THEN "blocked" ELSE "ready"
          /\ latch' = IF o \in Jammed THEN FaultOf(o) ELSE Null
        BY <2>1 DEF Esp!Report, Esp!Emit
    <2>3. answerOf' = Append(answerOf, armOf) /\ armOf' = "none" /\ lineOf' = lineOf
        BY <1>1 DEF ChuteReports
    <2>4. Verdict(o, t) \in Outbound  BY <2>2, Messages
    <2>5. toPi' \in Seq(Outbound) /\ answerOf' \in Seq(Marks) /\ Len(answerOf') = Len(toPi')
        BY <2>2, <2>3, <2>4, Put1 DEF ChuteTyped
    <2>6. FaultOf(o) \in Faults  BY DEF FaultOf, Faults
    <2> QED  BY <2>2, <2>3, <2>5, <2>6 DEF ChuteTyped, Marks
<1>2. CASE EnrollmentEnds
    <2>1. PICK m \in Outbound : Esp!FinishEnroll(m)
        <3>1. EnrollTimeout \in Outbound /\ \A t \in Tags : TagScanned(t) \in Outbound
            BY Messages
        <3> QED  BY <1>2, <3>1 DEF EnrollmentEnds
    <2>2. phase' = "ready" /\ toPi' = Append(toPi, m) /\ latch' = latch /\ fromPi' = fromPi
        BY <2>1 DEF Esp!FinishEnroll, Esp!Emit
    <2>3. answerOf' = Append(answerOf, "none") /\ armOf' = armOf /\ lineOf' = lineOf /\ "none" \in Marks
        BY <1>2 DEF EnrollmentEnds, Marks
    <2>4. toPi' \in Seq(Outbound) /\ answerOf' \in Seq(Marks) /\ Len(answerOf') = Len(toPi')
        BY <2>2, <2>3, Put1 DEF ChuteTyped
    <2> QED  BY <2>2, <2>3, <2>4 DEF ChuteTyped
<1>3. CASE ChuteRestarts
    <2>1. /\ phase' = "ready" /\ latch' = Null /\ fromPi' = <<>> /\ lineOf' = <<>> /\ armOf' = "none"
          /\ toPi' = Append(toPi, Ready(Null)) /\ answerOf' = Append(answerOf, "none")
        BY <1>3 DEF ChuteRestarts, Esp!Restart, Esp!Emit
    <2>2. Ready(Null) \in Outbound /\ "none" \in Marks  BY Messages DEF Marks
    <2>3. toPi' \in Seq(Outbound) /\ answerOf' \in Seq(Marks) /\ Len(answerOf') = Len(toPi')
        BY <2>1, <2>2, Put1 DEF ChuteTyped
    <2>4. fromPi' \in Seq(Inbound) /\ lineOf' \in Seq(Marks) /\ Len(lineOf') = Len(fromPi')
        BY <2>1
    <2> QED  BY <2>1, <2>2, <2>3, <2>4 DEF ChuteTyped
<1> QED  BY <1>1, <1>2, <1>3

(* The Pi's end of the serial line.                                        *)
LEMMA ReadTyped ==
    ASSUME ChuteTyped, TakeLine, UNCHANGED <<lineOf, armOf>>
    PROVE  ChuteTyped' /\ toPi # <<>> /\ Head(toPi) \in Outbound /\ Head(answerOf) \in Marks
<1>1. /\ toPi # <<>> /\ toPi' = Tail(toPi) /\ answerOf' = Tail(answerOf)
      /\ UNCHANGED <<phase, latch, fromPi, lineOf, armOf>>
    BY DEF TakeLine, Esp!PiReads
<1>2. /\ toPi' \in Seq(Outbound) /\ answerOf' \in Seq(Marks) /\ Len(answerOf') = Len(toPi')
      /\ Head(answerOf) \in Marks /\ Head(toPi) \in Outbound
    BY <1>1, Taken, LineMoves DEF ChuteTyped
<1> QED  BY <1>1, <1>2 DEF ChuteTyped

LEMMA SendTyped ==
    ASSUME ChuteTyped, NEW line \in Inbound, NEW mark \in Marks, Send(line, mark),
           UNCHANGED <<armOf, answerOf>>
    PROVE  ChuteTyped'
<1>1. CASE link = "up"
    <2>1. /\ fromPi' = Append(fromPi, line) /\ lineOf' = Append(lineOf, mark)
          /\ UNCHANGED <<phase, latch, toPi, armOf, answerOf>>
        BY <1>1 DEF Send, Esp!PiWrites
    <2>2. fromPi' \in Seq(Inbound) /\ lineOf' \in Seq(Marks) /\ Len(lineOf') = Len(fromPi')
        BY <2>1, Put1 DEF ChuteTyped
    <2> QED  BY <2>1, <2>2 DEF ChuteTyped
<1>2. CASE link # "up"
    BY <1>2 DEF Send, ChuteTyped
<1> QED  BY <1>1, <1>2

LEMMA AgedTyped ==
    ASSUME NEW marks \in Seq(Marks)
    PROVE  Aged(marks) \in Seq(Marks) /\ Len(Aged(marks)) = Len(marks)
<1>1. DOMAIN marks = 1 .. Len(marks) /\ Len(marks) \in Nat  BY LenProperties
<1>2. \A i \in 1 .. Len(marks) : marks[i] \in Marks  BY ElementOfSeq
<1>3. Aged(marks) \in [1 .. Len(marks) -> Marks]  BY <1>1, <1>2 DEF Aged, Marks
<1>4. Aged(marks) \in Seq(Marks)  BY <1>1, <1>3, SeqDef
<1>5. DOMAIN Aged(marks) = 1 .. Len(marks)  BY <1>3
<1>6. Len(Aged(marks)) \in Nat /\ DOMAIN Aged(marks) = 1 .. Len(Aged(marks))
    BY <1>4, LenProperties
<1> QED  BY <1>1, <1>4, <1>5, <1>6

LEMMA ArmTyped == ChuteTyped /\ SendArm => ChuteTyped'
<1> SUFFICES ASSUME ChuteTyped, SendArm PROVE ChuteTyped'  OBVIOUS
<1>1. /\ Aged(lineOf) \in Seq(Marks) /\ Len(Aged(lineOf)) = Len(lineOf)
      /\ answerOf' \in Seq(Marks) /\ Len(answerOf') = Len(answerOf)
    BY AgedTyped DEF ChuteTyped, SendArm
<1>2. UNCHANGED <<phase, latch, toPi>> /\ armOf' \in Marks
    BY DEF ChuteTyped, SendArm, Esp!PiWrites, Marks
<1>3. CASE link = "up"
    <2>1. fromPi' = Append(fromPi, "arm") /\ lineOf' = Append(Aged(lineOf), "this")
        BY <1>3 DEF SendArm, Esp!PiWrites
    <2>2. "arm" \in Inbound /\ "this" \in Marks  BY DEF Inbound, Marks
    <2>3. fromPi' \in Seq(Inbound) /\ lineOf' \in Seq(Marks) /\ Len(lineOf') = Len(fromPi')
        BY <1>1, <2>1, <2>2, Put1 DEF ChuteTyped
    <2> QED  BY <1>1, <1>2, <2>3 DEF ChuteTyped
<1>4. CASE link # "up"
    <2>1. fromPi' = fromPi /\ lineOf' = Aged(lineOf)  BY <1>4 DEF SendArm
    <2> QED  BY <1>1, <1>2, <2>1 DEF ChuteTyped
<1> QED  BY <1>3, <1>4

LEMMA KeptTyped ==
    ASSUME PiTyped
    PROVE  Kept \in Seq([msg : Outbound, of : Marks])
<1> DEFINE S == [msg : Outbound, of : Marks]
           n == Len(espEvents)
<1>1. espEvents \in Seq(S)  BY DEF PiTyped
<1>2. n \in Nat /\ DOMAIN espEvents = 1 .. n /\ \A i \in 1 .. n : espEvents[i] \in S
    BY <1>1, LenProperties, ElementOfSeq
<1>3. \A q \in S : [q EXCEPT !.of = IF @ = "this" THEN "old" ELSE @] \in S  BY DEF Marks
<1>4. AgedQueue(espEvents) \in [1 .. n -> S]
    <2> HIDE DEF S, n
    <2> QED  BY <1>2, <1>3 DEF AgedQueue
<1>5. AgedQueue(espEvents) \in Seq(S)
    <2>1. n \in Nat  BY <1>2
    <2> HIDE DEF S, n
    <2> QED  BY <1>4, <2>1, SeqDef
<1>6. <<>> \in Seq(S)  OBVIOUS
<1> QED  BY <1>5, <1>6 DEF Kept

LEMMA PiTypes == Typed /\ [Next]_vars => PiTyped'
<1> SUFFICES ASSUME Typed, [Next]_vars PROVE PiTyped'  OBVIOUS
<1>0. PiTyped  BY DEF Typed
<1> USE DEF linkVars, turnVars
<1>1. CASE ChuteTakesLine \/ ChuteReports \/ EnrollmentEnds \/ LineLost \/ OnEnroll
    BY <1>0, <1>1 DEF ChuteTakesLine, ChuteReports, EnrollmentEnds, LineLost, OnEnroll, PiTyped
<1>2. CASE ChuteRestarts
    BY <1>0, <1>2 DEF ChuteRestarts, PiTyped
<1>3. CASE ReadLine
    <2> DEFINE m == Head(toPi)
               captured == tester = "waiting" /\ m.type \in {"verdict", "fault"}
               q == [msg |-> m, of |-> Head(answerOf)]
    <2>1. /\ mirror' = MirrorOf(m)
          /\ tester' = IF captured THEN "none" ELSE tester
          /\ espEvents' = espEvents \/ espEvents' = Append(espEvents, q)
          /\ UNCHANGED <<link, linkDrops, events, piState, forwarded, restarts, enrolls, drains>>
        BY <1>3 DEF ReadLine
    <2>2. m \in Outbound /\ Head(answerOf) \in Marks
        BY <1>3, ReadTyped DEF ReadLine, Typed
    <2>3. mirror' \in Faults \cup {Null}  BY <1>0, <2>1, <2>2, Fields DEF MirrorOf, PiTyped
    <2>4. espEvents' \in Seq([msg : Outbound, of : Marks])
        <3> DEFINE S == [msg : Outbound, of : Marks]
        <3>1. q \in S /\ espEvents \in Seq(S)  BY <1>0, <2>2 DEF PiTyped
        <3>2. espEvents' = espEvents \/ espEvents' = Append(espEvents, q)  BY <2>1
        <3> HIDE DEF q, S
        <3>3. espEvents' \in Seq(S)  BY <3>1, <3>2, LineMoves
        <3> QED  BY <3>3 DEF S
    <2> QED  BY <1>0, <2>1, <2>3, <2>4 DEF PiTyped
<1>4. CASE LinkDrops \/ LinkReturns
    BY <1>0, <1>4 DEF LinkDrops, LinkReturns, PiTyped
<1>5. ASSUME NEW ev \in Events, Put(ev) PROVE PiTyped'
    <2>1. events' = Append(events, ev)
          /\ UNCHANGED <<link, mirror, espEvents, piState, tester, forwarded, restarts, enrolls, drains, linkDrops>>
        BY <1>5 DEF Put
    <2>2. events' \in Seq(Events)  BY <1>0, <2>1, LineMoves DEF PiTyped
    <2> QED  BY <1>0, <2>1, <2>2 DEF PiTyped
<1>6. CASE CentralAsks \/ OptoEdge
    BY <1>5, <1>6 DEF CentralAsks, OptoEdge, Events
<1>7. CASE OnTestArm \/ TestTimesOut
    BY <1>0, <1>7 DEF OnTestArm, TestTimesOut, PiTyped
<1>8. ASSUME NEW ev, GetEvent(ev) PROVE events' \in Seq(Events)
    BY <1>0, <1>8, LineMoves DEF GetEvent, PiTyped
<1>9. CASE IdleClear
    <2>1. events' \in Seq(Events)  BY <1>8, <1>9 DEF IdleClear
    <2> QED  BY <1>0, <1>9, <2>1 DEF IdleClear, PiTyped
<1>10. CASE IdleDrop \/ StartTurn \/ PlayDrop \/ OptoFires
    <2>1. events' \in Seq(Events)  BY <1>8, <1>10 DEF IdleDrop, StartTurn, PlayDrop, OptoFires
    <2>2. /\ piState' \in {"IDLE", "PULSE", "PLAYING", "ARMING", "AWAITING"}
          /\ forwarded' \in Marks
          /\ UNCHANGED <<link, mirror, espEvents, tester, restarts, enrolls, drains, linkDrops>>
        BY <1>0, <1>10 DEF IdleDrop, StartTurn, PlayDrop, OptoFires, PiTyped, Marks
    <2> QED  BY <1>0, <2>1, <2>2 DEF PiTyped
<1>11. CASE PulseEnds \/ AnswerTimesOut
    BY <1>0, <1>11 DEF PulseEnds, AnswerTimesOut, PiTyped
<1>12. CASE SendArm
    BY <1>0, <1>12, KeptTyped DEF SendArm, PiTyped
<1>13. CASE TakeAnswer
    <2>1. /\ espEvents' = Tail(espEvents) /\ espEvents # <<>> /\ piState' = "IDLE"
          /\ forwarded' \in {Head(espEvents).of, "none"}
          /\ UNCHANGED <<link, mirror, events, tester, restarts, enrolls, drains, linkDrops>>
        BY <1>13 DEF TakeAnswer
    <2>2. Head(espEvents) \in [msg : Outbound, of : Marks]
          /\ espEvents' \in Seq([msg : Outbound, of : Marks])
        BY <1>0, <2>1, LineMoves DEF PiTyped
    <2> QED  BY <1>0, <2>1, <2>2 DEF PiTyped, Marks
<1>14. CASE UNCHANGED vars  BY <1>0, <1>14 DEF vars, PiTyped
<1> QED
    BY <1>1, <1>2, <1>3, <1>4, <1>6, <1>7, <1>9, <1>10, <1>11, <1>12, <1>13, <1>14
    DEF Next, Machine

LEMMA ChuteTypesHold == Typed /\ [Next]_vars => ChuteTyped'
<1> SUFFICES ASSUME Typed, [Next]_vars PROVE ChuteTyped'  OBVIOUS
<1>0. ChuteTyped  BY DEF Typed
<1>1. CASE ChuteTakesLine  BY <1>0, <1>1, TakesTyped
<1>2. CASE ChuteReports \/ EnrollmentEnds \/ ChuteRestarts  BY <1>0, <1>2, SpeaksTyped
<1>3. CASE ReadLine \/ LineLost  BY <1>0, <1>3, ReadTyped DEF ReadLine, LineLost
<1>4. CASE LinkDrops
    <2>1. toPi' = <<>> /\ answerOf' = <<>> /\ UNCHANGED <<phase, latch, fromPi, lineOf, armOf>>
        BY <1>4 DEF LinkDrops
    <2>2. toPi' \in Seq(Outbound) /\ answerOf' \in Seq(Marks) /\ Len(answerOf') = Len(toPi')
        BY <2>1
    <2> QED  BY <1>0, <2>1, <2>2 DEF ChuteTyped
<1>5. CASE OnEnroll \/ OnTestArm \/ IdleClear
    <2>1. /\ "enroll" \in Inbound /\ "arm" \in Inbound /\ "fault_clear" \in Inbound
          /\ "none" \in Marks /\ "test" \in Marks
        BY DEF Inbound, Marks
    <2> QED  BY <1>0, <1>5, <2>1, SendTyped DEF OnEnroll, OnTestArm, IdleClear
<1>6. CASE SendArm  BY <1>0, <1>6, ArmTyped
<1>7. CASE UNCHANGED chuteVars  BY <1>0, <1>7 DEF chuteVars, ChuteTyped
<1> QED
    BY <1>1, <1>2, <1>3, <1>4, <1>5, <1>6, <1>7
    DEF Next, Machine, LinkReturns, CentralAsks, OptoEdge, Put, TestTimesOut, IdleDrop, StartTurn,
        PulseEnds, PlayDrop, OptoFires, TakeAnswer, AnswerTimesOut, vars

LEMMA TypedStep == Typed /\ [Next]_vars => Typed'
BY PiTypes, ChuteTypesHold DEF Typed

LEMMA TypedInit == Init => Typed
<1> SUFFICES ASSUME Init PROVE Typed  OBVIOUS
<1>1. /\ phase = "ready" /\ latch = Null /\ fromPi = <<>> /\ toPi = <<Ready(Null)>>
      /\ lineOf = <<>> /\ answerOf = <<"none">> /\ armOf = "none"
    BY SameMessages DEF Init, Esp!Init
<1>2. Ready(Null) \in Outbound /\ "none" \in Marks  BY Messages DEF Marks
<1>3. ChuteTyped  BY <1>1, <1>2 DEF ChuteTyped
<1>4. PiTyped  BY DEF Init, PiTyped, Marks
<1> QED  BY <1>3, <1>4 DEF Typed

LEMMA TypedAlways == Spec => []Typed
<1>1. Init => Typed  BY TypedInit
<1>2. Typed /\ [Next]_vars => Typed'  BY TypedStep
<1> QED  BY <1>1, <1>2, PTL DEF Spec

(* The Pi's and the chute's variables keep their types, and every message  *)
(* has its mark: a refusal carries the fault that latched the chute, the   *)
(* mirror (esp_link.py) is a fault or nothing.                             *)
THEOREM TypeCorrect == Spec => []TypeOK
<1>1. Typed => TypeOK  BY TypedImplies
<1> QED  BY <1>1, TypedAlways, PTL

(***************************************************************************)
(* Counting the messages of a line.                                        *)
(***************************************************************************)
Places(line, S) == {i \in 1 .. Len(line) : line[i] \in S}

LEMMA CountType ==
    ASSUME NEW T, NEW line \in Seq(T), NEW S
    PROVE  IsFiniteSet(Places(line, S)) /\ Count(line, S) \in Nat
<1>1. Len(line) \in Nat  BY LineMoves
<1>2. IsFiniteSet(1 .. Len(line))  BY <1>1, FS_Interval
<1>3. Places(line, S) \in SUBSET (1 .. Len(line))  BY DEF Places
<1>4. IsFiniteSet(Places(line, S))  BY <1>2, <1>3, FS_Subset
<1>5. Cardinality(Places(line, S)) \in Nat  BY <1>4, FS_CardinalityType
<1> QED  BY <1>4, <1>5 DEF Count, Places

LEMMA CountNone == \A S : Count(<<>>, S) = 0
<1>1. ASSUME NEW S PROVE {i \in 1 .. Len(<<>>) : <<>>[i] \in S} = {}
    <2>1. Len(<<>>) = 0  OBVIOUS
    <2> QED  BY <2>1
<1> QED  BY <1>1, FS_EmptySet DEF Count

LEMMA CountPut ==
    ASSUME NEW T, NEW line \in Seq(T), NEW m \in T, NEW S
    PROVE  Count(Append(line, m), S) = Count(line, S) + (IF m \in S THEN 1 ELSE 0)
<1> DEFINE n == Len(line) + 1
           longer == Append(line, m)
<1>1. /\ Len(line) \in Nat /\ Len(longer) = n /\ longer[n] = m /\ n \notin 1 .. Len(line)
      /\ 1 .. n = (1 .. Len(line)) \cup {n}
      /\ \A i \in 1 .. Len(line) : longer[i] = line[i]
    BY LineMoves
<1> HIDE DEF n, longer
<1>2. IsFiniteSet(Places(line, S)) /\ Cardinality(Places(line, S)) = Count(line, S)
      /\ Count(line, S) \in Nat
    BY CountType DEF Count, Places
<1>3. Places(longer, S) = IF m \in S THEN Places(line, S) \cup {n} ELSE Places(line, S)
    BY <1>1 DEF Places
<1>4. n \notin Places(line, S)  BY <1>1 DEF Places
<1>5. Cardinality(Places(line, S) \cup {n}) = Count(line, S) + 1
    BY <1>2, <1>4, FS_AddElement
<1>6. Count(longer, S) = Cardinality(Places(longer, S))  BY DEF Count, Places
<1> QED  BY <1>2, <1>3, <1>5, <1>6 DEF longer

LEMMA CountTaken ==
    ASSUME NEW T, NEW line \in Seq(T), line # <<>>, NEW S
    PROVE  Count(Tail(line), S) = Count(line, S) - (IF Head(line) \in S THEN 1 ELSE 0)
<1> DEFINE rest == Tail(line)
           behind == [i \in Places(rest, S) |-> i + 1]
           moved == Places(line, S) \ {1}
<1>1. /\ Len(line) \in Nat \ {0} /\ rest \in Seq(T) /\ Len(rest) = Len(line) - 1 /\ Head(line) = line[1]
      /\ \A i \in 1 .. Len(rest) : rest[i] = line[i + 1]
    BY LineMoves
<1> HIDE DEF rest
<1>2. /\ IsFiniteSet(Places(rest, S)) /\ Cardinality(Places(rest, S)) = Count(rest, S)
      /\ Count(rest, S) \in Nat
      /\ IsFiniteSet(Places(line, S)) /\ Cardinality(Places(line, S)) = Count(line, S)
      /\ Count(line, S) \in Nat
    <2>1. IsFiniteSet(Places(rest, S)) /\ Count(rest, S) \in Nat  BY <1>1, CountType
    <2>2. IsFiniteSet(Places(line, S)) /\ Count(line, S) \in Nat  BY CountType
    <2>3. \A l : Cardinality(Places(l, S)) = Count(l, S)  BY DEF Count, Places
    <2> QED  BY <2>1, <2>2, <2>3
<1>3. behind \in Bijection(Places(rest, S), moved)
    <2>1. ASSUME NEW i \in Places(rest, S) PROVE i \in Nat /\ i + 1 \in moved
        <3>1. i \in 1 .. Len(rest) /\ rest[i] \in S  BY DEF Places
        <3>2. i \in Nat /\ i + 1 \in 1 .. Len(line) /\ i + 1 # 1  BY <1>1, <3>1
        <3>3. line[i + 1] \in S  BY <1>1, <3>1
        <3> QED  BY <3>2, <3>3 DEF Places
    <2>2. \A j \in moved : j - 1 \in Places(rest, S) /\ behind[j - 1] = j
        <3> SUFFICES ASSUME NEW j \in moved PROVE j - 1 \in Places(rest, S) /\ behind[j - 1] = j
            OBVIOUS
        <3>1. j \in 2 .. Len(line) /\ line[j] \in S  BY <1>1 DEF Places
        <3>2. j - 1 \in 1 .. Len(rest) /\ (j - 1) + 1 = j  BY <1>1, <3>1
        <3>3. j - 1 \in Places(rest, S)  BY <1>1, <3>1, <3>2 DEF Places
        <3> QED  BY <3>2, <3>3
    <2>3. behind \in [Places(rest, S) -> moved]  BY <2>1
    <2>4. \A a, b \in Places(rest, S) : behind[a] = behind[b] => a = b  BY <2>1
    <2> HIDE DEF behind, moved
    <2> QED  BY <2>2, <2>3, <2>4 DEF Bijection, Injection, Surjection, IsInjective
<1>4. Cardinality(moved) = Count(rest, S)
    <2>1. ExistsBijection(Places(rest, S), moved)  BY <1>3 DEF ExistsBijection
    <2> HIDE DEF moved
    <2> QED  BY <1>2, <2>1, FS_Bijection
<1>5. Cardinality(moved) = IF 1 \in Places(line, S) THEN Count(line, S) - 1 ELSE Count(line, S)
    BY <1>2, FS_RemoveElement
<1>6. 1 \in Places(line, S) <=> Head(line) \in S  BY <1>1 DEF Places
<1> QED  BY <1>2, <1>4, <1>5, <1>6 DEF rest

LEMMA CountSome ==
    ASSUME NEW T, NEW line \in Seq(T), NEW S, NEW i \in 1 .. Len(line), line[i] \in S
    PROVE  /\ Count(line, S) >= 1
           /\ \A j \in 1 .. Len(line) : j # i /\ line[j] \in S => Count(line, S) >= 2
<1>1. /\ IsFiniteSet(Places(line, S)) /\ Cardinality(Places(line, S)) = Count(line, S)
      /\ Count(line, S) \in Nat
    BY CountType DEF Count, Places
<1>2. i \in Places(line, S)  BY DEF Places
<1> DEFINE others == Places(line, S) \ {i}
<1>3. IsFiniteSet(others) /\ Cardinality(others) = Count(line, S) - 1
    BY <1>1, <1>2, FS_RemoveElement
<1>4. Cardinality(others) \in Nat  BY <1>3, FS_CardinalityType
<1>5. ASSUME NEW j \in 1 .. Len(line), j # i, line[j] \in S PROVE Count(line, S) >= 2
    <2>1. j \in others  BY <1>5 DEF Places
    <2>2. Cardinality(others) # 0  BY <1>3, <2>1, FS_EmptySet
    <2> QED  BY <1>1, <1>3, <1>4, <2>2
<1> QED  BY <1>1, <1>3, <1>4, <1>5
(***************************************************************************)
(* Marks move from the line to the running arm to the answers.             *)
(***************************************************************************)
Within(mark) ==
    \/ mark = armOf
    \/ \E i \in 1 .. Len(lineOf) : lineOf[i] = mark
    \/ \E i \in 1 .. Len(answerOf) : answerOf[i] = mark
NothingNew == \A mark \in {"old", "test", "this"} : Within(mark)' => Within(mark)
NothingSwapped == \A a, b \in Marks \ {"none"} : Before(a, b)' => Before(a, b)

LEMMA SettledIs ==
    ASSUME lineOf \in Seq(Marks), answerOf \in Seq(Marks)
    PROVE  \A mark : Settled(mark) <=> ~ Within(mark)
<1>1. DOMAIN lineOf = 1 .. Len(lineOf) /\ DOMAIN answerOf = 1 .. Len(answerOf)
    BY LenProperties
<1> QED  BY <1>1 DEF Settled, Within

LEMMA SettledAgain ==
    ASSUME Typed'
    PROVE  \A mark : Settled(mark)' <=> ~ Within(mark)'
<1>1. lineOf' \in Seq(Marks) /\ answerOf' \in Seq(Marks)  BY DEF Typed, ChuteTyped
<1>2. DOMAIN lineOf' = 1 .. Len(lineOf') /\ DOMAIN answerOf' = 1 .. Len(answerOf')
    BY <1>1, LenProperties
<1> QED  BY <1>2 DEF Settled, Within

LEMMA HeadLeaves ==
    ASSUME NEW line \in Seq(Marks), line # <<>>
    PROVE  /\ Len(line) \in Nat /\ 1 \in 1 .. Len(line) /\ Head(line) = line[1]
           /\ Len(Tail(line)) = Len(line) - 1
           /\ \A i \in 1 .. Len(Tail(line)) : i + 1 \in 1 .. Len(line) /\ Tail(line)[i] = line[i + 1]
BY LineMoves

LEMMA AcceptMoves ==
    ASSUME Typed, Marked, ChuteTakesLine, Esp!AcceptArm, armOf' = Head(lineOf), answerOf' = answerOf
    PROVE  Marked' /\ NothingNew /\ NothingSwapped
<1>1. /\ fromPi # <<>> /\ Head(fromPi) = "arm" /\ fromPi' = Tail(fromPi) /\ lineOf' = Tail(lineOf)
      /\ phase = "ready" /\ phase' = "armed" /\ toPi' = toPi
    BY DEF ChuteTakesLine, Esp!AcceptArm, Esp!Take
<1>2. /\ lineOf \in Seq(Marks) /\ fromPi \in Seq(Inbound) /\ Len(lineOf) = Len(fromPi)
      /\ lineOf # <<>>
    BY <1>1, Taken DEF Typed, ChuteTyped
<1>3. /\ Len(lineOf) \in Nat /\ 1 \in 1 .. Len(lineOf) /\ Len(lineOf') = Len(lineOf) - 1
      /\ armOf' = lineOf[1] /\ fromPi[1] = "arm"
      /\ \A i \in 1 .. Len(lineOf') :
            /\ i + 1 \in 1 .. Len(lineOf) /\ i < i + 1 /\ lineOf'[i] = lineOf[i + 1]
            /\ fromPi'[i] = fromPi[i + 1]
    <2>1. \A i \in 1 .. Len(fromPi) - 1 : Tail(fromPi)[i] = fromPi[i + 1]  BY <1>1, <1>2, LineMoves
    <2>2. Head(fromPi) = fromPi[1]  BY <1>1, <1>2, LineMoves
    <2> QED  BY <1>1, <1>2, <2>1, <2>2, HeadLeaves
<1>4. armOf = "none" /\ armOf' # "none"  BY <1>1, <1>3 DEF Marked
<1>5. NothingSwapped
    <2> SUFFICES ASSUME NEW a \in Marks \ {"none"}, NEW b \in Marks \ {"none"}, Before(a, b)'
                 PROVE  Before(a, b)
        BY DEF NothingSwapped
    <2>1. CASE \E i, j \in 1 .. Len(answerOf) : i < j /\ answerOf[i] = a /\ answerOf[j] = b
        BY <2>1 DEF Before
    <2>2. CASE \E i, j \in 1 .. Len(lineOf') : i < j /\ lineOf'[i] = a /\ lineOf'[j] = b
        <3>1. PICK i, j \in 1 .. Len(lineOf') : i < j /\ lineOf'[i] = a /\ lineOf'[j] = b
            BY <2>2
        <3>2. i + 1 \in 1 .. Len(lineOf) /\ j + 1 \in 1 .. Len(lineOf) /\ i + 1 < j + 1
            BY <1>3, <3>1
        <3>3. lineOf[i + 1] = a /\ lineOf[j + 1] = b  BY <1>3, <3>1
        <3> QED  BY <3>2, <3>3 DEF Before
    <2>3. CASE b = armOf' /\ \E i \in 1 .. Len(answerOf) : answerOf[i] = a
        BY <1>3, <2>3 DEF Before
    <2>4. CASE a = armOf' /\ \E j \in 1 .. Len(lineOf') : lineOf'[j] = b
        <3>1. PICK j \in 1 .. Len(lineOf') : lineOf'[j] = b  BY <2>4
        <3>2. j + 1 \in 1 .. Len(lineOf) /\ 1 < j + 1 /\ lineOf[j + 1] = b /\ lineOf[1] = a
            BY <1>3, <2>4, <3>1
        <3> QED  BY <1>3, <3>2 DEF Before
    <2>5. CASE \E i \in 1 .. Len(answerOf), j \in 1 .. Len(lineOf') : answerOf[i] = a /\ lineOf'[j] = b
        <3>1. PICK i \in 1 .. Len(answerOf), j \in 1 .. Len(lineOf') : answerOf[i] = a /\ lineOf'[j] = b
            BY <2>5
        <3>2. j + 1 \in 1 .. Len(lineOf) /\ lineOf[j + 1] = b  BY <1>3, <3>1
        <3> QED  BY <3>1, <3>2 DEF Before
    <2> QED  BY <2>1, <2>2, <2>3, <2>4, <2>5 DEF Before
<1>6. Marked'
    <2>1. \A i \in 1 .. Len(lineOf') : lineOf'[i] # "none" <=> fromPi'[i] = "arm"
        BY <1>3 DEF Marked
    <2> QED  BY <1>1, <1>4, <2>1 DEF Marked
<1>7. NothingNew  BY <1>3 DEF NothingNew, Within
<1> QED  BY <1>5, <1>6, <1>7

LEMMA RefuseMoves ==
    ASSUME Typed, Marked, ChuteTakesLine, Esp!RefuseArm, answerOf' = Append(answerOf, Head(lineOf)),
           armOf' = armOf
    PROVE  /\ Marked' /\ NothingNew /\ NothingSwapped
           /\ \A i \in 1 .. Len(toPi') : Announced(toPi'[i]) => i \in 1 .. Len(toPi) /\ Announced(toPi[i])
<1>1. /\ fromPi # <<>> /\ Head(fromPi) = "arm" /\ fromPi' = Tail(fromPi) /\ lineOf' = Tail(lineOf)
      /\ phase = "blocked" /\ phase' = phase /\ toPi' = Append(toPi, StillBlocked(latch))
    BY SameMessages DEF ChuteTakesLine, Esp!RefuseArm, Esp!Take, Esp!Emit
<1>2. /\ lineOf \in Seq(Marks) /\ fromPi \in Seq(Inbound) /\ Len(lineOf) = Len(fromPi)
      /\ answerOf \in Seq(Marks) /\ toPi \in Seq(Outbound) /\ Len(answerOf) = Len(toPi)
      /\ lineOf # <<>> /\ Head(lineOf) \in Marks
    BY <1>1, Taken DEF Typed, ChuteTyped
<1>3. /\ Len(lineOf) \in Nat /\ 1 \in 1 .. Len(lineOf) /\ Len(lineOf') = Len(lineOf) - 1
      /\ Head(lineOf) = lineOf[1] /\ fromPi[1] = "arm"
      /\ \A i \in 1 .. Len(lineOf') :
            /\ i + 1 \in 1 .. Len(lineOf) /\ 1 < i + 1 /\ lineOf'[i] = lineOf[i + 1]
            /\ fromPi'[i] = fromPi[i + 1]
    <2>1. \A i \in 1 .. Len(fromPi) - 1 : Tail(fromPi)[i] = fromPi[i + 1]  BY <1>1, <1>2, LineMoves
    <2>2. Head(fromPi) = fromPi[1]  BY <1>1, <1>2, LineMoves
    <2> QED  BY <1>1, <1>2, <2>1, <2>2, HeadLeaves
<1>4. /\ Len(answerOf) \in Nat /\ Len(answerOf') = Len(answerOf) + 1 /\ Len(toPi') = Len(toPi) + 1
      /\ answerOf'[Len(answerOf) + 1] = lineOf[1] /\ toPi'[Len(answerOf) + 1].type = "fault"
      /\ \A i \in 1 .. Len(answerOf) : answerOf'[i] = answerOf[i] /\ toPi'[i] = toPi[i]
    <2>1. StillBlocked(latch) \in Outbound
        BY <1>1, Messages DEF Typed, ChuteTyped
    <2>2. StillBlocked(latch).type = "fault"  BY DEF StillBlocked
    <2> QED  BY <1>1, <1>2, <1>3, <2>1, <2>2, LineMoves
<1>5. armOf = "none"  BY <1>1 DEF Marked
<1>6. \A i \in 1 .. Len(answerOf') : i \in 1 .. Len(answerOf) \/ i = Len(answerOf) + 1  BY <1>4
<1>7. NothingSwapped
    <2> SUFFICES ASSUME NEW a \in Marks \ {"none"}, NEW b \in Marks \ {"none"}, Before(a, b)'
                 PROVE  Before(a, b)
        BY DEF NothingSwapped
    <2>1. CASE \E i, j \in 1 .. Len(answerOf') : i < j /\ answerOf'[i] = a /\ answerOf'[j] = b
        BY <1>3, <1>4, <1>6, <2>1 DEF Before
    <2>2. CASE \E i, j \in 1 .. Len(lineOf') : i < j /\ lineOf'[i] = a /\ lineOf'[j] = b
        <3>1. PICK i, j \in 1 .. Len(lineOf') : i < j /\ lineOf'[i] = a /\ lineOf'[j] = b
            BY <2>2
        <3>2. i + 1 \in 1 .. Len(lineOf) /\ j + 1 \in 1 .. Len(lineOf) /\ i + 1 < j + 1
            BY <1>3, <3>1
        <3>3. lineOf[i + 1] = a /\ lineOf[j + 1] = b  BY <1>3, <3>1
        <3> QED  BY <3>2, <3>3 DEF Before
    <2>3. CASE a = armOf' \/ b = armOf'  BY <1>5, <2>3
    <2>4. CASE \E i \in 1 .. Len(answerOf'), j \in 1 .. Len(lineOf') : answerOf'[i] = a /\ lineOf'[j] = b
        <3>1. PICK i \in 1 .. Len(answerOf'), j \in 1 .. Len(lineOf') : answerOf'[i] = a /\ lineOf'[j] = b
            BY <2>4
        <3>2. j + 1 \in 1 .. Len(lineOf) /\ 1 < j + 1 /\ lineOf[j + 1] = b  BY <1>3, <3>1
        <3>3. CASE i \in 1 .. Len(answerOf)
            <4>1. answerOf[i] = a  BY <1>4, <3>1, <3>3
            <4> QED  BY <3>2, <3>3, <4>1 DEF Before
        <3>4. CASE i = Len(answerOf) + 1
            <4>1. 1 \in 1 .. Len(lineOf) /\ lineOf[1] = a  BY <1>3, <1>4, <3>1, <3>4
            <4> QED  BY <3>2, <4>1 DEF Before
        <3> QED  BY <1>6, <3>3, <3>4
    <2> QED  BY <2>1, <2>2, <2>3, <2>4 DEF Before
<1>8. Marked'
    <2>1. \A i \in 1 .. Len(lineOf') : lineOf'[i] # "none" <=> fromPi'[i] = "arm"
        BY <1>3 DEF Marked
    <2>2. lineOf[1] # "none"  BY <1>3 DEF Marked
    <2>3. \A i \in 1 .. Len(answerOf') : answerOf'[i] # "none" <=> toPi'[i].type \in {"verdict", "fault"}
        BY <1>4, <1>6, <2>2 DEF Marked
    <2> QED  BY <1>1, <1>5, <2>1, <2>3 DEF Marked
<1>9. NothingNew  BY <1>3, <1>4, <1>6 DEF NothingNew, Within
<1>10. \A i \in 1 .. Len(toPi') : Announced(toPi'[i]) => i \in 1 .. Len(toPi) /\ Announced(toPi[i])
    BY <1>2, <1>4, <1>6 DEF Announced
<1> QED  BY <1>7, <1>8, <1>9, <1>10

LEMMA OtherLineMoves ==
    ASSUME Typed, Marked, ChuteTakesLine, Esp!StartEnroll \/ Esp!ClearLatch \/ Esp!IgnoreLine,
           armOf' = armOf, answerOf' = answerOf
    PROVE  Marked' /\ NothingNew /\ NothingSwapped /\ toPi' = toPi
<1>1. /\ fromPi # <<>> /\ fromPi' = Tail(fromPi) /\ lineOf' = Tail(lineOf)
      /\ phase' = "armed" <=> phase = "armed" /\ toPi' = toPi
      /\ toPi' = toPi
    BY DEF ChuteTakesLine, Esp!StartEnroll, Esp!ClearLatch, Esp!IgnoreLine, Esp!Take
<1>2. /\ lineOf \in Seq(Marks) /\ fromPi \in Seq(Inbound) /\ Len(lineOf) = Len(fromPi)
      /\ lineOf # <<>>
    BY <1>1, Taken DEF Typed, ChuteTyped
<1>3. /\ Len(lineOf) \in Nat /\ Len(lineOf') = Len(lineOf) - 1
      /\ \A i \in 1 .. Len(lineOf') :
            /\ i + 1 \in 1 .. Len(lineOf) /\ lineOf'[i] = lineOf[i + 1] /\ fromPi'[i] = fromPi[i + 1]
    <2>1. \A i \in 1 .. Len(fromPi) - 1 : Tail(fromPi)[i] = fromPi[i + 1]  BY <1>1, <1>2, LineMoves
    <2> QED  BY <1>1, <1>2, <2>1, HeadLeaves
<1>4. NothingSwapped
    <2> SUFFICES ASSUME NEW a \in Marks \ {"none"}, NEW b \in Marks \ {"none"}, Before(a, b)'
                 PROVE  Before(a, b)
        BY DEF NothingSwapped
    <2>1. CASE \E i, j \in 1 .. Len(lineOf') : i < j /\ lineOf'[i] = a /\ lineOf'[j] = b
        <3>1. PICK i \in 1 .. Len(lineOf'), j \in 1 .. Len(lineOf') :
                  i < j /\ lineOf'[i] = a /\ lineOf'[j] = b
            BY <2>1
        <3>2. /\ i + 1 \in 1 .. Len(lineOf) /\ lineOf[i + 1] = a
              /\ j + 1 \in 1 .. Len(lineOf) /\ lineOf[j + 1] = b
            BY <1>3, <3>1
        <3>3. i + 1 < j + 1  BY <3>1
        <3> QED  BY <3>2, <3>3 DEF Before
    <2>2. CASE \/ \E i, j \in 1 .. Len(answerOf) : i < j /\ answerOf[i] = a /\ answerOf[j] = b
               \/ b = armOf /\ \E i \in 1 .. Len(answerOf) : answerOf[i] = a
        BY <2>2 DEF Before
    <2>3. CASE \/ a = armOf /\ \E j \in 1 .. Len(lineOf') : lineOf'[j] = b
               \/ \E i \in 1 .. Len(answerOf), j \in 1 .. Len(lineOf') : answerOf[i] = a /\ lineOf'[j] = b
        <3>1. PICK j \in 1 .. Len(lineOf') : lineOf'[j] = b  BY <2>3
        <3>2. j + 1 \in 1 .. Len(lineOf) /\ lineOf[j + 1] = b  BY <1>3, <3>1
        <3>3. a = armOf \/ \E i \in 1 .. Len(answerOf) : answerOf[i] = a  BY <2>3
        <3> QED  BY <3>2, <3>3 DEF Before
    <2> QED  BY <2>1, <2>2, <2>3 DEF Before
<1>5. Marked'
    <2>1. \A i \in 1 .. Len(lineOf') : lineOf'[i] # "none" <=> fromPi'[i] = "arm"
        BY <1>3 DEF Marked
    <2> QED  BY <1>1, <2>1 DEF Marked
<1>6. NothingNew  BY <1>3 DEF NothingNew, Within
<1> QED  BY <1>1, <1>4, <1>5, <1>6

LEMMA SpeakMoves ==
    ASSUME Typed, Marked, ChuteReports \/ EnrollmentEnds
    PROVE  /\ Marked' /\ NothingNew /\ NothingSwapped
           /\ \A i \in 1 .. Len(toPi') : Announced(toPi'[i]) => i \in 1 .. Len(toPi) /\ Announced(toPi[i])
<1>1. PICK m \in Outbound, mark \in Marks :
          /\ toPi' = Append(toPi, m) /\ answerOf' = Append(answerOf, mark)
          /\ mark # "none" <=> m.type \in {"verdict", "fault"}
          /\ ~ Announced(m)
          /\ mark = armOf /\ armOf' = "none"
          /\ lineOf' = lineOf /\ fromPi' = fromPi
          /\ phase' # "armed"
    <2>1. CASE ChuteReports
        <3>1. PICK o \in Outcomes, t \in Tags \cup {Null} : Esp!Report(o, t)
            BY <2>1 DEF ChuteReports
        <3>2. /\ phase = "armed" /\ phase' # "armed" /\ toPi' = Append(toPi, Verdict(o, t))
              /\ fromPi' = fromPi /\ (t # Null <=> o \in Winning)
            BY <3>1, SameMessages DEF Esp!Report, Esp!Emit
        <3>3. Verdict(o, t) \in Outbound  BY <3>2, Messages
        <3>4. Verdict(o, t).type = "verdict"  BY DEF Verdict
        <3>5. ~ Announced(Verdict(o, t))  BY <3>4 DEF Announced
        <3>6. armOf # "none" /\ armOf \in Marks  BY <3>2 DEF Marked, Typed, ChuteTyped
        <3>7. answerOf' = Append(answerOf, armOf) /\ armOf' = "none" /\ lineOf' = lineOf
            BY <2>1 DEF ChuteReports
        <3> QED  BY <3>2, <3>3, <3>4, <3>5, <3>6, <3>7
    <2>2. CASE EnrollmentEnds
        <3>1. PICK m \in Outbound : Esp!FinishEnroll(m) /\ m.type \in {"tag_scanned", "enroll_timeout"}
            <4>1. EnrollTimeout \in Outbound /\ \A t \in Tags : TagScanned(t) \in Outbound
                BY Messages
            <4>2. EnrollTimeout.type = "enroll_timeout" /\ \A t : TagScanned(t).type = "tag_scanned"
                BY DEF EnrollTimeout, TagScanned
            <4> QED  BY <2>2, <4>1, <4>2 DEF EnrollmentEnds
        <3>2. phase = "enrolling" /\ phase' = "ready" /\ toPi' = Append(toPi, m) /\ fromPi' = fromPi
            BY <3>1 DEF Esp!FinishEnroll, Esp!Emit
        <3>3. answerOf' = Append(answerOf, "none") /\ armOf' = armOf /\ lineOf' = lineOf
            BY <2>2 DEF EnrollmentEnds
        <3>4. armOf = "none" /\ "none" \in Marks  BY <3>2 DEF Marked, Marks
        <3>5. ~ Announced(m)  BY <3>1 DEF Announced
        <3> QED  BY <3>1, <3>2, <3>3, <3>4, <3>5
    <2> QED  BY <2>1, <2>2
<1>2. answerOf \in Seq(Marks) /\ toPi \in Seq(Outbound) /\ Len(answerOf) = Len(toPi)
    BY DEF Typed, ChuteTyped
<1>3. /\ Len(answerOf) \in Nat /\ Len(answerOf') = Len(answerOf) + 1 /\ Len(toPi') = Len(toPi) + 1
      /\ answerOf'[Len(answerOf) + 1] = mark /\ toPi'[Len(answerOf) + 1] = m
      /\ \A i \in 1 .. Len(answerOf) : answerOf'[i] = answerOf[i] /\ toPi'[i] = toPi[i]
    BY <1>1, <1>2, LineMoves
<1>4. \A i \in 1 .. Len(answerOf') : i \in 1 .. Len(answerOf) \/ i = Len(answerOf) + 1  BY <1>3
<1>5. NothingSwapped
    <2> SUFFICES ASSUME NEW a \in Marks \ {"none"}, NEW b \in Marks \ {"none"}, Before(a, b)'
                 PROVE  Before(a, b)
        BY DEF NothingSwapped
    <2>1. CASE \E i, j \in 1 .. Len(answerOf') : i < j /\ answerOf'[i] = a /\ answerOf'[j] = b
        BY <1>1, <1>3, <1>4, <2>1 DEF Before
    <2>2. CASE \E i, j \in 1 .. Len(lineOf) : i < j /\ lineOf[i] = a /\ lineOf[j] = b
        BY <2>2 DEF Before
    <2>3. CASE a = armOf' \/ b = armOf'  BY <1>1, <2>3
    <2>4. CASE \E i \in 1 .. Len(answerOf'), j \in 1 .. Len(lineOf) : answerOf'[i] = a /\ lineOf[j] = b
        BY <1>1, <1>3, <1>4, <2>4 DEF Before
    <2> QED  BY <1>1, <2>1, <2>2, <2>3, <2>4 DEF Before
<1>6. Marked'
    <2>1. ASSUME NEW i \in 1 .. Len(answerOf')
          PROVE  answerOf'[i] # "none" <=> toPi'[i].type \in {"verdict", "fault"}
        <3>1. CASE i \in 1 .. Len(answerOf)
            <4>1. answerOf'[i] = answerOf[i] /\ toPi'[i] = toPi[i]  BY <1>3, <3>1
            <4>2. answerOf[i] # "none" <=> toPi[i].type \in {"verdict", "fault"}  BY <3>1 DEF Marked
            <4> QED  BY <4>1, <4>2
        <3>2. CASE i = Len(answerOf) + 1
            <4>1. answerOf'[i] = mark /\ toPi'[i] = m  BY <1>3, <3>2
            <4> QED  BY <1>1, <4>1
        <3> QED  BY <1>4, <3>1, <3>2
    <2>2. /\ \A i \in 1 .. Len(lineOf) : lineOf[i] # "none" <=> fromPi[i] = "arm"
          /\ armOf # "none" <=> phase = "armed"
        BY DEF Marked
    <2> QED  BY <1>1, <2>1, <2>2 DEF Marked
<1>7. NothingNew  BY <1>1, <1>3, <1>4 DEF NothingNew, Within
<1>8. \A i \in 1 .. Len(toPi') : Announced(toPi'[i]) => i \in 1 .. Len(toPi) /\ Announced(toPi[i])
    BY <1>1, <1>2, <1>3, <1>4
<1> QED  BY <1>5, <1>6, <1>7, <1>8

(* Reading a message, or losing all of them.                               *)
LEMMA AnswersLeave ==
    ASSUME Typed, Marked, TakeLine \/ (toPi' = <<>> /\ answerOf' = <<>>),
           UNCHANGED <<phase, fromPi, lineOf, armOf>>
    PROVE  /\ Marked' /\ NothingNew /\ NothingSwapped
           /\ \A i \in 1 .. Len(toPi') :
                  Announced(toPi'[i]) => \E j \in 1 .. Len(toPi) : Announced(toPi[j])
<1>1. answerOf \in Seq(Marks) /\ toPi \in Seq(Outbound) /\ Len(answerOf) = Len(toPi)
    BY DEF Typed, ChuteTyped
<1>2. PICK k \in {1, Len(answerOf)} :
          /\ Len(answerOf) \in Nat /\ Len(answerOf') = Len(answerOf) - k /\ Len(toPi') = Len(toPi) - k
          /\ k \in Nat
          /\ \A i \in 1 .. Len(answerOf') :
                /\ i + k \in 1 .. Len(answerOf)
                /\ answerOf'[i] = answerOf[i + k] /\ toPi'[i] = toPi[i + k]
    <2>1. CASE TakeLine
        <3>1. toPi # <<>> /\ toPi' = Tail(toPi) /\ answerOf' = Tail(answerOf)
            BY <2>1 DEF TakeLine, Esp!PiReads
        <3>2. answerOf # <<>>  BY <1>1, <3>1, Taken
        <3>3. \A i \in 1 .. Len(toPi) - 1 : Tail(toPi)[i] = toPi[i + 1]  BY <1>1, <3>1, LineMoves
        <3>4. Len(Tail(toPi)) = Len(toPi) - 1  BY <1>1, <3>1, LineMoves
        <3> QED  BY <1>1, <3>1, <3>2, <3>3, <3>4, HeadLeaves
    <2>2. CASE toPi' = <<>> /\ answerOf' = <<>>
        <3>1. Len(answerOf) \in Nat  BY <1>1, LineMoves
        <3>2. Len(toPi') = 0 /\ Len(answerOf') = 0  BY <2>2
        <3> QED  BY <1>1, <3>1, <3>2
    <2> QED  BY <2>1, <2>2
<1>3. NothingSwapped
    <2> SUFFICES ASSUME NEW a \in Marks \ {"none"}, NEW b \in Marks \ {"none"}, Before(a, b)'
                 PROVE  Before(a, b)
        BY DEF NothingSwapped
    <2>1. CASE \E i, j \in 1 .. Len(answerOf') : i < j /\ answerOf'[i] = a /\ answerOf'[j] = b
        <3>1. PICK i \in 1 .. Len(answerOf'), j \in 1 .. Len(answerOf') :
                  i < j /\ answerOf'[i] = a /\ answerOf'[j] = b
            BY <2>1
        <3>2. /\ i + k \in 1 .. Len(answerOf) /\ answerOf[i + k] = a
              /\ j + k \in 1 .. Len(answerOf) /\ answerOf[j + k] = b
            BY <1>2, <3>1
        <3>3. i + k < j + k  BY <1>2, <3>1
        <3> QED  BY <3>2, <3>3 DEF Before
    <2>2. CASE \/ \E i, j \in 1 .. Len(lineOf) : i < j /\ lineOf[i] = a /\ lineOf[j] = b
               \/ a = armOf /\ \E j \in 1 .. Len(lineOf) : lineOf[j] = b
        BY <2>2 DEF Before
    <2>3. CASE \/ b = armOf /\ \E i \in 1 .. Len(answerOf') : answerOf'[i] = a
               \/ \E i \in 1 .. Len(answerOf'), j \in 1 .. Len(lineOf) : answerOf'[i] = a /\ lineOf[j] = b
        <3>1. PICK i \in 1 .. Len(answerOf') : answerOf'[i] = a  BY <2>3
        <3>2. i + k \in 1 .. Len(answerOf) /\ answerOf[i + k] = a  BY <1>2, <3>1
        <3> QED  BY <2>3, <3>2 DEF Before
    <2> QED  BY <2>1, <2>2, <2>3 DEF Before
<1>4. Marked'
    <2>1. \A i \in 1 .. Len(answerOf') : answerOf'[i] # "none" <=> toPi'[i].type \in {"verdict", "fault"}
        BY <1>2 DEF Marked
    <2> QED  BY <2>1 DEF Marked
<1>5. NothingNew  BY <1>2 DEF NothingNew, Within
<1>6. \A i \in 1 .. Len(toPi') : Announced(toPi'[i]) => \E j \in 1 .. Len(toPi) : Announced(toPi[j])
    BY <1>1, <1>2
<1> QED  BY <1>3, <1>4, <1>5, <1>6

LEMMA PutOnLine ==
    ASSUME Typed, Marked, NEW line \in Inbound, NEW mark \in Marks, mark # "none" <=> line = "arm",
           fromPi' = Append(fromPi, line), lineOf' = Append(lineOf, mark),
           UNCHANGED <<phase, toPi, armOf, answerOf>>
    PROVE  /\ Marked'
           /\ \A m \in {"old", "test", "this"} : Within(m)' <=> Within(m) \/ m = mark
           /\ \A a, b \in Marks \ {"none"} : Before(a, b)' => Before(a, b) \/ (b = mark /\ Within(a))
<1>1. /\ lineOf \in Seq(Marks) /\ fromPi \in Seq(Inbound) /\ Len(lineOf) = Len(fromPi)
      /\ answerOf \in Seq(Marks) /\ armOf \in Marks
    BY DEF Typed, ChuteTyped
<1>2. /\ Len(lineOf) \in Nat /\ Len(lineOf') = Len(lineOf) + 1
      /\ lineOf'[Len(lineOf) + 1] = mark /\ fromPi'[Len(lineOf) + 1] = line
      /\ \A i \in 1 .. Len(lineOf) :
            lineOf'[i] = lineOf[i] /\ fromPi'[i] = fromPi[i] /\ lineOf[i] \in Marks
    BY <1>1, LineMoves, ElementOfSeq
<1>3. \A i \in 1 .. Len(lineOf') : i \in 1 .. Len(lineOf) \/ i = Len(lineOf) + 1  BY <1>2
<1>4. ASSUME NEW a \in Marks \ {"none"}, NEW b \in Marks \ {"none"}, Before(a, b)'
      PROVE  Before(a, b) \/ (b = mark /\ Within(a))
    <2>1. CASE \E i, j \in 1 .. Len(lineOf') : i < j /\ lineOf'[i] = a /\ lineOf'[j] = b
        BY <1>2, <1>3, <2>1 DEF Before, Within
    <2>2. CASE \/ \E i, j \in 1 .. Len(answerOf) : i < j /\ answerOf[i] = a /\ answerOf[j] = b
               \/ b = armOf /\ \E i \in 1 .. Len(answerOf) : answerOf[i] = a
        BY <2>2 DEF Before
    <2>3. CASE \/ a = armOf /\ \E j \in 1 .. Len(lineOf') : lineOf'[j] = b
               \/ \E i \in 1 .. Len(answerOf), j \in 1 .. Len(lineOf') : answerOf[i] = a /\ lineOf'[j] = b
        BY <1>2, <1>3, <2>3 DEF Before, Within
    <2> QED  BY <1>4, <2>1, <2>2, <2>3 DEF Before
<1>5. Marked'
    <2>1. \A i \in 1 .. Len(lineOf') : lineOf'[i] # "none" <=> fromPi'[i] = "arm"
        BY <1>2, <1>3 DEF Marked
    <2> QED  BY <2>1 DEF Marked
<1>6. \A m \in {"old", "test", "this"} : Within(m)' <=> Within(m) \/ m = mark
    BY <1>2, <1>3 DEF Within
<1> QED  BY <1>4, <1>5, <1>6

LEMMA AgedSame ==
    ASSUME NEW marks \in Seq(Marks), \A i \in 1 .. Len(marks) : marks[i] # "this"
    PROVE  Aged(marks) = marks
<1>1. DOMAIN marks = 1 .. Len(marks) /\ marks \in [1 .. Len(marks) -> Marks]  BY LenProperties
<1>2. Aged(marks) = [i \in 1 .. Len(marks) |-> marks[i]]  BY <1>1 DEF Aged
<1> QED  BY <1>1, <1>2

(* A step that gives nobody an answer.                                     *)
LEMMA OwnKept ==
    ASSUME OwnAnswer, Typed, Typed', NothingNew,
           espEvents' = espEvents, forwarded' = forwarded, tester' = tester, piState' = piState,
           \A i \in 1 .. Len(toPi') : Announced(toPi'[i]) => \E j \in 1 .. Len(toPi) : Announced(toPi[j])
    PROVE  OwnAnswer'
<1>1. \A mark : Settled(mark) <=> ~ Within(mark)  BY SettledIs DEF Typed, ChuteTyped
<1>2. \A mark : Settled(mark)' <=> ~ Within(mark)'  BY SettledAgain
<1>3. \A mark \in {"old", "test", "this"} : Settled(mark) => Settled(mark)'
    BY <1>1, <1>2 DEF NothingNew
<1>4. \A i \in 1 .. Len(toPi') : piState \in {"PLAYING", "ARMING", "AWAITING"} => ~ Announced(toPi'[i])
    BY DEF OwnAnswer
<1> QED  BY <1>3, <1>4 DEF OwnAnswer, GivenOwn, Announced

LEMMA ChuteSteps ==
    ASSUME Typed, Typed', IInv, ChuteTakesLine \/ ChuteReports \/ EnrollmentEnds \/ LineLost \/ LinkDrops
    PROVE  IInv'
<1>0. Marked  BY DEF IInv
<1>1. /\ Marked' /\ NothingNew /\ NothingSwapped
      /\ \A i \in 1 .. Len(toPi') : Announced(toPi'[i]) => \E j \in 1 .. Len(toPi) : Announced(toPi[j])
    <2>1. CASE ChuteTakesLine
        <3>1. CASE Esp!AcceptArm /\ armOf' = Head(lineOf) /\ answerOf' = answerOf
            <4>1. toPi' = toPi  BY <3>1 DEF Esp!AcceptArm
            <4> QED  BY <1>0, <2>1, <3>1, <4>1, AcceptMoves
        <3>2. CASE Esp!RefuseArm /\ answerOf' = Append(answerOf, Head(lineOf)) /\ armOf' = armOf
            BY <1>0, <2>1, <3>2, RefuseMoves
        <3>3. CASE /\ Esp!StartEnroll \/ Esp!ClearLatch \/ Esp!IgnoreLine
                   /\ armOf' = armOf /\ answerOf' = answerOf
            BY <1>0, <2>1, <3>3, OtherLineMoves
        <3> QED  BY <2>1, <3>1, <3>2, <3>3 DEF ChuteTakesLine
    <2>2. CASE ChuteReports \/ EnrollmentEnds  BY <1>0, <2>2, SpeakMoves
    <2>3. CASE LineLost \/ LinkDrops
        <3>1. /\ TakeLine \/ (toPi' = <<>> /\ answerOf' = <<>>)
              /\ UNCHANGED <<phase, fromPi, lineOf, armOf>>
            BY <2>3 DEF LineLost, LinkDrops, TakeLine, Esp!PiReads
        <3> QED  BY <1>0, <3>1, AnswersLeave
    <2> QED  BY <2>1, <2>2, <2>3
<1>2. espEvents' = espEvents /\ forwarded' = forwarded /\ tester' = tester /\ piState' = piState
    BY DEF ChuteTakesLine, ChuteReports, EnrollmentEnds, LineLost, LinkDrops, turnVars
<1>3. OwnAnswer'  BY <1>1, <1>2, OwnKept DEF IInv
<1>4. InTurn'  BY <1>1 DEF NothingSwapped, InTurn, IInv
<1> QED  BY <1>1, <1>3, <1>4 DEF IInv

(* The first answer leaves, and what is behind it is a turn's.             *)
LEMMA FirstLeaves ==
    ASSUME Typed, InTurn, TakeLine, UNCHANGED <<lineOf, armOf>>, Head(answerOf) # "none"
    PROVE  /\ ~ Within("test")'
           /\ Head(answerOf) = "this" => ~ Within("this")'
           /\ Within(Head(answerOf))
<1>1. toPi # <<>> /\ answerOf' = Tail(answerOf)  BY DEF TakeLine, Esp!PiReads
<1>2. answerOf \in Seq(Marks) /\ answerOf # <<>>  BY <1>1, Taken DEF Typed, ChuteTyped
<1>3. /\ Len(answerOf) \in Nat /\ 1 \in 1 .. Len(answerOf) /\ Head(answerOf) = answerOf[1]
      /\ \A i \in 1 .. Len(answerOf') :
            i + 1 \in 1 .. Len(answerOf) /\ 1 < i + 1 /\ answerOf'[i] = answerOf[i + 1]
    BY <1>1, <1>2, HeadLeaves
<1>4. \A m : Within(m)' => Before(answerOf[1], m)
    <2>1. answerOf[1] # armOf \/ answerOf[1] = armOf  OBVIOUS
    <2> QED  BY <1>3 DEF Before, Within
<1>5. Head(answerOf) \in Marks  BY <1>2, LineMoves
<1>6. ~ Within("test")' /\ (Head(answerOf) = "this" => ~ Within("this")')
    BY <1>3, <1>4, <1>5 DEF InTurn, Marks
<1> QED  BY <1>3, <1>6 DEF Within

LEMMA ReadStep ==
    ASSUME Typed, Typed', IInv, ReadLine
    PROVE  IInv'
<1> DEFINE m == Head(toPi)
           a == Head(answerOf)
           captured == tester = "waiting" /\ m.type \in {"verdict", "fault"}
<1>1. /\ TakeLine /\ UNCHANGED <<phase, fromPi, lineOf, armOf>>
      /\ tester' = IF captured THEN "none" ELSE tester
      /\ espEvents' = IF captured \/ m.type \in {"tag_scanned", "enroll_timeout"}
                      THEN espEvents ELSE Append(espEvents, [msg |-> m, of |-> a])
      /\ piState' = piState /\ forwarded' = forwarded
    BY DEF ReadLine, TakeLine, Esp!PiReads
<1>2. /\ InTurn' /\ Marked' /\ NothingNew
      /\ \A i \in 1 .. Len(toPi') : Announced(toPi'[i]) => \E j \in 1 .. Len(toPi) : Announced(toPi[j])
    <2>1. Marked  BY DEF IInv
    <2> QED  BY <1>1, <2>1, AnswersLeave DEF IInv, InTurn, NothingSwapped
<1>3. /\ toPi # <<>> /\ m = toPi[1] /\ 1 \in 1 .. Len(toPi) /\ m \in Outbound
      /\ a = answerOf[1] /\ 1 \in 1 .. Len(answerOf) /\ a \in Marks
    <2>1. toPi # <<>>  BY <1>1 DEF TakeLine, Esp!PiReads
    <2>2. /\ toPi \in Seq(Outbound) /\ answerOf \in Seq(Marks) /\ Len(answerOf) = Len(toPi)
        BY DEF Typed, ChuteTyped
    <2>3. answerOf # <<>> /\ a \in Marks  BY <2>1, <2>2, Taken
    <2> QED  BY <2>1, <2>2, <2>3, LineMoves, HeadLeaves
<1>4. a # "none" <=> m.type \in {"verdict", "fault"}  BY <1>3 DEF IInv, Marked
<1>5. m.type \in {"ready", "verdict", "fault", "tag_scanned", "pong", "enroll_timeout"}
    BY <1>3 DEF Outbound, Ready, Verdict, StillBlocked, TagScanned, Pong, EnrollTimeout
<1>6. \A mark : (Settled(mark) <=> ~ Within(mark)) /\ (Settled(mark)' <=> ~ Within(mark)')
    BY SettledIs, SettledAgain DEF Typed, ChuteTyped
<1>7. /\ Settled("old")' /\ (Settled("this") => Settled("this")') /\ (Settled("test") => Settled("test")')
      /\ GivenOwn'
      /\ piState' \in {"PLAYING", "ARMING", "AWAITING"} =>
             \A i \in 1 .. Len(toPi') : ~ Announced(toPi'[i])
    BY <1>1, <1>2, <1>6 DEF NothingNew, IInv, OwnAnswer, GivenOwn, Announced
<1>8. CASE captured
    <2>1. espEvents' = espEvents  BY <1>1, <1>8
    <2>2. Settled("test")'  BY <1>1, <1>4, <1>6, <1>8, FirstLeaves DEF IInv
    <2>3. OwnAnswer'  BY <1>1, <1>7, <2>1, <2>2 DEF IInv, OwnAnswer
    <2> QED  BY <1>2, <2>3 DEF IInv
<1>9. CASE ~ captured /\ m.type \in {"tag_scanned", "enroll_timeout"}
    <2>1. espEvents' = espEvents /\ tester' = tester  BY <1>1, <1>9
    <2>2. OwnAnswer'  BY <1>1, <1>7, <2>1 DEF IInv, OwnAnswer
    <2> QED  BY <1>2, <2>2 DEF IInv
<1>10. CASE ~ captured /\ m.type \notin {"tag_scanned", "enroll_timeout"} /\ piState # "AWAITING"
    <2>1. tester' = tester  BY <1>1, <1>10
    <2>2. OwnAnswer'  BY <1>1, <1>7, <1>10, <2>1 DEF IInv, OwnAnswer
    <2> QED  BY <1>2, <2>2 DEF IInv
<1>11. CASE ~ captured /\ m.type \notin {"tag_scanned", "enroll_timeout"} /\ piState = "AWAITING"
    <2>1. tester' = tester /\ espEvents' = Append(espEvents, [msg |-> m, of |-> a])
        BY <1>1, <1>11
    <2>2. ~ Announced(m)  BY <1>3, <1>11 DEF IInv, OwnAnswer
    <2>3. m.type \in {"verdict", "fault"} /\ tester # "waiting" /\ a # "none"
        BY <1>4, <1>5, <1>11, <2>2 DEF Announced
    <2>4. Within(a)  BY <1>1, <2>3, FirstLeaves DEF IInv
    <2>5. a # "test" /\ a # "old"  BY <1>6, <2>3, <2>4 DEF IInv, OwnAnswer
    <2>6. a = "this"  BY <1>3, <2>3, <2>5 DEF Marks
    <2>7. Settled("this")'  BY <1>1, <1>6, <2>3, <2>6, FirstLeaves DEF IInv
    <2>8. espEvents = <<>>  BY <1>6, <2>4, <2>6 DEF IInv, OwnAnswer
    <2>9. \A i \in 1 .. Len(espEvents') : espEvents'[i].of = "this"
        <3>1. espEvents' = <<[msg |-> m, of |-> "this"]>>  BY <2>1, <2>6, <2>8
        <3> HIDE DEF m
        <3> QED  BY <3>1
    <2>10. OwnAnswer'  BY <1>1, <1>7, <2>1, <2>7, <2>9 DEF IInv, OwnAnswer
    <2> QED  BY <1>2, <2>10 DEF IInv
<1> QED  BY <1>8, <1>9, <1>10, <1>11

LEMMA SendSteps ==
    ASSUME Typed, Typed', IInv, OnEnroll \/ IdleClear
    PROVE  IInv'
<1>1. PICK line \in Inbound : line # "arm" /\ Send(line, "none")
    BY DEF OnEnroll, IdleClear, Inbound
<1>2. /\ UNCHANGED <<armOf, answerOf, espEvents, forwarded, tester, piState>>
      /\ phase' = phase /\ toPi' = toPi
    BY <1>1 DEF OnEnroll, IdleClear, turnVars, Send, Esp!PiWrites
<1>3. InTurn' /\ Marked' /\ NothingNew
    <2>0. Marked  BY DEF IInv
    <2>1. CASE link = "up"
        <3>1. fromPi' = Append(fromPi, line) /\ lineOf' = Append(lineOf, "none")
            BY <1>1, <2>1 DEF Send, Esp!PiWrites
        <3>2. "none" \in Marks  BY DEF Marks
        <3> QED  BY <1>1, <1>2, <2>0, <3>1, <3>2, PutOnLine DEF NothingNew, IInv, InTurn
    <2>2. CASE link # "up"
        <3>1. fromPi' = fromPi /\ lineOf' = lineOf  BY <1>1, <2>2 DEF Send
        <3> QED  BY <1>2, <3>1 DEF IInv, InTurn, Before, Marked, NothingNew, Within
    <2> QED  BY <2>1, <2>2
<1>4. OwnAnswer'  BY <1>2, <1>3, OwnKept DEF IInv
<1> QED  BY <1>3, <1>4 DEF IInv

LEMMA TestStep ==
    ASSUME Typed, Typed', IInv, OnTestArm
    PROVE  IInv'
<1>1. /\ tester = "none" /\ tester' = "waiting" /\ piState = "IDLE"
      /\ fromPi' = Append(fromPi, "arm") /\ lineOf' = Append(lineOf, "test")
      /\ UNCHANGED <<armOf, answerOf, espEvents, forwarded, piState, phase, toPi>>
    BY DEF OnTestArm, Send, Esp!PiWrites, turnVars
<1>2. \A mark : (Settled(mark) <=> ~ Within(mark)) /\ (Settled(mark)' <=> ~ Within(mark)')
    BY SettledIs, SettledAgain DEF Typed, ChuteTyped
<1>3. ~ Within("test") /\ ~ Within("this") /\ ~ Within("old")  BY <1>1, <1>2 DEF IInv, OwnAnswer
<1>4. Marked /\ \A m \in Marks \ {"none"} : ~ Within(m)  BY <1>3 DEF IInv, Marks
<1>5. "arm" \in Inbound /\ "test" \in Marks  BY DEF Inbound, Marks
<1>6. /\ InTurn' /\ Marked'
      /\ \A m \in {"old", "test", "this"} : Within(m)' => Within(m) \/ m = "test"
    BY <1>1, <1>4, <1>5, PutOnLine DEF IInv, InTurn
<1>7. Settled("old")' /\ Settled("this")'  BY <1>2, <1>3, <1>6
<1>8. OwnAnswer'  BY <1>1, <1>7 DEF IInv, OwnAnswer, GivenOwn
<1> QED  BY <1>6, <1>8 DEF IInv

LEMMA ArmStep ==
    ASSUME Typed, Typed', IInv, SendArm, drains
    PROVE  IInv'
<1>1. \A mark : (Settled(mark) <=> ~ Within(mark)) /\ (Settled(mark)' <=> ~ Within(mark)')
    BY SettledIs, SettledAgain DEF Typed, ChuteTyped
<1>2. piState = "ARMING" /\ ~ Within("this") /\ ~ Within("old")
    BY <1>1 DEF SendArm, IInv, OwnAnswer
<1>3. Aged(lineOf) = lineOf /\ Aged(answerOf) = answerOf
    <2>1. lineOf \in Seq(Marks) /\ answerOf \in Seq(Marks)  BY DEF Typed, ChuteTyped
    <2>2. /\ \A i \in 1 .. Len(lineOf) : lineOf[i] # "this"
          /\ \A i \in 1 .. Len(answerOf) : answerOf[i] # "this"
        BY <1>2 DEF Within
    <2> QED  BY <2>1, <2>2, AgedSame
<1>4. /\ piState' = "AWAITING" /\ espEvents' = <<>> /\ answerOf' = answerOf /\ armOf' = armOf
      /\ UNCHANGED <<tester, forwarded, phase, toPi>>
    BY <1>2, <1>3 DEF SendArm, Kept, Esp!PiWrites, Within
<1>5. /\ InTurn' /\ Marked'
      /\ \A m \in {"old", "test", "this"} : Within(m)' => Within(m) \/ m = "this"
    <2>1. CASE link = "up"
        <3>1. fromPi' = Append(fromPi, "arm") /\ lineOf' = Append(lineOf, "this")
            BY <1>3, <2>1 DEF SendArm, Esp!PiWrites
        <3>2. Marked /\ \A m \in Marks \ {"none"} : Within(m) => m = "test"
            BY <1>2 DEF IInv, Marks
        <3>3. "arm" \in Inbound /\ "this" \in Marks  BY DEF Inbound, Marks
        <3> QED  BY <1>4, <3>1, <3>2, <3>3, PutOnLine DEF IInv, InTurn
    <2>2. CASE link # "up"
        <3>1. fromPi' = fromPi /\ lineOf' = lineOf  BY <1>3, <2>2 DEF SendArm
        <3> QED  BY <1>4, <3>1 DEF IInv, InTurn, Before, Marked, Within
    <2> QED  BY <2>1, <2>2
<1>6. /\ Settled("old")' /\ (Settled("test") => Settled("test")')
      /\ \A i \in 1 .. Len(toPi') : ~ Announced(toPi'[i])
    <2>1. \A i \in 1 .. Len(toPi) : ~ Announced(toPi[i])  BY <1>2 DEF IInv, OwnAnswer
    <2> QED  BY <1>1, <1>2, <1>4, <1>5, <2>1
<1>7. OwnAnswer'  BY <1>4, <1>6 DEF IInv, OwnAnswer, GivenOwn
<1> QED  BY <1>5, <1>7 DEF IInv

(* The steps that leave the chute and its lines alone.                     *)
LEMMA PiSteps ==
    ASSUME Typed, IInv, UNCHANGED chuteVars,
           \/ UNCHANGED <<espEvents, forwarded, tester, piState>>
           \/ TestTimesOut \/ StartTurn \/ PulseEnds \/ OptoFires \/ TakeAnswer \/ AnswerTimesOut
    PROVE  IInv'
<1>1. /\ phase' = phase /\ fromPi' = fromPi /\ toPi' = toPi /\ lineOf' = lineOf /\ armOf' = armOf
      /\ answerOf' = answerOf
    BY DEF chuteVars
<1>2. InTurn' /\ Marked' /\ \A mark : Settled(mark)' <=> Settled(mark)
    BY <1>1 DEF IInv, InTurn, Before, Marked, Settled
<1>3. OwnAnswer'
    <2>1. CASE UNCHANGED <<espEvents, forwarded, tester, piState>>
        BY <1>1, <1>2, <2>1 DEF IInv, OwnAnswer, GivenOwn, Announced
    <2>2. CASE TestTimesOut
        BY <1>1, <1>2, <2>2 DEF TestTimesOut, turnVars, IInv, OwnAnswer, GivenOwn, Announced
    <2>3. CASE StartTurn \/ OptoFires
        BY <1>1, <1>2, <2>3 DEF StartTurn, OptoFires, IInv, OwnAnswer, GivenOwn, Announced
    <2>4. CASE PulseEnds
        <3>1. Len(toPi) = 0  BY <2>4 DEF PulseEnds
        <3> QED  BY <1>1, <1>2, <2>4, <3>1 DEF PulseEnds, IInv, OwnAnswer, GivenOwn
    <2>5. CASE TakeAnswer
        <3>1. /\ piState = "AWAITING" /\ piState' = "IDLE" /\ espEvents # <<>> /\ tester' = tester
              /\ forwarded' \in {"none", Head(espEvents).of}
            BY <2>5 DEF TakeAnswer
        <3>2. Head(espEvents).of = "this"
            <4>1. espEvents \in Seq([msg : Outbound, of : Marks])  BY DEF Typed, PiTyped
            <4>2. 1 \in 1 .. Len(espEvents) /\ Head(espEvents) = espEvents[1]
                BY <3>1, <4>1, LineMoves
            <4> QED  BY <3>1, <4>2 DEF IInv, OwnAnswer
        <3>3. Settled("this")  BY <3>1 DEF IInv, OwnAnswer
        <3> QED  BY <1>2, <3>1, <3>2, <3>3 DEF IInv, OwnAnswer, GivenOwn
    <2>6. CASE AnswerTimesOut
        <3>1. /\ Settled("this") /\ piState' = "IDLE" /\ espEvents' = espEvents
              /\ forwarded' = forwarded /\ tester' = tester
            BY <2>6 DEF AnswerTimesOut, GiveUp
        <3> QED  BY <1>2, <3>1 DEF IInv, OwnAnswer, GivenOwn
    <2> QED  BY <2>1, <2>2, <2>3, <2>4, <2>5, <2>6
<1> QED  BY <1>2, <1>3 DEF IInv

(* Only a restart of the chute's board is counted as one, and nothing      *)
(* turns one turn machine into the other.                                  *)
LEMMA OtherwiseSame == [Next]_vars => drains' = drains /\ (~ ChuteRestarts => restarts' = restarts)
BY DEF Next, vars, turnVars, ChuteTakesLine, ChuteReports, EnrollmentEnds, ChuteRestarts, ReadLine,
       LinkDrops, LineLost, LinkReturns, CentralAsks, OptoEdge, Put, OnEnroll, OnTestArm,
       TestTimesOut, Machine, IdleClear, IdleDrop, StartTurn, PulseEnds, PlayDrop, OptoFires,
       SendArm, TakeAnswer, AnswerTimesOut

LEMMA OwnStep ==
    Typed /\ (Dependable => IInv) /\ [Next]_vars => (Dependable' => IInv')
<1> SUFFICES ASSUME Typed, Dependable => IInv, [Next]_vars, Dependable' PROVE IInv'  OBVIOUS
<1>0. Typed'  BY TypedStep
<1>1. ~ ChuteRestarts /\ Dependable /\ IInv
    <2>1. ~ ChuteRestarts  BY DEF ChuteRestarts, Dependable, Typed, PiTyped
    <2>2. drains' = drains /\ restarts' = restarts  BY <2>1, OtherwiseSame
    <2> QED  BY <2>1, <2>2 DEF Dependable
<1>2. CASE ChuteTakesLine \/ ChuteReports \/ EnrollmentEnds \/ LineLost \/ LinkDrops
    BY <1>0, <1>2, <1>1, ChuteSteps
<1>3. CASE ReadLine  BY <1>0, <1>1, <1>3, ReadStep
<1>4. CASE OnEnroll \/ IdleClear  BY <1>0, <1>1, <1>4, SendSteps
<1>5. CASE OnTestArm  BY <1>0, <1>1, <1>5, TestStep
<1>6. CASE SendArm  BY <1>0, <1>1, <1>6, ArmStep DEF Dependable
<1>7. CASE LinkReturns \/ CentralAsks \/ OptoEdge \/ IdleDrop \/ PlayDrop \/ UNCHANGED vars
    <2>1. UNCHANGED chuteVars /\ UNCHANGED <<espEvents, forwarded, tester, piState>>
        BY <1>7 DEF LinkReturns, CentralAsks, OptoEdge, Put, IdleDrop, PlayDrop, vars, turnVars
    <2> QED  BY <1>1, <2>1, PiSteps
<1>8. CASE TestTimesOut \/ StartTurn \/ PulseEnds \/ OptoFires \/ TakeAnswer \/ AnswerTimesOut
    <2>1. UNCHANGED chuteVars
        BY <1>8 DEF TestTimesOut, StartTurn, PulseEnds, OptoFires, TakeAnswer, AnswerTimesOut
    <2> QED  BY <1>1, <1>8, <2>1, PiSteps
<1> QED
    BY <1>2, <1>1, <1>3, <1>4, <1>5, <1>6, <1>7, <1>8 DEF Next, Machine

LEMMA OwnInit == Init => IInv
<1> SUFFICES ASSUME Init PROVE IInv  OBVIOUS
<1>1. /\ phase = "ready" /\ fromPi = <<>> /\ toPi = <<Ready(Null)>> /\ lineOf = <<>>
      /\ answerOf = <<"none">> /\ armOf = "none" /\ espEvents = <<>> /\ piState = "IDLE"
      /\ forwarded = "none" /\ tester = "none"
    BY SameMessages DEF Init, Esp!Init
<1>2. /\ Len(lineOf) = 0 /\ Len(answerOf) = 1 /\ Len(toPi) = 1 /\ answerOf[1] = "none"
      /\ toPi[1].type = "ready" /\ DOMAIN lineOf = {} /\ DOMAIN answerOf = {1}
    BY <1>1 DEF Ready
<1>3. \A i \in 1 .. Len(answerOf) : i = 1  BY <1>2
<1>4. InTurn /\ Marked  BY <1>1, <1>2, <1>3 DEF InTurn, Before, Marked
<1>5. Settled("old") /\ Settled("test") /\ Settled("this")  BY <1>1, <1>2 DEF Settled
<1> QED  BY <1>1, <1>4, <1>5 DEF IInv, OwnAnswer, GivenOwn

(* With the turn machine that empties its queue before it arms (the        *)
(* simulator's, mock/raspberry/fsm.py) and a chute that is not restarted,  *)
(* a turn is given the verdict of its own arm, however drop tests,         *)
(* enrolments and losses of the port fall: the arms between the Pi and the *)
(* chute are a drop test's at most, whose answer its waiter takes, and     *)
(* then a turn's.                                                          *)
THEOREM OwnVerdict == Spec => []VerdictIsThisTurns
<1>1. Init => (Dependable => IInv)  BY OwnInit
<1>2. Typed /\ (Dependable => IInv) /\ [Next]_vars => (Dependable' => IInv')  BY OwnStep
<1>3. (Dependable => IInv) => VerdictIsThisTurns
    BY DEF IInv, OwnAnswer, GivenOwn, Dependable, VerdictIsThisTurns
<1> QED
    <2> DEFINE Own == Dependable => IInv
    <2>1. Init => Own  BY <1>1
    <2>2. Typed /\ Own /\ [Next]_vars => Own'  BY <1>2
    <2>3. Own => VerdictIsThisTurns  BY <1>3
    <2> HIDE DEF Own
    <2> QED  BY <2>1, <2>2, <2>3, TypedAlways, PTL DEF Spec

(***************************************************************************)
(* The queue the turn machine never empties.  One answer for each start of *)
(* the chute's board may be there for good; every other one belongs to the *)
(* arm a turn or a drop test still waits for.                              *)
(***************************************************************************)
TurnOwed ==
    /\ piState = "AWAITING"
    /\ Within("this") \/ \E i \in 1 .. Len(espEvents) : espEvents[i].of = "this"
TestOwed == tester = "waiting" /\ Within("test")

Owed(b) == IF b THEN 1 ELSE 0
Paid == Backlog <= 1 + restarts + Owed(TurnOwed) + Owed(TestOwed)

(* A drop test is not armed while a turn waits for its verdict.            *)
Ordered == piState = "AWAITING" => ~ Before("this", "test")

BInv == Paid /\ Marked /\ Ordered

Armed == IF phase = "armed" THEN 1 ELSE 0

LEMMA Parts ==
    ASSUME Typed
    PROVE  /\ Len(espEvents) \in Nat /\ Count(toPi, ForTheQueue) \in Nat
           /\ Count(fromPi, {"arm"}) \in Nat /\ Armed \in {0, 1} /\ restarts \in Nat
           /\ Backlog \in Nat
           /\ Backlog = Len(espEvents) + Count(toPi, ForTheQueue) + Count(fromPi, {"arm"}) + Armed
<1>1. /\ espEvents \in Seq([msg : Outbound, of : Marks]) /\ toPi \in Seq(Outbound)
      /\ fromPi \in Seq(Inbound) /\ restarts \in Nat
    BY DEF Typed, ChuteTyped, PiTyped
<1>2. Count(toPi, ForTheQueue) \in Nat /\ Count(fromPi, {"arm"}) \in Nat  BY <1>1, CountType
<1>3. Len(espEvents) \in Nat  BY <1>1, LenProperties
<1> QED  BY <1>1, <1>2, <1>3 DEF Backlog, Armed

LEMMA PartsAgain ==
    ASSUME Typed'
    PROVE  /\ Len(espEvents') \in Nat /\ Count(toPi', ForTheQueue) \in Nat
           /\ Count(fromPi', {"arm"}) \in Nat /\ Armed' \in {0, 1} /\ restarts' \in Nat
           /\ Backlog' \in Nat
           /\ Backlog' = Len(espEvents') + Count(toPi', ForTheQueue) + Count(fromPi', {"arm"}) + Armed'
<1>1. /\ espEvents' \in Seq([msg : Outbound, of : Marks]) /\ toPi' \in Seq(Outbound)
      /\ fromPi' \in Seq(Inbound) /\ restarts' \in Nat
    BY DEF Typed, ChuteTyped, PiTyped
<1>2. Count(toPi', ForTheQueue) \in Nat /\ Count(fromPi', {"arm"}) \in Nat  BY <1>1, CountType
<1>3. Len(espEvents') \in Nat  BY <1>1, LenProperties
<1> QED  BY <1>1, <1>2, <1>3 DEF Backlog, Armed, Count

(* An arm that is lost, or answered, is no longer counted.                 *)
LEMMA StaysPaid ==
    ASSUME Typed, Typed', Paid, NEW lost \in Nat,
           Backlog' + lost <= Backlog + (restarts' - restarts),
           TurnOwed => TurnOwed' \/ lost >= 1,
           TestOwed => TestOwed' \/ lost >= 1,
           TurnOwed /\ TestOwed => TurnOwed' \/ TestOwed' \/ lost >= 2
    PROVE  Paid'
<1>1. Backlog \in Nat /\ Backlog' \in Nat /\ restarts \in Nat /\ restarts' \in Nat
    BY Parts, PartsAgain
<1> DEFINE turn == Owed(TurnOwed)
           test == Owed(TestOwed)
           turnThen == Owed(TurnOwed)'
           testThen == Owed(TestOwed)'
<1>2. /\ turn = IF TurnOwed THEN 1 ELSE 0
      /\ test = IF TestOwed THEN 1 ELSE 0
      /\ turnThen = IF TurnOwed' THEN 1 ELSE 0
      /\ testThen = IF TestOwed' THEN 1 ELSE 0
    BY DEF Owed
<1>3. Backlog <= 1 + restarts + turn + test  BY DEF Paid
<1>4. Paid' <=> Backlog' <= 1 + restarts' + turnThen + testThen  BY DEF Paid
<1> HIDE DEF turn, test, turnThen, testThen
<1>5. turn + test <= turnThen + testThen + lost
    <2>1. CASE TurnOwed /\ TestOwed  BY <1>2, <2>1
    <2>2. CASE TurnOwed /\ ~ TestOwed  BY <1>2, <2>2
    <2>3. CASE ~ TurnOwed /\ TestOwed  BY <1>2, <2>3
    <2>4. CASE ~ TurnOwed /\ ~ TestOwed  BY <1>2, <2>4
    <2> QED  BY <2>1, <2>2, <2>3, <2>4
<1>6. turn \in {0, 1} /\ test \in {0, 1} /\ turnThen \in {0, 1} /\ testThen \in {0, 1}
    BY <1>2
<1>7. Backlog' <= 1 + restarts' + turnThen + testThen
    <2>1. PICK b \in Int, r \in Int : b = Backlog' /\ r = restarts'  BY <1>1
    <2>2. b + lost <= Backlog + (r - restarts)  BY <2>1
    <2>3. b <= 1 + r + turnThen + testThen  BY <1>1, <1>3, <1>5, <1>6, <2>2
    <2> QED  BY <2>1, <2>3
<1> QED  BY <1>4, <1>7

(* The chute takes a line: an arm it accepts or refuses keeps its mark.    *)
LEMMA TakesPaid ==
    ASSUME Typed, Typed', Paid, Marked, ChuteTakesLine
    PROVE  Paid'
<1> DEFINE h == Head(lineOf)
           arm == Head(fromPi) = "arm"
<1>1. /\ fromPi # <<>> /\ fromPi' = Tail(fromPi) /\ lineOf' = Tail(lineOf)
      /\ UNCHANGED <<espEvents, piState, tester, restarts>>
    BY DEF ChuteTakesLine, Esp!AcceptArm, Esp!RefuseArm, Esp!StartEnroll, Esp!ClearLatch,
           Esp!IgnoreLine, Esp!Take, turnVars
<1>2. /\ lineOf \in Seq(Marks) /\ fromPi \in Seq(Inbound) /\ Len(lineOf) = Len(fromPi)
      /\ answerOf \in Seq(Marks) /\ toPi \in Seq(Outbound) /\ Len(answerOf) = Len(toPi)
      /\ lineOf # <<>> /\ h \in Marks
    BY <1>1, Taken DEF Typed, ChuteTyped
<1>3. /\ h = lineOf[1] /\ 1 \in 1 .. Len(lineOf) /\ Head(fromPi) = fromPi[1]
      /\ Len(lineOf) \in Nat /\ Len(lineOf') = Len(lineOf) - 1
      /\ \A i \in 1 .. Len(lineOf') : lineOf'[i] = lineOf[i + 1]
    BY <1>1, <1>2, LineMoves
<1>4. h # "none" <=> arm  BY <1>2, <1>3 DEF Marked
<1>5. \A i \in 1 .. Len(lineOf) : i # 1 => i - 1 \in 1 .. Len(lineOf') /\ lineOf'[i - 1] = lineOf[i]
    <2> SUFFICES ASSUME NEW i \in 1 .. Len(lineOf), i # 1
                 PROVE  i - 1 \in 1 .. Len(lineOf') /\ lineOf'[i - 1] = lineOf[i]
        OBVIOUS
    <2>1. i - 1 \in 1 .. Len(lineOf') /\ (i - 1) + 1 = i  BY <1>3
    <2> QED  BY <1>3, <2>1
<1>6. Count(fromPi', {"arm"}) = Count(fromPi, {"arm"}) - (IF arm THEN 1 ELSE 0)
    BY <1>1, <1>2, CountTaken
<1>7. \A mark : (\E i \in 1 .. Len(lineOf) : lineOf[i] = mark) =>
                    mark = h \/ \E i \in 1 .. Len(lineOf') : lineOf'[i] = mark
    BY <1>3, <1>5
<1>8. Len(espEvents') = Len(espEvents) /\ restarts' - restarts = 0  BY <1>1, Parts
<1>9. CASE Esp!AcceptArm /\ armOf' = h /\ answerOf' = answerOf
    <2>1. arm /\ phase = "ready" /\ phase' = "armed" /\ toPi' = toPi
        BY <1>9 DEF Esp!AcceptArm, Esp!Take
    <2>2. armOf = "none"  BY <2>1 DEF Marked
    <2>3. \A mark \in {"this", "test"} : Within(mark) => Within(mark)'
        BY <1>7, <1>9, <2>2 DEF Within
    <2>4. (TurnOwed => TurnOwed') /\ (TestOwed => TestOwed')
        BY <1>1, <2>3 DEF TurnOwed, TestOwed
    <2>5. Backlog' + 0 <= Backlog + (restarts' - restarts)
        <3>1. Armed = 0 /\ Armed' = 1  BY <2>1 DEF Armed
        <3>2. Count(toPi', ForTheQueue) = Count(toPi, ForTheQueue)  BY <2>1
        <3>3. Count(fromPi', {"arm"}) = Count(fromPi, {"arm"}) - 1  BY <1>6, <2>1
        <3>4. Backlog' = Len(espEvents) + Count(toPi, ForTheQueue) + (Count(fromPi, {"arm"}) - 1) + 1
            BY <1>8, <3>1, <3>2, <3>3, PartsAgain
        <3>5. Backlog = Len(espEvents) + Count(toPi, ForTheQueue) + Count(fromPi, {"arm"}) + 0
            BY <3>1, Parts
        <3>6. Backlog' = Backlog  BY <3>4, <3>5, Parts
        <3> QED  BY <1>8, <3>6, Parts
    <2> QED  BY <2>4, <2>5, StaysPaid
<1>10. CASE Esp!RefuseArm /\ answerOf' = Append(answerOf, h) /\ armOf' = armOf
    <2>1. /\ arm /\ phase = "blocked" /\ phase' = phase /\ toPi' = Append(toPi, StillBlocked(latch))
        BY <1>10, SameMessages DEF Esp!RefuseArm, Esp!Take, Esp!Emit
    <2>2. StillBlocked(latch) \in Outbound  BY <2>1, Messages DEF Typed, ChuteTyped
    <2>3. StillBlocked(latch) \in ForTheQueue  BY <2>2 DEF StillBlocked, ForTheQueue
    <2>4. Count(toPi', ForTheQueue) = Count(toPi, ForTheQueue) + 1
        BY <1>2, <2>1, <2>2, <2>3, CountPut
    <2>5. /\ Len(answerOf) + 1 \in 1 .. Len(answerOf') /\ answerOf'[Len(answerOf) + 1] = h
          /\ \A i \in 1 .. Len(answerOf) : i \in 1 .. Len(answerOf') /\ answerOf'[i] = answerOf[i]
        BY <1>2, <1>10, LineMoves
    <2>6. \A mark \in {"this", "test"} : Within(mark) => Within(mark)'
        BY <1>7, <1>10, <2>5 DEF Within
    <2>7. (TurnOwed => TurnOwed') /\ (TestOwed => TestOwed')
        BY <1>1, <2>6 DEF TurnOwed, TestOwed
    <2>8. Backlog' + 0 <= Backlog + (restarts' - restarts)
        <3>1. Armed' = Armed  BY <2>1 DEF Armed
        <3>2. Count(fromPi', {"arm"}) = Count(fromPi, {"arm"}) - 1  BY <1>6, <2>1
        <3>3. Backlog' = Backlog  BY <1>8, <2>4, <3>1, <3>2, Parts, PartsAgain
        <3> QED  BY <1>8, <3>3, Parts
    <2> QED  BY <2>7, <2>8, StaysPaid
<1>11. CASE /\ Esp!StartEnroll \/ Esp!ClearLatch \/ Esp!IgnoreLine
            /\ armOf' = armOf /\ answerOf' = answerOf
    <2> DEFINE lost == IF arm THEN 1 ELSE 0
    <2>1. toPi' = toPi /\ (phase' = "armed" <=> phase = "armed")
        BY <1>11 DEF Esp!StartEnroll, Esp!ClearLatch, Esp!IgnoreLine
    <2>2. \A mark : Within(mark) => Within(mark)' \/ mark = h  BY <1>7, <1>11 DEF Within
    <2>3. /\ TurnOwed => TurnOwed' \/ h = "this"
          /\ TestOwed => TestOwed' \/ h = "test"
        BY <1>1, <2>2 DEF TurnOwed, TestOwed
    <2>4. Backlog' + lost <= Backlog + (restarts' - restarts)
        <3>1. Armed' = Armed  BY <2>1 DEF Armed
        <3>2. Count(toPi', ForTheQueue) = Count(toPi, ForTheQueue)  BY <2>1
        <3>3. Count(fromPi', {"arm"}) = Count(fromPi, {"arm"}) - lost  BY <1>6
        <3>4. lost \in {0, 1}  OBVIOUS
        <3> HIDE DEF lost
        <3>5. Backlog' = Backlog - lost
            <4>1. Backlog' = Len(espEvents) + Count(toPi, ForTheQueue)
                                 + (Count(fromPi, {"arm"}) - lost) + Armed
                BY <1>8, <3>1, <3>2, <3>3, PartsAgain
            <4> QED  BY <3>4, <4>1, Parts
        <3> QED  BY <1>8, <3>4, <3>5, Parts
    <2>5. lost \in Nat /\ (arm => lost >= 1)  OBVIOUS
    <2>6. (TurnOwed => TurnOwed' \/ arm) /\ (TestOwed => TestOwed' \/ arm)  BY <1>4, <2>3
    <2>7. TurnOwed /\ TestOwed => TurnOwed' \/ TestOwed'  BY <2>3
    <2> HIDE DEF lost
    <2> QED  BY <2>4, <2>5, <2>6, <2>7, StaysPaid
<1> QED  BY <1>9, <1>10, <1>11 DEF ChuteTakesLine

(* A verdict takes the mark of the arm it answers; an enrolment's result   *)
(* is not for the queue.                                                   *)
LEMMA SpeaksPaid ==
    ASSUME Typed, Typed', Paid, Marked, ChuteReports \/ EnrollmentEnds
    PROVE  Paid'
<1>1. /\ UNCHANGED <<espEvents, piState, tester, restarts, lineOf>>
    BY DEF ChuteReports, EnrollmentEnds, turnVars
<1>2. answerOf \in Seq(Marks) /\ toPi \in Seq(Outbound) /\ armOf \in Marks
    BY DEF Typed, ChuteTyped
<1>3. /\ fromPi' = fromPi
      /\ \E mark \in Marks : answerOf' = Append(answerOf, mark) /\ (armOf' = armOf \/ mark = armOf)
      /\ Backlog' = Backlog
    <2>1. CASE ChuteReports
        <3>1. PICK o \in Outcomes, t \in Tags \cup {Null} : Esp!Report(o, t)
            BY <2>1 DEF ChuteReports
        <3>2. /\ phase = "armed" /\ phase' # "armed" /\ toPi' = Append(toPi, Verdict(o, t))
              /\ fromPi' = fromPi /\ (t # Null <=> o \in Winning)
            BY <3>1, SameMessages DEF Esp!Report, Esp!Emit
        <3>3. Verdict(o, t) \in Outbound  BY <3>2, Messages
        <3>4. Verdict(o, t) \in ForTheQueue  BY <3>3 DEF Verdict, ForTheQueue
        <3>5. Count(toPi', ForTheQueue) = Count(toPi, ForTheQueue) + 1
            BY <1>2, <3>2, <3>3, <3>4, CountPut
        <3>6. Armed = 1 /\ Armed' = 0  BY <3>2 DEF Armed
        <3>7. Count(fromPi', {"arm"}) = Count(fromPi, {"arm"}) /\ Len(espEvents') = Len(espEvents)
            BY <1>1, <3>2
        <3>8. Backlog' = Backlog  BY <3>5, <3>6, <3>7, Parts, PartsAgain
        <3> QED  BY <1>2, <2>1, <3>2, <3>8 DEF ChuteReports
    <2>2. CASE EnrollmentEnds
        <3>1. PICK m \in Outbound : Esp!FinishEnroll(m) /\ m.type \in {"tag_scanned", "enroll_timeout"}
            <4>1. EnrollTimeout \in Outbound /\ \A t \in Tags : TagScanned(t) \in Outbound
                BY Messages
            <4>2. EnrollTimeout.type = "enroll_timeout" /\ \A t : TagScanned(t).type = "tag_scanned"
                BY DEF EnrollTimeout, TagScanned
            <4> QED  BY <2>2, <4>1, <4>2 DEF EnrollmentEnds
        <3>2. phase = "enrolling" /\ phase' = "ready" /\ toPi' = Append(toPi, m) /\ fromPi' = fromPi
            BY <3>1 DEF Esp!FinishEnroll, Esp!Emit
        <3>3. answerOf' = Append(answerOf, "none") /\ armOf' = armOf /\ "none" \in Marks
            BY <2>2 DEF EnrollmentEnds, Marks
        <3>4. m \notin ForTheQueue  BY <3>1 DEF ForTheQueue
        <3>5. Count(toPi', ForTheQueue) = Count(toPi, ForTheQueue) + 0
            BY <1>2, <3>2, <3>4, CountPut
        <3>6. Armed = 0 /\ Armed' = 0  BY <3>2 DEF Armed
        <3>7. Count(fromPi', {"arm"}) = Count(fromPi, {"arm"}) /\ Len(espEvents') = Len(espEvents)
            BY <1>1, <3>2
        <3>8. Backlog' = Backlog  BY <3>5, <3>6, <3>7, Parts, PartsAgain
        <3> QED  BY <3>2, <3>3, <3>8
    <2> QED  BY <2>1, <2>2
<1>4. PICK mark \in Marks : answerOf' = Append(answerOf, mark) /\ (armOf' = armOf \/ mark = armOf)
    BY <1>3
<1>5. /\ Len(answerOf) + 1 \in 1 .. Len(answerOf') /\ answerOf'[Len(answerOf) + 1] = mark
      /\ \A i \in 1 .. Len(answerOf) : i \in 1 .. Len(answerOf') /\ answerOf'[i] = answerOf[i]
    BY <1>2, <1>4, LineMoves
<1>6. \A m : Within(m) => Within(m)'
    <2> SUFFICES ASSUME NEW m, Within(m) PROVE Within(m)'  OBVIOUS
    <2>1. CASE m = armOf  BY <1>4, <1>5, <2>1 DEF Within
    <2>2. CASE \E i \in 1 .. Len(lineOf) : lineOf[i] = m  BY <1>1, <2>2 DEF Within
    <2>3. CASE \E i \in 1 .. Len(answerOf) : answerOf[i] = m  BY <1>5, <2>3 DEF Within
    <2> QED  BY <2>1, <2>2, <2>3 DEF Within
<1>7. (TurnOwed => TurnOwed') /\ (TestOwed => TestOwed')  BY <1>1, <1>6 DEF TurnOwed, TestOwed
<1>8. Backlog' + 0 <= Backlog + (restarts' - restarts)  BY <1>1, <1>3, Parts
<1> QED  BY <1>7, <1>8, StaysPaid

(* A restart forgets every arm, and its announcement is an answer too many.*)
LEMMA RestartPaid ==
    ASSUME Typed, Typed', Paid, Marked, Ordered, ChuteRestarts
    PROVE  Paid' /\ Marked' /\ Ordered'
<1> DEFINE lost == Count(fromPi, {"arm"}) + Armed
<1>1. /\ UNCHANGED <<espEvents, piState, tester>> /\ restarts' = restarts + 1
      /\ phase' = "ready" /\ fromPi' = <<>> /\ toPi' = Append(toPi, Ready(Null))
      /\ lineOf' = <<>> /\ armOf' = "none" /\ answerOf' = Append(answerOf, "none")
    BY SameMessages DEF ChuteRestarts, Esp!Restart, Esp!Emit, turnVars
<1>2. /\ lineOf \in Seq(Marks) /\ fromPi \in Seq(Inbound) /\ Len(lineOf) = Len(fromPi)
      /\ answerOf \in Seq(Marks) /\ toPi \in Seq(Outbound) /\ Len(answerOf) = Len(toPi)
      /\ "none" \in Marks /\ Ready(Null) \in Outbound /\ Ready(Null).type = "ready"
    BY Messages DEF Typed, ChuteTyped, Marks, Ready
<1>3. /\ Len(answerOf) \in Nat /\ Len(answerOf') = Len(answerOf) + 1 /\ Len(toPi') = Len(toPi) + 1
      /\ answerOf'[Len(answerOf) + 1] = "none" /\ toPi'[Len(answerOf) + 1] = Ready(Null)
      /\ \A i \in 1 .. Len(answerOf) : answerOf'[i] = answerOf[i] /\ toPi'[i] = toPi[i]
    BY <1>1, <1>2, LineMoves
<1>4. \A i \in 1 .. Len(answerOf') : i \in 1 .. Len(answerOf) \/ i = Len(answerOf) + 1  BY <1>3
<1>5. Marked'
    <2>1. \A i \in 1 .. Len(answerOf') : answerOf'[i] # "none" <=> toPi'[i].type \in {"verdict", "fault"}
        BY <1>2, <1>3, <1>4 DEF Marked
    <2>2. \A i \in 1 .. Len(lineOf') : lineOf'[i] # "none" <=> fromPi'[i] = "arm"
        <3>1. Len(lineOf') = 0  BY <1>1
        <3> QED  BY <3>1
    <2>3. armOf' # "none" <=> phase' = "armed"  BY <1>1
    <2> QED  BY <2>1, <2>2, <2>3 DEF Marked
<1>6. Before("this", "test")' => Before("this", "test")
    <2>1. Len(lineOf') = 0  BY <1>1
    <2>2. ASSUME NEW i \in 1 .. Len(answerOf'), NEW j \in 1 .. Len(answerOf'), i < j,
                 answerOf'[i] = "this", answerOf'[j] = "test"
          PROVE  Before("this", "test")
        <3>1. /\ i \in 1 .. Len(answerOf) /\ answerOf[i] = "this"
              /\ j \in 1 .. Len(answerOf) /\ answerOf[j] = "test"
            BY <1>3, <1>4, <2>2
        <3> QED  BY <2>2, <3>1 DEF Before
    <2>3. Before("this", "test")' =>
              \E i, j \in 1 .. Len(answerOf') : i < j /\ answerOf'[i] = "this" /\ answerOf'[j] = "test"
        <3>1. armOf' = "none"  BY <1>1
        <3>2. \A j \in 1 .. Len(lineOf') : FALSE  BY <2>1
        <3> QED  BY <3>1, <3>2 DEF Before
    <2> QED  BY <2>2, <2>3
<1>7. Ordered'  BY <1>1, <1>6 DEF Ordered
<1>8. ASSUME NEW m \in {"this", "test"}, Within(m), ~ Within(m)'
      PROVE  \/ m = armOf /\ Armed = 1
             \/ \E i \in 1 .. Len(fromPi) : lineOf[i] = m /\ fromPi[i] \in {"arm"}
    <2>1. CASE m = armOf  BY <2>1 DEF Marked, Armed
    <2>2. CASE \E i \in 1 .. Len(lineOf) : lineOf[i] = m  BY <1>2, <2>2 DEF Marked
    <2>3. CASE \E i \in 1 .. Len(answerOf) : answerOf[i] = m
        BY <1>3, <1>8, <2>3 DEF Within
    <2> QED  BY <1>8, <2>1, <2>2, <2>3 DEF Within
<1>9. \A i \in 1 .. Len(fromPi) : fromPi[i] \in {"arm"} => Count(fromPi, {"arm"}) >= 1
    BY <1>2, CountSome
<1>10. \A i, j \in 1 .. Len(fromPi) :
           i # j /\ fromPi[i] \in {"arm"} /\ fromPi[j] \in {"arm"} => Count(fromPi, {"arm"}) >= 2
    BY <1>2, CountSome
<1>11. /\ TurnOwed => TurnOwed' \/ (Within("this") /\ ~ Within("this")')
       /\ TestOwed => TestOwed' \/ (Within("test") /\ ~ Within("test")')
    BY <1>1 DEF TurnOwed, TestOwed
<1>12. Count(fromPi, {"arm"}) \in Nat /\ Armed \in {0, 1} /\ lost \in Nat  BY Parts
<1>13. /\ TurnOwed => TurnOwed' \/ lost >= 1
       /\ TestOwed => TestOwed' \/ lost >= 1
    BY <1>8, <1>9, <1>11, <1>12
<1>14. TurnOwed /\ TestOwed => TurnOwed' \/ TestOwed' \/ lost >= 2
    <2> SUFFICES ASSUME /\ Within("this") /\ ~ Within("this")'
                        /\ Within("test") /\ ~ Within("test")'
                 PROVE  lost >= 2
        BY <1>11
    <2>1. /\ \/ "this" = armOf /\ Armed = 1
             \/ \E i \in 1 .. Len(fromPi) : lineOf[i] = "this" /\ fromPi[i] \in {"arm"}
          /\ \/ "test" = armOf /\ Armed = 1
             \/ \E i \in 1 .. Len(fromPi) : lineOf[i] = "test" /\ fromPi[i] \in {"arm"}
        BY <1>8
    <2>2. CASE Armed = 1 /\ \E i \in 1 .. Len(fromPi) : fromPi[i] \in {"arm"}
        BY <1>9, <1>12, <2>2
    <2>3. CASE \E i, j \in 1 .. Len(fromPi) : i # j /\ fromPi[i] \in {"arm"} /\ fromPi[j] \in {"arm"}
        BY <1>10, <1>12, <2>3
    <2> QED  BY <2>1, <2>2, <2>3
<1>15. Backlog' + lost <= Backlog + (restarts' - restarts)
    <2>1. Count(toPi', ForTheQueue) <= Count(toPi, ForTheQueue) + 1
          /\ Count(toPi', ForTheQueue) \in {Count(toPi, ForTheQueue), Count(toPi, ForTheQueue) + 1}
        BY <1>1, <1>2, CountPut, Parts
    <2>2. Count(fromPi', {"arm"}) = 0  BY <1>1, CountNone
    <2>3. Armed' = 0 /\ Len(espEvents') = Len(espEvents)  BY <1>1 DEF Armed
    <2>4. Backlog' = Backlog - lost \/ Backlog' = (Backlog - lost) + 1
        <3>1. Backlog' = Len(espEvents) + Count(toPi', ForTheQueue) + 0 + 0
            BY <2>2, <2>3, PartsAgain
        <3>2. \/ Backlog' = Len(espEvents) + Count(toPi, ForTheQueue)
              \/ Backlog' = (Len(espEvents) + Count(toPi, ForTheQueue)) + 1
            BY <2>1, <3>1, Parts
        <3>3. Backlog - lost = Len(espEvents) + Count(toPi, ForTheQueue)  BY Parts
        <3> HIDE DEF lost
        <3> QED  BY <3>2, <3>3
    <2>5. restarts' - restarts = 1  BY <1>1, Parts
    <2> HIDE DEF lost
    <2> QED  BY <1>12, <2>4, <2>5, Parts
<1>16. Paid'
    <2> HIDE DEF lost
    <2> QED  BY <1>12, <1>13, <1>14, <1>15, StaysPaid
<1> QED  BY <1>5, <1>7, <1>16

(* What is behind the first answer stays, and the first is for the queue   *)
(* when it answers an arm.                                                 *)
LEMMA BehindHead ==
    ASSUME NEW line \in Seq(Marks), line # <<>>
    PROVE  \A m : (\E i \in 1 .. Len(line) : line[i] = m) =>
                      m = Head(line) \/ \E i \in 1 .. Len(Tail(line)) : Tail(line)[i] = m
<1>1. /\ Len(line) \in Nat /\ Head(line) = line[1] /\ Len(Tail(line)) = Len(line) - 1
      /\ \A i \in 1 .. Len(Tail(line)) : Tail(line)[i] = line[i + 1]
    BY HeadLeaves
<1>2. ASSUME NEW i \in 1 .. Len(line), i # 1
      PROVE  i - 1 \in 1 .. Len(Tail(line)) /\ Tail(line)[i - 1] = line[i]
    <2>1. i - 1 \in 1 .. Len(Tail(line)) /\ (i - 1) + 1 = i  BY <1>1, <1>2
    <2> QED  BY <1>1, <2>1
<1> QED  BY <1>1, <1>2

LEMMA HeadMarked ==
    ASSUME Typed, Marked, toPi # <<>>
    PROVE  /\ Head(toPi) \in Outbound /\ Head(answerOf) \in Marks
           /\ Head(answerOf) # "none" <=> Head(toPi).type \in {"verdict", "fault"}
           /\ Head(answerOf) # "none" => Head(toPi) \in ForTheQueue
<1>1. answerOf \in Seq(Marks) /\ toPi \in Seq(Outbound) /\ Len(answerOf) = Len(toPi) /\ answerOf # <<>>
      /\ Head(answerOf) \in Marks
    BY Taken DEF Typed, ChuteTyped
<1>2. Head(toPi) = toPi[1] /\ Head(answerOf) = answerOf[1] /\ 1 \in 1 .. Len(toPi) /\ Head(toPi) \in Outbound
    BY <1>1, LineMoves
<1>3. Head(answerOf) # "none" <=> Head(toPi).type \in {"verdict", "fault"}  BY <1>1, <1>2 DEF Marked
<1> QED  BY <1>1, <1>2, <1>3 DEF ForTheQueue

(* A line is lost while the port is closed: an answer with it, or nothing. *)
LEMMA LineLostPaid ==
    ASSUME Typed, Typed', Paid, Marked, LineLost
    PROVE  Paid'
<1> DEFINE a == Head(answerOf)
           lost == IF Head(toPi) \in ForTheQueue THEN 1 ELSE 0
<1>1. /\ UNCHANGED <<espEvents, piState, tester, restarts, lineOf, armOf, phase, fromPi>>
      /\ toPi # <<>> /\ toPi' = Tail(toPi) /\ answerOf' = Tail(answerOf)
    BY DEF LineLost, TakeLine, Esp!PiReads, turnVars
<1>2. answerOf \in Seq(Marks) /\ toPi \in Seq(Outbound) /\ Len(answerOf) = Len(toPi) /\ answerOf # <<>>
    BY <1>1, Taken DEF Typed, ChuteTyped
<1>3. \A m : Within(m) => Within(m)' \/ m = a
    <2>1. \A m : (\E i \in 1 .. Len(answerOf) : answerOf[i] = m) =>
                     m = Head(answerOf)
                     \/ \E i \in 1 .. Len(Tail(answerOf)) : Tail(answerOf)[i] = m
        <3>1. answerOf \in Seq(Marks) /\ answerOf # <<>>  BY <1>2
        <3> QED  BY <3>1, BehindHead
    <2>2. answerOf' = Tail(answerOf) /\ a = Head(answerOf)  BY <1>1
    <2>3. lineOf' = lineOf /\ armOf' = armOf  BY <1>1
    <2> HIDE DEF a
    <2> QED  BY <2>1, <2>2, <2>3, Zenon DEF Within
<1>4. a # "none" => Head(toPi) \in ForTheQueue  BY <1>2, HeadMarked
<1>5. /\ TurnOwed => TurnOwed' \/ a = "this"
      /\ TestOwed => TestOwed' \/ a = "test"
    BY <1>1, <1>3 DEF TurnOwed, TestOwed
<1>6. Backlog' + lost <= Backlog + (restarts' - restarts)
    <2>1. Count(toPi', ForTheQueue) = Count(toPi, ForTheQueue) - lost  BY <1>1, <1>2, CountTaken
    <2>2. /\ Count(fromPi', {"arm"}) = Count(fromPi, {"arm"}) /\ Len(espEvents') = Len(espEvents)
          /\ Armed' = Armed
        BY <1>1 DEF Armed
    <2>3. lost \in {0, 1}  OBVIOUS
    <2> HIDE DEF lost
    <2>4. Backlog' = Backlog - lost
        <3>1. Backlog' = Len(espEvents) + (Count(toPi, ForTheQueue) - lost)
                             + Count(fromPi, {"arm"}) + Armed
            BY <2>1, <2>2, PartsAgain
        <3> QED  BY <2>3, <3>1, Parts
    <2>5. restarts' - restarts = 0  BY <1>1, Parts
    <2> QED  BY <2>3, <2>4, <2>5, Parts
<1>7. lost \in Nat /\ (Head(toPi) \in ForTheQueue => lost >= 1)  OBVIOUS
<1>8. /\ TurnOwed => TurnOwed' \/ Head(toPi) \in ForTheQueue
      /\ TestOwed => TestOwed' \/ Head(toPi) \in ForTheQueue
      /\ TurnOwed /\ TestOwed => TurnOwed' \/ TestOwed'
    BY <1>4, <1>5
<1> HIDE DEF lost
<1> QED  BY <1>6, <1>7, <1>8, StaysPaid

(* The port is lost, and every answer on its way with it.                  *)
LEMMA DropPaid ==
    ASSUME Typed, Typed', Paid, Marked, LinkDrops
    PROVE  Paid'
<1> DEFINE lost == Count(toPi, ForTheQueue)
<1>1. /\ UNCHANGED <<espEvents, piState, tester, restarts, lineOf, armOf, phase, fromPi>>
      /\ toPi' = <<>>
    BY DEF LinkDrops, turnVars
<1>2. answerOf \in Seq(Marks) /\ toPi \in Seq(Outbound) /\ Len(answerOf) = Len(toPi)
    BY DEF Typed, ChuteTyped
<1>3. ASSUME NEW m \in {"this", "test"}, Within(m), ~ Within(m)'
      PROVE  \E i \in 1 .. Len(toPi) : answerOf[i] = m /\ toPi[i] \in ForTheQueue
    <2>1. PICK i \in 1 .. Len(toPi) : answerOf[i] = m  BY <1>1, <1>2, <1>3 DEF Within
    <2>2. toPi[i].type \in {"verdict", "fault"} /\ toPi[i] \in Outbound
        BY <1>2, <2>1, ElementOfSeq DEF Marked
    <2> QED  BY <2>1, <2>2 DEF ForTheQueue
<1>4. /\ TurnOwed => TurnOwed' \/ (Within("this") /\ ~ Within("this")')
      /\ TestOwed => TestOwed' \/ (Within("test") /\ ~ Within("test")')
    BY <1>1 DEF TurnOwed, TestOwed
<1>5. \A i \in 1 .. Len(toPi) : toPi[i] \in ForTheQueue => lost >= 1
    BY <1>2, CountSome
<1>6. \A i, j \in 1 .. Len(toPi) :
          i # j /\ toPi[i] \in ForTheQueue /\ toPi[j] \in ForTheQueue => lost >= 2
    BY <1>2, CountSome
<1>7. lost \in Nat  BY Parts
<1>8. Backlog' + lost <= Backlog + (restarts' - restarts)
    <2>1. Count(toPi', ForTheQueue) = 0  BY <1>1, CountNone
    <2>2. /\ Count(fromPi', {"arm"}) = Count(fromPi, {"arm"}) /\ Len(espEvents') = Len(espEvents)
          /\ Armed' = Armed
        BY <1>1 DEF Armed
    <2>3. Backlog' = Backlog - lost  BY <2>1, <2>2, Parts, PartsAgain
    <2>4. restarts' - restarts = 0  BY <1>1, Parts
    <2> HIDE DEF lost
    <2> QED  BY <1>7, <2>3, <2>4, Parts
<1> HIDE DEF lost
<1>9. /\ TurnOwed => TurnOwed' \/ lost >= 1
      /\ TestOwed => TestOwed' \/ lost >= 1
    BY <1>3, <1>4, <1>5
<1>10. TurnOwed /\ TestOwed => TurnOwed' \/ TestOwed' \/ lost >= 2
    <2> SUFFICES ASSUME /\ Within("this") /\ ~ Within("this")'
                        /\ Within("test") /\ ~ Within("test")'
                 PROVE  lost >= 2
        BY <1>4
    <2>1. PICK i \in 1 .. Len(toPi) : answerOf[i] = "this" /\ toPi[i] \in ForTheQueue  BY <1>3
    <2>2. PICK j \in 1 .. Len(toPi) : answerOf[j] = "test" /\ toPi[j] \in ForTheQueue  BY <1>3
    <2> QED  BY <1>6, <2>1, <2>2
<1> QED  BY <1>7, <1>8, <1>9, <1>10, StaysPaid

(* A message goes to the queue with its mark, or to the drop test that     *)
(* waits: even the turn's own answer, but then no answer for the drop test *)
(* is behind it.                                                           *)
LEMMA ReadPaid ==
    ASSUME Typed, Typed', Paid, Marked, Ordered, ReadLine
    PROVE  Paid'
<1> DEFINE m == Head(toPi)
           a == Head(answerOf)
           q == [msg |-> m, of |-> a]
           captured == tester = "waiting" /\ m.type \in {"verdict", "fault"}
<1>1. /\ UNCHANGED <<piState, restarts, lineOf, armOf, phase, fromPi>>
      /\ toPi # <<>> /\ toPi' = Tail(toPi) /\ answerOf' = Tail(answerOf)
      /\ tester' = IF captured THEN "none" ELSE tester
      /\ espEvents' = IF captured \/ m.type \in {"tag_scanned", "enroll_timeout"}
                      THEN espEvents ELSE Append(espEvents, q)
    BY DEF ReadLine, TakeLine, Esp!PiReads
<1>2. /\ answerOf \in Seq(Marks) /\ toPi \in Seq(Outbound) /\ Len(answerOf) = Len(toPi) /\ answerOf # <<>>
      /\ espEvents \in Seq([msg : Outbound, of : Marks])
    BY <1>1, Taken DEF Typed, ChuteTyped, PiTyped
<1>3. \A mark : Within(mark) => Within(mark)' \/ mark = a
    <2>1. \A mark : (\E i \in 1 .. Len(answerOf) : answerOf[i] = mark) =>
                        mark = Head(answerOf)
                        \/ \E i \in 1 .. Len(Tail(answerOf)) : Tail(answerOf)[i] = mark
        <3>1. answerOf \in Seq(Marks) /\ answerOf # <<>>  BY <1>2
        <3> QED  BY <3>1, BehindHead
    <2>2. answerOf' = Tail(answerOf) /\ a = Head(answerOf)  BY <1>1
    <2>3. lineOf' = lineOf /\ armOf' = armOf  BY <1>1
    <2> HIDE DEF a
    <2> QED  BY <2>1, <2>2, <2>3, Zenon DEF Within
<1>4. /\ m \in Outbound /\ a \in Marks /\ (a # "none" <=> m.type \in {"verdict", "fault"})
      /\ a # "none" => m \in ForTheQueue
    BY <1>1, HeadMarked
<1>5. /\ Count(toPi', ForTheQueue) = Count(toPi, ForTheQueue) - (IF m \in ForTheQueue THEN 1 ELSE 0)
      /\ Count(fromPi', {"arm"}) = Count(fromPi, {"arm"}) /\ Armed' = Armed
      /\ restarts' - restarts = 0
    BY <1>1, <1>2, CountTaken, Parts DEF Armed
<1>6. CASE captured
    <2>1. espEvents' = espEvents /\ tester' = "none" /\ m \in ForTheQueue /\ a # "none"
        BY <1>1, <1>4, <1>6
    <2>2. Len(espEvents') = Len(espEvents)  BY <2>1
    <2>3. Backlog' = Backlog - 1
        <3>1. Count(toPi', ForTheQueue) = Count(toPi, ForTheQueue) - 1  BY <1>5, <2>1
        <3>2. Backlog' = Len(espEvents) + (Count(toPi, ForTheQueue) - 1)
                             + Count(fromPi, {"arm"}) + Armed
            BY <1>5, <2>2, <3>1, PartsAgain
        <3> QED  BY <3>2, Parts
    <2>4. Backlog' + 1 <= Backlog + (restarts' - restarts)  BY <1>5, <2>3, Parts
    <2>5. TurnOwed /\ TestOwed => TurnOwed'
        <3> SUFFICES ASSUME TurnOwed, TestOwed, ~ TurnOwed' PROVE FALSE  OBVIOUS
        <3>1. a = "this" /\ piState = "AWAITING"  BY <1>1, <1>3, <2>1 DEF TurnOwed
        <3>2. Within("test")'  BY <1>3, <3>1 DEF TestOwed
        <3>3. /\ 1 \in 1 .. Len(answerOf) /\ answerOf[1] = "this"
              /\ \A i \in 1 .. Len(answerOf') :
                    i + 1 \in 1 .. Len(answerOf) /\ 1 < i + 1 /\ answerOf'[i] = answerOf[i + 1]
            BY <1>1, <1>2, <3>1, HeadLeaves
        <3>4. Before("this", "test")
            <4>1. CASE "test" = armOf  BY <3>3, <4>1 DEF Before
            <4>2. CASE \E i \in 1 .. Len(lineOf) : lineOf[i] = "test"  BY <3>3, <4>2 DEF Before
            <4>3. CASE \E i \in 1 .. Len(answerOf') : answerOf'[i] = "test"
                <5>1. PICK i \in 1 .. Len(answerOf') : answerOf'[i] = "test"  BY <4>3
                <5>2. i + 1 \in 1 .. Len(answerOf) /\ 1 < i + 1 /\ answerOf[i + 1] = "test"
                    BY <3>3, <5>1
                <5> QED  BY <3>3, <5>2 DEF Before
            <4> QED  BY <1>1, <3>2, <4>1, <4>2, <4>3 DEF Within
        <3> QED  BY <3>1, <3>4 DEF Ordered
    <2>6. 1 \in Nat /\ 1 >= 1  OBVIOUS
    <2> QED  BY <2>4, <2>5, <2>6, StaysPaid
<1>7. CASE ~ captured /\ m.type \in {"tag_scanned", "enroll_timeout"}
    <2>1. espEvents' = espEvents /\ tester' = tester /\ m \notin ForTheQueue /\ a = "none"
        BY <1>1, <1>4, <1>7 DEF ForTheQueue
    <2>2. Len(espEvents') = Len(espEvents)  BY <2>1
    <2>3. Count(toPi', ForTheQueue) = Count(toPi, ForTheQueue)  BY <1>5, <2>1, Parts
    <2>4. Backlog' = Backlog  BY <1>5, <2>2, <2>3, Parts, PartsAgain
    <2>5. Backlog' + 0 <= Backlog + (restarts' - restarts)  BY <1>5, <2>4, Parts
    <2>6. (TurnOwed => TurnOwed') /\ (TestOwed => TestOwed')
        BY <1>1, <1>3, <2>1 DEF TurnOwed, TestOwed
    <2> QED  BY <2>5, <2>6, StaysPaid
<1>8. CASE ~ captured /\ m.type \notin {"tag_scanned", "enroll_timeout"}
    <2>1. espEvents' = Append(espEvents, q) /\ tester' = tester /\ m \in ForTheQueue
        BY <1>1, <1>4, <1>8 DEF ForTheQueue
    <2>2. /\ Len(espEvents') = Len(espEvents) + 1
          /\ Len(espEvents) + 1 \in 1 .. Len(espEvents') /\ espEvents'[Len(espEvents) + 1].of = a
          /\ \A i \in 1 .. Len(espEvents) : i \in 1 .. Len(espEvents') /\ espEvents'[i] = espEvents[i]
        <3> DEFINE S == [msg : Outbound, of : Marks]
        <3>1. q \in S /\ espEvents \in Seq(S) /\ q.of = a  BY <1>2, <1>4
        <3>2. espEvents' = Append(espEvents, q)  BY <2>1
        <3> HIDE DEF q, S
        <3>3. /\ Len(espEvents') = Len(espEvents) + 1 /\ espEvents'[Len(espEvents) + 1] = q
              /\ Len(espEvents) \in Nat
              /\ \A i \in 1 .. Len(espEvents) : espEvents'[i] = espEvents[i]
            BY <3>1, <3>2, LineMoves
        <3> QED  BY <3>1, <3>3
    <2>3. Count(toPi', ForTheQueue) = Count(toPi, ForTheQueue) - 1  BY <1>5, <2>1
    <2>4. Backlog' = Backlog  BY <1>5, <2>2, <2>3, Parts, PartsAgain
    <2>5. Backlog' + 0 <= Backlog + (restarts' - restarts)  BY <1>5, <2>4, Parts
    <2>6. TurnOwed => TurnOwed'
        <3>1. CASE a = "this"  BY <1>1, <2>2, <3>1 DEF TurnOwed
        <3>2. CASE a # "this"  BY <1>1, <1>3, <2>2, <3>2 DEF TurnOwed
        <3> QED  BY <3>1, <3>2
    <2>7. TestOwed => TestOwed'  BY <1>1, <1>3, <1>4, <1>8, <2>1 DEF TestOwed
    <2> QED  BY <2>5, <2>6, <2>7, StaysPaid
<1> QED  BY <1>6, <1>7, <1>8

(* A line that is not an arm asks for no answer.                           *)
LEMMA OtherSendPaid ==
    ASSUME Typed, Typed', BInv, OnEnroll \/ IdleClear
    PROVE  BInv'
<1>1. PICK line \in Inbound : line # "arm" /\ Send(line, "none")
    BY DEF OnEnroll, IdleClear, Inbound
<1>2. /\ UNCHANGED <<armOf, answerOf, espEvents, tester, piState, restarts>>
      /\ phase' = phase /\ toPi' = toPi
    BY <1>1 DEF OnEnroll, IdleClear, turnVars, Send, Esp!PiWrites
<1>3. Paid /\ Marked /\ Ordered  BY DEF BInv
<1>4. /\ Marked' /\ NothingSwapped
      /\ \A m \in {"this", "test"} : Within(m) => Within(m)'
      /\ Count(fromPi', {"arm"}) = Count(fromPi, {"arm"})
    <2>1. CASE link = "up"
        <3>1. fromPi' = Append(fromPi, line) /\ lineOf' = Append(lineOf, "none")
            BY <1>1, <2>1 DEF Send, Esp!PiWrites
        <3>2. "none" \in Marks  BY DEF Marks
        <3>3. Count(fromPi', {"arm"}) = Count(fromPi, {"arm"}) + 0
            BY <1>1, <3>1, CountPut DEF Typed, ChuteTyped
        <3>4. Count(fromPi', {"arm"}) = Count(fromPi, {"arm"})  BY <3>3, Parts
        <3> QED  BY <1>1, <1>2, <1>3, <3>1, <3>2, <3>4, PutOnLine DEF NothingSwapped
    <2>2. CASE link # "up"
        <3>1. fromPi' = fromPi /\ lineOf' = lineOf  BY <1>1, <2>2 DEF Send
        <3> QED  BY <1>2, <1>3, <3>1 DEF Before, Marked, NothingSwapped, Within
    <2> QED  BY <2>1, <2>2
<1>5. (TurnOwed => TurnOwed') /\ (TestOwed => TestOwed')  BY <1>2, <1>4 DEF TurnOwed, TestOwed
<1>6. Backlog' + 0 <= Backlog + (restarts' - restarts)
    <2>1. /\ Count(toPi', ForTheQueue) = Count(toPi, ForTheQueue) /\ Len(espEvents') = Len(espEvents)
          /\ Armed' = Armed /\ restarts' - restarts = 0
        BY <1>2, Parts DEF Armed
    <2>2. Backlog' = Backlog  BY <1>4, <2>1, Parts, PartsAgain
    <2> QED  BY <2>1, <2>2, Parts
<1>7. Paid'  BY <1>3, <1>5, <1>6, StaysPaid
<1>8. Ordered'  BY <1>2, <1>3, <1>4 DEF Ordered, NothingSwapped, Marks
<1> QED  BY <1>4, <1>7, <1>8 DEF BInv

(* A drop test is armed between turns: no turn waits, and the test's own   *)
(* answer is owed from now on.                                             *)
LEMMA TestArmPaid ==
    ASSUME Typed, Typed', BInv, OnTestArm
    PROVE  BInv'
<1>1. /\ tester = "none" /\ tester' = "waiting" /\ piState = "IDLE"
      /\ fromPi' = Append(fromPi, "arm") /\ lineOf' = Append(lineOf, "test")
      /\ UNCHANGED <<armOf, answerOf, espEvents, piState, phase, toPi, restarts>>
    BY DEF OnTestArm, Send, Esp!PiWrites, turnVars
<1>2. "arm" \in Inbound /\ "test" \in Marks /\ Marked  BY DEF Inbound, Marks, BInv
<1>3. Marked' /\ Within("test")'  BY <1>1, <1>2, PutOnLine
<1>4. Ordered'  BY <1>1 DEF Ordered
<1>5. Owed(TurnOwed) = 0 /\ Owed(TestOwed) = 0 /\ Owed(TurnOwed)' = 0 /\ Owed(TestOwed)' = 1
    BY <1>1, <1>3 DEF Owed, TurnOwed, TestOwed
<1>6. Backlog <= 1 + restarts  BY <1>5, Parts DEF BInv, Paid
<1>7. Backlog' = Backlog + 1 /\ restarts' = restarts
    <2>1. Count(fromPi', {"arm"}) = Count(fromPi, {"arm"}) + 1
        BY <1>1, <1>2, CountPut DEF Typed, ChuteTyped
    <2>2. /\ Count(toPi', ForTheQueue) = Count(toPi, ForTheQueue) /\ Len(espEvents') = Len(espEvents)
          /\ Armed' = Armed
        BY <1>1 DEF Armed
    <2> QED  BY <1>1, <2>1, <2>2, Parts, PartsAgain
<1>8. Backlog' <= 1 + restarts' + 0 + 1  BY <1>6, <1>7, Parts
<1>9. Paid'  BY <1>5, <1>8 DEF Paid
<1> QED  BY <1>3, <1>4, <1>9 DEF BInv

LEMMA AgedIs ==
    ASSUME NEW marks \in Seq(Marks)
    PROVE  /\ Len(Aged(marks)) = Len(marks) /\ Aged(marks) \in Seq(Marks)
           /\ \A i \in 1 .. Len(marks) :
                 Aged(marks)[i] = IF marks[i] = "this" THEN "old" ELSE marks[i]
<1>1. DOMAIN marks = 1 .. Len(marks)  BY LenProperties
<1>2. \A i \in 1 .. Len(marks) : Aged(marks)[i] = IF marks[i] = "this" THEN "old" ELSE marks[i]
    BY <1>1 DEF Aged
<1> QED  BY <1>2, AgedTyped

(* The new arm's answer is owed, and nothing older is called the turn's.   *)
LEMMA ArmPaid ==
    ASSUME Typed, Typed', BInv, SendArm
    PROVE  BInv'
<1>0. Paid /\ Marked /\ Ordered  BY DEF BInv
<1>1. /\ piState = "ARMING" /\ piState' = "AWAITING" /\ espEvents' = Kept
      /\ armOf' = (IF armOf = "this" THEN "old" ELSE armOf) /\ answerOf' = Aged(answerOf)
      /\ UNCHANGED <<tester, restarts, phase, toPi>>
    BY DEF SendArm, Esp!PiWrites
<1>2. /\ lineOf \in Seq(Marks) /\ fromPi \in Seq(Inbound) /\ Len(lineOf) = Len(fromPi)
      /\ answerOf \in Seq(Marks) /\ Len(answerOf) = Len(toPi)
    BY DEF Typed, ChuteTyped
<1>3. /\ Len(answerOf') = Len(answerOf) /\ Len(Aged(lineOf)) = Len(lineOf) /\ Len(lineOf) \in Nat
      /\ Aged(lineOf) \in Seq(Marks)
      /\ \A i \in 1 .. Len(answerOf) : answerOf'[i] = IF answerOf[i] = "this" THEN "old" ELSE answerOf[i]
      /\ \A i \in 1 .. Len(lineOf) : Aged(lineOf)[i] = IF lineOf[i] = "this" THEN "old" ELSE lineOf[i]
    BY <1>1, <1>2, AgedIs, LineMoves
<1>4. Len(espEvents') \in Nat /\ Len(espEvents') <= Len(espEvents)
      /\ \A i \in 1 .. Len(espEvents') : espEvents'[i].of # "this"
    <2>1. CASE drains
        <3>1. espEvents' = <<>>  BY <1>1, <2>1 DEF Kept
        <3> QED  BY <3>1, Parts
    <2>2. CASE ~ drains
        <3> DEFINE S == [msg : Outbound, of : Marks]
                   n == Len(espEvents)
        <3>1. espEvents' = AgedQueue(espEvents)  BY <1>1, <2>2 DEF Kept
        <3>2. espEvents \in Seq(S)  BY DEF Typed, PiTyped
        <3>3. n \in Nat /\ DOMAIN espEvents = 1 .. n /\ \A i \in 1 .. n : espEvents[i] \in S
            BY <3>2, LenProperties, ElementOfSeq
        <3>4. DOMAIN espEvents' = 1 .. n
            BY <3>1, <3>3 DEF AgedQueue
        <3>5. \A e \in S : [e EXCEPT !.of = IF @ = "this" THEN "old" ELSE @].of # "this"
            OBVIOUS
        <3>6. \A i \in 1 .. n : espEvents'[i].of # "this"
            <4> HIDE DEF S
            <4> QED  BY <3>1, <3>3, <3>5 DEF AgedQueue
        <3>7. espEvents' \in Seq(S)  BY DEF Typed, PiTyped
        <3>8. Len(espEvents') \in Nat /\ DOMAIN espEvents' = 1 .. Len(espEvents')
            BY <3>7, LenProperties
        <3>9. Len(espEvents') = n
            <4> HIDE DEF n
            <4> QED  BY <3>3, <3>4, <3>8
        <3> QED  BY <3>3, <3>6, <3>9
    <2> QED  BY <2>1, <2>2
<1>5. ~ TurnOwed  BY <1>1 DEF TurnOwed
<1>6. CASE link = "up"
    <2> DEFINE n == Len(lineOf) + 1
    <2>1. fromPi' = Append(fromPi, "arm") /\ lineOf' = Append(Aged(lineOf), "this")
        BY <1>6 DEF SendArm, Esp!PiWrites
    <2>2. "arm" \in Inbound /\ "this" \in Marks  BY DEF Inbound, Marks
    <2>3. /\ Len(lineOf') = n /\ lineOf'[n] = "this" /\ fromPi'[n] = "arm" /\ n \in 1 .. Len(lineOf')
          /\ \A i \in 1 .. Len(lineOf) :
                /\ i \in 1 .. Len(lineOf') /\ i # n /\ fromPi'[i] = fromPi[i]
                /\ lineOf'[i] = IF lineOf[i] = "this" THEN "old" ELSE lineOf[i]
          /\ \A i \in 1 .. Len(lineOf') : i \in 1 .. Len(lineOf) \/ i = n
        BY <1>2, <1>3, <2>1, <2>2, LineMoves
    <2>4. Marked'
        <3>1. \A i \in 1 .. Len(lineOf') : lineOf'[i] # "none" <=> fromPi'[i] = "arm"
            BY <1>0, <2>3 DEF Marked
        <3>2. \A i \in 1 .. Len(answerOf') : answerOf'[i] # "none" <=> toPi'[i].type \in {"verdict", "fault"}
            BY <1>0, <1>1, <1>3 DEF Marked
        <3>3. armOf' # "none" <=> phase' = "armed"  BY <1>0, <1>1 DEF Marked
        <3> QED  BY <3>1, <3>2, <3>3 DEF Marked
    <2>5. /\ \A i \in 1 .. Len(answerOf') : answerOf'[i] # "this"
          /\ armOf' # "this"
          /\ \A i \in 1 .. Len(lineOf') : lineOf'[i] = "this" => i = n
        BY <1>1, <1>3, <2>3
    <2>6. ~ Before("this", "test")'
        <3>1. \A i, j \in 1 .. Len(lineOf') : i < j /\ i = n => FALSE  BY <1>3, <2>3
        <3> HIDE DEF n
        <3> QED  BY <2>5, <3>1 DEF Before
    <2>7. TurnOwed'  BY <1>1, <2>3 DEF TurnOwed, Within
    <2>8. Within("test") => Within("test")'  BY <1>1, <1>3, <2>3 DEF Within
    <2>9. TestOwed => TestOwed'  BY <1>1, <2>8 DEF TestOwed
    <2>10. Paid'
        <3>1. Count(fromPi', {"arm"}) = Count(fromPi, {"arm"}) + 1
            BY <1>2, <2>1, <2>2, CountPut
        <3>2. Count(toPi', ForTheQueue) = Count(toPi, ForTheQueue) /\ Armed' = Armed
              /\ restarts' = restarts
            BY <1>1 DEF Armed
        <3>3. PICK k \in Nat : k = Len(espEvents')  BY <1>4
        <3>4. k <= Len(espEvents)  BY <1>4, <3>3
        <3>5. Backlog' = k + Count(toPi, ForTheQueue) + (Count(fromPi, {"arm"}) + 1) + Armed
            BY <3>1, <3>2, <3>3, Parts, PartsAgain
        <3>6. Backlog' <= Backlog + 1  BY <3>4, <3>5, Parts
        <3> DEFINE test == Owed(TestOwed)
                   testThen == Owed(TestOwed)'
        <3>7. test \in {0, 1} /\ testThen \in {0, 1} /\ test <= testThen
            BY <2>9 DEF Owed
        <3>8. Owed(TurnOwed) = 0 /\ Owed(TurnOwed)' = 1  BY <1>5, <2>7 DEF Owed
        <3>9. Backlog <= 1 + restarts + 0 + test  BY <1>0, <3>8 DEF Paid
        <3> HIDE DEF test, testThen
        <3>10. PICK b \in Nat : b = Backlog'  BY PartsAgain
        <3>11. b <= Backlog + 1  BY <3>6, <3>10
        <3>12. b <= 1 + restarts + 1 + testThen  BY <3>7, <3>9, <3>11, Parts
        <3>13. Backlog' <= 1 + restarts' + 1 + testThen  BY <3>2, <3>10, <3>12
        <3> QED  BY <3>8, <3>13 DEF Paid, testThen
    <2> QED  BY <2>4, <2>6, <2>10 DEF BInv, Ordered
<1>7. CASE link # "up"
    <2>1. fromPi' = fromPi /\ lineOf' = Aged(lineOf)  BY <1>7 DEF SendArm
    <2>2. Marked'
        <3>1. \A i \in 1 .. Len(lineOf') : lineOf'[i] # "none" <=> fromPi'[i] = "arm"
            BY <1>0, <1>3, <2>1 DEF Marked
        <3>2. \A i \in 1 .. Len(answerOf') : answerOf'[i] # "none" <=> toPi'[i].type \in {"verdict", "fault"}
            BY <1>0, <1>1, <1>3 DEF Marked
        <3>3. armOf' # "none" <=> phase' = "armed"  BY <1>0, <1>1 DEF Marked
        <3> QED  BY <3>1, <3>2, <3>3 DEF Marked
    <2>3. ~ Within("this")'  BY <1>1, <1>3, <2>1 DEF Within
    <2>4. ~ Before("this", "test")'  BY <2>3 DEF Before, Within
    <2>5. Within("test") => Within("test")'  BY <1>1, <1>3, <2>1 DEF Within
    <2>6. TestOwed => TestOwed'  BY <1>1, <2>5 DEF TestOwed
    <2>7. Backlog' + 0 <= Backlog + (restarts' - restarts)
        <3>1. /\ Count(toPi', ForTheQueue) = Count(toPi, ForTheQueue) /\ Armed' = Armed
              /\ Count(fromPi', {"arm"}) = Count(fromPi, {"arm"}) /\ restarts' - restarts = 0
            BY <1>1, <2>1, Parts DEF Armed
        <3>2. PICK k \in Nat : k = Len(espEvents')  BY <1>4
        <3>3. k <= Len(espEvents)  BY <1>4, <3>2
        <3>4. Backlog' = k + Count(toPi, ForTheQueue) + Count(fromPi, {"arm"}) + Armed
            BY <3>1, <3>2, Parts, PartsAgain
        <3> QED  BY <3>1, <3>3, <3>4, Parts
    <2>8. Paid'  BY <1>0, <1>5, <2>6, <2>7, StaysPaid
    <2> QED  BY <2>2, <2>4, <2>8 DEF BInv, Ordered
<1> QED  BY <1>6, <1>7

(* The steps that leave the chute and its lines alone: a turn that takes   *)
(* an answer takes it out of the queue, and nobody gives up on an arm      *)
(* before it is settled.                                                   *)
LEMMA PiPaid ==
    ASSUME Typed, Typed', BInv, UNCHANGED chuteVars,
           \/ UNCHANGED <<espEvents, tester, piState, restarts>>
           \/ TestTimesOut \/ StartTurn \/ PulseEnds \/ OptoFires \/ TakeAnswer \/ AnswerTimesOut
    PROVE  BInv'
<1>0. Paid /\ Marked /\ Ordered  BY DEF BInv
<1>1. /\ phase' = phase /\ fromPi' = fromPi /\ toPi' = toPi /\ lineOf' = lineOf /\ armOf' = armOf
      /\ answerOf' = answerOf
    BY DEF chuteVars
<1>2. /\ Marked' /\ (Before("this", "test")' <=> Before("this", "test"))
      /\ (Within("this")' <=> Within("this")) /\ (Within("test")' <=> Within("test"))
    BY <1>0, <1>1 DEF Marked, Before, Within
<1>3. \A mark : Settled(mark) <=> ~ Within(mark)
    BY SettledIs DEF Typed, ChuteTyped
<1>4. /\ Count(fromPi', {"arm"}) = Count(fromPi, {"arm"}) /\ Armed' = Armed
      /\ Count(toPi', ForTheQueue) = Count(toPi, ForTheQueue)
    BY <1>1 DEF Armed
<1>5. ASSUME espEvents' = espEvents, restarts' = restarts,
             TurnOwed => TurnOwed', TestOwed => TestOwed'
      PROVE  Paid'
    <2>1. Len(espEvents') = Len(espEvents)  BY <1>5
    <2>2. Backlog' = Backlog  BY <1>4, <2>1, Parts, PartsAgain
    <2>3. Backlog' + 0 <= Backlog + (restarts' - restarts)  BY <1>5, <2>2, Parts
    <2> QED  BY <1>0, <1>5, <2>3, StaysPaid
<1>6. CASE UNCHANGED <<espEvents, tester, piState, restarts>>
    <2>1. (TurnOwed => TurnOwed') /\ (TestOwed => TestOwed')
        BY <1>2, <1>6 DEF TurnOwed, TestOwed
    <2>2. Ordered'  BY <1>0, <1>2, <1>6 DEF Ordered
    <2> QED  BY <1>2, <1>5, <1>6, <2>1, <2>2 DEF BInv
<1>7. CASE TestTimesOut
    <2>1. ~ Within("test") /\ UNCHANGED <<espEvents, piState, restarts>>
        BY <1>3, <1>7 DEF TestTimesOut, turnVars
    <2>2. (TurnOwed => TurnOwed') /\ (TestOwed => TestOwed')
        BY <1>2, <2>1 DEF TurnOwed, TestOwed
    <2>3. Ordered'  BY <1>0, <1>2, <2>1 DEF Ordered
    <2> QED  BY <1>2, <1>5, <2>1, <2>2, <2>3 DEF BInv
<1>8. CASE StartTurn \/ PulseEnds \/ OptoFires
    <2>1. /\ piState # "AWAITING" /\ piState' # "AWAITING"
          /\ UNCHANGED <<espEvents, tester, restarts>>
        BY <1>8 DEF StartTurn, PulseEnds, OptoFires
    <2>2. (TurnOwed => TurnOwed') /\ (TestOwed => TestOwed')
        BY <1>2, <2>1 DEF TurnOwed, TestOwed
    <2>3. Ordered'  BY <2>1 DEF Ordered
    <2> QED  BY <1>2, <1>5, <2>1, <2>2, <2>3 DEF BInv
<1>9. CASE TakeAnswer
    <2>1. /\ espEvents # <<>> /\ espEvents' = Tail(espEvents) /\ piState' = "IDLE"
          /\ UNCHANGED <<tester, restarts>>
        BY <1>9 DEF TakeAnswer
    <2>2. Len(espEvents') = Len(espEvents) - 1
        <3>1. espEvents \in Seq([msg : Outbound, of : Marks])  BY DEF Typed, PiTyped
        <3> QED  BY <2>1, <3>1, LineMoves
    <2>3. Backlog' = Backlog - 1  BY <1>4, <2>2, Parts, PartsAgain
    <2>4. Backlog' + 1 <= Backlog + (restarts' - restarts)  BY <2>1, <2>3, Parts
    <2>5. TestOwed => TestOwed'  BY <1>2, <2>1 DEF TestOwed
    <2>6. 1 \in Nat /\ 1 >= 1  OBVIOUS
    <2>7. Paid'  BY <1>0, <2>4, <2>5, <2>6, StaysPaid
    <2>8. Ordered'  BY <2>1 DEF Ordered
    <2> QED  BY <1>2, <2>7, <2>8 DEF BInv
<1>10. CASE AnswerTimesOut
    <2>1. /\ ~ Within("this") /\ espEvents = <<>> /\ piState' = "IDLE"
          /\ UNCHANGED <<espEvents, tester, restarts>>
        BY <1>3, <1>10 DEF AnswerTimesOut, GiveUp
    <2>2. Len(espEvents) = 0  BY <2>1
    <2>3. ~ TurnOwed  BY <2>1, <2>2 DEF TurnOwed
    <2>4. TestOwed => TestOwed'  BY <1>2, <2>1 DEF TestOwed
    <2>5. Ordered'  BY <2>1 DEF Ordered
    <2> QED  BY <1>2, <1>5, <2>1, <2>3, <2>4, <2>5 DEF BInv
<1> QED  BY <1>6, <1>7, <1>8, <1>9, <1>10

LEMMA MarksStep ==
    ASSUME Typed, Marked, Ordered,
           ChuteTakesLine \/ ChuteReports \/ EnrollmentEnds \/ ReadLine \/ LineLost \/ LinkDrops
    PROVE  Marked' /\ Ordered'
<1>1. Marked' /\ NothingSwapped
    <2>1. CASE ChuteTakesLine
        <3>1. CASE Esp!AcceptArm /\ armOf' = Head(lineOf) /\ answerOf' = answerOf
            BY <2>1, <3>1, AcceptMoves
        <3>2. CASE Esp!RefuseArm /\ answerOf' = Append(answerOf, Head(lineOf)) /\ armOf' = armOf
            BY <2>1, <3>2, RefuseMoves
        <3>3. CASE /\ Esp!StartEnroll \/ Esp!ClearLatch \/ Esp!IgnoreLine
                   /\ armOf' = armOf /\ answerOf' = answerOf
            BY <2>1, <3>3, OtherLineMoves
        <3> QED  BY <2>1, <3>1, <3>2, <3>3 DEF ChuteTakesLine
    <2>2. CASE ChuteReports \/ EnrollmentEnds  BY <2>2, SpeakMoves
    <2>3. CASE ReadLine \/ LineLost \/ LinkDrops
        <3>1. /\ TakeLine \/ (toPi' = <<>> /\ answerOf' = <<>>)
              /\ UNCHANGED <<phase, fromPi, lineOf, armOf>>
            BY <2>3 DEF ReadLine, LineLost, LinkDrops, TakeLine, Esp!PiReads
        <3> QED  BY <3>1, AnswersLeave
    <2> QED  BY <2>1, <2>2, <2>3
<1>2. piState' = piState
    BY DEF ChuteTakesLine, ChuteReports, EnrollmentEnds, ReadLine, LineLost, LinkDrops, turnVars
<1> QED  BY <1>1, <1>2 DEF Ordered, NothingSwapped, Marks

LEMMA PaidStep == Typed /\ BInv /\ [Next]_vars => BInv'
<1> SUFFICES ASSUME Typed, BInv, [Next]_vars PROVE BInv'  OBVIOUS
<1>0. Typed' /\ Paid /\ Marked /\ Ordered  BY TypedStep DEF BInv
<1>1. CASE ChuteTakesLine
    BY <1>0, <1>1, TakesPaid, MarksStep DEF BInv
<1>2. CASE ChuteReports \/ EnrollmentEnds
    BY <1>0, <1>2, SpeaksPaid, MarksStep DEF BInv
<1>3. CASE ChuteRestarts  BY <1>0, <1>3, RestartPaid DEF BInv
<1>4. CASE ReadLine  BY <1>0, <1>4, ReadPaid, MarksStep DEF BInv
<1>5. CASE LineLost  BY <1>0, <1>5, LineLostPaid, MarksStep DEF BInv
<1>6. CASE LinkDrops  BY <1>0, <1>6, DropPaid, MarksStep DEF BInv
<1>7. CASE OnEnroll \/ IdleClear  BY <1>0, <1>7, OtherSendPaid
<1>8. CASE OnTestArm  BY <1>0, <1>8, TestArmPaid
<1>9. CASE SendArm  BY <1>0, <1>9, ArmPaid
<1>10. CASE LinkReturns \/ CentralAsks \/ OptoEdge \/ IdleDrop \/ PlayDrop \/ UNCHANGED vars
    <2>1. UNCHANGED chuteVars /\ UNCHANGED <<espEvents, tester, piState, restarts>>
        BY <1>10 DEF LinkReturns, CentralAsks, OptoEdge, Put, IdleDrop, PlayDrop, vars, turnVars
    <2> QED  BY <1>0, <2>1, PiPaid
<1>11. CASE TestTimesOut \/ StartTurn \/ PulseEnds \/ OptoFires \/ TakeAnswer \/ AnswerTimesOut
    <2>1. UNCHANGED chuteVars
        BY <1>11 DEF TestTimesOut, StartTurn, PulseEnds, OptoFires, TakeAnswer, AnswerTimesOut
    <2> QED  BY <1>0, <1>11, <2>1, PiPaid
<1> QED
    BY <1>1, <1>2, <1>3, <1>4, <1>5, <1>6, <1>7, <1>8, <1>9, <1>10, <1>11 DEF Next, Machine

LEMMA PaidInit == Init => BInv
<1> SUFFICES ASSUME Init PROVE BInv  OBVIOUS
<1>1. /\ phase = "ready" /\ fromPi = <<>> /\ toPi = Append(<<>>, Ready(Null)) /\ espEvents = <<>>
      /\ piState = "IDLE" /\ tester = "none" /\ restarts = 0
    BY SameMessages DEF Init, Esp!Init
<1>2. Marked  BY OwnInit DEF IInv
<1>3. Backlog \in {0, 1}
    <2>1. Ready(Null) \in Outbound /\ <<>> \in Seq(Outbound)  BY Messages
    <2>2. Count(toPi, ForTheQueue) \in {0 + 0, 0 + 1}
        <3>1. ASSUME NEW line \in Seq(Outbound)
              PROVE  Count(Append(line, Ready(Null)), ForTheQueue)
                         \in {Count(line, ForTheQueue) + 0, Count(line, ForTheQueue) + 1}
            BY <2>1, CountPut, CountType
        <3>2. Count(toPi, ForTheQueue) \in {Count(<<>>, ForTheQueue) + 0, Count(<<>>, ForTheQueue) + 1}
            BY <1>1, <2>1, <3>1
        <3>3. Count(<<>>, ForTheQueue) = 0  BY CountNone
        <3> QED  BY <3>2, <3>3
    <2>3. Count(fromPi, {"arm"}) = 0 /\ Armed = 0 /\ Len(espEvents) = 0
        BY <1>1, CountNone DEF Armed
    <2> QED  BY <2>2, <2>3, TypedInit, Parts
<1>4. ~ TurnOwed /\ ~ TestOwed  BY <1>1 DEF TurnOwed, TestOwed
<1>5. Owed(TurnOwed) = 0 /\ Owed(TestOwed) = 0  BY <1>4 DEF Owed
<1>6. Paid  BY <1>1, <1>3, <1>5 DEF Paid
<1> QED  BY <1>1, <1>2, <1>6 DEF BInv, Ordered

(* Whichever turn machine runs, and however restarts, losses of the port,  *)
(* drop tests and enrolments fall: no more answers than turns and drop     *)
(* tests wait for are queued, on their way or owed, but for one for each   *)
(* start of the chute's board.  A ceiling long enough for the chute to     *)
(* settle is what pays for every arm.                                      *)
THEOREM QueueStaysShort == Spec => []BacklogBounded
<1>1. Typed /\ BInv => BacklogBounded
    <2> SUFFICES ASSUME Typed, BInv PROVE BacklogBounded  OBVIOUS
    <2> DEFINE turn == Owed(TurnOwed)
               test == Owed(TestOwed)
               waits == IF piState = "AWAITING" THEN 1 ELSE 0
               tries == IF tester = "waiting" THEN 1 ELSE 0
    <2>1. turn \in Nat /\ turn <= waits /\ test \in Nat /\ test <= tries
        BY DEF Owed, TurnOwed, TestOwed
    <2>2. Backlog <= 1 + restarts + turn + test  BY DEF BInv, Paid
    <2>3. BacklogBounded <=> Backlog <= 1 + restarts + waits + tries  BY DEF BacklogBounded
    <2>4. waits \in Nat /\ tries \in Nat /\ Backlog \in Nat /\ restarts \in Nat  BY Parts
    <2> HIDE DEF turn, test, waits, tries
    <2> QED  BY <2>1, <2>2, <2>3, <2>4
<1>2. Typed /\ BInv /\ [Next]_vars => BInv'  BY PaidStep
<1>3. Init => BInv  BY PaidInit
<1> QED  BY <1>1, <1>2, <1>3, TypedAlways, PTL DEF Spec

(***************************************************************************)
(* The mirror of the latch.                                                *)
(***************************************************************************)
(* What esp_link.py takes for a latch: a boot that reports one, or a fault *)
(* that is not the refusal of an arm.  The chute says neither.             *)
Unlatched(m) == /\ m.type = "ready" => m.fault = Null
                /\ m.type = "fault" => m.reason = "still_blocked"
NothingLatched == NeverRefused /\ \A i \in 1 .. Len(toPi) : Unlatched(toPi[i])

LEMMA SaysNothing ==
    ASSUME Typed, NothingLatched,
           \/ toPi' = toPi
           \/ toPi' = <<>>
           \/ toPi # <<>> /\ toPi' = Tail(toPi)
           \/ \E m \in Outbound : Unlatched(m) /\ toPi' = Append(toPi, m)
    PROVE  \A i \in 1 .. Len(toPi') : Unlatched(toPi'[i])
<1>1. toPi \in Seq(Outbound)  BY DEF Typed, ChuteTyped
<1>2. \A i \in 1 .. Len(toPi) : Unlatched(toPi[i])  BY DEF NothingLatched
<1>3. CASE toPi # <<>> /\ toPi' = Tail(toPi)
    <2>1. /\ Len(toPi') = Len(toPi) - 1 /\ Len(toPi) \in Nat
          /\ \A i \in 1 .. Len(toPi) - 1 : toPi'[i] = toPi[i + 1]
        BY <1>1, <1>3, LineMoves
    <2>2. \A i \in 1 .. Len(toPi) - 1 : i + 1 \in 1 .. Len(toPi)  BY <2>1
    <2> QED  BY <1>2, <2>1, <2>2
<1>4. ASSUME NEW m \in Outbound, Unlatched(m), toPi' = Append(toPi, m)
      PROVE  \A i \in 1 .. Len(toPi') : Unlatched(toPi'[i])
    <2>1. /\ Len(toPi') = Len(toPi) + 1 /\ Len(toPi) \in Nat
          /\ toPi'[Len(toPi) + 1] = m
          /\ \A i \in 1 .. Len(toPi) : toPi'[i] = toPi[i]
        BY <1>1, <1>4, LineMoves
    <2>2. \A i \in 1 .. Len(toPi') : i \in 1 .. Len(toPi) \/ i = Len(toPi) + 1  BY <2>1
    <2> QED  BY <1>2, <1>4, <2>1, <2>2
<1>5. CASE toPi' = <<>>  BY <1>5
<1>6. CASE toPi' = toPi  BY <1>2, <1>6
<1> QED  BY <1>3, <1>4, <1>5, <1>6

LEMMA HarmlessMessages ==
    /\ Unlatched(Ready(Null)) /\ \A f : Unlatched(StillBlocked(f))
    /\ \A o, t : Unlatched(Verdict(o, t))
    /\ Unlatched(EnrollTimeout) /\ \A t : Unlatched(TagScanned(t))
BY DEF Unlatched, Ready, StillBlocked, Verdict, EnrollTimeout, TagScanned

LEMMA ChuteSaysNothing ==
    ASSUME Typed, ChuteTakesLine \/ ChuteReports \/ EnrollmentEnds \/ ChuteRestarts
    PROVE  /\ mirror' = mirror
           /\ \/ toPi' = toPi
              \/ \E m \in Outbound : Unlatched(m) /\ toPi' = Append(toPi, m)
<1> USE SameMessages, HarmlessMessages
<1>1. mirror' = mirror
    BY DEF ChuteTakesLine, ChuteReports, EnrollmentEnds, ChuteRestarts, linkVars
<1>2. CASE ChuteTakesLine
    <2>1. CASE Esp!RefuseArm
        <3>1. toPi' = Append(toPi, StillBlocked(latch)) /\ phase = "blocked"
            BY <2>1 DEF Esp!RefuseArm, Esp!Emit
        <3>2. StillBlocked(latch) \in Outbound  BY <3>1, Messages DEF Typed, ChuteTyped
        <3> QED  BY <1>1, <3>1, <3>2
    <2>2. CASE ~ Esp!RefuseArm
        BY <1>1, <1>2, <2>2
        DEF ChuteTakesLine, Esp!AcceptArm, Esp!StartEnroll, Esp!ClearLatch, Esp!IgnoreLine
    <2> QED  BY <2>1, <2>2
<1>3. CASE ChuteReports
    <2>1. PICK o \in Outcomes, t \in Tags \cup {Null} : Esp!Report(o, t)
        BY <1>3 DEF ChuteReports
    <2>2. (t # Null <=> o \in Winning) /\ toPi' = Append(toPi, Verdict(o, t))
        BY <2>1 DEF Esp!Report, Esp!Emit
    <2>3. Verdict(o, t) \in Outbound  BY <2>2, Messages
    <2> QED  BY <1>1, <2>2, <2>3
<1>4. CASE EnrollmentEnds
    <2>1. EnrollTimeout \in Outbound /\ \A t \in Tags : TagScanned(t) \in Outbound
        BY Messages
    <2>2. PICK m \in Outbound : Esp!FinishEnroll(m) /\ Unlatched(m)
        BY <1>4, <2>1 DEF EnrollmentEnds
    <2>3. toPi' = Append(toPi, m)  BY <2>2 DEF Esp!FinishEnroll, Esp!Emit
    <2> QED  BY <1>1, <2>2, <2>3
<1>5. CASE ChuteRestarts
    <2>1. toPi' = Append(toPi, Ready(Null))  BY <1>5 DEF ChuteRestarts, Esp!Restart, Esp!Emit
    <2>2. Ready(Null) \in Outbound  BY Messages
    <2> QED  BY <1>1, <2>1, <2>2
<1> QED  BY <1>2, <1>3, <1>4, <1>5

LEMMA MirrorStep == Typed /\ NothingLatched /\ [Next]_vars => NothingLatched'
<1> SUFFICES ASSUME Typed, NothingLatched, [Next]_vars PROVE NothingLatched'  OBVIOUS
<1>1. ASSUME mirror' = Null,
             \/ toPi' = toPi
             \/ toPi' = <<>>
             \/ toPi # <<>> /\ toPi' = Tail(toPi)
             \/ \E m \in Outbound : Unlatched(m) /\ toPi' = Append(toPi, m)
      PROVE  NothingLatched'
    BY <1>1, SaysNothing DEF NothingLatched, NeverRefused
<1>2. mirror = Null  BY DEF NothingLatched, NeverRefused
<1>3. CASE ChuteTakesLine \/ ChuteReports \/ EnrollmentEnds \/ ChuteRestarts
    BY <1>1, <1>2, <1>3, ChuteSaysNothing
<1>4. CASE ReadLine
    <2>1. toPi # <<>> /\ toPi' = Tail(toPi)  BY <1>4 DEF ReadLine, TakeLine, Esp!PiReads
    <2>2. Unlatched(Head(toPi))
        <3>1. toPi \in Seq(Outbound)  BY DEF Typed, ChuteTyped
        <3>2. Head(toPi) = toPi[1] /\ 1 \in 1 .. Len(toPi)  BY <2>1, <3>1, LineMoves
        <3> QED  BY <3>2 DEF NothingLatched
    <2>3. mirror' = MirrorOf(Head(toPi))  BY <1>4 DEF ReadLine
    <2>4. mirror' = Null  BY <1>2, <2>2, <2>3 DEF MirrorOf, Unlatched
    <2> QED  BY <1>1, <2>1, <2>4
<1>5. CASE LineLost
    BY <1>1, <1>2, <1>5 DEF LineLost, TakeLine, Esp!PiReads, linkVars
<1>6. CASE LinkDrops \/ LinkReturns
    BY <1>1, <1>2, <1>6 DEF LinkDrops, LinkReturns, chuteVars
<1>7. CASE CentralAsks \/ OptoEdge \/ TestTimesOut
    BY <1>1, <1>2, <1>7 DEF CentralAsks, OptoEdge, TestTimesOut, Put, chuteVars, linkVars
<1>8. CASE OnEnroll \/ OnTestArm
    BY <1>1, <1>2, <1>8 DEF OnEnroll, OnTestArm, Send, Esp!PiWrites, linkVars
<1>9. CASE Machine
    BY <1>1, <1>2, <1>9
    DEF Machine, IdleClear, IdleDrop, StartTurn, PulseEnds, PlayDrop, OptoFires, SendArm, TakeAnswer,
        AnswerTimesOut, Send, Esp!PiWrites, chuteVars, linkVars
<1>10. CASE UNCHANGED vars  BY <1>1, <1>2, <1>10 DEF vars, chuteVars, linkVars
<1> QED  BY <1>3, <1>4, <1>5, <1>6, <1>7, <1>8, <1>9, <1>10 DEF Next

(* Whatever jams, restarts or is lost, esp_link.py never sees the chute's  *)
(* latch: the deployed firmware reports a jam as a verdict, answers an arm *)
(* with still_blocked and boots unlatched, and none of them sets the       *)
(* mirror.  So the refusal of a turn_start (fsm.py:15-17) never happens,   *)
(* and the Pi's esp_status always reports a clear chute to central, as     *)
(* TurnCoordinator has it.                                                 *)
THEOREM MirrorNeverLatched == Spec => []NeverRefused
<1>1. Init => NothingLatched
    <2> SUFFICES ASSUME Init PROVE NothingLatched  OBVIOUS
    <2>1. mirror = Null /\ toPi = <<Ready(Null)>>  BY SameMessages DEF Init, Esp!Init
    <2>2. Unlatched(Ready(Null))  BY HarmlessMessages
    <2> QED  BY <2>1, <2>2 DEF NothingLatched, NeverRefused
<1>2. NothingLatched => NeverRefused  BY DEF NothingLatched
<1> QED  BY <1>1, <1>2, MirrorStep, TypedAlways, PTL DEF Spec
=============================================================================
