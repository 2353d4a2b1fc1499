---------------------------- MODULE ChuteProofs ----------------------------
(***************************************************************************)
(* Proofs about the chute firmware, for every set of tags, every clock     *)
(* width and every length of the windows.                                  *)
(***************************************************************************)
EXTENDS Chute, TLAPS

USE NullAssumption, ClockAssumption, LinkAssumption

-----------------------------------------------------------------------------
(* Arithmetic of a counter modulo an even Wrap.                            *)

LEMMA HalfWrap == Wrap \div 2 \in Nat /\ Wrap = 2 * (Wrap \div 2) /\ Wrap > 0
  BY DEF ClockAssumption

LEMMA ModBelow == ASSUME NEW x \in 0 .. (Wrap - 1) PROVE x % Wrap = x
  BY HalfWrap

LEMMA ModAbove == ASSUME NEW x \in Wrap .. (2 * Wrap - 1) PROVE x % Wrap = x - Wrap
  BY HalfWrap

LEMMA LaterType == ASSUME now \in 0 .. (Wrap - 1), NEW d \in 1 .. (Wrap \div 2)
                   PROVE  /\ Later(d) \in 0 .. (Wrap - 1)
                          /\ Later(d) = IF now + d < Wrap THEN now + d ELSE now + d - Wrap
  <1>1. CASE now + d < Wrap
    BY <1>1, HalfWrap, ModBelow DEF Later
  <1>2. CASE now + d >= Wrap
    <2>1. now + d \in Wrap .. (2 * Wrap - 1)
      BY <1>2, HalfWrap
    <2>2. QED
      BY <2>1, <1>2, HalfWrap, ModAbove DEF Later
  <1>3. QED
    BY <1>1, <1>2, HalfWrap

-----------------------------------------------------------------------------
(* Messages.                                                               *)

LEMMA Messages ==
    /\ Ready(Null) \in Outbound /\ Pong \in Outbound /\ EnrollTimeout \in Outbound
    /\ Verdict("no_fall", Null) \in Outbound /\ Verdict("no_read", Null) \in Outbound
    /\ \A f \in Faults : StillBlocked(f) \in Outbound
    /\ \A t \in Tags : /\ TagScanned(t) \in Outbound
                        /\ Verdict("ok", t) \in Outbound
                        /\ Verdict("no_exit", t) \in Outbound
  BY DEF Outbound, Outcomes, Winning

LEMMA EmitType == ASSUME toPi \in Seq(Outbound), NEW m \in Outbound, Emit(m)
                  PROVE  toPi' \in Seq(Outbound)
  BY DEF Emit

-----------------------------------------------------------------------------
(* The types and the three facts about gate, latch and serial are one      *)
(* inductive invariant: a verdict is well typed only because the serial of *)
(* a clearing chute is known.                                              *)

ChuteIInv == TypeOK /\ ChuteInv

LEMMA InitIInv == Init => ChuteIInv
  <1> SUFFICES ASSUME Init PROVE ChuteIInv
    OBVIOUS
  <1>1. toPi \in Seq(Outbound)
    <2>1. Ready(Null) \in Outbound
      BY Messages
    <2>2. toPi = <<Ready(Null)>>
      BY DEF Init
    <2>3. QED
      BY <2>1, <2>2
  <1>2. QED
    BY <1>1, HalfWrap DEF Init, ChuteIInv, TypeOK, ChuteInv, GateOnlyWhileClearing,
       BlockedHasReason, ClearingHasSerial, States

LEMMA StepIInv == ChuteIInv /\ [Next]_vars => ChuteIInv'
  <1> SUFFICES ASSUME ChuteIInv, [Next]_vars PROVE ChuteIInv'
    OBVIOUS
  <1> USE DEF ChuteIInv, TypeOK, ChuteInv, GateOnlyWhileClearing, BlockedHasReason,
          ClearingHasSerial, fsmVars, envVars
  <1>1. CASE PollNothing
    BY <1>1 DEF PollNothing
  <1>2. CASE OnPing
    <2>1. toPi' \in Seq(Outbound)
      <3>1. Emit(Pong)
        BY <1>2 DEF OnPing
      <3>2. Pong \in Outbound
        BY Messages
      <3>3. QED
        BY <3>1, <3>2, EmitType
    <2>2. QED
      BY <1>2, <2>1 DEF OnPing, Poll
  <1>3. CASE OnUnknown
    BY <1>3 DEF OnUnknown, Poll
  <1>4. CASE OnFaultClear
    BY <1>4 DEF OnFaultClear, Poll, States
  <1>5. CASE OnArmBlocked
    <2>1. toPi' \in Seq(Outbound)
      <3>1. Emit(StillBlocked(fault))
        BY <1>5 DEF OnArmBlocked
      <3>2. StillBlocked(fault) \in Outbound
        BY Messages, <1>5 DEF OnArmBlocked
      <3>3. QED
        BY <3>1, <3>2, EmitType
    <2>2. QED
      BY <1>5, <2>1 DEF OnArmBlocked, Poll
  <1>6. CASE OnArmBusy
    BY <1>6 DEF OnArmBusy, Poll
  <1>7. CASE OnArm
    BY <1>7, LaterType DEF OnArm, Poll, OpenWindow, States
  <1>8. CASE OnEnroll
    BY <1>8, LaterType DEF OnEnroll, Poll, OpenWindow, States
  <1>9. CASE TickResting
    BY <1>9 DEF TickResting, Tick
  <1>10. CASE BallFell
    BY <1>10, LaterType DEF BallFell, TakeEdge, Tick, OpenWindow, States
  <1>11. CASE NothingFell
    <2>1. toPi' \in Seq(Outbound)
      <3>1. Emit(Verdict("no_fall", Null))
        BY <1>11 DEF NothingFell
      <3>2. Verdict("no_fall", Null) \in Outbound
        BY Messages
      <3>3. QED
        BY <3>1, <3>2, EmitType
    <2>2. QED
      BY <1>11, <2>1 DEF NothingFell, Tick, CloseWindow, States
  <1>12. CASE TagRead
    BY <1>12, LaterType DEF TagRead, Tick, TryReadOnce, OpenWindow, States
  <1>13. CASE NoTagRead
    <2>1. toPi' \in Seq(Outbound)
      <3>1. Emit(Verdict("no_read", Null))
        BY <1>13 DEF NoTagRead
      <3>2. Verdict("no_read", Null) \in Outbound
        BY Messages
      <3>3. QED
        BY <3>1, <3>2, EmitType
    <2>2. QED
      BY <1>13, <2>1 DEF NoTagRead, Tick, LatchBlocked, CloseWindow, States, Faults
  <1>14. CASE BallExited
    <2>1. toPi' \in Seq(Outbound)
      <3>1. Emit(Verdict("ok", pendingUid))
        BY <1>14 DEF BallExited
      <3>2. Verdict("ok", pendingUid) \in Outbound
        BY Messages, <1>14 DEF BallExited, Tick
      <3>3. QED
        BY <3>1, <3>2, EmitType
    <2>2. QED
      BY <1>14, <2>1 DEF BallExited, TakeEdge, Tick, CloseWindow, States
  <1>15. CASE BallStuck
    <2>1. toPi' \in Seq(Outbound)
      <3>1. Emit(Verdict("no_exit", pendingUid))
        BY <1>15 DEF BallStuck
      <3>2. Verdict("no_exit", pendingUid) \in Outbound
        BY Messages, <1>15 DEF BallStuck, Tick
      <3>3. QED
        BY <3>1, <3>2, EmitType
    <2>2. QED
      BY <1>15, <2>1 DEF BallStuck, Tick, LatchBlocked, CloseWindow, States, Faults
  <1>16. CASE EnrollRead
    <2>1. toPi' \in Seq(Outbound)
      <3>1. Emit(TagScanned(pendingTag))
        BY <1>16 DEF EnrollRead
      <3>2. TagScanned(pendingTag) \in Outbound
        BY Messages, <1>16 DEF EnrollRead, TryReadOnce
      <3>3. QED
        BY <3>1, <3>2, EmitType
    <2>2. QED
      BY <1>16, <2>1 DEF EnrollRead, Tick, TryReadOnce, CloseWindow, States
  <1>17. CASE EnrollExpired
    <2>1. toPi' \in Seq(Outbound)
      <3>1. Emit(EnrollTimeout)
        BY <1>17 DEF EnrollExpired
      <3>2. EnrollTimeout \in Outbound
        BY Messages
      <3>3. QED
        BY <3>1, <3>2, EmitType
    <2>2. QED
      BY <1>17, <2>1 DEF EnrollExpired, Tick, CloseWindow, States
  <1>18. CASE Restart
    <2>1. toPi' \in Seq(Outbound)
      <3>1. Emit(Ready(Null))
        BY <1>18 DEF Restart
      <3>2. Ready(Null) \in Outbound
        BY Messages
      <3>3. QED
        BY <3>1, <3>2, EmitType
    <2>2. QED
      BY <1>18, <2>1, HalfWrap DEF Restart, States
  <1>19. CASE Clock
    BY <1>19, LaterType, HalfWrap DEF Clock
  <1>20. CASE OperatorEmpties
    BY <1>20 DEF OperatorEmpties
  <1>21. CASE PiReads
    BY <1>21 DEF PiReads
  <1>22. ASSUME NEW b \in Tags, BallDrops(b) \/ TagParsed(b) \/ BallLeaves(b)
         PROVE ChuteIInv'
    <2>1. CASE BallDrops(b)
      BY <2>1 DEF BallDrops
    <2>2. CASE TagParsed(b)
      BY <2>2 DEF TagParsed
    <2>3. CASE BallLeaves(b)
      BY <2>3 DEF BallLeaves
    <2>4. QED
      BY <1>22, <2>1, <2>2, <2>3
  <1>23. ASSUME NEW m \in Inbound, PiWrites(m) PROVE ChuteIInv'
    BY <1>23 DEF PiWrites
  <1>24. CASE UNCHANGED vars
    BY <1>24 DEF vars
  <1>25. QED
    BY <1>1, <1>2, <1>3, <1>4, <1>5, <1>6, <1>7, <1>8, <1>9, <1>10, <1>11, <1>12, <1>13,
       <1>14, <1>15, <1>16, <1>17, <1>18, <1>19, <1>20, <1>21, <1>22, <1>23, <1>24
       DEF Next, Loop, Environment

(* The variables keep their types (all of esp/src/fsm.cpp).                *)
THEOREM TypeCorrect == Spec => []TypeOK
  <1>1. ChuteIInv => TypeOK
    BY DEF ChuteIInv
  <1>2. QED
    BY <1>1, InitIInv, StepIInv, PTL DEF Spec

(* The gate is open exactly while a read ball is let out, exactly the      *)
(* blocked chute has a fault to report, and a clearing chute knows its     *)
(* serial (fsm.cpp:27-31, 49-60, 116-147).                                 *)
THEOREM ChuteSafe == Spec => [](GateOnlyWhileClearing /\ BlockedHasReason /\ ClearingHasSerial)
  <1>1. ChuteIInv => GateOnlyWhileClearing /\ BlockedHasReason /\ ClearingHasSerial
    BY DEF ChuteIInv, ChuteInv
  <1>2. QED
    BY <1>1, InitIInv, StepIInv, PTL DEF Spec

-----------------------------------------------------------------------------
(* A tag that waits for an enrolment was parsed during it: the drain of    *)
(* OnEnroll establishes it and only the parser task changes it.            *)
THEOREM EnrolmentFresh == Spec => []EnrolledTagIsFresh
  <1>1. Init => EnrolledTagIsFresh
    BY DEF Init, EnrolledTagIsFresh
  <1>2. EnrolledTagIsFresh /\ [Next]_vars => EnrolledTagIsFresh'
    <2> SUFFICES ASSUME EnrolledTagIsFresh, [Next]_vars PROVE EnrolledTagIsFresh'
      OBVIOUS
    <2> USE DEF EnrolledTagIsFresh, fsmVars, envVars
    <2>1. CASE OnEnroll
      BY <2>1 DEF OnEnroll, Poll
    <2>2. CASE Loop /\ ~OnEnroll
      BY <2>2 DEF Loop, PollNothing, OnPing, OnUnknown, OnFaultClear, OnArmBlocked,
         OnArmBusy, OnArm, TickResting, BallFell, NothingFell, TagRead, NoTagRead, BallExited,
         BallStuck, EnrollRead, EnrollExpired, Poll, Tick, LatchBlocked
    <2>3. CASE \E b \in Tags : BallDrops(b) \/ TagParsed(b) \/ BallLeaves(b)
      BY <2>3 DEF BallDrops, TagParsed, BallLeaves
    <2>4. CASE \/ UNCHANGED vars \/ Restart \/ Clock \/ OperatorEmpties \/ PiReads
                  \/ \E m \in Inbound : PiWrites(m)
      BY <2>4 DEF vars, Restart, Clock, OperatorEmpties, PiReads, PiWrites
    <2> QED
      BY <2>1, <2>2, <2>3, <2>4 DEF Next, Environment
  <1>3. QED
    BY <1>1, <1>2, PTL DEF Spec

-----------------------------------------------------------------------------
(* The wrapped deadline is left ticks ahead of the clock, and the loop ran *)
(* at most gap ticks ago, when the window was not yet over.                *)
WindowInv ==
    state \in TimedStates =>
        /\ left > -gap /\ left <= Wrap \div 2
        /\ deadline = IF now + left >= Wrap THEN now + left - Wrap
                      ELSE IF now + left < 0 THEN now + left + Wrap
                      ELSE now + left

LEMMA WindowExpiry == ASSUME TypeOK, WindowInv, state \in TimedStates
                      PROVE  Expired <=> left <= 0
  <1> DEFINE x == now + Wrap - deadline
  <1>1. left \in Int /\ left > -LoopGap /\ left <= Wrap \div 2 /\ LoopGap < Wrap \div 2
    BY DEF TypeOK, WindowInv
  <1>2. /\ now \in 0 .. (Wrap - 1)
        /\ \/ deadline = now + left
           \/ deadline = now + left - Wrap
           \/ deadline = now + left + Wrap
        /\ x \in 1 .. (2 * Wrap - 1)
    BY HalfWrap DEF TypeOK, WindowInv
  <1>3. CASE left > 0
    <2>1. x = Wrap - left \/ x = 2 * Wrap - left
      BY <1>1, <1>2, <1>3, HalfWrap DEF TypeOK
    <2>2. x % Wrap = Wrap - left
      BY <2>1, <1>1, <1>3, HalfWrap, ModBelow, ModAbove
    <2>3. QED
      BY <2>2, <1>1, <1>3, HalfWrap DEF Expired
  <1>4. CASE left <= 0
    <2>1. x = Wrap - left \/ x = -left
      BY <1>1, <1>2, <1>4, HalfWrap DEF TypeOK
    <2>2. x % Wrap = -left
      BY <2>1, <1>1, <1>4, HalfWrap, ModBelow, ModAbove
    <2>3. QED
      BY <2>2, <1>1, <1>4, HalfWrap DEF Expired
  <1>5. QED
    BY <1>1, <1>3, <1>4

LEMMA WindowOpens == ASSUME TypeOK, NEW d \in 1 .. (Wrap \div 2), OpenWindow(d),
                            now' = now, NEW g \in 0 .. LoopGap, gap' = g
                     PROVE  WindowInv'
  <1>1. deadline' = Later(d) /\ left' = d
    BY DEF OpenWindow
  <1>2. Later(d) = IF now + d < Wrap THEN now + d ELSE now + d - Wrap
    BY LaterType DEF TypeOK
  <1>3. now \in 0 .. (Wrap - 1) /\ d \in Int /\ d > -g /\ d <= Wrap \div 2
    BY HalfWrap, ClockAssumption DEF TypeOK
  <1>4. left' > -gap' /\ left' <= Wrap \div 2
    BY <1>1, <1>3
  <1>5. deadline' = IF now + d >= Wrap THEN now + d - Wrap
                    ELSE IF now + d < 0 THEN now + d + Wrap
                    ELSE now + d
    BY <1>1, <1>2, <1>3, HalfWrap
  <1>6. QED
    BY <1>1, <1>4, <1>5 DEF WindowInv

(* A step that leaves the window alone.                                    *)
LEMMA WindowKept == ASSUME WindowInv, state' = state,
                           UNCHANGED <<deadline, left, now, gap>>
                    PROVE  WindowInv'
  BY DEF WindowInv

LEMMA StepWindow == TypeOK /\ WindowInv /\ [Next]_vars => WindowInv'
  <1> SUFFICES ASSUME TypeOK, WindowInv, [Next]_vars PROVE WindowInv'
    OBVIOUS
  <1> USE DEF fsmVars, envVars
  <1>1. CASE PollNothing \/ OnPing \/ OnUnknown \/ OnArmBlocked \/ OnArmBusy
    BY <1>1, WindowKept DEF PollNothing, OnPing, OnUnknown, OnArmBlocked, OnArmBusy, Poll
  <1>2. CASE OnFaultClear
    BY <1>2 DEF OnFaultClear, Poll, WindowInv, TimedStates, TurnStates
  <1>3. CASE OnArm
    BY <1>3, WindowOpens DEF OnArm, Poll, TypeOK
  <1>4. CASE OnEnroll
    <2>1. CASE state = "IDLE"
      BY <1>4, <2>1, WindowOpens DEF OnEnroll, Poll, TypeOK
    <2>2. CASE state # "IDLE"
      BY <1>4, <2>2, WindowKept DEF OnEnroll, Poll
    <2>3. QED
      BY <2>1, <2>2
  <1>5. CASE TickResting
    <2>1. /\ UNCHANGED <<state, deadline, left, now>>
          /\ gap' = 0
          /\ state \in TimedStates => ~Expired
      BY <1>5 DEF TickResting, Tick, TimedStates, TurnStates
    <2>2. CASE state \in TimedStates
      <3>1. left > 0
        BY <2>1, <2>2, WindowExpiry DEF TypeOK
      <3>2. QED
        BY <2>1, <2>2, <3>1 DEF WindowInv, TypeOK
    <2>3. CASE state \notin TimedStates
      BY <2>1, <2>3 DEF WindowInv
    <2>4. QED
      BY <2>2, <2>3
  <1>6. CASE BallFell \/ TagRead
    <2>1. gap' = 0 /\ now' = now /\ (OpenWindow(TId) \/ OpenWindow(TExit))
      BY <1>6 DEF BallFell, TagRead, Tick
    <2>2. QED
      BY <2>1, WindowOpens
  <1>7. CASE NothingFell \/ NoTagRead \/ BallExited \/ BallStuck \/ EnrollRead \/ EnrollExpired \/ Restart
    <2>1. state' \in {"IDLE", "BLOCKED"}
      BY <1>7 DEF NothingFell, NoTagRead, BallExited, BallStuck, EnrollRead, EnrollExpired,
         Restart, LatchBlocked
    <2>2. QED
      BY <2>1 DEF WindowInv, TimedStates, TurnStates
  <1>8. CASE Clock
    <2>1. /\ state' = state /\ deadline' = deadline
          /\ gap' = gap + 1 /\ now' = Later(1)
          /\ left' = IF state \in TimedStates /\ left > -LoopGap THEN left - 1 ELSE left
          /\ gap < LoopGap
      BY <1>8 DEF Clock
    <2>2. Later(1) = IF now + 1 < Wrap THEN now + 1 ELSE now + 1 - Wrap
      BY HalfWrap, LaterType DEF TypeOK
    <2>3. ASSUME state \in TimedStates PROVE WindowInv'
      <3>1. /\ left > -gap /\ left <= Wrap \div 2
            /\ deadline = IF now + left >= Wrap THEN now + left - Wrap
                          ELSE IF now + left < 0 THEN now + left + Wrap
                          ELSE now + left
        BY <2>3 DEF WindowInv
      <3>2. now \in 0 .. (Wrap - 1) /\ left \in Int /\ gap \in Nat /\ Wrap \in Nat
        BY HalfWrap, ClockAssumption DEF TypeOK
      <3>3. left > -LoopGap
        BY <2>1, <3>1, <3>2, ClockAssumption
      <3>4. left' = left - 1 /\ left' > -gap' /\ left' <= Wrap \div 2
        BY <2>1, <2>3, <3>1, <3>2, <3>3, HalfWrap
      <3>5. deadline' = IF now' + left' >= Wrap THEN now' + left' - Wrap
                        ELSE IF now' + left' < 0 THEN now' + left' + Wrap
                        ELSE now' + left'
        <4>1. now' = IF now + 1 < Wrap THEN now + 1 ELSE now + 1 - Wrap
          BY <2>1, <2>2
        <4>2. CASE now + 1 < Wrap
          BY <2>1, <3>1, <3>2, <3>4, <4>1, <4>2
        <4>3. CASE now + 1 >= Wrap
          BY <2>1, <3>1, <3>2, <3>4, <4>1, <4>3
        <4>4. QED
          BY <3>2, <4>2, <4>3
      <3>6. QED
        BY <3>4, <3>5 DEF WindowInv
    <2>4. QED
      BY <2>1, <2>3 DEF WindowInv
  <1>9. CASE OperatorEmpties \/ PiReads
    BY <1>9, WindowKept DEF OperatorEmpties, PiReads
  <1>10. CASE \E b \in Tags : BallDrops(b) \/ TagParsed(b) \/ BallLeaves(b)
    BY <1>10, WindowKept DEF BallDrops, TagParsed, BallLeaves
  <1>11. CASE \E m \in Inbound : PiWrites(m)
    BY <1>11, WindowKept DEF PiWrites
  <1>12. CASE UNCHANGED vars
    BY <1>12, WindowKept DEF vars
  <1>13. QED
    BY <1>1, <1>2, <1>3, <1>4, <1>5, <1>6, <1>7, <1>8, <1>9, <1>10, <1>11, <1>12
       DEF Next, Loop, Environment

(* Every window ends neither early nor later than the loop's longest       *)
(* pause, at every wrap of the clock (fsm.cpp:72, 107, 124, 145, 159).     *)
THEOREM WindowsExact == Spec => []WindowsAreExact
  <1>1. Init => WindowInv
    BY DEF Init, WindowInv, TimedStates, TurnStates
  <1>2. TypeOK /\ WindowInv => WindowsAreExact
    BY WindowExpiry DEF WindowInv, WindowsAreExact, TypeOK
  <1>3. QED
    BY <1>1, <1>2, TypeCorrect, StepWindow, PTL DEF Spec

-----------------------------------------------------------------------------
(* The chute implements the contract: one step of the contract, or none,   *)
(* for every step of the firmware (protocol.h:11-20).                      *)
LEMMA SameMessages ==
    /\ \A f : Contract!Ready(f) = Ready(f)
    /\ \A o, t : Contract!Verdict(o, t) = Verdict(o, t)
    /\ \A f : Contract!StillBlocked(f) = StillBlocked(f)
    /\ \A t : Contract!TagScanned(t) = TagScanned(t)
    /\ Contract!Pong = Pong /\ Contract!EnrollTimeout = EnrollTimeout
    /\ Contract!Inbound = Inbound
    /\ \A o : Contract!FaultOf(o) = FaultOf(o)
  BY DEF Contract!Ready, Ready, Contract!Verdict, Verdict, Contract!StillBlocked, StillBlocked,
     Contract!TagScanned, TagScanned, Contract!Pong, Pong, Contract!EnrollTimeout, EnrollTimeout,
     Contract!Inbound, Inbound, Contract!FaultOf, FaultOf

LEMMA ContractInit == Init => Contract!Init
  BY SameMessages DEF Init, Contract!Init, Phase

LEMMA ContractStep == ChuteIInv /\ [Next]_vars => [Contract!Next]_(Contract!cvars)
  <1> SUFFICES ASSUME ChuteIInv, [Next]_vars PROVE [Contract!Next]_(Contract!cvars)
    OBVIOUS
  <1> USE SameMessages DEF fsmVars, envVars, Contract!Next, Contract!ChuteStep, Contract!cvars,
          Contract!Emit, Contract!Take, Emit, Phase
  <1>1. CASE PollNothing \/ TickResting \/ BallFell \/ TagRead
    BY <1>1 DEF PollNothing, TickResting, BallFell, TagRead, Tick
  <1>2. CASE OnPing
    BY <1>2 DEF OnPing, Poll, Contract!AnswerPing
  <1>3. CASE OnUnknown
    BY <1>3 DEF OnUnknown, Poll, Contract!IgnoreLine
  <1>4. CASE OnFaultClear
    BY <1>4 DEF OnFaultClear, Poll, Contract!ClearLatch, Contract!IgnoreLine
  <1>5. CASE OnArmBlocked
    BY <1>5 DEF OnArmBlocked, Poll, Contract!RefuseArm
  <1>6. CASE OnArmBusy
    BY <1>6 DEF OnArmBusy, Poll, TimedStates, TurnStates, Contract!IgnoreLine
  <1>7. CASE OnArm
    BY <1>7 DEF OnArm, Poll, Contract!AcceptArm
  <1>8. CASE OnEnroll
    BY <1>8 DEF OnEnroll, Poll, ChuteIInv, TypeOK, States, Contract!StartEnroll, Contract!IgnoreLine
  <1>9. CASE NothingFell
    <2>1. Contract!Report("no_fall", Null)
      BY <1>9 DEF NothingFell, Tick, CloseWindow, Contract!Report, Contract!Winning, Contract!Jammed,
         ChuteIInv, ChuteInv, BlockedHasReason
    <2>2. QED
      BY <2>1 DEF Contract!Outcomes
  <1>10. CASE NoTagRead
    <2>1. Contract!Report("no_read", Null)
      BY <1>10 DEF NoTagRead, Tick, LatchBlocked, Contract!Report, Contract!Winning, Contract!Jammed, FaultOf
    <2>2. QED
      BY <2>1 DEF Contract!Outcomes
  <1>11. CASE BallExited
    <2>1. Contract!Report("ok", pendingUid) /\ pendingUid \in Tags
      BY <1>11 DEF BallExited, Tick, Contract!Report, Contract!Winning, Contract!Jammed,
         ChuteIInv, TypeOK, ChuteInv, BlockedHasReason, ClearingHasSerial
    <2>2. QED
      BY <2>1 DEF Contract!Outcomes
  <1>12. CASE BallStuck
    <2>1. Contract!Report("no_exit", pendingUid) /\ pendingUid \in Tags
      BY <1>12 DEF BallStuck, Tick, LatchBlocked, Contract!Report, Contract!Winning, Contract!Jammed,
         FaultOf, ChuteIInv, TypeOK, ChuteInv, ClearingHasSerial
    <2>2. QED
      BY <2>1 DEF Contract!Outcomes
  <1>13. CASE EnrollRead
    BY <1>13 DEF EnrollRead, Tick, TryReadOnce, Contract!FinishEnroll, ChuteIInv, TypeOK
  <1>14. CASE EnrollExpired
    BY <1>14 DEF EnrollExpired, Tick, Contract!FinishEnroll
  <1>15. CASE Restart
    BY <1>15 DEF Restart, Contract!Restart
  <1>16. CASE Clock \/ OperatorEmpties \/ \E b \in Tags : BallDrops(b) \/ TagParsed(b) \/ BallLeaves(b)
    BY <1>16 DEF Clock, OperatorEmpties, BallDrops, TagParsed, BallLeaves
  <1>17. CASE PiReads
    BY <1>17 DEF PiReads, Contract!PiReads
  <1>18. ASSUME NEW m \in Inbound, PiWrites(m) PROVE [Contract!Next]_(Contract!cvars)
    BY <1>18 DEF PiWrites, Contract!PiWrites
  <1>19. CASE UNCHANGED vars
    BY <1>19 DEF vars
  <1>20. QED
    BY <1>1, <1>2, <1>3, <1>4, <1>5, <1>6, <1>7, <1>8, <1>9, <1>10, <1>11, <1>12, <1>13,
       <1>14, <1>15, <1>16, <1>17, <1>18, <1>19
       DEF Next, Loop, Environment

THEOREM ChuteImplementsContract == Spec => ImplementsContract
  BY ContractInit, ContractStep, InitIInv, StepIInv, PTL
     DEF Spec, ImplementsContract, Contract!Spec
=============================================================================
