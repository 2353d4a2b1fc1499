------------------------------- MODULE Chute -------------------------------
(***************************************************************************)
(* The chute firmware (esp/src): the state machine of fsm.cpp, the two     *)
(* break-beam interrupts of sensors.cpp, the hand-over of a tag from the   *)
(* FDX-B parser task to the loop (fdxb_reader.cpp), the loop of main.cpp   *)
(* and a restart of the board.  The balls in the chute are the             *)
(* environment.                                                            *)
(*                                                                         *)
(* One iteration of loop() is two steps, Poll (at most one line) and Tick. *)
(* Interrupts, the parser task on the other core, the Pi and the balls     *)
(* interleave with them.  Each read-and-clear of a flag or of the pending  *)
(* tag is protected (noInterrupts, s_tag_mutex), so a step of the loop     *)
(* that does one of them is atomic.                                        *)
(*                                                                         *)
(* millis() is a counter modulo Wrap, and the three windows keep the       *)
(* ratios of the code's (3 s, 2 s, 2 s).                                   *)
(***************************************************************************)
EXTENDS ChuteProtocol

CONSTANTS Wrap,            \* millis() counts modulo Wrap (2^32 ms in the code)
          TFall, TId, TExit, TEnroll,   \* lengths of the windows
          LoopGap,         \* bound: clock ticks between two iterations of loop()
          MaxIn, MaxOut    \* bounds on the two directions of the serial link

States == {"IDLE", "AWAITING_FALL", "IDENTIFYING", "CLEARING", "ENROLL", "BLOCKED"}
TurnStates  == {"AWAITING_FALL", "IDENTIFYING", "CLEARING"}
TimedStates == TurnStates \cup {"ENROLL"}

ASSUME ClockAssumption ==
    /\ Wrap \in Nat /\ Wrap % 2 = 0
    /\ LoopGap \in Nat \ {0} /\ LoopGap < Wrap \div 2
    /\ TFall \in 1 .. (Wrap \div 2) /\ TId \in 1 .. (Wrap \div 2)
    /\ TExit \in 1 .. (Wrap \div 2) /\ TEnroll \in 1 .. (Wrap \div 2)
ASSUME LinkAssumption == MaxIn \in Nat \ {0} /\ MaxOut \in Nat \ {0}

VARIABLES
    state, fault, deadline, pendingUid, solenoid,  \* fsm.cpp
    edges,                                         \* sensors.cpp: flags not yet taken
    pendingTag,                                    \* s_latest_tag if s_tag_pending
    pc,                                            \* where loop() is
    now,                                           \* millis()
    fromPi, toPi,                                  \* the serial link
    chute,     \* environment: the balls resting in the chute
    gap,       \* ghost: clock ticks since the last Tick
    left,      \* ghost: clock ticks left in the open window, down to -LoopGap
    fresh      \* ghost: tags parsed since the open arm or enrolment began

fsmVars    == <<state, fault, deadline, pendingUid, solenoid>>
envVars    == <<now, chute, gap>>
vars == <<fsmVars, edges, pendingTag, pc, fromPi, toPi, envVars, left, fresh>>

TypeOK ==
    /\ state \in States
    /\ fault \in Faults \cup {Null}
    /\ deadline \in 0 .. (Wrap - 1)
    /\ pendingUid \in Tags \cup {Null}
    /\ solenoid \in {"LOW", "HIGH"}
    /\ edges \subseteq {"entry", "exit"}
    /\ pendingTag \in Tags \cup {Null}
    /\ pc \in {"poll", "tick"}
    /\ now \in 0 .. (Wrap - 1)
    /\ fromPi \in Seq(Inbound)
    /\ toPi \in Seq(Outbound)
    /\ chute \subseteq Tags
    /\ gap \in 0 .. LoopGap
    /\ left \in Int
    /\ fresh \subseteq Tags

(***************************************************************************)
(* setup(): every install() and then the boot announcement.                *)
(***************************************************************************)
Init ==
    /\ state = "IDLE" /\ fault = Null
    /\ deadline = 0 /\ pendingUid = Null /\ solenoid = "LOW"
    /\ edges = {} /\ pendingTag = Null
    /\ pc = "poll" /\ now = 0 /\ fromPi = <<>>
    /\ toPi = <<Ready(Null)>> /\ chute = {}
    /\ gap = 0 /\ left = 0 /\ fresh = {}

(***************************************************************************)
(* Helpers of fsm.cpp.                                                     *)
(***************************************************************************)
(* The UART sends whether or not anybody reads: MaxOut bounds the lines in *)
(* flight for the checker, it is not back-pressure.                        *)
Emit(m) == Len(toPi) < MaxOut /\ toPi' = Append(toPi, m)

LaterUnwrapped(d) == now + d                     \* mutant: no wrap
Later(d) == (now + d) % Wrap
OpenWindow(d) == deadline' = Later(d) /\ left' = d
CloseWindow   == UNCHANGED deadline /\ left' = 0

(* (int32_t)(now - s_deadline_ms) >= 0: the difference, as a signed number. *)
ExpiredPlainCompare == now >= deadline           \* mutant: plain comparison
ExpiredOnlyWhenEqual == now = deadline           \* mutant: missed by a slow loop
Expired == (now + Wrap - deadline) % Wrap < Wrap \div 2

LatchBlockedGateOpen(kind) ==                    \* mutant: gate not released
    /\ state' = "BLOCKED"
    /\ fault' = kind
    /\ UNCHANGED solenoid
LatchBlocked(kind) ==
    /\ state' = "BLOCKED"
    /\ fault' = kind
    /\ solenoid' = "LOW"

TakeEdge(beam) == beam \in edges /\ edges' = edges \ {beam}

TryReadOnce == pendingTag # Null /\ pendingTag' = Null

(***************************************************************************)
(* on_inbound(): one line, if there is one, per iteration of the loop.     *)
(***************************************************************************)
Poll(line) ==
    /\ pc = "poll" /\ pc' = "tick"
    /\ fromPi # <<>> /\ Head(fromPi) = line
    /\ fromPi' = Tail(fromPi)
    /\ UNCHANGED envVars

PollNothing ==
    /\ pc = "poll" /\ pc' = "tick"
    /\ fromPi = <<>>
    /\ UNCHANGED <<fsmVars, edges, pendingTag, fromPi, toPi, envVars, left, fresh>>

OnPing ==
    /\ Poll("ping")
    /\ Emit(Pong)
    /\ UNCHANGED <<fsmVars, edges, pendingTag, left, fresh>>

OnUnknown ==
    /\ Poll("unknown")
    /\ UNCHANGED <<fsmVars, edges, pendingTag, toPi, left, fresh>>

OnFaultClear ==
    /\ Poll("fault_clear")
    /\ IF state = "BLOCKED"
       THEN state' = "IDLE" /\ fault' = Null
       ELSE UNCHANGED <<state, fault>>
    /\ UNCHANGED <<deadline, pendingUid, solenoid, edges, pendingTag, toPi, left, fresh>>

OnArmBlocked ==
    /\ Poll("arm")
    /\ state = "BLOCKED"
    /\ Emit(StillBlocked(fault))
    /\ UNCHANGED <<fsmVars, edges, pendingTag, left, fresh>>

(* A stray arm during a turn or an enrolment is dropped.                   *)
OnArmBusy ==
    /\ Poll("arm")
    /\ state \in TimedStates
    /\ UNCHANGED <<fsmVars, edges, pendingTag, toPi, left, fresh>>

OnArmWhenever ==                                 \* mutant: only BLOCKED refuses
    /\ Poll("arm")
    /\ state # "BLOCKED"
    /\ edges' = {}
    /\ pendingUid' = Null
    /\ state' = "AWAITING_FALL"
    /\ OpenWindow(TFall)
    /\ fresh' = {}
    /\ UNCHANGED <<fault, solenoid, pendingTag, toPi>>

(* The sensor edges and the previous serial are dropped; the tag that the  *)
(* reader may have left pending is not.                                    *)
OnArm ==
    /\ Poll("arm")
    /\ state = "IDLE"
    /\ edges' = {}
    /\ pendingUid' = Null
    /\ state' = "AWAITING_FALL"
    /\ OpenWindow(TFall)
    /\ fresh' = {}
    /\ UNCHANGED <<fault, solenoid, pendingTag, toPi>>

OnEnrollUndrained ==                             \* mutant: stale tag kept
    /\ Poll("enroll")
    /\ IF state = "IDLE"
       THEN /\ state' = "ENROLL"
            /\ OpenWindow(TEnroll)
            /\ fresh' = {}
       ELSE UNCHANGED <<state, deadline, left, fresh>>
    /\ UNCHANGED <<fault, pendingUid, pendingTag, solenoid, edges, toPi>>
OnEnroll ==
    /\ Poll("enroll")
    /\ IF state = "IDLE"
       THEN /\ pendingTag' = Null
            /\ state' = "ENROLL"
            /\ OpenWindow(TEnroll)
            /\ fresh' = {}
       ELSE UNCHANGED <<pendingTag, state, deadline, left, fresh>>
    /\ UNCHANGED <<fault, pendingUid, solenoid, edges, toPi>>

(***************************************************************************)
(* tick(): the event a window waits for is looked at before its deadline.  *)
(***************************************************************************)
Tick(s) ==
    /\ pc = "tick" /\ pc' = "poll"
    /\ state = s
    /\ gap' = 0
    /\ UNCHANGED <<now, chute, fromPi, fresh>>

TickResting ==
    /\ \/ Tick("IDLE")
       \/ Tick("BLOCKED")
       \/ Tick("AWAITING_FALL") /\ "entry" \notin edges /\ ~Expired
       \/ Tick("IDENTIFYING") /\ pendingTag = Null /\ ~Expired
       \/ Tick("CLEARING") /\ "exit" \notin edges /\ ~Expired
       \/ Tick("ENROLL") /\ pendingTag = Null /\ ~Expired
    /\ UNCHANGED <<fsmVars, edges, pendingTag, toPi, left>>

BallFell ==
    /\ Tick("AWAITING_FALL")
    /\ TakeEdge("entry")
    /\ state' = "IDENTIFYING"
    /\ OpenWindow(TId)
    /\ UNCHANGED <<fault, pendingUid, solenoid, pendingTag, toPi>>

NothingFell ==
    /\ Tick("AWAITING_FALL")
    /\ "entry" \notin edges /\ Expired
    /\ state' = "IDLE"
    /\ CloseWindow
    /\ Emit(Verdict("no_fall", Null))
    /\ UNCHANGED <<fault, pendingUid, solenoid, edges, pendingTag>>

TagRead ==
    /\ Tick("IDENTIFYING")
    /\ TryReadOnce
    /\ pendingUid' = pendingTag
    /\ solenoid' = "HIGH"
    /\ state' = "CLEARING"
    /\ OpenWindow(TExit)
    /\ UNCHANGED <<fault, edges, toPi>>

NoTagRead ==
    /\ Tick("IDENTIFYING")
    /\ pendingTag = Null /\ Expired
    /\ LatchBlocked("rfid_failed")
    /\ CloseWindow
    /\ Emit(Verdict("no_read", Null))
    /\ UNCHANGED <<pendingUid, edges, pendingTag>>

BallExited ==
    /\ Tick("CLEARING")
    /\ TakeEdge("exit")
    /\ solenoid' = "LOW"
    /\ state' = "IDLE"
    /\ CloseWindow
    /\ Emit(Verdict("ok", pendingUid))
    /\ UNCHANGED <<fault, pendingUid, pendingTag>>

BallStuck ==
    /\ Tick("CLEARING")
    /\ "exit" \notin edges /\ Expired
    /\ LatchBlocked("exit_timeout")
    /\ CloseWindow
    /\ Emit(Verdict("no_exit", pendingUid))
    /\ UNCHANGED <<pendingUid, edges, pendingTag>>

EnrollRead ==
    /\ Tick("ENROLL")
    /\ TryReadOnce
    /\ state' = "IDLE"
    /\ CloseWindow
    /\ Emit(TagScanned(pendingTag))
    /\ UNCHANGED <<fault, pendingUid, solenoid, edges>>

EnrollExpired ==
    /\ Tick("ENROLL")
    /\ pendingTag = Null /\ Expired
    /\ state' = "IDLE"
    /\ CloseWindow
    /\ Emit(EnrollTimeout)
    /\ UNCHANGED <<fault, pendingUid, solenoid, edges, pendingTag>>

Loop ==
    \/ PollNothing \/ OnPing \/ OnUnknown \/ OnFaultClear
    \/ OnArmBlocked \/ OnArmBusy \/ OnArm \/ OnEnroll
    \/ TickResting \/ BallFell \/ NothingFell \/ TagRead \/ NoTagRead
    \/ BallExited \/ BallStuck \/ EnrollRead \/ EnrollExpired

(***************************************************************************)
(* The rest of the world.                                                  *)
(***************************************************************************)
(* A brown-out or a reflash: all of it is RAM.  Lines not yet read are     *)
(* lost, and the boot announces itself.                                    *)
Restart ==
    /\ Emit(Ready(Null))
    /\ state' = "IDLE" /\ fault' = Null
    /\ deadline' = 0 /\ pendingUid' = Null /\ solenoid' = "LOW"
    /\ edges' = {} /\ pendingTag' = Null
    /\ pc' = "poll" /\ now' = 0 /\ fromPi' = <<>>
    /\ gap' = 0 /\ left' = 0 /\ fresh' = {}
    /\ UNCHANGED chute

Clock ==
    /\ gap < LoopGap
    /\ now' = Later(1)
    /\ gap' = gap + 1
    /\ left' = IF state \in TimedStates /\ left > -LoopGap THEN left - 1 ELSE left
    /\ UNCHANGED <<fsmVars, edges, pendingTag, pc, fromPi, toPi, chute, fresh>>

(* A ball drops through the entry beam and comes to rest at the antenna.   *)
(* It need not belong to a turn: the claw may let go late.                 *)
BallDrops(b) ==
    /\ b \notin chute
    /\ chute' = chute \cup {b}
    /\ edges' = edges \cup {"entry"}
    /\ UNCHANGED <<fsmVars, pendingTag, pc, fromPi, toPi, now, gap, left, fresh>>

(* parser_task: a telegram of a ball at the antenna is complete.  It       *)
(* replaces a tag nobody consumed.  A tag in the field repeats its         *)
(* telegram for as long as it is there: the antenna is always powered.     *)
TagParsed(b) ==
    /\ b \in chute
    /\ pendingTag' = b
    /\ fresh' = fresh \cup {b}
    /\ UNCHANGED <<fsmVars, edges, pc, fromPi, toPi, envVars, left>>

(* The gate is open: the ball leaves through the exit beam.                *)
BallLeaves(b) ==
    /\ solenoid = "HIGH"
    /\ b \in chute
    /\ chute' = chute \ {b}
    /\ edges' = edges \cup {"exit"}
    /\ UNCHANGED <<fsmVars, pendingTag, pc, fromPi, toPi, now, gap, left, fresh>>

(* The operator empties the chute by hand, perhaps through a beam.         *)
OperatorEmpties ==
    /\ state \in {"IDLE", "BLOCKED"}
    /\ chute # {} /\ chute' = {}
    /\ \E hit \in SUBSET {"entry", "exit"} : edges' = edges \cup hit
    /\ UNCHANGED <<fsmVars, pendingTag, pc, fromPi, toPi, now, gap, left, fresh>>

PiWrites(m) ==
    /\ Len(fromPi) < MaxIn
    /\ fromPi' = Append(fromPi, m)
    /\ UNCHANGED <<fsmVars, edges, pendingTag, pc, toPi, envVars, left, fresh>>

PiReads ==
    /\ toPi # <<>>
    /\ toPi' = Tail(toPi)
    /\ UNCHANGED <<fsmVars, edges, pendingTag, pc, fromPi, envVars, left, fresh>>

Environment ==
    \/ Restart \/ Clock \/ OperatorEmpties \/ PiReads
    \/ \E b \in Tags : BallDrops(b) \/ TagParsed(b) \/ BallLeaves(b)
    \/ \E m \in Inbound : PiWrites(m)

Next == Loop \/ Environment

Spec == Init /\ [][Next]_vars

(* loop() is called for ever, the clock runs and the Pi reads its port.    *)
FairSpec == Spec /\ WF_vars(Loop) /\ WF_vars(Clock) /\ WF_vars(PiReads)

-----------------------------------------------------------------------------
(***************************************************************************)
(* Properties.                                                             *)
(***************************************************************************)
(* The gate is open exactly while a ball whose tag was read is being let   *)
(* out: not while the chute waits for a ball, not once it is blocked and   *)
(* not after a turn (fsm.cpp:30, "never leave the chute open on fault").   *)
GateOnlyWhileClearing == (solenoid = "HIGH") <=> (state = "CLEARING")

(* A blocked chute always has a fault kind to report when it refuses to    *)
(* arm, and no other state carries one (fsm.cpp:27-31, 49-60).             *)
BlockedHasReason == (state = "BLOCKED") <=> (fault # Null)

(* The gate opens only for a tag that was read, so ok and no_exit carry a  *)
(* serial (protocol.h:15-20).                                              *)
ClearingHasSerial == state = "CLEARING" => pendingUid # Null

(* What the proofs need of a state: the three facts above.                 *)
ChuteInv == GateOnlyWhileClearing /\ BlockedHasReason /\ ClearingHasSerial

(* The comparison of wrapped 32-bit times (fsm.cpp:107, 124, 145, 159)     *)
(* finds a window expired exactly when it has run its length, also when    *)
(* millis() wraps inside it; and an event is then late by less than the    *)
(* longest pause of the loop.                                              *)
WindowsAreExact ==
    state \in TimedStates => (Expired <=> left <= 0) /\ left > -LoopGap

(* An enrolment reports a tag parsed after it began, never one left over   *)
(* from before (fsm.cpp:80-84, "Drain any stale tag").                     *)
EnrolledTagIsFresh == state = "ENROLL" => pendingTag \in fresh \cup {Null}

(* The same for a turn: the serial captured for the verdict was parsed     *)
(* during this arm (fsm.cpp:68-69, "a verdict must never report a stale    *)
(* ball_serial from an earlier turn").                                     *)
VerdictTagIsFresh == state = "CLEARING" => pendingUid \in fresh

(* Every arm the chute accepts is resolved, and every enrolment ends,      *)
(* whatever the balls do (fsm.cpp:107, 124, 145, 159: every timed state    *)
(* has a deadline).                                                        *)
TurnsResolve == state \in TimedStates ~> state \notin TimedStates

(***************************************************************************)
(* The abstract chute.                                                     *)
(***************************************************************************)
Phase == IF state = "IDLE" THEN "ready"
         ELSE IF state = "ENROLL" THEN "enrolling"
         ELSE IF state = "BLOCKED" THEN "blocked"
         ELSE "armed"

Contract == INSTANCE ChuteContract WITH phase <- Phase, latch <- fault

(* Each arm the chute accepts is answered by one verdict, whose outcome    *)
(* agrees with the serial it carries and with the state it leaves the      *)
(* chute in (protocol.h:11-20).                                            *)
ImplementsContract == Contract!Spec
=============================================================================
