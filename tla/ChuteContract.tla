--------------------------- MODULE ChuteContract ---------------------------
(***************************************************************************)
(* What the chute promises the Pi, with no sensors, reader, solenoid or    *)
(* clock: it is ready, armed, enrolling or blocked; an arm it accepts is   *)
(* answered by one verdict whose outcome decides whether a serial is       *)
(* present and whether the chute is blocked afterwards; a blocked chute    *)
(* refuses to arm until it is cleared.  Module Chute implements this       *)
(* contract, and module Cabinet uses it in place of the chute.             *)
(***************************************************************************)
EXTENDS ChuteProtocol

CONSTANTS MaxIn, MaxOut   \* bounds on the two directions of the serial link

VARIABLES phase,   \* "ready", "armed", "enrolling" or "blocked"
          latch,   \* the fault that blocks it, or Null
          fromPi,  \* lines written by the Pi and not yet read
          toPi     \* lines written by the chute and not yet read

cvars == <<phase, latch, fromPi, toPi>>

Phases == {"ready", "armed", "enrolling", "blocked"}

ContractTypeOK ==
    /\ phase \in Phases
    /\ latch \in Faults \cup {Null}
    /\ fromPi \in Seq(Inbound)
    /\ toPi \in Seq(Outbound)

Init ==
    /\ phase = "ready"
    /\ latch = Null
    /\ fromPi = <<>>
    /\ toPi = <<Ready(Null)>>

(* MaxOut bounds the lines in flight; it is not back-pressure.             *)
Emit(m) == Len(toPi) < MaxOut /\ toPi' = Append(toPi, m)
Take(m) == fromPi # <<>> /\ Head(fromPi) = m /\ fromPi' = Tail(fromPi)

AcceptArm ==
    /\ Take("arm")
    /\ phase = "ready"
    /\ phase' = "armed"
    /\ UNCHANGED <<latch, toPi>>

RefuseArm ==
    /\ Take("arm")
    /\ phase = "blocked"
    /\ Emit(StillBlocked(latch))
    /\ UNCHANGED <<phase, latch>>

StartEnroll ==
    /\ Take("enroll")
    /\ phase = "ready"
    /\ phase' = "enrolling"
    /\ UNCHANGED <<latch, toPi>>

ClearLatch ==
    /\ Take("fault_clear")
    /\ phase = "blocked"
    /\ phase' = "ready"
    /\ latch' = Null
    /\ UNCHANGED toPi

AnswerPing ==
    /\ Take("ping")
    /\ Emit(Pong)
    /\ UNCHANGED <<phase, latch>>

(* A line that means nothing in this phase is consumed without an answer.  *)
IgnoreLine ==
    /\ \/ Take("unknown")
       \/ Take("arm") /\ phase \in {"armed", "enrolling"}
       \/ Take("enroll") /\ phase # "ready"
       \/ Take("fault_clear") /\ phase # "blocked"
    /\ UNCHANGED <<phase, latch, toPi>>

Report(outcome, tag) ==
    /\ phase = "armed"
    /\ (tag # Null) <=> (outcome \in Winning)
    /\ phase' = IF outcome \in Jammed THEN "blocked" ELSE "ready"
    /\ latch' = IF outcome \in Jammed THEN FaultOf(outcome) ELSE Null
    /\ Emit(Verdict(outcome, tag))
    /\ UNCHANGED fromPi

FinishEnroll(m) ==
    /\ phase = "enrolling"
    /\ phase' = "ready"
    /\ Emit(m)
    /\ UNCHANGED <<latch, fromPi>>

(* Power-up, brown-out or a reflash: everything is forgotten, the latch    *)
(* included, and the boot announces itself.                                *)
Restart ==
    /\ phase' = "ready"
    /\ latch' = Null
    /\ fromPi' = <<>>
    /\ Emit(Ready(Null))

ChuteStep ==
    \/ AcceptArm \/ RefuseArm \/ StartEnroll \/ ClearLatch \/ AnswerPing \/ IgnoreLine
    \/ \E o \in Outcomes, t \in Tags \cup {Null} : Report(o, t)
    \/ \E t \in Tags : FinishEnroll(TagScanned(t))
    \/ FinishEnroll(EnrollTimeout)
    \/ Restart

PiWrites(m) ==
    /\ Len(fromPi) < MaxIn
    /\ fromPi' = Append(fromPi, m)
    /\ UNCHANGED <<phase, latch, toPi>>

PiReads ==
    /\ toPi # <<>>
    /\ toPi' = Tail(toPi)
    /\ UNCHANGED <<phase, latch, fromPi>>

Next == ChuteStep \/ PiReads \/ \E m \in Inbound : PiWrites(m)

Spec == Init /\ [][Next]_cvars
=============================================================================
