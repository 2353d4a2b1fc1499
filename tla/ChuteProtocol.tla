--------------------------- MODULE ChuteProtocol ---------------------------
(***************************************************************************)
(* The wire messages between the chute ESP32 and the Raspberry Pi          *)
(* (esp/src/protocol.h, esp/src/protocol.cpp).  A JSON line is a record    *)
(* here; the four outcomes and the two latching faults keep their wire     *)
(* names.                                                                  *)
(***************************************************************************)
EXTENDS Integers, Sequences

CONSTANTS Tags,   \* the RFID serials of the balls
          Null    \* JSON null, nullptr, None

Inbound == {"arm", "fault_clear", "ping", "enroll", "unknown"}

Faults == {"rfid_failed", "exit_timeout"}

ASSUME NullAssumption == Null \notin Tags /\ Null \notin Faults

(***************************************************************************)
(* Does the outcome mean the player won, and is the chute still usable?    *)
(* The table at the top of protocol.h.                                     *)
(***************************************************************************)
Outcomes == {"no_fall", "no_read", "no_exit", "ok"}
Winning  == {"no_exit", "ok"}
Jammed   == {"no_read", "no_exit"}
FaultOf(outcome) == IF outcome = "no_read" THEN "rfid_failed" ELSE "exit_timeout"

Ready(latched)         == [type |-> "ready", fault |-> latched]
Verdict(outcome, tag)  == [type |-> "verdict", outcome |-> outcome, serial |-> tag]
StillBlocked(kind)     == [type |-> "fault", kind |-> kind, reason |-> "still_blocked"]
Pong                   == [type |-> "pong"]
TagScanned(tag)        == [type |-> "tag_scanned", serial |-> tag]
EnrollTimeout          == [type |-> "enroll_timeout"]

Outbound ==
    {Ready(f) : f \in Faults \cup {Null}}
      \cup {Verdict(o, t) : o \in Winning, t \in Tags}
      \cup {Verdict(o, Null) : o \in Outcomes \ Winning}
      \cup {StillBlocked(f) : f \in Faults}
      \cup {TagScanned(t) : t \in Tags}
      \cup {Pong, EnrollTimeout}
=============================================================================
