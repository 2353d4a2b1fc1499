---------------------------- MODULE TurnContract ----------------------------
(***************************************************************************)
(* What the coordinator promises its players, with no messages, tasks,     *)
(* locks or faults: who has paid is queued behind those who have; the claw *)
(* is handed over in that order, to one player at a time; and what a turn  *)
(* wins is credited to it, once, and before the next turn starts.          *)
(***************************************************************************)
EXTENDS Integers

CONSTANTS MaxTurns, Null

VARIABLES entries,   \* status of each entry of the queue
          credited   \* the turn whose ball a turn's win was, or Null

vars == <<entries, credited>>

Turns == 1 .. MaxTurns

Waiting(n) == entries[n] \in {"absent", "queued"}
Started(n) == entries[n] \in {"active", "played"}

Init ==
    /\ entries = [n \in Turns |-> "absent"]
    /\ credited = [n \in Turns |-> Null]

Join(n) ==
    /\ entries[n] = "absent" /\ \A k \in Turns : k < n => entries[k] # "absent"
    /\ entries' = [entries EXCEPT ![n] = "queued"]
    /\ UNCHANGED credited

(* The next one's turn begins, and with it that of nobody else goes on.    *)
Start(n) ==
    /\ entries[n] = "queued" /\ \A k \in Turns : k < n => Started(k)
    /\ entries' = [k \in Turns |-> IF k = n THEN "active"
                                   ELSE IF entries[k] = "active" THEN "played" ELSE entries[k]]
    /\ UNCHANGED credited

End(n) ==
    /\ entries[n] = "active"
    /\ entries' = [entries EXCEPT ![n] = "played"]
    /\ UNCHANGED credited

(* A verdict may come before or after the entry has been closed.           *)
Credit(n) ==
    /\ Started(n) /\ \A k \in Turns : k > n => Waiting(k)
    /\ credited[n] = Null
    /\ credited' = [credited EXCEPT ![n] = n]
    /\ UNCHANGED entries

Next == \E n \in Turns : Join(n) \/ Start(n) \/ End(n) \/ Credit(n)

Spec == Init /\ [][Next]_vars

(* What a player relies on follows: when somebody plays, everybody before  *)
(* him has played and nobody after him has begun, and a win that was       *)
(* credited is that of a turn which was played, and its own.               *)
InOrder ==
    /\ entries \in [Turns -> {"absent", "queued", "active", "played"}]
    /\ \A n, k \in Turns : k < n /\ Started(n) => entries[k] = "played"
    /\ \A n \in Turns : credited[n] \in {n, Null} /\ (credited[n] # Null => Started(n))
=============================================================================
