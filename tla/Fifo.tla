------------------------------- MODULE Fifo -------------------------------
(***************************************************************************)
(* The ring buffer of the FDX-B reader (Fifo.cpp), between the interrupt   *)
(* that pushes the length of each interval (Decoder::putStateChange) and   *)
(* the parser that pops it (Decoder::getDelta), one access to shared       *)
(* memory at a time.  The indices run downwards.                           *)
(*                                                                         *)
(* The values are the numbers of the pushes.  mRead is volatile and both   *)
(* sides change it: push() when the buffer is full, pop() always.  They    *)
(* run side by side: fdxb_reader.cpp pins the parser to core 0 and the     *)
(* interrupt is on the core of the Arduino loop, which is the other.       *)
(***************************************************************************)
EXTENDS Integers

CONSTANTS Size,        \* slots of the buffer (FDXB_BUFFER_SIZE, 243)
          IndexWidth,  \* values of an index (uint8_t, 256)
          MaxPushes    \* bound: number of pushes

ASSUME FifoAssumption ==
    /\ Size \in Nat /\ Size > 1
    /\ IndexWidth \in Nat /\ Size <= IndexWidth
    /\ MaxPushes \in Nat

mSize == Size - 1

VARIABLES
    mBuffer, mRead, mWrite,
    at,       \* where the interrupt and the parser are
    reg,      \* the copy of mRead that each is working on
    value,    \* what the parser found in the buffer
    last,     \* the interval getDelta() returned last
    pushed,   \* ghost: number of intervals put in
    collided  \* ghost: a push and a pop have met (the two cases of Collide)

ringVars == <<mBuffer, mRead, mWrite>>
vars == <<ringVars, at, reg, value, last, pushed, collided>>

Sides   == {"isr", "parser"}
NextAt  == {"test", "load", "store", "wrap"}         \* in next(&mRead)
IsrAt   == {"idle", "move", "check"} \cup NextAt
ParserAt == {"await", "peek", "index", "fetch"} \cup NextAt
Slots   == 0 .. mSize
Indices == 0 .. IndexWidth - 1
Values  == 0 .. MaxPushes

TypeOK ==
    /\ mBuffer \in [Slots -> Values]
    /\ mRead \in Indices /\ mWrite \in Slots
    /\ at \in [Sides -> IsrAt \cup ParserAt]
    /\ at["isr"] \in IsrAt /\ at["parser"] \in ParserAt
    /\ reg \in [Sides -> Indices]
    /\ value \in Values /\ last \in Values /\ pushed \in Values
    /\ collided \in BOOLEAN

Init ==
    /\ mBuffer = [i \in Slots |-> 0]
    /\ mRead = 0 /\ mWrite = 0
    /\ at = [s \in Sides |-> IF s = "isr" THEN "idle" ELSE "await"]
    /\ reg = [s \in Sides |-> 0]
    /\ value = 0 /\ last = 0 /\ pushed = 0 /\ collided = FALSE

(***************************************************************************)
(* Indices.                                                                *)
(***************************************************************************)
Goto(s, place) == at' = [at EXCEPT ![s] = place]

NextIndexUnderflow(i) == (i - 1) % IndexWidth    \* mutant: 0 is not special
NextIndex(i) == IF i # 0 THEN i - 1 ELSE mSize

(* The entries in the buffer, if none is being dropped.                    *)
Distance == IF mRead >= mWrite THEN mRead - mWrite ELSE mRead - mWrite + Size
Full == Distance = mSize
Empty == mRead = mWrite

(* A push fills the buffer while a value is being popped, or a pop takes   *)
(* the last value out between the store of a push and its look at the      *)
(* indices: push() and pop() then both change mRead for the same reason.   *)
Collide(met) == collided' = (collided \/ met)

(* A slot outside the block that was allocated holds anything.             *)
Contents(i) == IF i \in Slots THEN {mBuffer[i]} ELSE Values

(***************************************************************************)
(* next(&mRead), by either side: an index that is not 0 is decremented,    *)
(* else it is set to mSize.  Test and decrement load the index anew.       *)
(***************************************************************************)
TestIndex(s) ==
    /\ at[s] = "test"
    /\ Goto(s, IF mRead # 0 THEN "load" ELSE "wrap")
    /\ UNCHANGED <<ringVars, reg, value, last, pushed, collided>>

LoadIndex(s) ==
    /\ at[s] = "load"
    /\ reg' = [reg EXCEPT ![s] = mRead]
    /\ Goto(s, "store")
    /\ UNCHANGED <<ringVars, value, last, pushed, collided>>

(* getDelta() returns when pop() does.                                     *)
Return(s) ==
    IF s = "isr" THEN Goto(s, "idle") /\ UNCHANGED last
                 ELSE Goto(s, "await") /\ last' = value

StoreIndex(s) ==
    /\ at[s] = "store"
    /\ mRead' = (reg[s] - 1) % IndexWidth
    /\ Return(s)
    /\ Collide(s = "parser" /\ at["isr"] = "check" /\ mRead' = mWrite)
    /\ UNCHANGED <<mBuffer, mWrite, reg, value, pushed>>

WrapIndex(s) ==
    /\ at[s] = "wrap"
    /\ mRead' = mSize
    /\ Return(s)
    /\ Collide(s = "parser" /\ at["isr"] = "check" /\ mRead' = mWrite)
    /\ UNCHANGED <<mBuffer, mWrite, reg, value, pushed>>

NextRead(s) == TestIndex(s) \/ LoadIndex(s) \/ StoreIndex(s) \/ WrapIndex(s)

(***************************************************************************)
(* push(), in the interrupt.  Only it changes mWrite.                      *)
(***************************************************************************)
PushStore ==
    /\ at["isr"] = "idle" /\ pushed < MaxPushes
    /\ mBuffer' = [mBuffer EXCEPT ![mWrite] = pushed + 1]
    /\ Goto("isr", "move")
    /\ UNCHANGED <<mRead, mWrite, reg, value, last, pushed, collided>>

PushMove ==
    /\ at["isr"] = "move"
    /\ mWrite' = NextIndex(mWrite)
    /\ pushed' = pushed + 1
    /\ Collide(Full /\ at["parser"] # "await")
    /\ Goto("isr", "check")
    /\ UNCHANGED <<mBuffer, mRead, reg, value, last>>

(* An empty buffer after a push is taken for one that has overrun.         *)
PushCheckNot ==                                  \* mutant: the oldest is not dropped
    /\ at["isr"] = "check"
    /\ Goto("isr", "idle")
    /\ UNCHANGED <<ringVars, reg, value, last, pushed, collided>>
PushCheck ==
    /\ at["isr"] = "check"
    /\ Goto("isr", IF Empty THEN "test" ELSE "idle")
    /\ UNCHANGED <<ringVars, reg, value, last, pushed, collided>>

Push == PushStore \/ PushMove \/ PushCheck \/ NextRead("isr")

(***************************************************************************)
(* getDelta() and pop(), in the parser.                                    *)
(***************************************************************************)
(* The loop of getDelta() ends when the buffer is not empty.               *)
AwaitData ==
    /\ at["parser"] = "await" /\ ~Empty
    /\ Goto("parser", "peek")
    /\ UNCHANGED <<ringVars, reg, value, last, pushed, collided>>

(* peek() looks again, and getDelta() does not look at what pop() returns. *)
Peek ==
    /\ at["parser"] = "peek"
    /\ IF Empty THEN Return("parser") ELSE Goto("parser", "index") /\ UNCHANGED last
    /\ UNCHANGED <<ringVars, reg, value, pushed, collided>>

ReadIndex ==
    /\ at["parser"] = "index"
    /\ reg' = [reg EXCEPT !["parser"] = mRead]
    /\ Goto("parser", "fetch")
    /\ UNCHANGED <<ringVars, value, last, pushed, collided>>

Fetch ==
    /\ at["parser"] = "fetch"
    /\ value' \in Contents(reg["parser"])
    /\ Goto("parser", "test")
    /\ UNCHANGED <<ringVars, reg, last, pushed, collided>>

Pop == AwaitData \/ Peek \/ ReadIndex \/ Fetch \/ NextRead("parser")

Next == Push \/ Pop

Spec == Init /\ [][Next]_vars

-----------------------------------------------------------------------------
(***************************************************************************)
(* Properties.                                                             *)
(***************************************************************************)
(* A push has filled the buffer and its oldest entry is being dropped.     *)
Dropping == at["isr"] \in {"check"} \cup NextAt /\ Empty

Entries == IF Dropping THEN mSize ELSE Distance

Queue == INSTANCE LossyQueue WITH Capacity <- mSize, lo <- pushed - Entries, hi <- pushed

(* Until a push and a pop collide in one of the two ways of Collide, the   *)
(* ring buffer is a queue that loses its oldest entries (Fifo.cpp:12-24),  *)
(* wherever on the other core an interrupt falls between the loads and     *)
(* stores of a pop.  Every wrong interval comes after such a collision.    *)
ImplementsQueue == Queue!Init /\ [][~collided' => Queue!Next]_(Queue!vars)

(* Each interval is returned once and after the ones pushed before it      *)
(* (FdxB.h:40, "Simple first in, first out (FIFO) ring buffer").           *)
FirstInFirstOut ==
    [][at["parser"] # "await" /\ at'["parser"] = "await" => last' > last]_vars
=============================================================================
