---------------------------- MODULE FifoProofs ----------------------------
(***************************************************************************)
(* Proofs about Fifo: for every size of the buffer and every width of its  *)
(* indices the interrupt writes inside it, and until a push and a pop      *)
(* collide the ring is a queue that loses its oldest entries.              *)
(***************************************************************************)
EXTENDS Fifo, TLAPS

-----------------------------------------------------------------------------
(***************************************************************************)
(* The inductive invariant.                                                *)
(***************************************************************************)
(* Where the i-th entry is, counted from the oldest.                       *)
Slot(i) == IF mRead >= i THEN mRead - i ELSE mRead - i + Size

(* The entries in memory, the one that is being dropped included.          *)
Span == IF Dropping THEN Size ELSE Distance

(* The memory from mRead down to mWrite holds the latest intervals.        *)
Held == \A i \in 0 .. Span - 1 : mBuffer[Slot(i)] = pushed - Span + 1 + i

Pushing ==
    /\ at["isr"] = "move" => mBuffer[mWrite] = pushed + 1
    /\ at["isr"] \in NextAt => Empty
    /\ at["isr"] \in {"load", "store"} => mRead # 0
    /\ at["isr"] = "store" => reg["isr"] = mRead
    /\ at["isr"] = "wrap" => mRead = 0

Popping ==
    /\ at["parser"] # "await" => ~Empty
    /\ at["parser"] = "fetch" => reg["parser"] = mRead
    /\ at["parser"] \in NextAt => value = pushed - Distance + 1
    /\ at["parser"] \in {"load", "store"} => mRead # 0
    /\ at["parser"] = "store" => reg["parser"] = mRead
    /\ at["parser"] = "wrap" => mRead = 0

(* While the oldest entry is dropped nothing is being popped.              *)
Apart == Dropping => at["parser"] = "await"

Sound == mRead \in Slots /\ Held /\ Pushing /\ Popping /\ Apart

Bounded == at["isr"] = "move" => pushed < MaxPushes

TypeInv == TypeOK /\ Bounded
IInv == TypeInv /\ (~collided => Sound)

-----------------------------------------------------------------------------
(***************************************************************************)
(* Arithmetic of the ring.                                                 *)
(***************************************************************************)
(* The entry behind the newest is the one that is written next, and it is  *)
(* none of those in the buffer.                                            *)
LEMMA SlotsApart ==
    ASSUME TypeOK, mRead \in Slots
    PROVE  /\ Distance \in 0 .. mSize
           /\ Distance = 0 <=> Empty
           /\ Slot(Distance) = mWrite
           /\ \A i \in 0 .. mSize : Slot(i) \in Slots
           /\ \A i \in 0 .. Distance - 1 : Slot(i) # mWrite
BY FifoAssumption DEF TypeOK, Distance, Empty, Slot, Slots, mSize

(* An index that is not 0 is decremented without underflow.                *)
LEMMA Decrement ==
    ASSUME NEW i \in Slots, i # 0
    PROVE  (i - 1) % IndexWidth = i - 1
<1>1. i - 1 \in 0 .. IndexWidth - 1  BY FifoAssumption DEF Slots, mSize
<1>2. IndexWidth \in Nat /\ IndexWidth > 0  BY FifoAssumption
<1> QED  BY <1>1, <1>2, SMT

LEMMA InitInv == Init => IInv
<1> SUFFICES ASSUME Init PROVE IInv  OBVIOUS
<1> USE FifoAssumption DEF Init
<1>1. TypeOK /\ mRead \in Slots
    <2>1. 0 \in Slots /\ 0 \in Indices /\ 0 \in Values
        BY DEF Slots, Indices, Values, mSize
    <2>2. /\ at \in [Sides -> IsrAt \cup ParserAt]
          /\ at["isr"] \in IsrAt /\ at["parser"] \in ParserAt
        BY DEF Sides, IsrAt, ParserAt
    <2> QED  BY <2>1, <2>2 DEF TypeOK
<1>2. at["isr"] = "idle" /\ at["parser"] = "await"  BY DEF Sides
<1>3. ~Dropping /\ Distance = 0  BY <1>2 DEF Dropping, NextAt, Distance
<1>4. Held  BY <1>3 DEF Held, Span
<1> QED  BY <1>1, <1>2, <1>3, <1>4
    DEF IInv, TypeInv, Bounded, Sound, Pushing, Popping, Apart, NextAt

-----------------------------------------------------------------------------
(***************************************************************************)
(* Types.                                                                  *)
(***************************************************************************)
LEMMA TypeInductive ==
    ASSUME TypeInv, [Next]_vars PROVE TypeInv'
<1> USE DEF TypeInv, Bounded, Goto
<1>0. CASE UNCHANGED vars
    BY <1>0 DEF vars, ringVars, TypeOK
<1>1. CASE PushStore
    <2>1. pushed + 1 \in Values  BY <1>1, FifoAssumption DEF PushStore, TypeOK, Values
    <2>2. mBuffer' \in [Slots -> Values]  BY <1>1, <2>1 DEF PushStore, TypeOK
    <2> QED  BY <1>1, <2>2 DEF PushStore, TypeOK, Sides, IsrAt, ParserAt
<1>2. CASE PushMove
    <2>1. pushed' \in Values  BY <1>2, FifoAssumption DEF PushMove, TypeOK, Values
    <2>2. mWrite' \in Slots
        BY <1>2, FifoAssumption DEF PushMove, TypeOK, NextIndex, Slots, mSize
    <2>3. collided' \in BOOLEAN  BY <1>2 DEF PushMove, Collide, TypeOK
    <2> QED  BY <1>2, <2>1, <2>2, <2>3 DEF PushMove, TypeOK, Sides, IsrAt, ParserAt
<1>3. CASE PushCheck
    BY <1>3 DEF PushCheck, TypeOK, ringVars, Sides, IsrAt, ParserAt, NextAt
<1>4. ASSUME NEW s \in Sides, NextRead(s) PROVE TypeInv'
    <2>0. ASSUME mRead' \in Indices, Return(s), collided' \in BOOLEAN,
                 UNCHANGED <<mBuffer, mWrite, reg, value, pushed>>
          PROVE  TypeInv'
        <3>1. /\ last' \in Values /\ at' \in [Sides -> IsrAt \cup ParserAt]
              /\ at'["isr"] \in IsrAt /\ at'["parser"] \in ParserAt
              /\ at'["isr"] # at["isr"] => at'["isr"] = "idle"
            BY <2>0 DEF Return, TypeOK, Sides, IsrAt, ParserAt
        <3> QED  BY <2>0, <3>1 DEF TypeOK
    <2>1. CASE TestIndex(s)
        BY <2>1 DEF TestIndex, TypeOK, ringVars, Sides, IsrAt, ParserAt, NextAt
    <2>2. CASE LoadIndex(s)
        BY <2>2 DEF LoadIndex, TypeOK, ringVars, Sides, IsrAt, ParserAt, NextAt
    <2>3. CASE StoreIndex(s)
        <3>1. reg[s] \in Int /\ IndexWidth \in Nat /\ IndexWidth > 0
            BY FifoAssumption DEF TypeOK, Indices
        <3>2. mRead' \in Indices  BY <2>3, <3>1 DEF StoreIndex, Indices
        <3>3. collided' \in BOOLEAN  BY <2>3 DEF StoreIndex, Collide, TypeOK
        <3> QED  BY <2>0, <2>3, <3>2, <3>3 DEF StoreIndex
    <2>4. CASE WrapIndex(s)
        <3>1. mRead' \in Indices  BY <2>4, FifoAssumption DEF WrapIndex, Indices, mSize
        <3>2. collided' \in BOOLEAN  BY <2>4 DEF WrapIndex, Collide, TypeOK
        <3> QED  BY <2>0, <2>4, <3>1, <3>2 DEF WrapIndex
    <2> QED  BY <1>4, <2>1, <2>2, <2>3, <2>4 DEF NextRead
<1>5. CASE AwaitData
    BY <1>5 DEF AwaitData, TypeOK, ringVars, Sides, IsrAt, ParserAt
<1>6. CASE Peek
    BY <1>6 DEF Peek, Return, TypeOK, ringVars, Sides, IsrAt, ParserAt
<1>7. CASE ReadIndex
    BY <1>7 DEF ReadIndex, TypeOK, ringVars, Sides, IsrAt, ParserAt
<1>8. CASE Fetch
    <2>1. value' \in Values  BY <1>8 DEF Fetch, Contents, TypeOK
    <2> QED  BY <1>8, <2>1 DEF Fetch, TypeOK, ringVars, Sides, IsrAt, ParserAt, NextAt
<1> QED
    BY <1>0, <1>1, <1>2, <1>3, <1>4, <1>5, <1>6, <1>7, <1>8 DEF Next, Push, Pop, Sides

(* A collision is not forgotten.                                           *)
LEMMA CollidedStays == ASSUME [Next]_vars, ~collided' PROVE ~collided
BY DEF Next, Push, Pop, NextRead, PushStore, PushMove, PushCheck, TestIndex, LoadIndex,
       StoreIndex, WrapIndex, AwaitData, Peek, ReadIndex, Fetch, Collide, vars

-----------------------------------------------------------------------------
(***************************************************************************)
(* Pushes.                                                                 *)
(***************************************************************************)
(* The new interval goes behind the newest entry.                          *)
LEMMA PushStoreInv ==
    ASSUME TypeInv, Sound, PushStore PROVE Sound'
<1> USE DEF TypeInv, Sound, PushStore, Goto
<1>0. at["isr"] = "idle" /\ at'["isr"] = "move" /\ at'["parser"] = at["parser"]
    BY DEF TypeOK, Sides
<1>1. /\ ~Dropping /\ ~Dropping' /\ Distance' = Distance /\ Empty' = Empty
      /\ Span = Distance /\ Span' = Distance
    BY <1>0 DEF Dropping, Span, Distance, Empty, NextAt
<1>2. Held'
    <2> SUFFICES ASSUME NEW i \in 0 .. Distance - 1
                 PROVE  mBuffer'[Slot(i)] = pushed - Distance + 1 + i
        BY <1>1 DEF Held, Slot
    <2>1. Slot(i) \in Slots /\ Slot(i) # mWrite
        BY SlotsApart, FifoAssumption DEF mSize
    <2>2. mBuffer'[Slot(i)] = mBuffer[Slot(i)]  BY <2>1 DEF TypeOK
    <2> QED  BY <2>2, <1>1 DEF Held
<1>3. Pushing'
    <2>1. mBuffer'[mWrite] = pushed + 1  BY DEF TypeOK
    <2>2. UNCHANGED <<mWrite, pushed>>  OBVIOUS
    <2> QED  BY <1>0, <2>1, <2>2 DEF Pushing, NextAt
<1>4. Popping' /\ Apart'
    BY <1>0, <1>1 DEF Popping, Apart
<1> QED  BY <1>2, <1>3, <1>4

(* Then mWrite moves on, perhaps onto the oldest entry.                    *)
LEMMA PushMoveInv ==
    ASSUME TypeInv, Sound, PushMove, ~collided' PROVE Sound'
<1> USE DEF TypeInv, Sound, PushMove, Goto
<1>0. at["isr"] = "move" /\ at'["isr"] = "check" /\ at'["parser"] = at["parser"]
    BY DEF TypeOK, Sides
<1>1. ~Dropping /\ Span = Distance /\ Distance \in 0 .. mSize
    BY <1>0, SlotsApart DEF Dropping, Span, NextAt
<1>2. IF Full THEN Empty' /\ Distance' = 0 ELSE ~Empty' /\ Distance' = Distance + 1
    BY FifoAssumption DEF TypeOK, NextIndex, Distance, Full, Empty, Slots, mSize
<1>3. Dropping' <=> Full
    BY <1>0, <1>2 DEF Dropping, NextAt
<1>4. Span' = Distance + 1
    BY <1>2, <1>3, FifoAssumption DEF Span, Full, mSize
<1>5. Held'
    <2> SUFFICES ASSUME NEW i \in 0 .. Distance
                 PROVE  mBuffer[Slot(i)] = pushed - Distance + 1 + i
        BY <1>1, <1>4 DEF Held, Slot, TypeOK, Values
    <2>1. CASE i < Distance  BY <2>1, <1>1 DEF Held
    <2>2. CASE i = Distance
        BY <2>2, <1>0, <1>1, SlotsApart DEF Pushing, TypeOK, Values
    <2> QED  BY <2>1, <2>2, <1>1
<1>6. Pushing'
    BY <1>0 DEF Pushing, NextAt
<1>7. at["parser"] # "await" => ~Full
    BY DEF Collide
<1>8. Popping'
    <2>2. at["parser"] # "await" => ~Empty' /\ Distance' = Distance + 1
        BY <1>2, <1>7
    <2>3. /\ pushed' = pushed + 1
          /\ pushed \in Int /\ Distance \in Int
          /\ UNCHANGED <<mRead, reg, value>>
        BY <1>1 DEF TypeOK, Values
    <2>4. at["parser"] \in NextAt => value' = pushed' - Distance' + 1
        <3>1. SUFFICES ASSUME at["parser"] \in NextAt
                       PROVE  value' = pushed' - Distance' + 1  OBVIOUS
        <3>2. at["parser"] # "await"  BY <3>1 DEF NextAt
        <3>3. value = pushed - Distance + 1  BY <3>1 DEF Popping
        <3> QED  BY <3>2, <3>3, <2>2, <2>3
    <2> QED  BY <1>0, <2>2, <2>3, <2>4 DEF Popping
<1>9. Apart'
    BY <1>0, <1>3, <1>7 DEF Apart
<1> QED  BY <1>5, <1>6, <1>8, <1>9

(* No pop can have emptied the buffer meanwhile: that would have been a    *)
(* collision.                                                              *)
LEMMA PushCheckInv ==
    ASSUME TypeInv, Sound, PushCheck PROVE Sound'
<1> USE DEF TypeInv, Sound, PushCheck, Goto, ringVars
<1>0. /\ at["isr"] = "check" /\ at'["parser"] = at["parser"]
      /\ at'["isr"] = IF Empty THEN "test" ELSE "idle"
    BY DEF TypeOK, Sides
<1>1. /\ Dropping' = Dropping /\ Distance' = Distance /\ Empty' = Empty
      /\ Span' = Span
    BY <1>0 DEF Dropping, Distance, Empty, Span, NextAt
<1>2. Held'  BY <1>1 DEF Held, Slot
<1>3. Pushing'  BY <1>0, <1>1 DEF Pushing, NextAt
<1>4. Popping'  BY <1>0, <1>1 DEF Popping
<1>5. Apart'  BY <1>0, <1>1 DEF Apart
<1> QED  BY <1>2, <1>3, <1>4, <1>5

(* The oldest entry is dropped by moving mRead.                            *)
LEMMA MovesOn ==
    ASSUME TypeOK, mRead \in Slots, NEW i \in Nat, i < mSize,
           mRead' = IF mRead = 0 THEN mSize ELSE mRead - 1
    PROVE  Slot(i)' = Slot(i + 1)
BY FifoAssumption DEF TypeOK, Slot, Slots, mSize

LEMMA DropMoves ==
    ASSUME TypeInv, Sound, StoreIndex("isr") \/ WrapIndex("isr")
    PROVE  /\ at'["isr"] = "idle" /\ at'["parser"] = "await"
           /\ UNCHANGED <<mBuffer, mWrite, pushed, last>>
           /\ mRead' = IF mRead = 0 THEN mSize ELSE mRead - 1
           /\ mRead' \in Slots
           /\ Dropping /\ ~Dropping' /\ Distance' = mSize /\ Span' = mSize
<1> USE DEF TypeInv, Sound, Goto
<1>1. at["isr"] \in NextAt /\ Empty /\ Dropping /\ at["parser"] = "await"
    BY DEF StoreIndex, WrapIndex, NextAt, Pushing, Dropping, Apart
<1>2. /\ at'["isr"] = "idle" /\ at'["parser"] = "await"
      /\ UNCHANGED <<mBuffer, mWrite, pushed, last>>
    BY <1>1 DEF StoreIndex, WrapIndex, Return, TypeOK, Sides
<1>3. mRead' = IF mRead = 0 THEN mSize ELSE mRead - 1
    <2>1. CASE StoreIndex("isr")  BY <2>1, Decrement DEF StoreIndex, Pushing, TypeOK
    <2>2. CASE WrapIndex("isr")  BY <2>2 DEF WrapIndex, Pushing
    <2> QED  BY <2>1, <2>2
<1>4. mRead' \in Slots  BY <1>3, FifoAssumption DEF Slots, mSize
<1>5. ~Dropping' /\ Distance' = mSize /\ Span' = mSize
    BY <1>1, <1>2, <1>3, FifoAssumption
    DEF Dropping, NextAt, Distance, Empty, Span, TypeOK, Slots, mSize
<1> QED  BY <1>1, <1>2, <1>3, <1>4, <1>5

LEMMA DropInv ==
    ASSUME TypeInv, Sound, NextRead("isr") PROVE Sound'
<1> USE DEF TypeInv, Sound, Goto, ringVars
<1>0. at["isr"] \in NextAt /\ Empty /\ Dropping /\ at["parser"] = "await" /\ Span = Size
    BY DEF NextRead, TestIndex, LoadIndex, StoreIndex, WrapIndex, NextAt, Pushing, Dropping,
           Apart, Span
<1>1. CASE TestIndex("isr") \/ LoadIndex("isr")
    <2>1. /\ at'["isr"] \in {"load", "store", "wrap"} /\ at'["parser"] = at["parser"]
          /\ at["isr"] = "test" => /\ at'["isr"] = "load" => mRead # 0
                                   /\ at'["isr"] = "wrap" => mRead = 0
                                   /\ at'["isr"] # "store"
          /\ at["isr"] = "load" => at'["isr"] = "store" /\ reg'["isr"] = mRead
          /\ at["isr"] \in {"test", "load"}
          /\ UNCHANGED ringVars /\ UNCHANGED <<value, last, pushed>>
        BY <1>1 DEF TestIndex, LoadIndex, TypeOK, Sides
    <2>2. Dropping' /\ Empty' /\ Span' = Size
        BY <1>0, <2>1 DEF Dropping, Empty, Span, NextAt
    <2>3. Held'  BY <1>0, <2>1, <2>2 DEF Held, Slot
    <2>4. Pushing'  BY <2>1, <2>2 DEF Pushing, NextAt
    <2>5. Popping' /\ Apart'  BY <1>0, <2>1, <2>2 DEF Popping, Apart, NextAt
    <2> QED  BY <2>1, <2>3, <2>4, <2>5
<1>2. CASE StoreIndex("isr") \/ WrapIndex("isr")
    <2>1. /\ at'["isr"] = "idle" /\ at'["parser"] = "await"
          /\ UNCHANGED <<mBuffer, mWrite, pushed>> /\ mRead' \in Slots
        BY <1>2, DropMoves
    <2>2. mRead' = IF mRead = 0 THEN mSize ELSE mRead - 1
        BY <1>2, DropMoves
    <2>3. ~Dropping' /\ Distance' = mSize /\ Span' = mSize
        BY <1>2, DropMoves
    <2>4. Held'
        <3> SUFFICES ASSUME NEW i \in 0 .. mSize - 1
                     PROVE  mBuffer[Slot(i)'] = pushed - mSize + 1 + i
            BY <2>1, <2>3 DEF Held
        <3>1. i + 1 \in 0 .. Size - 1  BY FifoAssumption DEF mSize
        <3>2. mBuffer[Slot(i + 1)] = pushed - Size + 1 + (i + 1)  BY <1>0, <3>1 DEF Held
        <3>3. Slot(i)' = Slot(i + 1)  BY <2>2, MovesOn, FifoAssumption DEF mSize
        <3> QED  BY <3>2, <3>3, FifoAssumption DEF mSize, TypeOK, Values
    <2>5. Pushing' /\ Popping' /\ Apart'
        BY <2>1, <2>3 DEF Pushing, Popping, Apart, NextAt
    <2> QED  BY <2>1, <2>4, <2>5
<1> QED  BY <1>1, <1>2 DEF NextRead

-----------------------------------------------------------------------------
(***************************************************************************)
(* Pops.                                                                   *)
(***************************************************************************)
(* An interrupt that falls into a pop has not come to its own use of mRead.*)
LEMMA PopApart ==
    ASSUME TypeInv, Sound, Pop
    PROVE  ~Dropping /\ at["isr"] \notin NextAt /\ Span = Distance
<1>1. ~Empty
    BY DEF Sound, Popping, Pop, NextRead, AwaitData, Peek, ReadIndex, Fetch, TestIndex,
           LoadIndex, StoreIndex, WrapIndex
<1> QED  BY <1>1 DEF Sound, Pushing, Dropping, Span

LEMMA PopMoves ==
    ASSUME TypeInv, Sound, ~collided', StoreIndex("parser") \/ WrapIndex("parser")
    PROVE  /\ at'["isr"] = at["isr"] /\ at'["parser"] = "await"
           /\ UNCHANGED <<mBuffer, mWrite, pushed>>
           /\ mRead' = IF mRead = 0 THEN mSize ELSE mRead - 1
           /\ mRead' \in Slots
           /\ Distance \in 1 .. mSize /\ Distance' = Distance - 1
           /\ ~Dropping' /\ last' = pushed - Distance + 1
<1> USE DEF TypeInv, Sound, Goto
<1>1. at["parser"] \in NextAt /\ ~Empty /\ value = pushed - Distance + 1
    BY DEF StoreIndex, WrapIndex, NextAt, Popping
<1>2. /\ at'["isr"] = at["isr"] /\ at'["parser"] = "await" /\ last' = value
      /\ UNCHANGED <<mBuffer, mWrite, pushed>>
    BY DEF StoreIndex, WrapIndex, Return, TypeOK, Sides
<1>3. mRead' = IF mRead = 0 THEN mSize ELSE mRead - 1
    <2>1. CASE StoreIndex("parser")  BY <2>1, Decrement DEF StoreIndex, Popping, TypeOK
    <2>2. CASE WrapIndex("parser")  BY <2>2 DEF WrapIndex, Popping
    <2> QED  BY <2>1, <2>2
<1>4. mRead' \in Slots  BY <1>3, FifoAssumption DEF Slots, mSize
<1>5. Distance \in 1 .. mSize /\ Distance' = Distance - 1
    BY <1>1, <1>2, <1>3, FifoAssumption DEF Distance, Empty, TypeOK, Slots, mSize
<1>6. ~Dropping'
    <2>1. at["isr"] \notin NextAt  BY PopApart DEF Pop, NextRead
    <2>2. at["isr"] = "check" => ~Empty'
        BY <1>2 DEF StoreIndex, WrapIndex, Collide, Empty
    <2> QED  BY <1>2, <2>1, <2>2 DEF Dropping
<1> QED  BY <1>1, <1>2, <1>3, <1>4, <1>5, <1>6

(* Only the oldest entry is fetched, and only the end of the pop shows.    *)
LEMMA PopInv ==
    ASSUME TypeInv, Sound, Pop, ~collided' PROVE Sound'
<1> USE DEF TypeInv, Sound, Goto, ringVars
<1>0. ~Dropping /\ at["isr"] \notin NextAt /\ Span = Distance
    BY PopApart
<1>1. ASSUME at'["isr"] = at["isr"], UNCHANGED <<ringVars, pushed>>, Popping'
      PROVE  Sound'
    <2>1. ~Dropping' /\ Distance' = Distance /\ Span' = Distance
        BY <1>0, <1>1 DEF Dropping, Empty, Distance, Span
    <2>2. Held'  BY <1>0, <1>1, <2>1 DEF Held, Slot
    <2>3. Pushing' /\ Apart'  BY <1>0, <1>1, <2>1 DEF Pushing, Apart, NextAt
    <2> QED  BY <1>1, <2>2, <2>3
<1>2. CASE AwaitData
    <2>1. at'["isr"] = at["isr"] /\ at'["parser"] = "peek" /\ ~Empty'
        BY <1>2 DEF AwaitData, TypeOK, Sides, Empty
    <2> QED  BY <1>1, <1>2, <2>1 DEF AwaitData, Popping, NextAt
<1>3. CASE Peek
    <2>1. ~Empty /\ ~Empty'  BY <1>3 DEF Peek, Popping, Empty
    <2>2. at'["isr"] = at["isr"] /\ at'["parser"] = "index"
        BY <1>3, <2>1 DEF Peek, TypeOK, Sides
    <2> QED  BY <1>1, <1>3, <2>1, <2>2 DEF Peek, Popping, NextAt
<1>4. CASE ReadIndex
    <2>1. /\ at'["isr"] = at["isr"] /\ at'["parser"] = "fetch" /\ ~Empty'
          /\ reg'["parser"] = mRead'
        BY <1>4 DEF ReadIndex, TypeOK, Sides, Empty, Popping
    <2> QED  BY <1>1, <1>4, <2>1 DEF ReadIndex, Popping, NextAt
<1>5. CASE Fetch
    <2>1. /\ at'["isr"] = at["isr"] /\ at'["parser"] = "test" /\ ~Empty /\ ~Empty'
          /\ Distance' = Distance
        BY <1>5 DEF Fetch, TypeOK, Sides, Empty, Popping, Distance
    <2>2. value' = mBuffer[mRead]  BY <1>5 DEF Fetch, Popping, Contents, TypeOK
    <2>3. Distance \in 1 .. mSize  BY <2>1, SlotsApart
    <2>4. Slot(0) = mRead  BY FifoAssumption DEF Slot, TypeOK, Slots, mSize
    <2>5. mBuffer[Slot(0)] = pushed - Distance + 1 + 0  BY <1>0, <2>3 DEF Held
    <2>6. value' = pushed - Distance + 1
        BY <2>2, <2>3, <2>4, <2>5 DEF TypeOK, Values
    <2>7. UNCHANGED <<ringVars, pushed>>  BY <1>5 DEF Fetch
    <2> QED  BY <1>1, <2>1, <2>6, <2>7 DEF Popping, NextAt
<1>6. CASE TestIndex("parser") \/ LoadIndex("parser")
    <2>1. /\ at'["isr"] = at["isr"] /\ at["parser"] \in {"test", "load"}
          /\ at["parser"] = "test" => /\ at'["parser"] \in {"load", "wrap"}
                                      /\ at'["parser"] = "load" => mRead # 0
                                      /\ at'["parser"] = "wrap" => mRead = 0
          /\ at["parser"] = "load" => at'["parser"] = "store" /\ reg'["parser"] = mRead
          /\ UNCHANGED <<ringVars, value, pushed>>
        BY <1>6 DEF TestIndex, LoadIndex, TypeOK, Sides
    <2>2. ~Empty' /\ Distance' = Distance
        BY <2>1 DEF Popping, Empty, Distance
    <2>3. value = pushed - Distance + 1  BY <2>1 DEF Popping, NextAt
    <2>4. Popping'  BY <2>1, <2>2, <2>3 DEF Popping, NextAt
    <2> QED  BY <1>1, <2>1, <2>4
<1>7. CASE StoreIndex("parser") \/ WrapIndex("parser")
    <2>1. /\ at'["isr"] = at["isr"] /\ at'["parser"] = "await"
          /\ UNCHANGED <<mBuffer, mWrite, pushed>>
          /\ mRead' = IF mRead = 0 THEN mSize ELSE mRead - 1
          /\ mRead' \in Slots
          /\ Distance \in 1 .. mSize /\ Distance' = Distance - 1 /\ ~Dropping'
        BY <1>7, PopMoves
    <2>2. Span' = Distance - 1  BY <2>1 DEF Span
    <2>3. Held'
        <3> SUFFICES ASSUME NEW i \in 0 .. Distance - 2
                     PROVE  mBuffer[Slot(i)'] = pushed - (Distance - 1) + 1 + i
            BY <2>1, <2>2 DEF Held
        <3>1. i + 1 \in 0 .. Distance - 1 /\ i \in Nat /\ i < mSize
            BY <2>1, FifoAssumption DEF mSize
        <3>2. mBuffer[Slot(i + 1)] = pushed - Distance + 1 + (i + 1)
            BY <1>0, <3>1 DEF Held
        <3>3. Slot(i)' = Slot(i + 1)  BY <2>1, <3>1, MovesOn
        <3> QED  BY <2>1, <3>1, <3>2, <3>3 DEF TypeOK, Values
    <2>4. Pushing' /\ Popping' /\ Apart'
        BY <1>0, <2>1, <2>2 DEF Pushing, Popping, Apart, NextAt
    <2> QED  BY <2>1, <2>3, <2>4
<1> QED  BY <1>2, <1>3, <1>4, <1>5, <1>6, <1>7 DEF Pop, NextRead

-----------------------------------------------------------------------------
(***************************************************************************)
(* The theorems.                                                           *)
(***************************************************************************)
LEMMA StepInv == ASSUME IInv, [Next]_vars PROVE IInv'
<1>1. TypeInv'  BY TypeInductive DEF IInv
<1>2. ASSUME ~collided' PROVE Sound'
    <2>1. TypeInv /\ Sound  BY <1>2, CollidedStays DEF IInv
    <2>2. CASE UNCHANGED vars
        BY <2>1, <2>2 DEF vars, ringVars, Sound, Held, Slot, Span, Pushing, Popping, Apart,
                          Distance, Dropping, Empty
    <2> QED
        BY <1>2, <2>1, <2>2, PushStoreInv, PushMoveInv, PushCheckInv, DropInv, PopInv
        DEF Next, Push
<1> QED  BY <1>1, <1>2 DEF IInv

(* With the interrupt and the parser on cores of their own, whatever the   *)
(* size of the buffer, an interrupt never writes outside the block that    *)
(* was allocated (Fifo.cpp:13): mWrite is changed by push() alone.         *)
THEOREM TypeCorrect == Spec => []TypeOK
<1>1. Init => TypeInv  BY InitInv DEF IInv
<1>2. TypeInv => TypeOK  BY DEF TypeInv
<1> QED  BY <1>1, <1>2, TypeInductive, PTL DEF Spec

LEMMA QueueInit == Init => Queue!Init
<1> SUFFICES ASSUME Init PROVE Queue!Init  OBVIOUS
<1>1. at["isr"] = "idle"  BY DEF Init, Sides
<1>2. Entries = 0  BY <1>1 DEF Init, Entries, Dropping, Distance, NextAt
<1> QED  BY <1>2 DEF Init, Queue!Init

(* The queue takes a value in when mWrite moves, and drops the oldest with *)
(* it; it hands one out when the parser's mRead moves.  All else stutters. *)
LEMMA QueueStep ==
    ASSUME IInv, [Next]_vars, ~collided' PROVE [Queue!Next]_Queue!vars
<1> USE DEF Goto, ringVars
<1>0. TypeInv /\ Sound /\ TypeOK /\ mRead \in Slots
    BY CollidedStays DEF IInv, TypeInv, Sound
<1>1. ASSUME Dropping' = Dropping, Distance' = Distance, UNCHANGED <<pushed, last>>
      PROVE  UNCHANGED Queue!vars
    BY <1>1 DEF Queue!vars, Entries
<1>2. CASE UNCHANGED vars
    BY <1>1, <1>2 DEF vars, Dropping, Distance, Empty
<1>3. CASE PushStore
    BY <1>0, <1>1, <1>3 DEF PushStore, Dropping, Distance, Empty, TypeOK, Sides, NextAt
<1>4. CASE PushMove
    <2>1. at["isr"] = "move" /\ at'["isr"] = "check"
        BY <1>0, <1>4 DEF PushMove, TypeOK, Sides
    <2>2. Distance \in 0 .. mSize  BY <1>0, SlotsApart
    <2>3. IF Full THEN Empty' /\ Distance' = 0 ELSE ~Empty' /\ Distance' = Distance + 1
        BY <1>0, <1>4, FifoAssumption
        DEF PushMove, TypeOK, NextIndex, Distance, Full, Empty, Slots, mSize
    <2>4. Entries = Distance /\ Entries' = IF Full THEN mSize ELSE Distance + 1
        BY <2>1, <2>3 DEF Entries, Dropping, NextAt
    <2>5. pushed < MaxPushes /\ pushed' = pushed + 1 /\ last' = last /\ pushed \in Int
        BY <1>0, <1>4 DEF PushMove, TypeInv, Bounded, TypeOK, Values
    <2>6. Queue!Push
        BY <2>2, <2>4, <2>5, FifoAssumption DEF Queue!Push, Full, mSize
    <2> QED  BY <2>6 DEF Queue!Next
<1>5. CASE PushCheck
    BY <1>0, <1>1, <1>5 DEF PushCheck, Dropping, Distance, Empty, TypeOK, Sides, NextAt
<1>6. CASE TestIndex("isr") \/ LoadIndex("isr")
    BY <1>0, <1>1, <1>6
    DEF TestIndex, LoadIndex, Dropping, Distance, Empty, TypeOK, Sides, NextAt
<1>7. CASE StoreIndex("isr") \/ WrapIndex("isr")
    BY <1>0, <1>7, DropMoves DEF Entries, Queue!vars
<1>8. CASE Pop
    <2>1. ~Dropping  BY <1>0, <1>8, PopApart
    <2>2. CASE AwaitData \/ ReadIndex \/ Fetch
        BY <1>0, <1>1, <2>2
        DEF AwaitData, ReadIndex, Fetch, Dropping, Distance, Empty, TypeOK, Sides
    <2>3. CASE Peek
        <3>1. ~Empty  BY <1>0, <2>3 DEF Peek, Sound, Popping
        <3> QED
            BY <1>0, <1>1, <2>3, <3>1 DEF Peek, Dropping, Distance, Empty, TypeOK, Sides
    <2>4. CASE TestIndex("parser") \/ LoadIndex("parser")
        BY <1>0, <1>1, <2>4
        DEF TestIndex, LoadIndex, Dropping, Distance, Empty, TypeOK, Sides
    <2>5. CASE StoreIndex("parser") \/ WrapIndex("parser")
        <3>1. /\ pushed' = pushed
              /\ Distance \in 1 .. mSize /\ Distance' = Distance - 1
              /\ ~Dropping' /\ last' = pushed - Distance + 1
            BY <1>0, <2>5, PopMoves
        <3>2. Entries = Distance /\ Entries' = Distance - 1
            BY <2>1, <3>1 DEF Entries
        <3>3. Queue!Pop
            BY <1>0, <3>1, <3>2, FifoAssumption DEF Queue!Pop, TypeOK, Values, mSize
        <3> QED  BY <3>3 DEF Queue!Next
    <2> QED  BY <1>8, <2>2, <2>3, <2>4, <2>5 DEF Pop, NextRead
<1> QED  BY <1>2, <1>3, <1>4, <1>5, <1>6, <1>7, <1>8 DEF Next, Push, NextRead

(* With the interrupt and the parser on cores of their own, for every size *)
(* of the buffer, nothing is handed out twice, out of order or from a slot *)
(* that was overwritten (FdxB.h:40), until a push fills the buffer in the  *)
(* middle of a pop or a pop empties it in the middle of a push.            *)
THEOREM QueueImplemented == Spec => ImplementsQueue
<1>1. IInv /\ [Next]_vars => [~collided' => Queue!Next]_Queue!vars
    BY QueueStep
<1> QED  BY InitInv, QueueInit, StepInv, <1>1, PTL DEF Spec, ImplementsQueue
=============================================================================
