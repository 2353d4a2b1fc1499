-------------------------- MODULE TagReaderProofs --------------------------
(***************************************************************************)
(* Proofs about TagReader: for all tags, lengths of intervals within the   *)
(* tolerance, and disturbances, the parser is in step with a tag after one *)
(* whole telegram and has read it after two.                               *)
(***************************************************************************)
EXTENDS TagReader, TLAPS

-----------------------------------------------------------------------------
(***************************************************************************)
(* Intervals.                                                              *)
(***************************************************************************)
(* time + ~before is one less than the interval, and that only if the      *)
(* counter has wrapped.                                                    *)
LEMMA MeasureNear ==
    ASSUME NEW before \in Counter, NEW d \in Nat, 0 < d, d < 65536
    PROVE  Measure(before, (before + d) % 65536) \in {d - 1, d}
<1>0. before \in Nat /\ before < 65536  BY TagReaderAssumption
<1>1. CASE before + d < 65536
    <2>1. (before + d) % 65536 = before + d  BY <1>0, <1>1
    <2> QED  BY <1>0, <2>1 DEF Measure
<1>2. CASE before + d >= 65536
    <2>1. (before + d) % 65536 = before + d - 65536  BY <1>0, <1>2
    <2>2. (d - 65537) % 65536 = d - 1  OBVIOUS
    <2>3. before + d - 65536 + (-before - 1) = d - 65537  BY <1>0
    <2> QED  BY <1>0, <2>1, <2>2, <2>3 DEF Measure
<1> QED  BY <1>0, <1>1, <1>2

(* How the parser rounds what it gets (mBaud is 119.225 us).               *)
LEMMA Rounding ==
    ASSUME NEW v \in Nat
    PROVE  /\ 60 <= v /\ v <= 178 => Periods(v) = 1
           /\ 179 <= v /\ v <= 255 => Periods(v) = 2
BY DEF Periods, CarrierHz

(* Within the tolerance an interval keeps its class, wrap or not.          *)
LEMMA Classes ==
    /\ \A d \in Short : \A v \in Readings(d) : Periods(v) = 1
    /\ \A d \in Long : \A v \in Readings(d) : Periods(v) = 2
<1>1. ASSUME NEW d \in Nat, 0 < d, d < 65536, NEW v \in Readings(d)
      PROVE  v \in Nat /\ v <= 255 /\ ((v = 255 /\ d > 255) \/ v \in {d - 1, d})
    <2>1. PICK before \in Counter :
              v = LET m == Measure(before, (before + d) % 65536)
                  IN  IF m > 255 THEN 255 ELSE m
        BY DEF Readings
    <2>2. Measure(before, (before + d) % 65536) \in {d - 1, d}  BY <1>1, MeasureNear
    <2> QED  BY <1>1, <2>1, <2>2
<1>2. ASSUME NEW d \in Short, NEW v \in Readings(d) PROVE Periods(v) = 1
    <2>1. d \in Nat /\ 60 < d /\ d < 179  BY TagReaderAssumption
    <2>2. v \in Nat /\ 60 <= v /\ v <= 178  BY <1>1, <2>1
    <2> QED  BY <2>2, Rounding
<1>3. ASSUME NEW d \in Long, NEW v \in Readings(d) PROVE Periods(v) = 2
    <2>1. d \in Nat /\ 179 < d /\ d < 32768  BY TagReaderAssumption
    <2>2. v \in Nat /\ 179 <= v /\ v <= 255  BY <1>1, <2>1
    <2> QED  BY <2>2, Rounding
<1> QED  BY <1>2, <1>3

-----------------------------------------------------------------------------
(***************************************************************************)
(* Telegrams.                                                              *)
(***************************************************************************)
Ones(tag) == tag \cup Check(tag)

(* What the parser has of a tag after so many bits.                        *)
Prefix(tag, n) == {j \in Ones(tag) : 9 * (j \div 8) + (j % 8) < n}

LEMMA DivEight ==
    ASSUME NEW j \in Nat
    PROVE  j \div 8 \in Nat /\ j % 8 \in 0 .. 7 /\ j = 8 * (j \div 8) + (j % 8)
OBVIOUS

LEMMA DivNine ==
    ASSUME NEW n \in Nat
    PROVE  n \div 9 \in Nat /\ n % 9 \in 0 .. 8 /\ n = 9 * (n \div 9) + (n % 9)
OBVIOUS

LEMMA TelegramBits ==
    ASSUME NEW tag \in Tags, NEW n \in 0 .. 127
    PROVE  /\ Telegram[tag][n] \in {0, 1}
           /\ n < 10 => Telegram[tag][n] = 0
           /\ n = 10 => Telegram[tag][n] = 1
           /\ n > 10 /\ (n - 11) % 9 = 8 => Telegram[tag][n] = 1
           /\ n > 10 /\ (n - 11) % 9 # 8 =>
                (Telegram[tag][n] = 1
                   <=> 8 * ((n - 11) \div 9) + ((n - 11) % 9) \in Ones(tag))
<1> DEFINE k == (n - 11) % 9
           j == 8 * ((n - 11) \div 9) + k
<1>1. Telegram[tag][n] = IF n <= 10 THEN (IF n = 10 THEN 1 ELSE 0)
                         ELSE IF k = 8 \/ j \in Ones(tag) THEN 1 ELSE 0
    BY DEF Telegram, HeaderZeros, Ones
<1> HIDE DEF k, j
<1>2. /\ Telegram[tag][n] \in {0, 1}
      /\ n < 10 => Telegram[tag][n] = 0
      /\ n = 10 => Telegram[tag][n] = 1
      /\ n > 10 /\ k = 8 => Telegram[tag][n] = 1
      /\ n > 10 /\ k # 8 => (Telegram[tag][n] = 1 <=> j \in Ones(tag))
    BY <1>1
<1> QED  BY <1>2 DEF k, j

LEMMA OnesTyped ==
    ASSUME NEW tag \in Tags
    PROVE  /\ Ones(tag) \subseteq 0 .. 103
           /\ Ones(tag) \cap 64 .. 79 = Check(tag)
           /\ Identity(Ones(tag)) = Identity(tag)
<1>1. \A j \in tag : j \in Nat /\ (j < 64 \/ (79 < j /\ j < 104))
    <2>1. tag \in SUBSET (0 .. 63 \cup 80 .. 103)  BY TagReaderAssumption
    <2> QED  BY <2>1
<1>2. \A j \in Check(tag) : j \in Nat /\ 63 < j /\ j < 80
    <2>1. Check(tag) \subseteq 64 .. 79  BY CheckAssumption
    <2> QED  BY <2>1
<1> QED  BY <1>1, <1>2 DEF Ones, Identity

(* The bit that comes after n bits has its place in the tag, or is one of  *)
(* the control bits.                                                       *)
LEMMA Place ==
    ASSUME NEW j \in Nat, NEW n \in Nat
    PROVE  9 * (j \div 8) + (j % 8) = n <=> n % 9 # 8 /\ j = 8 * (n \div 9) + (n % 9)
<1> DEFINE i == j \div 8
           k == j % 8
           p == n \div 9
           q == n % 9
<1>1. i \in Nat /\ k \in 0 .. 7 /\ j = 8 * i + k  BY DivEight
<1>2. p \in Nat /\ q \in 0 .. 8 /\ n = 9 * p + q  BY DivNine
<1> HIDE DEF i, k, p, q
<1>3. 9 * i + k = n <=> q # 8 /\ j = 8 * p + q  BY <1>1, <1>2
<1> QED  BY <1>3 DEF i, k, p, q

(* A bit read in step is the next of the prefix.                           *)
LEMMA PrefixGrows ==
    ASSUME NEW tag \in Tags, NEW n \in Nat
    PROVE  /\ Prefix(tag, 0) = {}
           /\ n % 9 = 8 => Prefix(tag, n + 1) = Prefix(tag, n)
           /\ n % 9 # 8 =>
                LET j == 8 * (n \div 9) + (n % 9)
                IN  Prefix(tag, n + 1) = IF j \in Ones(tag) THEN Prefix(tag, n) \cup {j}
                                                            ELSE Prefix(tag, n)
<1> DEFINE at(j) == 9 * (j \div 8) + (j % 8)
<1>1. \A j \in Ones(tag) : j \in Nat  BY OnesTyped
<1>2. \A j \in Nat : at(j) \in Nat  BY DivEight
<1>3. \A j \in Nat : at(j) = n <=> n % 9 # 8 /\ j = 8 * (n \div 9) + (n % 9)
    BY Place
<1>4. Prefix(tag, 0) = {j \in Ones(tag) : at(j) < 0}
      /\ Prefix(tag, n) = {j \in Ones(tag) : at(j) < n}
      /\ Prefix(tag, n + 1) = {j \in Ones(tag) : at(j) < n + 1}
    BY DEF Prefix
<1> HIDE DEF at
<1>5. Prefix(tag, 0) = {}  BY <1>1, <1>2, <1>4
<1>6. \A j \in Ones(tag) : at(j) < n + 1 <=> at(j) < n \/ at(j) = n
    BY <1>1, <1>2
<1>7. Prefix(tag, n + 1) = Prefix(tag, n) \cup {j \in Ones(tag) : at(j) = n}
    BY <1>4, <1>6
<1> DEFINE next == 8 * (n \div 9) + (n % 9)
<1>8. {j \in Ones(tag) : at(j) = n} = IF n % 9 # 8 /\ next \in Ones(tag) THEN {next} ELSE {}
    <2> HIDE DEF next
    <2>1. \A j \in Nat : at(j) = n <=> n % 9 # 8 /\ j = next  BY <1>3 DEF next
    <2> QED  BY <1>1, <2>1
<1> HIDE DEF next
<1>9. /\ n % 9 = 8 => Prefix(tag, n + 1) = Prefix(tag, n)
      /\ n % 9 # 8 => Prefix(tag, n + 1) = IF next \in Ones(tag)
                        THEN Prefix(tag, n) \cup {next} ELSE Prefix(tag, n)
    BY <1>7, <1>8
<1> QED  BY <1>5, <1>9 DEF next

(* After ten bytes it holds the identity and a checksum that fits.         *)
LEMMA PrefixIsTag ==
    ASSUME NEW tag \in Tags, NEW n \in Nat, n >= 89
    PROVE  /\ ChecksumOK(Prefix(tag, n))
           /\ Identity(Prefix(tag, n)) = Identity(tag)
<1>1. \A j \in 0 .. 79 : 9 * (j \div 8) + (j % 8) < n
    <2> SUFFICES ASSUME NEW j \in 0 .. 79 PROVE 9 * (j \div 8) + (j % 8) < n  OBVIOUS
    <2> DEFINE i == j \div 8
               k == j % 8
    <2>1. i \in Nat /\ k \in 0 .. 7 /\ j = 8 * i + k  BY DivEight
    <2> HIDE DEF i, k
    <2>2. 9 * i + k < n  BY <2>1
    <2> QED  BY <2>2 DEF i, k
<1>2. Identity(Prefix(tag, n)) = Identity(Ones(tag))
    BY <1>1 DEF Prefix, Identity
<1>3. Prefix(tag, n) \cap 64 .. 79 = Ones(tag) \cap 64 .. 79
    BY <1>1 DEF Prefix
<1>4. {64 + k : k \in Crc(Identity(tag))} = Check(tag)  BY CheckAssumption
<1>5. Identity(Identity(tag)) = Identity(tag)  BY DEF Identity
<1> QED  BY <1>2, <1>3, <1>4, <1>5, OnesTyped DEF ChecksumOK
-----------------------------------------------------------------------------
(***************************************************************************)
(* The inductive invariant.                                                *)
(***************************************************************************)
(* Between telegrams there is nothing of one, and past the tenth byte only *)
(* tags with extra data are read.                                          *)
Fresh ==
    /\ pos = Searching => data = {}
    /\ pos # Searching => count = 0 /\ (pos >= 90 => DATA \in data)

(* Bits that the parser has made of the telegram's, at the header, if it   *)
(* pairs the halves of two neighbours.                                     *)
BitsRead == bit + (IF mid /\ ~half THEN 1 ELSE 0)

(* A telegram that is not the tag's own cannot survive ten zeros: one of   *)
(* them is taken for a control bit.  After a whole one all ten count.      *)
InHeader ==
    /\ pos # Searching => pos % 9 >= BitsRead
    /\ whole > 0 => pos = Searching /\ half = mid /\ count = bit

(* After the header the parser reads along, or waits for the next one: no  *)
(* ten zeros are between two control bits.                                 *)
InBody ==
    /\ half = mid
    /\ \/ pos = Searching /\ count <= (bit - 11) % 9 /\ (whole > 0 => heard)
       \/ pos = bit - 11 /\ data = Prefix(field, pos)

Synced == field # NoTag /\ unhurt => IF bit <= 10 THEN InHeader ELSE InBody

(* Wholeness is lost with an upset, and pieces are left of those only.     *)
Counted ==
    /\ field = NoTag => whole = 0
    /\ field # NoTag /\ mid => Telegram[field][bit] = 0
    /\ rest # <<>> => whole = 0 /\ (unhurt => bit = 0 /\ ~mid)
    /\ whole > 0 => unhurt
    /\ whole = 2 => heard

IInv == TypeOK /\ Fresh /\ Counted /\ Synced

-----------------------------------------------------------------------------
(***************************************************************************)
(* Steps of the parser.                                                    *)
(***************************************************************************)
Bits == {0, 1, Fail}

ParserOK ==
    /\ half \in BOOLEAN /\ count \in 0 .. 10 /\ pos \in -1 .. 116
    /\ data \subseteq 0 .. 103 /\ parsed \in {NoTag} \cup (SUBSET (0 .. 63))

(* getBit(): what an interval makes of the half bit before it.             *)
LEMMA BitOf ==
    ASSUME half \in BOOLEAN, NEW v, TakeInterval(v)
    PROVE  /\ Periods(v) = 1 /\ ~half => half' = TRUE /\ UNCHANGED <<count, pos, data>>
           /\ Periods(v) = 1 /\ half => half' = FALSE /\ TakeBit(0)
           /\ Periods(v) = 2 => half' = FALSE /\ TakeBit(IF half THEN Fail ELSE 1)
           /\ \/ half' = TRUE /\ parsed' = NoTag /\ UNCHANGED <<count, pos, data>>
              \/ half' = FALSE /\ \E b \in Bits : TakeBit(b)
<1>1. CASE Periods(v) = 1 /\ ~half
    BY <1>1 DEF TakeInterval
<1>2. CASE Periods(v) = 1 /\ half
    BY <1>2 DEF TakeInterval, Bits
<1>3. CASE Periods(v) = 2 /\ ~half
    BY <1>3 DEF TakeInterval, Bits
<1>4. CASE Periods(v) = 2 /\ half
    BY <1>4 DEF TakeInterval, Bits
<1>5. CASE Periods(v) # 1 /\ Periods(v) # 2
    BY <1>5 DEF TakeInterval, Bits
<1> QED  BY <1>1, <1>2, <1>3, <1>4, <1>5

(* findHeader()                                                            *)
LEMMA Searched ==
    ASSUME pos = Searching, count \in 0 .. 10, NEW b \in Bits, TakeBit(b)
    PROVE  /\ pos' = IF b = 1 /\ count = 10 THEN 0 ELSE Searching
           /\ count' = IF b = 0 THEN (IF count < 10 THEN count + 1 ELSE 10) ELSE 0
           /\ data' = data /\ parsed' = NoTag
BY DEF TakeBit, FindHeader, HeaderZeros, Bits, Fail

(* getData()                                                               *)
LEMMA Read ==
    ASSUME pos \in 0 .. 116, NEW b \in Bits, TakeBit(b)
    PROVE  /\ count' = count
           /\ \/ /\ b = Fail \/ (pos % 9 = 8 /\ b = 0)
                 /\ pos' = Searching /\ data' = {} /\ parsed' = NoTag
              \/ /\ pos % 9 < 8 /\ b # Fail
                 /\ pos' = pos + 1 /\ parsed' = NoTag
                 /\ data' = IF b = 1 THEN data \cup {8 * (pos \div 9) + (pos % 9)} ELSE data
              \/ /\ pos % 9 = 8 /\ b = 1 /\ parsed' = NoTag
                 /\ pos + 1 < (IF DATA \in data THEN 117 ELSE 90)
                 /\ pos' = pos + 1 /\ data' = data
              \/ /\ pos % 9 = 8 /\ b = 1
                 /\ pos + 1 = (IF DATA \in data THEN 117 ELSE 90)
                 /\ pos' = Searching /\ data' = {}
                 /\ parsed' = IF ChecksumOK(data) THEN Identity(data) ELSE NoTag
<1>1. GetData(b)  BY DEF TakeBit, Searching
<1> QED  BY <1>1 DEF GetData, StartOver

LEMMA ParserStep ==
    ASSUME ParserOK, Fresh, NEW v, TakeInterval(v)
    PROVE  ParserOK' /\ Fresh'
<1>1. CASE half' = TRUE /\ parsed' = NoTag /\ UNCHANGED <<count, pos, data>>
    <2>1. half' \in BOOLEAN  BY <1>1
    <2>2. count' \in 0 .. 10 /\ pos' \in -1 .. 116 /\ data' \subseteq 0 .. 103
        BY <1>1 DEF ParserOK
    <2>3. parsed' \in {NoTag} \cup (SUBSET (0 .. 63))  BY <1>1
    <2>4. Fresh'  BY <1>1 DEF Fresh
    <2> QED  BY <2>1, <2>2, <2>3, <2>4 DEF ParserOK
<1>2. ASSUME half' = FALSE, NEW b \in Bits, TakeBit(b)
      PROVE  ParserOK' /\ Fresh'
    <2>0. half' \in BOOLEAN  BY <1>2
    <2>1. CASE pos = Searching
        <3>1. /\ pos' \in {0, Searching} /\ count' \in 0 .. 10 /\ data' = {} /\ parsed' = NoTag
              /\ pos' = 0 => count' = 0
            <4>1. count \in 0 .. 10 /\ data = {}  BY <2>1 DEF ParserOK, Fresh
            <4>2. /\ pos' = IF b = 1 /\ count = 10 THEN 0 ELSE Searching
                  /\ count' = IF b = 0 THEN (IF count < 10 THEN count + 1 ELSE 10) ELSE 0
                  /\ data' = data /\ parsed' = NoTag
                BY <1>2, <2>1, <4>1, Searched
            <4> QED  BY <4>1, <4>2 DEF Searching
        <3> QED  BY <2>0, <3>1 DEF ParserOK, Fresh, Searching
    <2>2. CASE pos # Searching
        <3>0. pos \in 0 .. 116 /\ count = 0 /\ (pos >= 90 => DATA \in data)
            BY <2>2 DEF ParserOK, Fresh, Searching
        <3> DEFINE k == pos % 9
                   i == pos \div 9
        <3>1. i \in Nat /\ k \in 0 .. 8 /\ pos = 9 * i + k  BY <3>0, DivNine
        <3>2. /\ count' = 0
              /\ \/ pos' = Searching /\ data' = {} /\ parsed' \in {NoTag, Identity(data)}
                 \/ /\ k < 8 /\ pos' = pos + 1 /\ parsed' = NoTag
                    /\ data' = data \/ data' = data \cup {8 * i + k}
                 \/ /\ k = 8 /\ pos' = pos + 1 /\ data' = data /\ parsed' = NoTag
                    /\ pos + 1 < (IF DATA \in data THEN 117 ELSE 90)
            BY <1>2, <3>0, Read
        <3> HIDE DEF k, i
        <3>3. CASE pos' = Searching /\ data' = {} /\ parsed' \in {NoTag, Identity(data)}
            <4>1. parsed' \in {NoTag} \cup (SUBSET (0 .. 63))  BY <3>3 DEF Identity
            <4> QED  BY <2>0, <3>2, <3>3, <4>1 DEF ParserOK, Fresh, Searching
        <3>4. CASE /\ k < 8 /\ pos' = pos + 1 /\ parsed' = NoTag
                   /\ data' = data \/ data' = data \cup {8 * i + k}
            <4>1. pos + 1 \in 0 .. 116 /\ (pos + 1 >= 90 => pos >= 90)
                BY <3>0, <3>1, <3>4
            <4>2. 8 * i + k \in 0 .. 103
                <5>1. i \in Nat /\ k \in 0 .. 7  BY <3>1, <3>4
                <5>2. 9 * i + k <= 116  BY <3>0, <3>1
                <5>3. i <= 12  BY <5>1, <5>2
                <5> QED  BY <5>1, <5>3
            <4>3. data' \subseteq 0 .. 103
                <5>1. data \subseteq 0 .. 103  BY DEF ParserOK
                <5> QED  BY <3>4, <4>2, <5>1
            <4>4. pos' \in -1 .. 116 /\ count' \in 0 .. 10  BY <3>2, <3>4, <4>1
            <4>5. DATA \in data => DATA \in data'  BY <3>4
            <4>6. Fresh'  BY <3>0, <3>2, <3>4, <4>1, <4>5 DEF Fresh, Searching
            <4> QED  BY <2>0, <3>4, <4>3, <4>4, <4>6 DEF ParserOK
        <3>5. CASE /\ k = 8 /\ pos' = pos + 1 /\ data' = data /\ parsed' = NoTag
                   /\ pos + 1 < (IF DATA \in data THEN 117 ELSE 90)
            <4>1. pos + 1 \in 0 .. 116 /\ (pos + 1 >= 90 => DATA \in data)
                BY <3>0, <3>5
            <4>2. Fresh'  BY <3>0, <3>2, <3>5, <4>1 DEF Fresh, Searching
            <4> QED  BY <2>0, <3>2, <3>5, <4>1, <4>2 DEF ParserOK
        <3> QED  BY <3>2, <3>3, <3>4, <3>5
    <2> QED  BY <2>1, <2>2
<1> QED  BY <1>1, <1>2, BitOf DEF ParserOK
-----------------------------------------------------------------------------
(***************************************************************************)
(* The next interval of a telegram.                                        *)
(***************************************************************************)
Turn == bit = 127 /\ (mid \/ Telegram[field][bit] = 1)     \* it ends the telegram

LEMMA IntervalTaken ==
    ASSUME TypeOK, Interval
    PROVE  \E v : /\ TakeInterval(v)
                  /\ Telegram[field][bit] = 0 => Periods(v) = 1
                  /\ Telegram[field][bit] = 1 => Periods(v) = 2
<1>1. PICK d \in Lengths(bit) : \E v \in Readings(d) : TakeInterval(v)  BY DEF Interval
<1>2. PICK v \in Readings(d) : TakeInterval(v)  BY <1>1
<1>3. Telegram[field][bit] = 0 => Periods(v) = 1  BY Classes DEF Lengths
<1>4. Telegram[field][bit] = 1 => Periods(v) = 2  BY Classes DEF Lengths
<1> QED  BY <1>2, <1>3, <1>4

LEMMA IntervalMoves ==
    ASSUME TypeOK, Interval
    PROVE  /\ field \in Tags /\ field' = field /\ rest = <<>> /\ rest' = <<>>
           /\ Telegram[field][bit] = 0 /\ ~mid => bit' = bit /\ mid' = TRUE
           /\ Telegram[field][bit] = 1 \/ mid =>
                bit' = (IF bit = 127 THEN 0 ELSE bit + 1) /\ mid' = FALSE
           /\ bit' \in 0 .. 127 /\ mid' \in BOOLEAN
           /\ Turn => unhurt' = TRUE /\ whole' = IF unhurt /\ whole < 2 THEN whole + 1 ELSE whole
           /\ ~Turn => unhurt' = unhurt /\ whole' = whole
           /\ heard' \in BOOLEAN
           /\ heard \/ parsed' = Identity(field) => heard'
           /\ UNCHANGED <<been, upsets>>
<1>1. field \in Tags /\ field' = field /\ rest = <<>> /\ rest' = <<>>
    BY DEF Interval, TypeOK
<1>2. bit \in 0 .. 127 /\ mid \in BOOLEAN /\ Telegram[field][bit] \in {0, 1}
    BY <1>1, TelegramBits DEF TypeOK
<1>3. (bit + 1) % 128 = IF bit = 127 THEN 0 ELSE bit + 1  BY <1>2
<1>6. heard' \in BOOLEAN /\ (heard \/ parsed' = Identity(field) => heard')
    BY DEF Interval
<1>7. UNCHANGED <<been, upsets>>  BY DEF Interval
<1>4. CASE Telegram[field][bit] = 0 /\ ~mid
    <2>1. After(bit, mid) = <<bit, TRUE>>  BY <1>4 DEF After
    <2>2. bit' = bit /\ mid' = TRUE  BY <2>1 DEF Interval, MoveTo
    <2>3. ~AtStart(After(bit, mid)) /\ ~Turn  BY <1>4, <2>1 DEF AtStart, Turn
    <2>4. unhurt' = unhurt /\ whole' = whole  BY <2>3 DEF Interval, TypeOK
    <2> QED  BY <1>1, <1>2, <1>4, <1>6, <1>7, <2>2, <2>3, <2>4
<1>5. CASE Telegram[field][bit] = 1 \/ mid
    <2>1. After(bit, mid) = <<IF bit = 127 THEN 0 ELSE bit + 1, FALSE>>
        <3>1. ~(Telegram[field][bit] = 0 /\ ~mid)  BY <1>5
        <3> QED  BY <1>3, <3>1 DEF After
    <2>2. bit' = (IF bit = 127 THEN 0 ELSE bit + 1) /\ mid' = FALSE
        BY <2>1 DEF Interval, MoveTo
    <2>3. AtStart(After(bit, mid)) <=> bit = 127  BY <1>2, <2>1 DEF AtStart
    <2>4. Turn <=> bit = 127  BY <1>5 DEF Turn
    <2>7. ~(Telegram[field][bit] = 0 /\ ~mid)  BY <1>5
    <2>9. mid' \in BOOLEAN  BY <2>2
    <2>8. bit' \in 0 .. 127  BY <1>2, <2>2
    <2>5. CASE bit = 127
        <3>1. unhurt' = TRUE /\ whole' = IF unhurt /\ whole < 2 THEN whole + 1 ELSE whole
            BY <2>3, <2>5 DEF Interval, TypeOK
        <3> QED  BY <1>1, <1>6, <1>7, <2>2, <2>4, <2>5, <2>7, <2>8, <2>9, <3>1, Zenon
    <2>6. CASE bit # 127
        <3>1. unhurt' = unhurt /\ whole' = whole
            BY <2>3, <2>6 DEF Interval, TypeOK
        <3> QED  BY <1>1, <1>6, <1>7, <2>2, <2>4, <2>6, <2>7, <2>8, <2>9, <3>1, Zenon
    <2> QED  BY <2>5, <2>6
<1> QED  BY <1>2, <1>4, <1>5
-----------------------------------------------------------------------------
(* The zeros of the header, half by half.                                  *)
LEMMA HeaderZero ==
    ASSUME IInv, Interval, unhurt, bit < 10 PROVE bit' <= 10 /\ InHeader'
<1> USE DEF IInv
<1>0. PICK v : /\ TakeInterval(v)
               /\ Telegram[field][bit] = 0 => Periods(v) = 1
    BY IntervalTaken
<1>1. /\ bit \in 0 .. 9 /\ mid \in BOOLEAN /\ half \in BOOLEAN
      /\ count \in 0 .. 10 /\ whole \in 0 .. 2 /\ pos \in -1 .. 116
    BY DEF TypeOK, HeaderZeros, Searching
<1>11. field \in Tags /\ field # NoTag
    BY IntervalMoves DEF Interval
<1>2. Telegram[field][bit] = 0
    <2>1. bit \in 0 .. 127 /\ bit < 10  BY <1>1
    <2> QED  BY <1>11, <2>1, TelegramBits
<1>3. /\ ~mid => bit' = bit /\ mid' = TRUE
      /\ mid => bit' = bit + 1 /\ mid' = FALSE
      /\ whole' = whole
    <2>1. ~Turn  BY <1>1 DEF Turn
    <2>2. bit + 1 = IF bit = 127 THEN 0 ELSE bit + 1  BY <1>1
    <2> QED  BY <1>2, <2>1, <2>2, IntervalMoves
<1>4. /\ ~half => half' = TRUE /\ UNCHANGED <<count, pos, data>>
      /\ half => half' = FALSE /\ TakeBit(0)
    BY <1>0, <1>1, <1>2, BitOf
<1>5. InHeader  BY <1>1, <1>11 DEF Synced
<1>6. ASSUME half
      PROVE  /\ pos' # Searching => pos # Searching /\ pos' % 9 = (pos % 9) + 1
             /\ pos = Searching => count' = IF count < 10 THEN count + 1 ELSE 10
    <2>1. CASE pos = Searching
        BY <1>1, <1>4, <1>6, <2>1, Searched DEF Bits, Searching
    <2>2. CASE pos # Searching
        <3>1. pos \in 0 .. 116  BY <1>1, <2>2 DEF Searching
        <3>2. \/ pos' = Searching
              \/ pos % 9 < 8 /\ pos' = pos + 1
            BY <1>4, <1>6, <3>1, Read DEF Bits, Fail
        <3>3. pos % 9 < 8 => (pos + 1) % 9 = (pos % 9) + 1  BY <3>1
        <3> QED  BY <2>2, <3>2, <3>3
    <2> QED  BY <2>1, <2>2
<1>7. CASE ~mid /\ ~half
    <2>1. BitsRead = bit /\ BitsRead' = bit  BY <1>1, <1>3, <1>4, <1>7 DEF BitsRead
    <2>2. half' = mid' /\ bit' = bit /\ pos' = pos /\ count' = count  BY <1>3, <1>4, <1>7
    <2> QED  BY <1>1, <1>3, <1>5, <2>1, <2>2 DEF InHeader
<1>8. CASE ~mid /\ half
    <2>1. BitsRead = bit /\ BitsRead' = bit + 1  BY <1>1, <1>3, <1>4, <1>8 DEF BitsRead
    <2>2. bit' = bit  BY <1>3, <1>8
    <2>6. half # mid  BY <1>8
    <2>7. ~(whole > 0)  BY <1>5, <2>6 DEF InHeader
    <2>3. whole = 0  BY <1>1, <2>7
    <2>4. pos # Searching => pos % 9 >= bit  BY <1>5, <2>1 DEF InHeader
    <2>5. pos' # Searching => pos' % 9 >= bit + 1  BY <1>1, <1>6, <1>8, <2>4, DivNine DEF Searching
    <2> QED  BY <1>1, <1>3, <2>1, <2>2, <2>3, <2>5 DEF InHeader
<1>9. CASE mid /\ ~half
    <2>1. BitsRead = bit + 1 /\ BitsRead' = bit + 1  BY <1>1, <1>3, <1>4, <1>9 DEF BitsRead
    <2>2. bit' = bit + 1 /\ pos' = pos  BY <1>3, <1>4, <1>9
    <2>6. half # mid  BY <1>9
    <2>7. ~(whole > 0)  BY <1>5, <2>6 DEF InHeader
    <2>3. whole = 0  BY <1>1, <2>7
    <2> QED  BY <1>1, <1>3, <1>5, <2>1, <2>2, <2>3 DEF InHeader
<1>10. CASE mid /\ half
    <2>1. BitsRead = bit /\ BitsRead' = bit + 1  BY <1>1, <1>3, <1>4, <1>10 DEF BitsRead
    <2>2. bit' = bit + 1 /\ half' = mid'  BY <1>3, <1>4, <1>10
    <2>4. pos # Searching => pos % 9 >= bit  BY <1>5, <2>1 DEF InHeader
    <2>5. pos' # Searching => pos # Searching /\ pos' % 9 >= bit + 1
        BY <1>1, <1>6, <1>10, <2>4, DivNine DEF Searching
    <2>6. whole > 0 => pos = Searching /\ count' = bit + 1
        BY <1>1, <1>5, <1>6, <1>10 DEF InHeader
    <2> QED  BY <1>1, <1>3, <2>1, <2>2, <2>5, <2>6 DEF InHeader
<1> QED  BY <1>1, <1>7, <1>8, <1>9, <1>10
(* The one that ends it.                                                   *)
LEMMA HeaderOne ==
    ASSUME IInv, Interval, unhurt, bit = 10 PROVE bit' = 11 /\ InBody'
<1> USE DEF IInv
<1>0. PICK v : /\ TakeInterval(v)
               /\ Telegram[field][bit] = 1 => Periods(v) = 2
    BY IntervalTaken
<1>1. /\ bit \in 0 .. 127 /\ mid \in BOOLEAN /\ half \in BOOLEAN
      /\ count \in 0 .. 10 /\ whole \in 0 .. 2 /\ pos \in -1 .. 116
    BY DEF TypeOK, HeaderZeros, Searching
<1>2. field \in Tags /\ field # NoTag /\ field' = field
    BY IntervalMoves DEF Interval
<1>3. Telegram[field][bit] = 1  BY <1>1, <1>2, TelegramBits
<1>4. ~mid  BY <1>2, <1>3 DEF Counted
<1>5. bit' = 11 /\ mid' = FALSE /\ whole' = whole
    <2>1. ~Turn  BY DEF Turn
    <2>2. bit' = (IF bit = 127 THEN 0 ELSE bit + 1)  BY <1>3, IntervalMoves
    <2> QED  BY <1>3, <2>1, <2>2, IntervalMoves
<1>6. InHeader  BY <1>1, <1>2 DEF Synced
<1>7. pos = Searching /\ data = {}
    <2>1. BitsRead = 10  BY <1>4 DEF BitsRead
    <2>2. pos # Searching => pos % 9 >= 10  BY <1>6, <2>1 DEF InHeader
    <2>3. pos # Searching => pos % 9 <= 8  BY <1>1, DivNine DEF Searching
    <2>4. pos % 9 \in Int  BY <1>1
    <2> QED  BY <2>2, <2>3, <2>4 DEF Fresh
<1>8. half' = FALSE /\ TakeBit(IF half THEN Fail ELSE 1)  BY <1>0, <1>1, <1>3, BitOf
<1>11. half' = mid' /\ 0 <= (bit' - 11) % 9
    <2>1. half' = mid'  BY <1>5, <1>8
    <2>2. 0 <= (bit' - 11) % 9  BY <1>5
    <2> QED  BY <2>1, <2>2
<1>9. CASE half
    <2>1. TakeBit(Fail)  BY <1>8, <1>9
    <2>2. pos' = Searching /\ count' = 0
        BY <1>1, <1>7, <2>1, Searched DEF Bits, Fail
    <2>3. half # mid  BY <1>4, <1>9
    <2>4. ~(whole > 0)  BY <1>6, <2>3 DEF InHeader
    <2>5. ~(whole' > 0)  BY <1>5, <2>4
    <2> QED  BY <1>5, <1>11, <2>2, <2>5 DEF InBody
<1>10. CASE ~half
    <2>1. TakeBit(1)  BY <1>8, <1>10
    <2>2. pos' = IF count = 10 THEN 0 ELSE Searching
        BY <1>1, <1>7, <2>1, Searched DEF Bits
    <2>3. count' = 0 /\ data' = {}
        BY <1>1, <1>7, <2>1, Searched DEF Bits
    <2>4. CASE count = 10
        <3>1. pos' = 0 /\ pos' = bit' - 11  BY <1>5, <2>2, <2>4
        <3>2. Prefix(field, 0) = {}  BY <1>2, PrefixGrows
        <3>3. data' = Prefix(field', pos')  BY <1>2, <2>3, <3>1, <3>2
        <3> QED  BY <1>5, <1>11, <3>1, <3>3, Zenon DEF InBody
    <2>5. CASE count # 10
        <3>1. ~(whole > 0)  BY <1>6, <2>5 DEF InHeader
        <3>2. ~(whole' > 0)  BY <1>5, <3>1
        <3>3. pos' = Searching  BY <2>2, <2>5
        <3>4. count' <= (bit' - 11) % 9  BY <1>11, <2>3
        <3> QED  BY <1>5, <1>11, <3>2, <3>3, <3>4, Zenon DEF InBody
    <2> QED  BY <2>4, <2>5
<1> QED  BY <1>1, <1>5, <1>9, <1>10

-----------------------------------------------------------------------------
(* A bit of the body: the parser stays where it is to be, or has read the  *)
(* tag.                                                                    *)
LEMMA BodyBit ==
    ASSUME IInv, Interval, bit \in 11 .. 127, InBody,
           TakeBit(Telegram[field][bit])
    PROVE  \/ /\ pos' = Searching /\ (whole > 0 => heard')
              /\ count' <= IF Telegram[field][bit] = 0 THEN ((bit - 11) % 9) + 1 ELSE 0
           \/ /\ bit # 127
              /\ pos' = bit - 10 /\ data' = Prefix(field, bit - 10)
<1> USE DEF IInv
<1> DEFINE b == Telegram[field][bit]
           k == (bit - 11) % 9
           i == (bit - 11) \div 9
<1>0. /\ count \in 0 .. 10 /\ pos \in -1 .. 116 /\ bit - 11 \in Nat
    BY DEF TypeOK, HeaderZeros, Searching
<1>1. field \in Tags  BY IntervalMoves
<1>2. i \in Nat /\ k \in 0 .. 8 /\ bit - 11 = 9 * i + k  BY <1>0, DivNine
<1>3. /\ b \in {0, 1} /\ (k = 8 => b = 1)
      /\ k # 8 => (b = 1 <=> 8 * i + k \in Ones(field))
    <2>1. bit \in 0 .. 127 /\ bit > 10  OBVIOUS
    <2>2. /\ b \in {0, 1} /\ (bit > 10 /\ k = 8 => b = 1)
          /\ bit > 10 /\ k # 8 => (b = 1 <=> 8 * i + k \in Ones(field))
        BY <1>1, <2>1, TelegramBits
    <2> HIDE DEF b, k, i
    <2> QED  BY <2>1, <2>2
<1>4. heard \/ parsed' = Identity(field) => heard'  BY IntervalMoves
<1>5. TakeBit(b)  OBVIOUS
<1>6. CASE pos = Searching /\ count <= k /\ (whole > 0 => heard)
    <2>1. /\ pos' = IF b = 1 /\ count = 10 THEN 0 ELSE Searching
          /\ count' = IF b = 0 THEN (IF count < 10 THEN count + 1 ELSE 10) ELSE 0
        BY <1>0, <1>3, <1>5, <1>6, Searched DEF Bits
    <2> HIDE DEF b, k
    <2>2. pos' = Searching  BY <1>0, <1>2, <1>6, <2>1
    <2>3. count' <= IF b = 0 THEN k + 1 ELSE 0  BY <1>0, <1>2, <1>3, <1>6, <2>1
    <2> QED  BY <1>4, <1>6, <2>2, <2>3 DEF b, k
<1>7. CASE pos = bit - 11 /\ data = Prefix(field, pos)
    <2>1. pos \in 0 .. 116 /\ pos # Searching  BY <1>0, <1>7 DEF Searching
    <2>2. /\ count' = count
          /\ \/ k < 8 /\ pos' = pos + 1
                 /\ data' = IF b = 1 THEN data \cup {8 * i + k} ELSE data
             \/ k = 8 /\ b = 1 /\ pos + 1 < (IF DATA \in data THEN 117 ELSE 90)
                 /\ pos' = pos + 1 /\ data' = data
             \/ k = 8 /\ b = 1 /\ pos + 1 = (IF DATA \in data THEN 117 ELSE 90)
                 /\ pos' = Searching
                 /\ parsed' = IF ChecksumOK(data) THEN Identity(data) ELSE NoTag
        BY <1>3, <1>5, <1>7, <2>1, Read DEF Bits, Fail
    <2>3. count = 0 /\ (pos >= 90 => DATA \in data)  BY <2>1 DEF Fresh
    <2>4. /\ k = 8 => Prefix(field, pos + 1) = Prefix(field, pos)
          /\ k # 8 => Prefix(field, pos + 1) =
                 IF 8 * i + k \in Ones(field) THEN Prefix(field, pos) \cup {8 * i + k}
                                              ELSE Prefix(field, pos)
        <3>1. pos % 9 = k /\ pos \div 9 = i /\ pos \in Nat  BY <1>7, <2>1
        <3> HIDE DEF k, i
        <3>2. /\ pos % 9 = 8 => Prefix(field, pos + 1) = Prefix(field, pos)
              /\ pos % 9 # 8 =>
                    Prefix(field, pos + 1) =
                      IF 8 * (pos \div 9) + (pos % 9) \in Ones(field)
                      THEN Prefix(field, pos) \cup {8 * (pos \div 9) + (pos % 9)}
                      ELSE Prefix(field, pos)
            BY <1>1, <3>1, PrefixGrows
        <3> QED  BY <3>1, <3>2
    <2>5. pos + 1 = bit - 10  BY <1>0, <1>7
    <2> HIDE DEF b, k, i
    <2>6. CASE k < 8 /\ pos' = pos + 1
                 /\ data' = IF b = 1 THEN data \cup {8 * i + k} ELSE data
        <3>1. data' = Prefix(field, pos + 1)
            BY <1>3, <1>7, <2>4, <2>6
        <3>2. bit # 127  BY <1>2, <2>6
        <3> QED  BY <2>5, <2>6, <3>1, <3>2
    <2>7. CASE k = 8 /\ b = 1 /\ pos + 1 < (IF DATA \in data THEN 117 ELSE 90)
                 /\ pos' = pos + 1 /\ data' = data
        <3>1. data' = Prefix(field, pos + 1)  BY <1>7, <2>4, <2>7
        <3>2. bit # 127  BY <1>0, <1>7, <2>7
        <3> QED  BY <2>5, <2>7, <3>1, <3>2
    <2>8. CASE k = 8 /\ b = 1 /\ pos + 1 = (IF DATA \in data THEN 117 ELSE 90)
                 /\ pos' = Searching
                 /\ parsed' = IF ChecksumOK(data) THEN Identity(data) ELSE NoTag
        <3>1. pos \in Nat /\ pos >= 89  BY <2>1, <2>8
        <3>2. ChecksumOK(data) /\ Identity(data) = Identity(field)
            BY <1>1, <1>7, <3>1, PrefixIsTag
        <3>3. parsed' = Identity(field)  BY <2>8, <3>2
        <3> QED  BY <1>4, <2>2, <2>3, <2>8, <3>3 DEF b
    <2> QED  BY <2>2, <2>6, <2>7, <2>8
<1> QED  BY <1>6, <1>7 DEF InBody

(* The next interval of the body, and the last, which ends the telegram.   *)
LEMMA BodyStep ==
    ASSUME IInv, Interval, unhurt, bit \in 11 .. 127
    PROVE  /\ ~Turn => bit' \in 11 .. 127 /\ InBody'
           /\ Turn => bit' = 0 /\ InHeader' /\ (whole > 0 => heard')
<1> USE DEF IInv
<1>0. PICK v : /\ TakeInterval(v)
               /\ Telegram[field][bit] = 0 => Periods(v) = 1
               /\ Telegram[field][bit] = 1 => Periods(v) = 2
    BY IntervalTaken
<1>1. half \in BOOLEAN /\ mid \in BOOLEAN  BY DEF TypeOK
<1>2. field \in Tags /\ field # NoTag /\ field' = field
    BY IntervalMoves DEF Interval
<1>3. InBody
    <2>1. ~(bit <= 10)  OBVIOUS
    <2> QED  BY <1>2, <2>1 DEF Synced
<1>4. half = mid  BY <1>3 DEF InBody
<1>5. Telegram[field][bit] \in {0, 1} /\ (Telegram[field][bit] = 1 => ~mid)
    <2>1. Telegram[field][bit] \in {0, 1}  BY <1>2, TelegramBits
    <2>2. mid => Telegram[field][bit] = 0  BY <1>2 DEF Counted
    <2> QED  BY <2>1, <2>2
<1>6. heard => heard'  BY IntervalMoves
<1>7. count' \in 0 .. 10
    BY <1>0, ParserStep DEF ParserOK, TypeOK, Searching, HeaderZeros
<1>8. CASE Telegram[field][bit] = 0 /\ ~mid
    <2>1. bit' = bit /\ mid' = TRUE  BY <1>8, IntervalMoves
    <2>2. ~Turn  BY <1>8 DEF Turn
    <2>3. whole' = whole  BY <2>2, IntervalMoves
    <2>4. half' = TRUE /\ UNCHANGED <<count, pos, data>>
        BY <1>0, <1>1, <1>4, <1>8, BitOf
    <2>5. half' = mid'  BY <2>1, <2>4
    <2>6. \/ pos' = Searching /\ count' <= (bit' - 11) % 9 /\ (whole' > 0 => heard)
          \/ pos' = bit' - 11 /\ data' = Prefix(field', pos')
        BY <1>2, <1>3, <2>1, <2>3, <2>4 DEF InBody
    <2>7. InBody'  BY <1>6, <2>5, <2>6, Zenon DEF InBody
    <2>8. bit' \in 11 .. 127  BY <2>1
    <2> QED  BY <2>2, <2>7, <2>8
<1>9. CASE Telegram[field][bit] = 1 \/ mid
    <2>1. bit' = (IF bit = 127 THEN 0 ELSE bit + 1) /\ mid' = FALSE
        BY <1>9, IntervalMoves
    <2>2. half' = FALSE /\ TakeBit(Telegram[field][bit])
        <3>1. CASE mid
            <4>1. half /\ Telegram[field][bit] = 0  BY <1>4, <1>5, <3>1
            <4>2. half' = FALSE /\ TakeBit(0)  BY <1>0, <1>1, <4>1, BitOf
            <4> QED  BY <4>1, <4>2
        <3>2. CASE ~mid
            <4>1. ~half /\ Telegram[field][bit] = 1  BY <1>4, <1>9, <3>2
            <4>2. half' = FALSE /\ TakeBit(IF half THEN Fail ELSE 1)
                BY <1>0, <1>1, <4>1, BitOf
            <4> QED  BY <4>1, <4>2
        <3> QED  BY <3>1, <3>2
    <2>3. half' = mid'  BY <2>1, <2>2
    <2> DEFINE k == (bit - 11) % 9
    <2>4. \/ /\ pos' = Searching /\ (whole > 0 => heard')
             /\ count' <= IF Telegram[field][bit] = 0 THEN k + 1 ELSE 0
          \/ /\ bit # 127
             /\ pos' = bit - 10 /\ data' = Prefix(field, bit - 10)
        BY <1>3, <2>2, BodyBit
    <2>5. Turn <=> bit = 127  BY <1>9 DEF Turn
    <2>6. CASE bit = 127
        <3>1. pos' = Searching /\ (whole > 0 => heard')  BY <2>4, <2>6
        <3>2. Telegram[field][bit] # 0
            <4>1. (bit - 11) % 9 = 8 /\ bit > 10  BY <2>6
            <4> QED  BY <1>2, <4>1, TelegramBits
        <3>3. count' = 0  BY <1>7, <2>4, <2>6, <3>2
        <3>4. bit' = 0  BY <2>1, <2>6
        <3>5. count' = bit'  BY <3>3, <3>4
        <3>6. InHeader'  BY <2>3, <3>1, <3>5, Zenon DEF InHeader
        <3> QED  BY <2>5, <2>6, <3>1, <3>4, <3>6, Zenon
    <2>7. CASE bit # 127
        <3>1. bit' = bit + 1 /\ bit' \in 11 .. 127  BY <2>1, <2>7
        <3>2. whole' = whole  BY <2>5, <2>7, IntervalMoves
        <3>3. \/ pos' = Searching /\ count' <= (bit' - 11) % 9 /\ (whole' > 0 => heard')
              \/ pos' = bit' - 11 /\ data' = Prefix(field', pos')
            <4>1. CASE /\ pos' = Searching /\ (whole > 0 => heard')
                       /\ count' <= IF Telegram[field][bit] = 0 THEN k + 1 ELSE 0
                <5>1. k = 8 => Telegram[field][bit] # 0
                    <6>1. bit \in 0 .. 127 /\ bit > 10  BY <1>2
                    <6>2. k = 8 => Telegram[field][bit] = 1  BY <1>2, <6>1, TelegramBits
                    <6> QED  BY <6>2
                <5>2. k \in 0 .. 8 /\ (k # 8 => (bit + 1 - 11) % 9 = k + 1)
                      /\ (bit + 1 - 11) % 9 >= 0
                    OBVIOUS
                <5>3. count' <= (bit + 1 - 11) % 9
                    <6> HIDE DEF k
                    <6> QED  BY <1>7, <4>1, <5>1, <5>2
                <5>4. count' <= (bit' - 11) % 9  BY <3>1, <5>3
                <5>5. whole' > 0 => heard'  BY <3>2, <4>1
                <5> QED  BY <4>1, <5>4, <5>5
            <4>2. CASE pos' = bit - 10 /\ data' = Prefix(field, bit - 10)
                <5>1. pos' = bit' - 11 /\ pos' = bit - 10  BY <3>1, <4>2
                <5>2. data' = Prefix(field', pos')  BY <1>2, <4>2, <5>1
                <5> QED  BY <5>1, <5>2
            <4> QED  BY <2>4, <4>1, <4>2
        <3>4. InBody'  BY <2>3, <3>3, Zenon DEF InBody
        <3> QED  BY <2>5, <2>7, <3>1, <3>4, Zenon
    <2> QED  BY <2>6, <2>7
<1> QED  BY <1>5, <1>8, <1>9, Zenon

-----------------------------------------------------------------------------
(***************************************************************************)
(* Every step keeps the invariant.                                         *)
(***************************************************************************)
FieldOK ==
    /\ field \in Tags \cup {NoTag} /\ bit \in 0 .. 127 /\ mid \in BOOLEAN
    /\ rest \in Seq(Nat)

GhostsOK ==
    /\ been \subseteq Tags /\ whole \in 0 .. 2
    /\ unhurt \in BOOLEAN /\ heard \in BOOLEAN /\ upsets \in 0 .. MaxUpsets

LEMMA TypeParts ==
    /\ TypeOK <=> FieldOK /\ ParserOK /\ GhostsOK
    /\ TypeOK' <=> FieldOK' /\ ParserOK' /\ GhostsOK'
BY DEF TypeOK, FieldOK, ParserOK, GhostsOK, Searching, HeaderZeros

(* Whatever happens, the first edge of a telegram finds the parser where   *)
(* the invariant wants it.                                                 *)
LEMMA AtFirstEdge ==
    ASSUME ParserOK', bit' = 0, mid' = FALSE, whole' = 0 PROVE InHeader'
<1>1. BitsRead' = 0  BY DEF BitsRead
<1>2. pos' # Searching => pos' \in Nat  BY DEF ParserOK, Searching
<1>3. pos' # Searching => pos' % 9 >= 0  BY <1>2, DivNine
<1>4. ~(whole' > 0)  OBVIOUS
<1> QED  BY <1>1, <1>3, <1>4 DEF InHeader

(* Where the next edge is.                                                 *)
LEMMA NextEdge ==
    ASSUME field \in Tags, NEW b \in 0 .. 127, NEW m \in BOOLEAN
    PROVE  /\ After(b, m)[1] \in 0 .. 127 /\ After(b, m)[2] \in BOOLEAN
           /\ After(b, m)[2] => Telegram[field][After(b, m)[1]] = 0
           /\ AtStart(After(b, m)) <=> After(b, m)[1] = 0 /\ After(b, m)[2] = FALSE
<1>1. (b + 1) % 128 \in 0 .. 127  OBVIOUS
<1>2. CASE Telegram[field][b] = 0 /\ ~m
    <2>1. After(b, m) = <<b, TRUE>>  BY <1>2 DEF After
    <2> QED  BY <1>2, <2>1 DEF AtStart
<1>3. CASE ~(Telegram[field][b] = 0 /\ ~m)
    <2>1. After(b, m) = <<(b + 1) % 128, FALSE>>  BY <1>3 DEF After
    <2> HIDE DEF After
    <2>2. After(b, m)[1] = (b + 1) % 128 /\ After(b, m)[2] = FALSE  BY <2>1
    <2> QED  BY <1>1, <2>1, <2>2 DEF AtStart
<1> QED  BY <1>2, <1>3

LEMMA InitIInv == Init => IInv
<1> SUFFICES ASSUME Init PROVE IInv  OBVIOUS
<1>1. FieldOK
    <2>1. field = NoTag /\ bit \in 0 .. 127 /\ rest = <<>>  BY DEF Init
    <2>2. mid \in BOOLEAN  BY DEF Init
    <2>3. <<>> \in Seq(Nat)  OBVIOUS
    <2> QED  BY <2>1, <2>2, <2>3 DEF FieldOK
<1>2. ParserOK
    <2>1. half \in BOOLEAN  BY DEF Init
    <2>2. count \in 0 .. 10 /\ pos \in -1 .. 116  BY DEF Init, Searching
    <2>3. data \subseteq 0 .. 103 /\ parsed \in {NoTag} \cup (SUBSET (0 .. 63))  BY DEF Init
    <2> QED  BY <2>1, <2>2, <2>3 DEF ParserOK
<1>3. GhostsOK
    <2>1. unhurt \in BOOLEAN /\ heard \in BOOLEAN  BY DEF Init
    <2>2. whole \in 0 .. 2 /\ upsets \in 0 .. MaxUpsets  BY TagReaderAssumption DEF Init
    <2>3. been \subseteq Tags  BY DEF Init
    <2> QED  BY <2>1, <2>2, <2>3 DEF GhostsOK
<1>4. Fresh  BY DEF Init, Fresh
<1>5. Counted  BY DEF Init, Counted
<1>6. Synced  BY DEF Init, Synced
<1> QED  BY <1>1, <1>2, <1>3, <1>4, <1>5, <1>6, TypeParts DEF IInv

LEMMA EnterKeeps ==
    ASSUME IInv, NEW tag \in Tags, NEW n \in Starts, Enter(tag, n) PROVE IInv'
<1>1. ParserOK' /\ Fresh'
    <2>1. PICK v \in Pauses : TakeInterval(v)  BY DEF Enter
    <2> QED  BY <2>1, ParserStep, TypeParts DEF IInv
<1>2. /\ field = NoTag /\ field' = tag /\ bit' = n /\ mid' = FALSE
      /\ been' = been \cup {tag} /\ unhurt' = (n = 0)
      /\ UNCHANGED <<rest, whole, heard, upsets>>
    BY DEF Enter, MoveTo
<1>3. n \in 0 .. 127 /\ tag # NoTag  BY TagReaderAssumption
<1>4. FieldOK /\ GhostsOK  BY TypeParts DEF IInv
<1>5. FieldOK'  BY <1>2, <1>3, <1>4 DEF FieldOK
<1>6. unhurt' \in BOOLEAN /\ (unhurt' => n = 0)  BY <1>2
<1>7. GhostsOK'  BY <1>2, <1>4, <1>6 DEF GhostsOK
<1>8. whole' = 0  BY <1>2 DEF IInv, Counted
<1>9. Counted'  BY <1>2, <1>3, <1>6, <1>8 DEF Counted
<1>10. Synced'
    <2>1. CASE unhurt'
        <3>1. bit' = 0  BY <1>2, <1>6, <2>1
        <3>2. InHeader'  BY <1>1, <1>2, <1>8, <3>1, AtFirstEdge
        <3> QED  BY <3>1, <3>2 DEF Synced
    <2>2. CASE ~unhurt'  BY <2>2 DEF Synced
    <2> QED  BY <2>1, <2>2
<1> QED  BY <1>1, <1>5, <1>7, <1>9, <1>10, TypeParts DEF IInv

LEMMA LeaveKeeps == ASSUME IInv, Leave PROVE IInv'
<1>1. /\ field' = NoTag /\ bit' = 0 /\ mid' = FALSE /\ rest' = <<>>
      /\ unhurt' = FALSE /\ whole' = 0 /\ heard' = FALSE
      /\ upsets < MaxUpsets /\ upsets' = upsets + 1
      /\ UNCHANGED <<half, count, pos, data, parsed, been>>
    BY DEF Leave, Upset, parserVars
<1>2. FieldOK'
    <2>1. mid' \in BOOLEAN  BY <1>1
    <2>2. bit' \in 0 .. 127 /\ <<>> \in Seq(Nat)  BY <1>1
    <2> QED  BY <1>1, <2>1, <2>2 DEF FieldOK
<1>3. ParserOK'  BY <1>1, TypeParts DEF IInv, ParserOK
<1>4. GhostsOK'
    <2>1. unhurt' \in BOOLEAN /\ heard' \in BOOLEAN  BY <1>1
    <2>2. been' \subseteq Tags  BY <1>1, TypeParts DEF IInv, GhostsOK
    <2>3. upsets \in 0 .. MaxUpsets  BY TypeParts DEF IInv, GhostsOK
    <2>4. whole' \in 0 .. 2 /\ upsets' \in 0 .. MaxUpsets
        BY <1>1, <2>3, TagReaderAssumption
    <2> QED  BY <2>1, <2>2, <2>4 DEF GhostsOK
<1>5. Fresh'  BY <1>1 DEF IInv, Fresh
<1>6. Counted' /\ Synced'  BY <1>1 DEF Counted, Synced
<1> QED  BY <1>2, <1>3, <1>4, <1>5, <1>6, TypeParts DEF IInv

(* A step that hurts the telegram leaves no claim about it, unless the     *)
(* next one starts there.                                                  *)
LEMMA HurtKeeps ==
    ASSUME IInv, field \in Tags, Upset, NEW place,
           place[1] \in 0 .. 127, place[2] \in BOOLEAN,
           place[2] => Telegram[field][place[1]] = 0,
           AtStart(place) <=> place[1] = 0 /\ place[2] = FALSE,
           MoveTo(place), unhurt' = AtStart(place), UNCHANGED <<field, been>>,
           rest' \in Seq(Nat), NEW v, TakeInterval(v)
    PROVE  IInv'
<1>1. ParserOK' /\ Fresh'  BY ParserStep, TypeParts DEF IInv
<1>2. /\ bit' = place[1] /\ mid' = place[2] /\ whole' = 0 /\ heard' = FALSE
      /\ upsets < MaxUpsets /\ upsets' = upsets + 1
    BY DEF MoveTo, Upset
<1>3. unhurt' \in BOOLEAN /\ (unhurt' => bit' = 0 /\ mid' = FALSE)
    BY <1>2 DEF AtStart
<1>4. FieldOK'  BY <1>2 DEF FieldOK
<1>5. GhostsOK'
    <2>1. been' \subseteq Tags  BY TypeParts DEF IInv, GhostsOK
    <2>2. upsets \in 0 .. MaxUpsets  BY TypeParts DEF IInv, GhostsOK
    <2>3. whole' \in 0 .. 2 /\ upsets' \in 0 .. MaxUpsets
        BY <1>2, <2>2, TagReaderAssumption
    <2>4. unhurt' \in BOOLEAN /\ heard' \in BOOLEAN  BY <1>2, <1>3
    <2> QED  BY <2>1, <2>3, <2>4 DEF GhostsOK
<1>6. Counted'
    <2>1. mid' => Telegram[field'][bit'] = 0  BY <1>2
    <2> QED  BY <1>2, <1>3, <2>1 DEF Counted
<1>7. Synced'
    <2>1. CASE unhurt'
        <3>1. bit' = 0 /\ mid' = FALSE  BY <1>3, <2>1
        <3>2. InHeader'  BY <1>1, <1>2, <3>1, AtFirstEdge
        <3> QED  BY <3>1, <3>2 DEF Synced
    <2>2. CASE ~unhurt'  BY <2>2 DEF Synced
    <2> QED  BY <2>1, <2>2
<1> QED  BY <1>1, <1>4, <1>5, <1>6, <1>7, TypeParts DEF IInv

LEMMA SpikeKeeps == ASSUME IInv, Spike PROVE IInv'
<1>1. field \in Tags /\ bit \in 0 .. 127 /\ mid \in BOOLEAN
    BY TypeParts DEF IInv, FieldOK, Spike
<1>2. PICK d \in Lengths(bit), a \in Cuts, w \in Cuts :
          /\ a + w < d
          /\ \E v \in Readings(a) : TakeInterval(v)
          /\ rest' = <<w, d - a - w>>
    BY DEF Spike
<1>3. PICK v \in Readings(a) : TakeInterval(v)  BY <1>2
<1>4. d \in Nat /\ a \in Nat /\ w \in Nat  BY TagReaderAssumption DEF Lengths
<1>5. d - a - w \in Nat  BY <1>2, <1>4
<1>6. rest' \in Seq(Nat)  BY <1>2, <1>4, <1>5
<1>7. Upset /\ UNCHANGED <<field, been>>  BY DEF Spike
<1>8. MoveTo(After(bit, mid)) /\ unhurt' = AtStart(After(bit, mid))  BY DEF Spike
<1> HIDE DEF Upset, MoveTo, AtStart, After
<1> QED  BY <1>1, <1>3, <1>6, <1>7, <1>8, NextEdge, HurtKeeps

LEMMA MissedEdgeKeeps == ASSUME IInv, MissedEdge PROVE IInv'
<1>1. field \in Tags /\ bit \in 0 .. 127 /\ mid \in BOOLEAN /\ rest \in Seq(Nat)
    BY TypeParts DEF IInv, FieldOK, MissedEdge
<1> DEFINE second == After(bit, mid)
           next == After(second[1], second[2])
<1>2. second[1] \in 0 .. 127 /\ second[2] \in BOOLEAN  BY <1>1, NextEdge
<1>3. \E v : TakeInterval(v)  BY DEF MissedEdge
<1>4. Upset /\ UNCHANGED <<field, rest, been>>  BY DEF MissedEdge
<1>5. MoveTo(next) /\ unhurt' = AtStart(next)  BY DEF MissedEdge
<1>6. /\ next[1] \in 0 .. 127 /\ next[2] \in BOOLEAN
      /\ next[2] => Telegram[field][next[1]] = 0
      /\ AtStart(next) <=> next[1] = 0 /\ next[2] = FALSE
    <2> HIDE DEF second
    <2> QED  BY <1>1, <1>2, NextEdge
<1>7. rest' \in Seq(Nat)  BY <1>1, <1>4
<1> HIDE DEF next, second
<1> QED  BY <1>1, <1>3, <1>4, <1>5, <1>6, <1>7, HurtKeeps

LEMMA PieceKeeps == ASSUME IInv, Piece PROVE IInv'
<1>1. PICK v : TakeInterval(v)  BY DEF Piece
<1>2. ParserOK' /\ Fresh'  BY <1>1, ParserStep, TypeParts DEF IInv
<1>3. /\ rest # <<>> /\ rest' = Tail(rest)
      /\ UNCHANGED <<field, bit, mid, been, whole, unhurt, heard, upsets>>
    BY DEF Piece, ghosts
<1>4. FieldOK /\ GhostsOK  BY TypeParts DEF IInv
<1>5. rest' \in Seq(Nat)  BY <1>3, <1>4 DEF FieldOK
<1>6. FieldOK' /\ GhostsOK'  BY <1>3, <1>4, <1>5 DEF FieldOK, GhostsOK
<1>7. whole' = 0 /\ (unhurt' => bit' = 0 /\ mid' = FALSE)
    BY <1>3, <1>4 DEF IInv, Counted, FieldOK
<1>8. Counted'
    <2>1. /\ field' = NoTag => whole' = 0
          /\ field' # NoTag /\ mid' => Telegram[field'][bit'] = 0
        BY <1>3 DEF IInv, Counted
    <2> QED  BY <1>7, <2>1 DEF Counted
<1>9. Synced'
    <2>1. CASE unhurt'
        <3>1. bit' = 0 /\ mid' = FALSE  BY <1>7, <2>1
        <3>2. InHeader'  BY <1>2, <1>7, <3>1, AtFirstEdge
        <3> QED  BY <3>1, <3>2 DEF Synced
    <2>2. CASE ~unhurt'  BY <2>2 DEF Synced
    <2> QED  BY <2>1, <2>2
<1> QED  BY <1>2, <1>6, <1>8, <1>9, TypeParts DEF IInv

LEMMA IntervalKeeps == ASSUME IInv, Interval PROVE IInv'
<1>1. ParserOK' /\ Fresh'
    <2>1. PICK v : TakeInterval(v)  BY IntervalTaken DEF IInv
    <2> QED  BY <2>1, ParserStep, TypeParts DEF IInv
<1>2. FieldOK /\ GhostsOK  BY TypeParts DEF IInv
<1>3. field \in Tags /\ field # NoTag /\ field' = field /\ rest' = <<>>
    BY IntervalMoves DEF IInv, Interval
<1>4. bit' \in 0 .. 127 /\ mid' \in BOOLEAN  BY IntervalMoves DEF IInv
<1>5. FieldOK'  BY <1>2, <1>3, <1>4 DEF FieldOK
<1>6. /\ heard' \in BOOLEAN /\ (heard => heard') /\ UNCHANGED <<been, upsets>>
      /\ Turn => unhurt' = TRUE /\ whole' = IF unhurt /\ whole < 2 THEN whole + 1 ELSE whole
      /\ ~Turn => unhurt' = unhurt /\ whole' = whole
    BY IntervalMoves DEF IInv
<1>7. whole \in 0 .. 2 /\ unhurt \in BOOLEAN /\ (whole > 0 => unhurt) /\ (whole = 2 => heard)
    BY <1>2 DEF IInv, Counted, GhostsOK
<1>8. whole' \in 0 .. 2
    <2>1. (IF unhurt /\ whole < 2 THEN whole + 1 ELSE whole) \in 0 .. 2  BY <1>7
    <2> QED  BY <1>6, <1>7, <2>1
<1>9. unhurt' \in BOOLEAN  BY <1>6, <1>7
<1>10. GhostsOK'  BY <1>2, <1>6, <1>8, <1>9 DEF GhostsOK
<1>11. mid' => Telegram[field'][bit'] = 0
    <2>1. Telegram[field][bit] \in {0, 1}  BY <1>2, <1>3, TelegramBits DEF FieldOK
    <2>2. /\ Telegram[field][bit] = 0 /\ ~mid => bit' = bit
          /\ Telegram[field][bit] = 1 \/ mid => mid' = FALSE
        BY IntervalMoves DEF IInv
    <2> QED  BY <1>3, <2>1, <2>2
<1>12. /\ Synced' /\ (whole' = 2 => heard') /\ (whole' > 0 => unhurt')
    <2>1. CASE ~unhurt
        <3>1. whole = 0  BY <1>7, <2>1
        <3>2. whole' = 0  BY <1>6, <2>1, <3>1
        <3>3. CASE Turn
            <4>1. bit' = 0 /\ mid' = FALSE
                <5>1. bit = 127  BY <3>3 DEF Turn
                <5>2. Telegram[field][bit] = 1 \/ mid  BY <3>3 DEF Turn
                <5> QED  BY <5>1, <5>2, IntervalMoves DEF IInv
            <4>2. InHeader'  BY <1>1, <3>2, <4>1, AtFirstEdge
            <4> QED  BY <3>2, <4>1, <4>2 DEF Synced
        <3>4. CASE ~Turn
            <4>1. ~unhurt'  BY <1>6, <2>1, <3>4
            <4> QED  BY <3>2, <4>1 DEF Synced
        <3> QED  BY <3>3, <3>4
    <2>2. CASE unhurt /\ bit <= 10
        <3>0. bit \in 0 .. 127  BY <1>2 DEF FieldOK
        <3>1. ~Turn  BY <2>2 DEF Turn
        <3>2. unhurt' = unhurt /\ whole' = whole  BY <1>6, <3>1
        <3>3. CASE bit = 10
            <4>1. bit' = 11 /\ InBody'  BY <2>2, <3>3, HeaderOne
            <4>2. ~(bit' <= 10)  BY <4>1
            <4>3. Synced'  BY <4>1, <4>2 DEF Synced
            <4> QED  BY <1>6, <1>7, <2>2, <3>2, <4>3, Zenon
        <3>4. CASE bit < 10
            <4>1. bit' <= 10 /\ InHeader'  BY <2>2, <3>4, HeaderZero
            <4>2. Synced'  BY <4>1 DEF Synced
            <4> QED  BY <1>6, <1>7, <2>2, <3>2, <4>2, Zenon
        <3>5. bit = 10 \/ bit < 10  BY <2>2, <3>0
        <3> QED  BY <3>3, <3>4, <3>5
    <2>3. CASE unhurt /\ ~(bit <= 10)
        <3>0. bit \in 11 .. 127  BY <1>2, <2>3 DEF FieldOK
        <3>1. /\ ~Turn => bit' \in 11 .. 127 /\ InBody'
              /\ Turn => bit' = 0 /\ InHeader' /\ (whole > 0 => heard')
            BY <2>3, <3>0, BodyStep
        <3>2. CASE Turn
            <4>1. bit' <= 10  BY <3>1, <3>2
            <4>2. Synced'  BY <3>1, <3>2, <4>1 DEF Synced
            <4>3. unhurt' = TRUE /\ whole' = IF whole < 2 THEN whole + 1 ELSE whole
                BY <1>6, <2>3, <3>2
            <4>4. whole' = 2 => whole > 0  BY <1>7, <4>3
            <4> QED  BY <3>1, <3>2, <4>2, <4>3, <4>4, Zenon
        <3>3. CASE ~Turn
            <4>1. ~(bit' <= 10)  BY <3>1, <3>3
            <4>2. Synced'  BY <3>1, <3>3, <4>1 DEF Synced
            <4>3. unhurt' = unhurt /\ whole' = whole  BY <1>6, <3>3
            <4> QED  BY <1>6, <1>7, <2>3, <4>2, <4>3, Zenon
        <3> QED  BY <3>2, <3>3
    <2> QED  BY <2>1, <2>2, <2>3
<1>13. Counted'  BY <1>3, <1>11, <1>12 DEF Counted
<1> QED  BY <1>1, <1>5, <1>10, <1>12, <1>13, TypeParts DEF IInv

LEMMA StepIInv == IInv /\ [Next]_vars => IInv'
<1> SUFFICES ASSUME IInv, [Next]_vars PROVE IInv'  OBVIOUS
<1>1. CASE \E tag \in Tags, n \in Starts : Enter(tag, n)  BY <1>1, EnterKeeps
<1>2. CASE Leave  BY <1>2, LeaveKeeps
<1>3. CASE Interval  BY <1>3, IntervalKeeps
<1>4. CASE Spike  BY <1>4, SpikeKeeps
<1>5. CASE Piece  BY <1>5, PieceKeeps
<1>6. CASE MissedEdge  BY <1>6, MissedEdgeKeeps
<1>7. CASE UNCHANGED vars
    BY <1>7 DEF vars, tagVars, parserVars, ghosts, IInv, TypeOK, Fresh, Counted,
                Synced, InHeader, InBody, BitsRead
<1> QED  BY <1>1, <1>2, <1>3, <1>4, <1>5, <1>6, <1>7 DEF Next

LEMMA Inductive == Spec => []IInv
BY InitIInv, StepIInv, PTL DEF Spec

-----------------------------------------------------------------------------
(* The reader's indices and counts stay in their ranges (Parser.cpp: data  *)
(* of 13 bytes, a count of zeros that stops at ten), whatever is on the    *)
(* tags and however often they are disturbed.                              *)
THEOREM TypeCorrect == Spec => []TypeOK
BY Inductive, PTL DEF IInv

(* What the parser makes of an unhurt telegram, after its header, is the   *)
(* tag that sends it.                                                      *)
LEMMA BodyHandsOver ==
    ASSUME IInv, NEW v, TakeInterval(v), field \in Tags, unhurt, bit \in 11 .. 127
    PROVE  parsed' \in {NoTag, Identity(field)}
<1>1. /\ half \in BOOLEAN /\ count \in 0 .. 10 /\ pos \in -1 .. 116
    BY DEF IInv, TypeOK, HeaderZeros, Searching
<1>2. InBody
    <2>1. field # NoTag /\ ~ (bit <= 10)  BY TagReaderAssumption
    <2> QED  BY <2>1 DEF IInv, Synced
<1>3. CASE half' = TRUE /\ parsed' = NoTag  BY <1>3
<1>4. ASSUME NEW b \in Bits, TakeBit(b) PROVE parsed' \in {NoTag, Identity(field)}
    <2>1. CASE pos = Searching  BY <1>1, <1>4, <2>1, Searched
    <2>2. CASE pos # Searching
        <3>1. pos \in 0 .. 116 /\ data = Prefix(field, pos)
            BY <1>1, <1>2, <2>2 DEF InBody, Searching
        <3>2. pos >= 90 => DATA \in data  BY <2>2 DEF IInv, Fresh
        <3>3. \/ parsed' = NoTag
              \/ /\ pos + 1 = (IF DATA \in data THEN 117 ELSE 90)
                 /\ parsed' = IF ChecksumOK(data) THEN Identity(data) ELSE NoTag
            BY <1>4, <3>1, Read
        <3>4. pos \in Nat /\ (pos + 1 = (IF DATA \in data THEN 117 ELSE 90) => pos >= 89)
            BY <3>1
        <3>5. pos >= 89 => Identity(data) = Identity(field)  BY <3>1, <3>4, PrefixIsTag
        <3> QED  BY <3>3, <3>4, <3>5
    <2> QED  BY <2>1, <2>2
<1> QED  BY <1>1, <1>3, <1>4, BitOf

LEMMA HeaderHandsNothing ==
    ASSUME IInv, NEW v, TakeInterval(v), field \in Tags, bit <= 10, whole > 0
    PROVE  parsed' = NoTag
<1>1. half \in BOOLEAN /\ count \in 0 .. 10  BY DEF IInv, TypeOK, HeaderZeros
<1>2. field # NoTag /\ unhurt  BY TagReaderAssumption DEF IInv, Counted
<1>3. pos = Searching  BY <1>2 DEF IInv, Synced, InHeader
<1>4. CASE half' = TRUE /\ parsed' = NoTag  BY <1>4
<1>5. ASSUME NEW b \in Bits, TakeBit(b) PROVE parsed' = NoTag
    BY <1>1, <1>3, <1>5, Searched
<1> QED  BY <1>1, <1>4, <1>5, BitOf

OnlyTheTag == whole > 0 => parsed \in {NoTag, Identity(field)}

LEMMA OnlyTheTagStep == IInv /\ OnlyTheTag /\ [Next]_vars => OnlyTheTag'
<1> SUFFICES ASSUME IInv, OnlyTheTag, [Next]_vars, whole' > 0
             PROVE  parsed' \in {NoTag, Identity(field')}
    BY DEF OnlyTheTag
<1>1. CASE \E tag \in Tags, n \in Starts : Enter(tag, n)
    BY <1>1 DEF Enter, IInv, Counted
<1>2. CASE Leave \/ Spike \/ MissedEdge  BY <1>2 DEF Leave, Spike, MissedEdge, Upset
<1>3. CASE Piece  BY <1>3 DEF Piece, ghosts, IInv, Counted
<1>4. CASE Interval
    <2>1. PICK v : TakeInterval(v)  BY <1>4, IntervalTaken DEF IInv
    <2>2. /\ field \in Tags /\ field' = field
          /\ Turn => whole' = IF unhurt /\ whole < 2 THEN whole + 1 ELSE whole
          /\ ~ Turn => whole' = whole
        BY <1>4, IntervalMoves DEF IInv
    <2>3. whole \in 0 .. 2 /\ bit \in 0 .. 127 /\ (whole > 0 => unhurt)
        BY DEF IInv, TypeOK, Counted
    <2>4. unhurt  BY <2>2, <2>3
    <2>5. CASE bit > 10
        <3>1. bit \in 11 .. 127  BY <2>3, <2>5
        <3> QED  BY <2>1, <2>2, <2>4, <3>1, BodyHandsOver
    <2>6. CASE bit <= 10
        <3>1. ~ Turn  BY <2>6 DEF Turn
        <3> QED  BY <2>1, <2>2, <2>6, <3>1, HeaderHandsNothing
    <2> QED  BY <2>3, <2>5, <2>6
<1>5. CASE UNCHANGED vars
    BY <1>5 DEF OnlyTheTag, vars, tagVars, parserVars, ghosts
<1> QED  BY <1>1, <1>2, <1>3, <1>4, <1>5 DEF Next

(* For all tags, tolerances and disturbances, a parser that has seen one   *)
(* whole telegram (findHeader()) takes no part of a telegram for a header, *)
(* and what getTag() returns is the tag in the field.                      *)
THEOREM ParserInStep == Spec => []InStep
<1>1. IInv /\ OnlyTheTag => InStep
    <2> SUFFICES ASSUME IInv, OnlyTheTag, whole > 0, pos # Searching PROVE pos = bit - 11
        BY DEF InStep, OnlyTheTag
    <2>1. unhurt /\ field # NoTag
        <3>1. whole # 0  OBVIOUS
        <3> QED  BY <3>1 DEF IInv, Counted
    <2>2. bit <= 10 => InHeader  BY <2>1 DEF IInv, Synced
    <2>3. ~(bit <= 10)  BY <2>2 DEF InHeader
    <2>4. InBody  BY <2>1, <2>3 DEF IInv, Synced
    <2> QED  BY <2>4 DEF InBody
<1>2. Init => OnlyTheTag  BY DEF Init, OnlyTheTag
<1> QED  BY <1>1, <1>2, OnlyTheTagStep, Inductive, PTL DEF Spec

(* And it hands the tag over by the end of the second (getTag() resumes    *)
(* its search wherever the telegram before the disturbance left it).       *)
THEOREM SecondTelegram == Spec => []SecondTelegramIsRead
<1>1. IInv => SecondTelegramIsRead  BY DEF IInv, Counted, SecondTelegramIsRead
<1> QED  BY <1>1, Inductive, PTL

-----------------------------------------------------------------------------
(***************************************************************************)
(* The first ball, in whatever bit of its telegram it wakes up.            *)
(***************************************************************************)
(* The zeros that may have come since the ball woke up behind the          *)
(* beginning of a header, or since the last control bit.                   *)
Zeros == IF bit <= 10 THEN bit - 1 ELSE (bit - 11) % 9

FirstBall ==
    upsets = 0 =>
        /\ rest = <<>>
        /\ field = NoTag => half = FALSE /\ count = 0 /\ pos = Searching /\ parsed = NoTag
        /\ field # NoTag =>
            /\ field \in been /\ parsed \in {NoTag, Identity(field)}
            /\ ~unhurt => /\ pos = Searching /\ bit > 0
                          /\ count <= Zeros + (IF mid /\ ~half THEN 1 ELSE 0)
            /\ unhurt /\ bit <= 10 => pos = Searching

(* Before its first whole telegram the parser searches: between two        *)
(* control bits, and in a header whose beginning was missed, there are     *)
(* fewer than ten zeros, also when halves of two neighbours are paired.    *)
LEMMA PieceOfTelegram ==
    ASSUME IInv, FirstBall, upsets = 0, Interval, ~unhurt
    PROVE  /\ parsed' = NoTag /\ pos' = Searching
           /\ ~unhurt' => /\ bit' > 0
                          /\ count' <= Zeros' + (IF mid' /\ ~half' THEN 1 ELSE 0)
<1>0. PICK v : /\ TakeInterval(v)
               /\ Telegram[field][bit] = 0 => Periods(v) = 1
               /\ Telegram[field][bit] = 1 => Periods(v) = 2
    BY IntervalTaken DEF IInv
<1>1. /\ bit \in 0 .. 127 /\ mid \in BOOLEAN /\ half \in BOOLEAN /\ count \in 0 .. 10
    BY DEF IInv, TypeOK, HeaderZeros
<1>2. field \in Tags /\ field # NoTag  BY IntervalMoves DEF IInv, Interval
<1>3. /\ pos = Searching /\ bit > 0
      /\ count <= Zeros + (IF mid /\ ~half THEN 1 ELSE 0)
    BY <1>2 DEF FirstBall
<1>4. /\ Telegram[field][bit] \in {0, 1}
      /\ Telegram[field][bit] = 0 => bit # 10 /\ ~ (bit > 10 /\ (bit - 11) % 9 = 8)
    BY <1>1, <1>2, TelegramBits
<1>5. /\ Telegram[field][bit] = 0 /\ ~mid => bit' = bit /\ mid' = TRUE
      /\ Telegram[field][bit] = 1 \/ mid =>
             bit' = (IF bit = 127 THEN 0 ELSE bit + 1) /\ mid' = FALSE
      /\ Turn => unhurt' = TRUE
    BY IntervalMoves DEF IInv
<1>6. Zeros \in 0 .. 9  BY <1>1, <1>3 DEF Zeros
<1>7. CASE Telegram[field][bit] = 1
    <2>1. ~mid  BY <1>2, <1>7 DEF IInv, Counted
    <2>2. half' = FALSE /\ TakeBit(IF half THEN Fail ELSE 1)  BY <1>0, <1>1, <1>7, BitOf
    <2>3. PICK b \in Bits : b # 0 /\ TakeBit(b)  BY <2>2 DEF Bits, Fail
    <2>4. count < 10  BY <1>1, <1>3, <1>6, <2>1
    <2>5. pos' = Searching /\ count' = 0 /\ parsed' = NoTag
        BY <1>1, <1>3, <2>3, <2>4, Searched
    <2>6. CASE bit = 127  BY <1>5, <1>7, <2>5, <2>6 DEF Turn
    <2>7. CASE bit # 127
        <3>1. bit' = bit + 1 /\ mid' = FALSE  BY <1>5, <1>7, <2>7
        <3>2. Zeros' \in 0 .. 9  BY <1>1, <1>3, <3>1, <2>7 DEF Zeros
        <3>3. (IF mid' /\ ~half' THEN 1 ELSE 0) = 0  BY <3>1
        <3>4. bit' > 0
            <4>1. bit > 0 /\ bit' = bit + 1  BY <1>3, <3>1, Zenon
            <4> QED  BY <1>1, <4>1
        <3>5. 0 <= Zeros' + 0
            <4>1. \A z \in 0 .. 9 : 0 <= z + 0  OBVIOUS
            <4> QED  BY <3>2, <4>1, Zenon
        <3>6. bit' > 0 /\ 0 <= Zeros' + 0  BY <3>4, <3>5
        <3>7. count' <= Zeros' + (IF mid' /\ ~half' THEN 1 ELSE 0)
            BY <2>5, <3>3, <3>6, Zenon
        <3> QED  BY <2>5, <3>6, <3>7, Zenon
    <2> QED  BY <2>6, <2>7
<1>8. CASE Telegram[field][bit] = 0
    <2>1. /\ ~half => half' = TRUE /\ UNCHANGED <<count, pos, data>>
          /\ half => half' = FALSE /\ TakeBit(0)
        BY <1>0, <1>1, <1>8, BitOf
    <2>2. half => pos' = Searching /\ count' <= count + 1 /\ count' \in 0 .. 10 /\ parsed' = NoTag
        BY <1>1, <1>3, <2>1, Searched DEF Bits
    <2>3. ~half => pos' = Searching /\ count' = count /\ parsed' = NoTag
        <3>1. ~half => parsed' = NoTag  BY <1>0, <1>8 DEF TakeInterval
        <3> QED  BY <1>3, <2>1, <3>1
    <2>4. CASE ~mid
        <3>1. bit' = bit /\ mid' = TRUE /\ Zeros' = Zeros  BY <1>5, <1>8, <2>4 DEF Zeros
        <3> QED  BY <1>1, <1>3, <1>6, <2>1, <2>2, <2>3, <2>4, <3>1
    <2>5. CASE mid
        <3>1. bit # 127
            <4>1. bit = 127 => (bit - 11) % 9 = 8  OBVIOUS
            <4> QED  BY <1>4, <1>8, <4>1
        <3>2. bit' = bit + 1 /\ mid' = FALSE  BY <1>5, <2>5, <3>1
        <3>3. Zeros' = Zeros + 1
            <4>1. CASE bit <= 10
                BY <1>1, <1>4, <1>8, <3>2, <4>1 DEF Zeros
            <4>2. CASE bit > 10
                <5>1. (bit - 11) % 9 # 8 /\ bit - 11 \in Nat  BY <1>1, <1>4, <1>8, <4>2
                <5>2. (bit + 1 - 11) % 9 = ((bit - 11) % 9) + 1  BY <1>1, <4>2, <5>1
                <5> QED  BY <1>1, <3>2, <4>2, <5>2 DEF Zeros
            <4> QED  BY <1>1, <4>1, <4>2
        <3> QED  BY <1>1, <1>3, <1>6, <2>1, <2>2, <2>3, <2>5, <3>2, <3>3
    <2> QED  BY <1>1, <2>4, <2>5
<1> QED  BY <1>4, <1>7, <1>8

(* From the first header on it reads along.                                *)
LEMMA WholeTelegram ==
    ASSUME IInv, FirstBall, upsets = 0, Interval, unhurt
    PROVE  /\ parsed' \in {NoTag, Identity(field)}
           /\ bit' <= 10 => pos' = Searching
           /\ unhurt'
<1>1. /\ bit \in 0 .. 127 /\ half \in BOOLEAN /\ count \in 0 .. 10 /\ whole \in 0 .. 2
    BY DEF IInv, TypeOK, HeaderZeros
<1>2. field \in Tags /\ field # NoTag  BY IntervalMoves DEF IInv, Interval
<1>3. PICK v : /\ TakeInterval(v)
               /\ Telegram[field][bit] = 0 => Periods(v) = 1
    BY IntervalTaken DEF IInv
<1>4. unhurt'  BY IntervalMoves DEF IInv
<1>5. CASE bit <= 10
    <2>1. pos = Searching  BY <1>2, <1>5 DEF FirstBall
    <2>2. \/ parsed' = NoTag /\ pos' = pos
          \/ \E b \in Bits : TakeBit(b)
        BY <1>1, <1>3, BitOf
    <2>3. parsed' = NoTag  BY <1>1, <2>1, <2>2, Searched
    <2>4. CASE bit = 10
        <3>1. bit' = 11  BY <2>4, HeaderOne
        <3> QED  BY <1>4, <2>3, <3>1
    <2>5. CASE bit < 10
        <3>1. Telegram[field][bit] = 0  BY <1>1, <1>2, <2>5, TelegramBits
        <3>2. half => TakeBit(0)  BY <1>1, <1>3, <3>1, BitOf
        <3>3. ~half => pos' = pos  BY <1>1, <1>3, <3>1, BitOf
        <3>4. pos' = Searching  BY <1>1, <2>1, <3>2, <3>3, Searched DEF Bits
        <3> QED  BY <1>4, <2>3, <3>4
    <2> QED  BY <1>1, <1>5, <2>4, <2>5
<1>6. CASE bit > 10
    <2>0. bit \in 11 .. 127  BY <1>1, <1>6
    <2>1. parsed' \in {NoTag, Identity(field)}  BY <1>2, <1>3, <2>0, BodyHandsOver
    <2>2. /\ ~Turn => bit' \in 11 .. 127
          /\ Turn => InHeader'
        BY <2>0, BodyStep
    <2>3. Turn => whole' > 0  BY <1>1, IntervalMoves DEF IInv
    <2>4. Turn => pos' = Searching  BY <2>2, <2>3 DEF InHeader
    <2> QED  BY <1>4, <2>1, <2>2, <2>4
<1> QED  BY <1>1, <1>5, <1>6

LEMMA FirstBallEnters ==
    ASSUME IInv, FirstBall, upsets = 0, NEW tag \in Tags, NEW n \in Starts, Enter(tag, n)
    PROVE  FirstBall'
<1>1. n \in 0 .. 127 /\ tag # NoTag  BY TagReaderAssumption
<1>2. /\ field = NoTag /\ field' = tag /\ bit' = n /\ mid' = FALSE
      /\ been' = been \cup {tag} /\ unhurt' = (n = 0) /\ rest' = rest
    BY DEF Enter, MoveTo
<1>3. half = FALSE /\ count = 0 /\ pos = Searching /\ rest = <<>>  BY <1>2 DEF FirstBall
<1>4. PICK v : TakeInterval(v)  BY DEF Enter
<1>5. ASSUME pos' = Searching, count' = 0, parsed' = NoTag PROVE FirstBall'
    <2>1. n > 0 => Zeros' \in Nat  BY <1>1, <1>2 DEF Zeros
    <2>2. (IF mid' /\ ~half' THEN 1 ELSE 0) = 0  BY <1>2
    <2>3. n > 0 => count' <= Zeros' + (IF mid' /\ ~half' THEN 1 ELSE 0)
        BY <1>5, <2>1, <2>2
    <2>4. field' # NoTag /\ field' \in been' /\ rest' = <<>>  BY <1>1, <1>2, <1>3
    <2>5. ~unhurt' => n > 0 /\ bit' > 0
        <3>1. ~unhurt' => n # 0  BY <1>2, Zenon
        <3>2. n # 0 => n > 0  BY <1>1
        <3> QED  BY <1>2, <3>1, <3>2, Zenon
    <2> QED  BY <1>5, <2>3, <2>4, <2>5, Zenon DEF FirstBall
<1>6. CASE Periods(v) = 1
    <2>1. pos' = Searching /\ count' = 0 /\ parsed' = NoTag  BY <1>3, <1>4, <1>6 DEF TakeInterval
    <2> QED  BY <1>5, <2>1
<1>7. CASE Periods(v) # 1
    <2>1. PICK b \in Bits : b # 0 /\ TakeBit(b)
        BY <1>3, <1>4, <1>7 DEF TakeInterval, Bits, Fail
    <2>2. pos' = Searching /\ count' = 0 /\ parsed' = NoTag
        BY <1>3, <2>1, Searched
    <2> QED  BY <1>5, <2>2
<1> QED  BY <1>6, <1>7

LEMMA FirstBallStep == IInv /\ FirstBall /\ [Next]_vars => FirstBall'
<1> SUFFICES ASSUME IInv, FirstBall, [Next]_vars, upsets' = 0 PROVE FirstBall'
    BY DEF FirstBall
<1>0. upsets \in Nat  BY DEF IInv, TypeOK
<1>1. ASSUME NEW tag \in Tags, NEW n \in Starts, Enter(tag, n) PROVE FirstBall'
    BY <1>1, FirstBallEnters DEF Enter
<1>2. CASE Leave \/ Spike \/ MissedEdge  BY <1>0, <1>2 DEF Leave, Spike, MissedEdge, Upset
<1>3. CASE Piece  BY <1>3 DEF Piece, ghosts, FirstBall
<1>4. CASE Interval
    <2>1. /\ field \in Tags /\ field # NoTag /\ field' = field /\ rest' = <<>>
          /\ UNCHANGED <<been, upsets>>
        BY <1>4, IntervalMoves DEF IInv, Interval
    <2>2. upsets = 0 /\ field \in been  BY <2>1 DEF FirstBall
    <2>3. CASE unhurt
        BY <1>4, <2>1, <2>2, <2>3, WholeTelegram DEF FirstBall
    <2>4. CASE ~unhurt
        BY <1>4, <2>1, <2>2, <2>4, PieceOfTelegram DEF FirstBall
    <2> QED  BY <2>3, <2>4
<1>5. CASE UNCHANGED vars
    BY <1>5 DEF FirstBall, Zeros, vars, tagVars, parserVars, ghosts
<1> QED  BY <1>1, <1>2, <1>3, <1>4, <1>5 DEF Next

(* Until something is disturbed nothing is invented, whatever is on the    *)
(* tags and in whichever bit of its telegram the first ball wakes up:      *)
(* findHeader() finds no header in the piece that comes first, and         *)
(* getTag() returns the tag in the field (Parser.cpp:23-40, :93-121).      *)
THEOREM NothingInventedUndisturbed == Spec => [](upsets = 0 => NothingInvented)
<1>1. Init => FirstBall  BY DEF Init, FirstBall
<1>2. IInv /\ FirstBall => (upsets = 0 => NothingInvented)
    <2> SUFFICES ASSUME IInv, FirstBall, upsets = 0, parsed # NoTag
                 PROVE  \E tag \in been : parsed = Identity(tag)
        BY DEF NothingInvented
    <2>1. field # NoTag  BY DEF FirstBall
    <2> QED  BY <2>1 DEF FirstBall
<1> QED  BY <1>1, <1>2, FirstBallStep, Inductive, PTL DEF Spec
=============================================================================
