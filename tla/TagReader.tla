----------------------------- MODULE TagReader -----------------------------
(***************************************************************************)
(* The FDX-B reader between the antenna and the hand-over of a tag: the    *)
(* interrupt that measures the interval between two edges (Decoder.cpp),   *)
(* the parser's task that makes bits, bytes and a tag of the intervals     *)
(* (Parser.cpp) and hands the tag over (fdxb_reader.cpp).  Telegrams have  *)
(* their real size.  The buffer between the two is Fifo's; here each       *)
(* interval is parsed as soon as it is measured.                           *)
(*                                                                         *)
(* A tag in the field repeats its telegram of 128 bits from wherever it    *)
(* woke up.  A bit lasts 238 us; every bit starts with an edge, and a 0    *)
(* has one more in its middle.                                             *)
(***************************************************************************)
EXTENDS Integers, Sequences

CONSTANTS
    Tags,           \* what is written on the tags, as the set of the bits that
                    \* are 1: 0..63 identify it, 80..103 are its extra data
    NoTag,
    Short, Long,    \* lengths of half a bit and of a bit (119 and 238 us)
    Cuts,           \* pieces that a spike makes of them
    Pauses,         \* what the counter may show of the pause before a ball
    Counter,        \* values that the counter may have at an edge
    Starts,         \* bits at which a tag that enters the field may wake up
    MaxUpsets       \* bound: balls that leave, spikes and missed edges

ASSUME TagReaderAssumption ==
    /\ Tags \subseteq SUBSET (0 .. 63 \cup 80 .. 103)
    /\ NoTag \notin Tags
    /\ \A d \in Short : d \in Nat /\ 60 < d /\ d < 179
    /\ \A d \in Long : d \in Nat /\ 179 < d /\ d < 32768
    /\ \A d \in Cuts : d \in Nat /\ d > 0
    /\ \A v \in Pauses : v \in Nat /\ v < 256
    /\ \A c \in Counter : c \in Nat /\ c < 65536
    /\ Starts \subseteq 0 .. 127
    /\ MaxUpsets \in Nat

Fail == -1             \* what getBit() found was no bit
Searching == -1        \* findHeader() has not returned
HeaderZeros == 10
DATA == 48             \* flags is the last 16 bits of the identity
CarrierHz == 134200

VARIABLES
    field,      \* the tag in the field
    bit, mid,   \* the bit it is sending, and whether it is past the middle
    rest,       \* pieces of an interval that a spike has cut up
    half,       \* getBit() has read a first short interval
    count,      \* findHeader()'s zeros
    pos,        \* bits read since the header
    data,       \* the bits of the tag read that are 1
    parsed,     \* the identity that the last interval made getTag() return
    been,       \* ghost: tags that have been in the field
    whole,      \* ghost: telegrams sent unhurt since the last upset, up to 2
    unhurt,     \* ghost: the one that is being sent is among them so far
    heard,      \* ghost: the tag in the field was read since the last upset
    upsets

tagVars    == <<field, bit, mid, rest>>
parserVars == <<half, count, pos, data, parsed>>
ghosts     == <<been, whole, unhurt, heard, upsets>>
vars == <<tagVars, parserVars, ghosts>>

TypeOK ==
    /\ field \in Tags \cup {NoTag} /\ bit \in 0 .. 127 /\ mid \in BOOLEAN
    /\ rest \in Seq(Nat)
    /\ half \in BOOLEAN /\ count \in 0 .. HeaderZeros /\ pos \in Searching .. 13 * 9 - 1
    /\ data \subseteq 0 .. 103 /\ parsed \in {NoTag} \cup (SUBSET (0 .. 63))
    /\ been \subseteq Tags /\ whole \in 0 .. 2
    /\ unhurt \in BOOLEAN /\ heard \in BOOLEAN /\ upsets \in 0 .. MaxUpsets

Init ==
    /\ field = NoTag /\ bit = 0 /\ mid = FALSE /\ rest = <<>>
    /\ half = FALSE /\ count = 0 /\ pos = Searching /\ data = {} /\ parsed = NoTag
    /\ been = {} /\ whole = 0 /\ unhurt = FALSE /\ heard = FALSE /\ upsets = 0

(***************************************************************************)
(* What a tag sends (ISO 11784/11785, as the parser expects it).           *)
(***************************************************************************)
SymDiff(a, b) == (a \ b) \cup (b \ a)

Identity(tag) == tag \cap 0 .. 63

(* The check of a tag: the remainder of its identity, as a polynomial with *)
(* the first bit highest, by x^16 + x^12 + x^5 + 1.                        *)
Check(tag) ==
    LET reduce[n \in 0 .. 64] ==
            IF n = 0 THEN {79 - i : i \in Identity(tag)}
            ELSE LET r == reduce[n - 1]
                     e == 80 - n
                 IN  IF e \in r THEN SymDiff(r, {e, e - 4, e - 11, e - 16}) ELSE r
    IN  {79 - e : e \in reduce[64]}

(* 10 zeros and a one, then 13 bytes, each followed by a one.              *)
Telegram == [tag \in Tags |->
    LET ones == tag \cup Check(tag)
    IN  [n \in 0 .. 127 |->
            IF n <= HeaderZeros THEN (IF n = HeaderZeros THEN 1 ELSE 0)
            ELSE LET i == (n - 11) \div 9
                     k == (n - 11) % 9
                 IN  IF k = 8 \/ 8 * i + k \in ones THEN 1 ELSE 0]]

(***************************************************************************)
(* The interrupt.                                                          *)
(***************************************************************************)
(* putStateChange(): the time since the last edge, on a counter of 16 bits *)
(* that may have wrapped: time + ~before.                                  *)
MeasureNever(before, time) ==            \* mutant: no interval goes past the wrap
    IF time < before THEN 0 ELSE time - before
Measure(before, time) ==
    IF time < before THEN (time + (-before - 1)) % 65536 ELSE time - before

(* What the buffer gets of an interval.                                    *)
Readings(d) ==
    {LET m == Measure(before, (before + d) % 65536)
     IN  IF m > 255 THEN 255 ELSE m : before \in Counter}

(***************************************************************************)
(* The parser.                                                             *)
(***************************************************************************)
(* Halves of a bit in an interval: the length over mBaud = 16 cycles of    *)
(* the carrier, rounded.                                                   *)
Periods(v) == (2 * v * CarrierHz + 16000000) \div 32000000

(* crc16k() over the first 8 bytes, bits as a set.                         *)
CrcShift(r) ==
    LET s == {i - 1 : i \in r \ {0}}
    IN  IF 0 \in r THEN SymDiff(s, {15, 10, 3}) ELSE s

Byte(d, i) == {k \in 0 .. 7 : 8 * i + k \in d}

Crc(d) ==
    LET crc[n \in 0 .. 64] ==
            IF n = 0 THEN {}
            ELSE LET r == crc[n - 1]
                 IN  CrcShift(IF n % 8 = 1 THEN SymDiff(r, Byte(d, n \div 8)) ELSE r)
    IN  crc[64]

ChecksumOK(d) == {64 + k : k \in Crc(Identity(d))} = d \cap 64 .. 79

(* The check that is written on a tag is the one that crc16k() computes.   *)
ASSUME CheckAssumption ==
    \A tag \in Tags :
        /\ Check(tag) = {64 + k : k \in Crc(Identity(tag))}
        /\ Check(tag) \subseteq 64 .. 79

(* findHeader(): ten zeros or more, then a one.                            *)
FindHeaderShort(b) ==                    \* mutant: eight zeros are enough
    /\ pos' = IF b = 1 /\ count >= 8 THEN 0 ELSE Searching
    /\ count' = IF b = 0 THEN (IF count < HeaderZeros THEN count + 1 ELSE count) ELSE 0
    /\ parsed' = NoTag /\ UNCHANGED data
FindHeaderUnbounded(b) ==                \* mutant: the count does not stop at ten
    /\ pos' = IF b = 1 /\ count >= HeaderZeros THEN 0 ELSE Searching
    /\ count' = IF b = 0 THEN count + 1 ELSE 0
    /\ parsed' = NoTag /\ UNCHANGED data
FindHeader(b) ==
    /\ pos' = IF b = 1 /\ count >= HeaderZeros THEN 0 ELSE Searching
    /\ count' = IF b = 0 THEN (IF count < HeaderZeros THEN count + 1 ELSE count) ELSE 0
    /\ parsed' = NoTag /\ UNCHANGED data

(* getData() gives up, or is done: the next getTag() looks for a header.   *)
(* What was read is overwritten before it is looked at again.              *)
StartOver == pos' = Searching /\ data' = {}

(* getByte(), ten times, and three more if the tag says so; then the       *)
(* checksum, and parser_task() hands the tag over.                         *)
GetData(b) ==
    LET k == pos % 9
        all == IF DATA \in data THEN 13 ELSE 10
    IN  /\ UNCHANGED count
        /\ \/ /\ b = Fail \/ (k = 8 /\ b = 0)
              /\ StartOver /\ parsed' = NoTag
           \/ /\ k < 8 /\ b # Fail
              /\ data' = IF b = 1 THEN data \cup {8 * (pos \div 9) + k} ELSE data
              /\ pos' = pos + 1 /\ parsed' = NoTag
           \/ /\ k = 8 /\ b = 1 /\ pos + 1 < 9 * all
              /\ pos' = pos + 1 /\ parsed' = NoTag /\ UNCHANGED data
           \/ /\ k = 8 /\ b = 1 /\ pos + 1 = 9 * all
              /\ StartOver
              /\ parsed' = IF ChecksumOK(data) THEN Identity(data) ELSE NoTag

TakeBit(b) == IF pos = Searching THEN FindHeader(b) ELSE GetData(b)

(* getBit(): one long interval, or two short ones.                         *)
TakeInterval(v) ==
    LET p == Periods(v)
    IN  IF p = 1 /\ ~half
        THEN half' = TRUE /\ parsed' = NoTag /\ UNCHANGED <<count, pos, data>>
        ELSE /\ half' = FALSE
             /\ TakeBit(CASE p = 1 -> 0 [] p = 2 /\ ~half -> 1 [] OTHER -> Fail)

(***************************************************************************)
(* The field.                                                              *)
(***************************************************************************)
(* The telegram after the interval at <<b, m>>.                            *)
After(b, m) == IF Telegram[field][b] = 0 /\ ~m THEN <<b, TRUE>> ELSE <<(b + 1) % 128, FALSE>>
Lengths(b) == IF Telegram[field][b] = 0 THEN Short ELSE Long

MoveTo(place) == bit' = place[1] /\ mid' = place[2]
AtStart(place) == place = <<0, FALSE>>

Upset ==
    /\ upsets < MaxUpsets
    /\ upsets' = upsets + 1
    /\ whole' = 0 /\ heard' = FALSE

(* A ball reaches the antenna.                                             *)
Enter(tag, n) ==
    /\ field = NoTag
    /\ field' = tag /\ MoveTo(<<n, FALSE>>)
    /\ \E v \in Pauses : TakeInterval(v)
    /\ been' = been \cup {tag}
    /\ unhurt' = (n = 0)
    /\ UNCHANGED <<rest, whole, heard, upsets>>

(* It leaves: no more edges.                                               *)
Leave ==
    /\ field # NoTag
    /\ Upset
    /\ field' = NoTag /\ bit' = 0 /\ mid' = FALSE /\ rest' = <<>>
    /\ unhurt' = FALSE
    /\ UNCHANGED <<parserVars, been>>

(* An edge in its place.                                                   *)
Interval ==
    /\ field # NoTag /\ rest = <<>>
    /\ \E d \in Lengths(bit) : \E v \in Readings(d) : TakeInterval(v)
    /\ LET next == After(bit, mid)
       IN  /\ MoveTo(next)
           /\ whole' = IF AtStart(next) /\ unhurt /\ whole < 2 THEN whole + 1 ELSE whole
           /\ unhurt' = (unhurt \/ AtStart(next))
    /\ heard' = (heard \/ parsed' = Identity(field))
    /\ UNCHANGED <<field, rest, been, upsets>>

(* A spike makes two edges more: its interval comes in three pieces.       *)
Spike ==
    /\ field # NoTag /\ rest = <<>>
    /\ Upset
    /\ \E d \in Lengths(bit), a \in Cuts, w \in Cuts :
          /\ a + w < d
          /\ \E v \in Readings(a) : TakeInterval(v)
          /\ rest' = <<w, d - a - w>>
    /\ MoveTo(After(bit, mid))
    /\ unhurt' = AtStart(After(bit, mid))
    /\ UNCHANGED <<field, been>>

Piece ==
    /\ rest # <<>>
    /\ \E v \in Readings(Head(rest)) : TakeInterval(v)
    /\ rest' = Tail(rest)
    /\ UNCHANGED <<field, bit, mid, ghosts>>

(* An edge is missed: two intervals come as one.                           *)
MissedEdge ==
    /\ field # NoTag /\ rest = <<>>
    /\ Upset
    /\ LET second == After(bit, mid)
           next == After(second[1], second[2])
       IN  /\ \E d \in Lengths(bit), e \in Lengths(second[1]) :
                 \E v \in Readings(d + e) : TakeInterval(v)
           /\ MoveTo(next)
           /\ unhurt' = AtStart(next)
    /\ UNCHANGED <<field, rest, been>>

Next ==
    \/ \E tag \in Tags, n \in Starts : Enter(tag, n)
    \/ Leave \/ Interval \/ Spike \/ Piece \/ MissedEdge

Spec == Init /\ [][Next]_vars

-----------------------------------------------------------------------------
(***************************************************************************)
(* Properties.                                                             *)
(***************************************************************************)
(* A tag that is handed over is one that has been in the field, not one    *)
(* that the reader put together from pieces (the control bits and the      *)
(* checksum of Parser.cpp:59-70, :114).  In general only as long as        *)
(* nothing was disturbed: the beginning of one telegram and a piece of     *)
(* another may pass control bits and checksum together.                    *)
NothingInvented == parsed # NoTag => \E tag \in been : parsed = Identity(tag)

(* A tag that sends two whole telegrams is read, whatever the parser was   *)
(* in the middle of (Decoder.cpp:64, "the parser auto-resyncs via          *)
(* findHeader()").                                                         *)
SecondTelegramIsRead == whole = 2 => heard

(* After one whole telegram the parser is in step with the tag: it takes   *)
(* no part of a telegram for the header of one, and hands over nothing but *)
(* the tag in the field, however many disturbances came before.            *)
InStep ==
    whole > 0 =>
        /\ pos # Searching => pos = bit - 11
        /\ parsed # NoTag => parsed = Identity(field)
=============================================================================
