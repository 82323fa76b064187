------------------------ MODULE LargeDataRing_proofs ------------------------
(***************************************************************************)
(* Theorems about the ring of a LargeDataChannel: a header with its magic  *)
(* stands before a whole block, a block stays while a reader holds it, and *)
(* a reader is given the blocks in order and without a gap.                *)
(***************************************************************************)
EXTENDS LargeDataRing, WellFoundedInduction, TLAPS

\* Leaves go to Zenon unless they name another prover.
USE Zenon

(* Positions and offsets *)

\* A position is a number of laps and an offset.
LEMMA Laps ==
  ASSUME NEW c \in Nat \ {0}, NEW p \in Nat
  PROVE  \E q \in Int, r \in 0 .. c - 1 : p % c = r /\ p = c * q + r
<1>1. p % c \in 0 .. c - 1 /\ p = c * (p \div c) + (p % c) /\ p \div c \in Int
  BY SMTT(30)
<1> QED
  BY <1>1

\* A lap and an offset make one position.
LEMMA Remainder ==
  ASSUME NEW c \in Nat \ {0}, NEW q \in Int, NEW r \in 0 .. c - 1
  PROVE  (c * q + r) % c = r
BY SMTT(30)

\* Before the end of the ring a position and its offset grow alike.
LEMMA OffsetAdd ==
  ASSUME NEW c \in Nat \ {0}, NEW p \in Nat, NEW j \in Nat, (p % c) + j < c
  PROVE  (p + j) % c = (p % c) + j
<1>1. PICK q \in Int, r \in 0 .. c - 1 : p % c = r /\ p = c * q + r
  BY Laps
<1>2. p + j = c * q + (r + j) /\ r + j \in 0 .. c - 1
  BY SMTT(30), <1>1
<1> QED
  BY <1>1, <1>2, Remainder

\* At the end of the ring the offset is 0 again.
LEMMA OffsetEnd ==
  ASSUME NEW c \in Nat \ {0}, NEW p \in Nat, NEW j \in Nat, (p % c) + j = c
  PROVE  (p + j) % c = 0
<1>1. PICK q \in Int, r \in 0 .. c - 1 : p % c = r /\ p = c * q + r
  BY Laps
<1>2. p + j = c * q + c /\ c * q + c = c * (q + 1) + 0 /\ q + 1 \in Int /\ 0 \in 0 .. c - 1
  BY SMTT(30), <1>1
<1> QED
  BY SMTT(30), <1>2, Remainder

\* Two positions less than a lap apart have different offsets.
LEMMA OffsetApart ==
  ASSUME NEW c \in Nat \ {0}, NEW p \in Nat, NEW q \in Nat, p < q, q - p < c
  PROVE  p % c # q % c
<1>1. PICK a \in Int, r \in 0 .. c - 1 : p % c = r /\ p = c * a + r
  BY Laps
<1>2. PICK b \in Int, s \in 0 .. c - 1 : q % c = s /\ q = c * b + s
  BY Laps
<1> SUFFICES ASSUME r = s PROVE FALSE
  BY <1>1, <1>2
<1>3. q - p = c * (b - a) /\ b - a \in Int
  BY SMTT(30), <1>1, <1>2
<1>4. \A d \in Int : (d >= 1 => c * d >= c) /\ (d <= 0 => c * d <= 0)
  BY SMTT(30)
<1> QED
  BY SMTT(30), <1>3, <1>4

\* A non-empty set of numbers has a least element.
LEMMA LeastNumber ==
  ASSUME NEW M \in SUBSET Nat, M # {}
  PROVE  \E x \in M : \A y \in M : x <= y
<1>1. PICK x \in M : \A y \in M : ~(<<y, x>> \in OpToRel(<, Nat))
  BY NatLessThanWellFounded, WFMin
<1>2. OpToRel(<, Nat) = {ss \in Nat \X Nat : ss[1] < ss[2]}
  BY DEF OpToRel
<1>3. \A y \in M : x \in Nat /\ y \in Nat /\ ~(y < x)
  BY <1>1, <1>2
<1>4. \A a, b \in Nat : ~(b < a) => a <= b
  BY SMTT(30)
<1> QED
  BY <1>3, <1>4

\* Min is that element.
LEMMA MinIs ==
  ASSUME NEW M \in SUBSET Nat, M # {}
  PROVE  Min(M) \in M /\ \A y \in M : Min(M) <= y
BY LeastNumber DEF Min

\* The larger of two numbers.
LEMMA MaxIs ==
  ASSUME NEW x \in Nat, NEW y \in Nat
  PROVE  Max({x, y}) = IF x < y THEN y ELSE x
BY SMTT(30) DEF Max

\* getMinReadPos: no further than the writer and than any active reader.
LEMMA MinReadPosIs ==
  ASSUME writePos \in Nat, readPos \in [Slots -> Nat]
  PROVE  /\ MinReadPos \in Nat /\ MinReadPos <= writePos
         /\ \A i \in Slots : active[i] => MinReadPos <= readPos[i]
<1> DEFINE M == {writePos} \cup {readPos[i] : i \in {j \in Slots : active[j]}}
<1>1. M \in SUBSET Nat /\ M # {}
  OBVIOUS
<1>2. Min(M) \in M /\ \A y \in M : Min(M) <= y
  BY <1>1, MinIs
<1>3. writePos \in M /\ \A i \in Slots : active[i] => readPos[i] \in M
  OBVIOUS
<1>4. MinReadPos = Min(M)
  BY DEF MinReadPos
<1> QED
  BY <1>1, <1>2, <1>3, <1>4

\* A reader takes the first free slot.
LEMMA FreeSlot ==
  ASSUME NEW F \in SUBSET Slots, F # {}
  PROVE  Min(F) \in F
<1>1. F \in SUBSET Nat
  BY SMTT(30), LargeDataAssumption DEF Slots
<1> QED
  BY <1>1, MinIs

-----------------------------------------------------------------------------
(* Types *)

\* What the set-ups allow.
LEMMA SetupFacts ==
  ASSUME setup \in Setups
  PROVE  /\ setup.sizes \subseteq 1 .. Capacity - 1 /\ setup.writes \in Nat
         /\ Capacity \in Nat \ {0} /\ NumSlots \in Nat \ {0}
         /\ setup.frail \subseteq Readers /\ setup.late \subseteq Readers /\ NoReader \notin Readers
<1>1. /\ setup.readers \subseteq Readers /\ setup.frail \cup setup.late \subseteq setup.readers
      /\ setup.sizes \subseteq 1 .. Capacity - 1 /\ setup.writes \in Nat
      /\ {NumSlots, Capacity} \subseteq Nat \ {0} /\ NoReader \notin Readers
  BY LargeDataAssumption
<1> QED
  BY <1>1

\* The writer's offset is in the buffer.
LEMMA OffsetIn ==
  ASSUME setup \in Setups, writePos \in Nat
  PROVE  Offset \in Units /\ Offset \in Nat /\ Offset < Capacity
<1>1. Capacity \in Nat \ {0}
  BY SetupFacts
<1>2. PICK q \in Int, r \in 0 .. Capacity - 1 : writePos % Capacity = r /\ writePos = Capacity * q + r
  BY <1>1, Laps
<1> QED
  BY SMTT(30), <1>1, <1>2 DEF Offset, Units

Headers == [magic : BOOLEAN, seq : -1 .. setup.writes, size : setup.sizes \cup {0}, crc : -1 .. setup.writes]
Blocks == [at : Units, seq : -1 .. setup.writes, size : setup.sizes \cup {0}]

\* TypeOK, in parts: the buffer, the writer, the reader slots and the readers.
BufferType == buffer \in [Units -> Headers]
WriterType ==
  /\ setup \in Setups /\ writePos \in Nat /\ sequence \in 0 .. setup.writes
  /\ writer \in {"idle", "skip", "adjust", "clear", "fill", "magic", "advance"}
  /\ size \in 0 .. Capacity - 1 /\ adjusting \in 0 .. NumSlots
  /\ writer \in {"clear", "fill", "magic", "advance"} => Offset + size < Capacity
  /\ starts \in Seq(Nat) /\ skipped \in BOOLEAN
SlotType ==
  /\ numReaders \in Int /\ active \in [Slots -> BOOLEAN] /\ readPos \in [Slots -> Nat]
  /\ pid \in [Slots -> Readers \cup {NoReader}]
ReaderType ==
  /\ reader \in [Readers -> {"new", "claimed", "idle", "reading", "loaded", "checked", "holding", "gone"}]
  /\ slot \in [Readers -> 0 .. NumSlots] /\ \A r \in Readers : reader[r] # "new" => slot[r] \in Slots
  /\ seen \in [Readers -> [read : Nat, write : Nat]] /\ block \in [Readers -> Blocks]
  /\ last \in [Readers -> -1 .. setup.writes]
  /\ dead \subseteq setup.frail /\ disturbed \subseteq Readers

\* They make up TypeOK.
LEMMA TypeParts == TypeOK <=> BufferType /\ WriterType /\ SlotType /\ ReaderType
BY DEF TypeOK, BufferType, WriterType, SlotType, ReaderType, Headers, Blocks

\* The header of a block that is about to be written.
LEMMA ClearedHeader ==
  ASSUME NEW h \in Headers, NEW n \in -1 .. setup.writes, NEW s \in setup.sizes
  PROVE  LET c == [h EXCEPT !.magic = FALSE, !.seq = n, !.size = s]
         IN c \in Headers /\ ~c.magic /\ c.seq = n /\ c.size = s
BY DEF Headers

\* The header of a block that is written.
LEMMA MarkedHeader ==
  ASSUME NEW h \in Headers, NEW n \in -1 .. setup.writes
  PROVE  LET c == [h EXCEPT !.magic = TRUE, !.crc = n]
         IN c \in Headers /\ c.magic /\ c.crc = n /\ c.seq = h.seq /\ c.size = h.size
BY DEF Headers

\* A unit of its data.
LEMMA DataUnit ==
  ASSUME NEW n \in -1 .. setup.writes, setup.writes \in Nat
  PROVE  LET c == [Blank EXCEPT !.seq = n]
         IN c \in Headers /\ ~c.magic /\ c.seq = n
<1>1. -1 \in -1 .. setup.writes /\ 0 \in setup.sizes \cup {0}
  BY SMTT(30)
<1> QED
  BY <1>1 DEF Headers, Blank

\* write stores what a header can hold.
LEMMA BufferKept ==
  ASSUME TypeOK, Filling, Next
  PROVE  BufferType'
<1> USE SetupFacts
<1>1. BufferType /\ WriterType
  BY TypeParts
<1>2. Offset \in Units
  BY <1>1, OffsetIn DEF WriterType
<1>3. setup' = setup /\ Headers' = Headers
  BY DEF Next, Write, WriterStep, Skip, Adjust, ClearMagic, Fill, SetMagic, Advance, CleanReader, Claim, Register,
     ReadStep, LoadRead, LoadWrite, Validate, Reject, Deliver, Release, Leave, Die, Headers
<1>4. CASE buffer' = buffer
  BY <1>1, <1>3, <1>4 DEF BufferType
<1>5. CASE ClearMagic
  <2>1. size \in setup.sizes /\ sequence - 1 \in -1 .. setup.writes /\ buffer[Offset] \in Headers
    BY SMTT(30), <1>1, <1>2, <1>5 DEF Filling, ClearMagic, WriterType, BufferType
  <2>2. [buffer[Offset] EXCEPT !.magic = FALSE, !.seq = sequence - 1, !.size = size] \in Headers
    BY <2>1, ClearedHeader
  <2> QED
    BY <2>2, <1>1, <1>2, <1>3, <1>5 DEF BufferType, ClearMagic
<1>6. CASE Fill
  <2>1. sequence - 1 \in -1 .. setup.writes /\ setup.writes \in Nat
    BY SMTT(30), <1>1 DEF WriterType
  <2>2. [Blank EXCEPT !.seq = sequence - 1] \in Headers
    BY <2>1, DataUnit
  <2> QED
    BY <2>2, <1>1, <1>3, <1>6 DEF BufferType, Fill
<1>7. CASE SetMagic
  <2>1. sequence - 1 \in -1 .. setup.writes /\ buffer[Offset] \in Headers
    BY SMTT(30), <1>1, <1>2 DEF WriterType, BufferType
  <2>2. [buffer[Offset] EXCEPT !.magic = TRUE, !.crc = sequence - 1] \in Headers
    BY <2>1, MarkedHeader
  <2> QED
    BY <2>2, <1>1, <1>2, <1>3, <1>7 DEF BufferType, SetMagic
<1> QED
  BY <1>4, <1>5, <1>6, <1>7 DEF Next, Write, WriterStep, Skip, Adjust, Advance, CleanReader, Claim, Register,
     ReadStep, LoadRead, LoadWrite, Validate, Reject, Deliver, Release, Leave, Die, control

\* The writer's own state stays in range, and a block inside the buffer.
LEMMA WriterKept ==
  ASSUME TypeOK, Filling, Next
  PROVE  WriterType'
<1> USE SetupFacts
<1>1. WriterType
  BY TypeParts
<1>2. Offset \in Nat /\ Offset < Capacity
  BY <1>1, OffsetIn DEF WriterType
<1>3. CASE UNCHANGED <<setup, writePos, sequence, wvars, starts, skipped>>
  BY <1>1, <1>3 DEF WriterType, wvars, Offset
<1>4. ASSUME NEW s \in setup.sizes, Write(s) PROVE WriterType'
  <2>1. Offset' = Offset /\ s \in 0 .. Capacity - 1 /\ s \in Nat
    BY SMTT(30), <1>1, <1>4 DEF Write, Offset, WriterType
  <2>2. writer' = "clear" => Offset + s < Capacity
    BY SMTT(30), <1>1, <1>2, <1>4, <2>1 DEF Write, Wraps, Offset, WriterType
  <2> QED
    BY SMTT(30), <1>1, <1>4, <2>1, <2>2 DEF Write, WriterType, ghosts
<1>5. CASE Skip
  <2>1. writePos' \in Nat
    BY SMTT(30), <1>1, <1>2, <1>5 DEF Skip, Offset, WriterType
  <2> QED
    BY SMTT(30), <1>1, <1>5, <2>1 DEF Skip, WriterType
<1>6. CASE Adjust
  <2>1. adjusting \in Slots /\ Offset = 0 /\ Offset' = 0
    BY <1>6 DEF Adjust, Filling, Offset
  <2>2. adjusting' \in 0 .. NumSlots
    <3>0. NumSlots + 1 \in Nat \ {0} /\ adjusting + 1 \in Nat
      BY SMTT(30), <1>1, <2>1 DEF WriterType, Slots
    <3>1. PICK q \in Int, r \in 0 .. (NumSlots + 1) - 1 :
            (adjusting + 1) % (NumSlots + 1) = r /\ adjusting + 1 = (NumSlots + 1) * q + r
      BY <3>0, Laps
    <3> QED
      BY SMTT(30), <1>1, <3>1, <1>6 DEF Adjust, WriterType
  <2> QED
    BY SMTT(30), <1>1, <1>6, <2>1, <2>2 DEF Adjust, WriterType, ghosts
<1>7. CASE ClearMagic \/ Fill \/ SetMagic
  BY <1>1, <1>7 DEF ClearMagic, Fill, SetMagic, WriterType, Offset, ghosts
<1>8. CASE Advance
  BY SMTT(30), <1>1, <1>8 DEF Advance, WriterType
<1> QED
  BY <1>3, <1>4, <1>5, <1>6, <1>7, <1>8 DEF Next, WriterStep, CleanReader, Claim, Register,
     ReadStep, LoadRead, LoadWrite, Validate, Reject, Deliver, Release, Leave, Die, control, ghosts

\* The slots hold positions and readers.
LEMMA SlotsKept ==
  ASSUME TypeOK, Filling, Next
  PROVE  SlotType'
<1> USE SetupFacts
<1>1. WriterType /\ SlotType /\ ReaderType
  BY TypeParts
<1>2. MinReadPos \in Nat
  BY <1>1, MinReadPosIs DEF WriterType, SlotType
<1>3. CASE UNCHANGED <<numReaders, active, readPos, pid>>
  BY <1>1, <1>3 DEF SlotType
<1>4. ASSUME NEW i \in Slots, CleanReader(i) PROVE SlotType'
  <2>1. active' \in [Slots -> BOOLEAN]
    BY <1>1, <1>4 DEF CleanReader, SlotType
  <2> QED
    BY SMTT(30), <1>1, <1>4, <2>1 DEF CleanReader, SlotType
<1>5. CASE Adjust
  <2>1. adjusting \in Slots /\ readPos[adjusting] \in Nat /\ writePos \in Nat
    BY <1>1, <1>5 DEF Adjust, Filling, SlotType, WriterType
  <2>2. Max({readPos[adjusting], writePos}) \in Nat
    BY <2>1, MaxIs
  <2>3. readPos' \in [Slots -> Nat]
    BY <1>1, <1>5, <2>1, <2>2 DEF Adjust, SlotType
  <2> QED
    BY <1>1, <1>5, <2>3 DEF Adjust, SlotType
<1>6. ASSUME NEW r \in Readers, Claim(r) PROVE SlotType'
  <2>1. active' \in [Slots -> BOOLEAN]
    BY <1>1, <1>6 DEF Claim, SlotType
  <2> QED
    BY <1>1, <1>6, <2>1 DEF Claim, SlotType
<1>7. ASSUME NEW r \in Readers, Register(r) PROVE SlotType'
  <2>1. slot[r] \in Slots
    BY <1>1, <1>7 DEF Register, At, ReaderType
  <2>2. pid' \in [Slots -> Readers \cup {NoReader}] /\ readPos' \in [Slots -> Nat]
    BY <1>1, <1>7, <2>1 DEF Register, SlotType
  <2> QED
    BY SMTT(30), <1>1, <1>7, <2>2 DEF Register, SlotType
<1>8. ASSUME NEW r \in Readers, LoadWrite(r) \/ Reject(r) \/ Release(r) PROVE SlotType'
  <2>1. reader[r] # "new" /\ slot[r] \in Slots /\ readPos[slot[r]] \in Nat
    BY <1>1, <1>8 DEF LoadWrite, Reject, Release, At, SlotType, ReaderType
  <2>2. block[r].size \in Nat
    <3>1. block[r].size \in setup.sizes \cup {0} /\ setup \in Setups
      BY <1>1 DEF ReaderType, Blocks, WriterType
    <3> QED
      BY SMTT(30), <3>1, SetupFacts
  <2>3. readPos' \in [Slots -> Nat]
    BY SMTT(30), <1>1, <1>2, <1>8, <2>1, <2>2 DEF LoadWrite, Reject, Release, SlotType
  <2> QED
    BY <1>1, <1>8, <2>3 DEF LoadWrite, Reject, Release, SlotType
<1>9. ASSUME NEW r \in Readers, Leave(r) PROVE SlotType'
  <2>1. active' \in [Slots -> BOOLEAN]
    BY <1>1, <1>9 DEF Leave, SlotType
  <2> QED
    BY SMTT(30), <1>1, <1>9, <2>1 DEF Leave, SlotType
<1> QED
  BY <1>3, <1>4, <1>5, <1>6, <1>7, <1>8, <1>9 DEF Next, Write, WriterStep, Skip, ClearMagic, Fill, SetMagic,
     Advance, ReadStep, LoadRead, Validate, Deliver, Die, control

\* The readers' own state stays in range: the blocks they are given lie in the buffer.
LEMMA ReadersKept ==
  ASSUME TypeOK, Filling, Next
  PROVE  ReaderType'
<1> USE SetupFacts
<1>1. BufferType /\ WriterType /\ SlotType /\ ReaderType
  BY TypeParts
<1>2. setup' = setup /\ Blocks' = Blocks
  BY DEF Next, Write, WriterStep, Skip, Adjust, ClearMagic, Fill, SetMagic, Advance, CleanReader, Claim, Register,
     ReadStep, LoadRead, LoadWrite, Validate, Reject, Deliver, Release, Leave, Die, Blocks
<1>3. CASE UNCHANGED <<rvars, dead, disturbed>>
  BY <1>1, <1>2, <1>3 DEF ReaderType, rvars
<1>4. ASSUME NEW i \in Slots, CleanReader(i) PROVE ReaderType'
  <2>1. disturbed' \subseteq Readers
    BY <1>1, <1>4 DEF CleanReader, Others, ReaderType
  <2> QED
    BY <1>1, <1>2, <1>4, <2>1 DEF CleanReader, ReaderType, rvars
<1>5. ASSUME NEW r \in Readers, Claim(r) PROVE ReaderType'
  <2> DEFINE free == {i \in Slots : ~active[i]}
  <2>1. Min(free) \in Slots /\ Min(free) \in 0 .. NumSlots
    BY SMTT(30), <1>5, FreeSlot DEF Claim, Slots
  <2>2. slot' \in [Readers -> 0 .. NumSlots] /\ slot'[r] = Min(free) /\ \A q \in Readers \ {r} : slot'[q] = slot[q]
    BY <1>1, <1>5, <2>1 DEF Claim, ReaderType
  <2>3. /\ reader' \in [Readers -> {"new", "claimed", "idle", "reading", "loaded", "checked", "holding", "gone"}]
        /\ \A q \in Readers \ {r} : reader'[q] = reader[q]
    BY <1>1, <1>5 DEF Claim, Goto, ReaderType
  <2>4. disturbed' \subseteq Readers
    BY <1>1, <1>5 DEF Claim, ReaderType
  <2>5. \A q \in Readers : reader'[q] # "new" => slot'[q] \in Slots
    BY <1>1, <2>1, <2>2, <2>3 DEF ReaderType
  <2> QED
    BY <1>1, <1>2, <1>5, <2>2, <2>3, <2>4, <2>5 DEF Claim, ReaderType
<1>6. ASSUME NEW r \in Readers, Register(r) \/ ReadStep(r) \/ Leave(r) PROVE ReaderType'
  <2>1. slot' = slot /\ reader[r] # "new" /\ slot[r] \in Slots
    BY <1>1, <1>6 DEF Register, ReadStep, LoadRead, LoadWrite, Validate, Reject, Deliver, Release, Leave, At, ReaderType
  <2>2. /\ reader' \in [Readers -> {"new", "claimed", "idle", "reading", "loaded", "checked", "holding", "gone"}]
        /\ \A q \in Readers \ {r} : reader'[q] = reader[q]
    BY <1>1, <1>6 DEF Register, ReadStep, LoadRead, LoadWrite, Validate, Reject, Deliver, Release, Leave, Goto, ReaderType
  <2>3. \A q \in Readers : reader'[q] # "new" => slot'[q] \in Slots
    BY <1>1, <2>1, <2>2 DEF ReaderType
  <2>4. seen' \in [Readers -> [read : Nat, write : Nat]]
    <3>1. CASE seen' = seen
      BY <1>1, <3>1 DEF ReaderType
    <3>2. CASE LoadRead(r)
      <4>1. readPos[slot[r]] \in Nat
        BY <1>1, <2>1 DEF SlotType
      <4> QED
        BY <1>1, <3>2, <4>1 DEF LoadRead, ReaderType
    <3>3. CASE LoadWrite(r)
      <4>1. MinReadPos \in Nat /\ writePos \in Nat /\ seen[r].read \in Nat
        BY <1>1, MinReadPosIs DEF WriterType, SlotType, ReaderType
      <4>2. Max({seen[r].read, MinReadPos}) \in Nat
        BY <4>1, MaxIs
      <4> QED
        BY <1>1, <3>3, <4>1, <4>2 DEF LoadWrite, ReaderType
    <3> QED
      BY <1>6, <3>1, <3>2, <3>3 DEF Register, ReadStep, Validate, Reject, Deliver, Release, Leave
  <2>5. block' \in [Readers -> Blocks] /\ last' \in [Readers -> -1 .. setup.writes]
    <3>1. CASE UNCHANGED <<block, last>>
      BY <1>1, <3>1 DEF ReaderType
    <3>2. CASE Deliver(r)
      <4>1. Place(r) \in Units
        <5>1. seen[r].read \in Nat /\ Capacity \in Nat \ {0}
          BY <1>1 DEF ReaderType, WriterType
        <5>2. PICK q \in Int, o \in 0 .. Capacity - 1 : seen[r].read % Capacity = o /\ seen[r].read = Capacity * q + o
          BY <5>1, Laps
        <5> QED
          BY <5>2 DEF Place, Units
      <4>2. Header(r) \in Headers
        BY <1>1, <4>1 DEF BufferType, Header
      <4>3. [at |-> Place(r), seq |-> Header(r).seq, size |-> Header(r).size] \in Blocks
        BY <4>1, <4>2 DEF Headers, Blocks
      <4>4. Header(r).seq \in -1 .. setup.writes
        BY <4>2 DEF Headers
      <4> QED
        BY <1>1, <3>2, <4>3, <4>4 DEF Deliver, ReaderType
    <3>3. CASE Release(r)
      <4>1. NoBlock \in Blocks
        BY SMTT(30), <1>1 DEF NoBlock, Blocks, Units, WriterType
      <4> QED
        BY <1>1, <3>3, <4>1 DEF Release, ReaderType
    <3> QED
      BY <1>6, <3>1, <3>2, <3>3 DEF Register, ReadStep, LoadRead, LoadWrite, Validate, Reject, Leave
  <2>6. disturbed' \subseteq Readers
    BY <1>1, <1>6 DEF Register, ReadStep, LoadRead, LoadWrite, Validate, Reject, Deliver, Release, Leave, Others, ReaderType, ghosts
  <2>7. dead' = dead
    BY <1>6 DEF Register, ReadStep, LoadRead, LoadWrite, Validate, Reject, Deliver, Release, Leave
  <2> QED
    BY <1>1, <1>2, <2>1, <2>2, <2>3, <2>4, <2>5, <2>6, <2>7 DEF ReaderType
<1>7. ASSUME NEW r \in Readers, Die(r) PROVE ReaderType'
  BY <1>1, <1>2, <1>7 DEF Die, ReaderType, rvars, ghosts
<1> QED
  BY <1>3, <1>4, <1>5, <1>6, <1>7 DEF Next, Write, WriterStep, Skip, Adjust, ClearMagic, Fill, SetMagic,
     Advance, ghosts

\* Every step keeps the types.
LEMMA TypeKept ==
  ASSUME TypeOK, Filling, Next
  PROVE  TypeOK'
<1>1. (BufferType /\ WriterType /\ SlotType /\ ReaderType)'
  BY BufferKept, WriterKept, SlotsKept, ReadersKept
<1> QED
  BY <1>1 DEF TypeOK, BufferType, WriterType, SlotType, ReaderType, Headers, Blocks

-----------------------------------------------------------------------------
(* The writer *)

\* What the steps of the readers, and the clean-up of dead ones, leave alone.
Bystander == UNCHANGED <<setup, buffer, writePos, sequence, writer, size, adjusting, starts, skipped>>

\* What a step of write leaves alone.
OnlyWriter == UNCHANGED <<setup, active, rvars, dead, disturbed>>

ReaderAction(r) == Claim(r) \/ Register(r) \/ ReadStep(r) \/ Leave(r) \/ Die(r)

\* The steps, by what they change.
LEMMA Steps ==
  ASSUME Next
  PROVE  \/ Bystander /\ \/ \E i \in Slots : CleanReader(i)
                         \/ \E r \in Readers : ReaderAction(r)
         \/ OnlyWriter /\ \/ \E s \in setup.sizes : Write(s)
                          \/ WriterStep
<1>1. ASSUME NEW i \in Slots, CleanReader(i) PROVE Bystander
  BY <1>1 DEF CleanReader, Bystander, wvars
<1>2. ASSUME NEW r \in Readers, ReaderAction(r) PROVE Bystander
  BY <1>2 DEF ReaderAction, Claim, Register, ReadStep, LoadRead, LoadWrite, Validate, Reject, Deliver, Release,
     Leave, Die, Bystander, wvars, control, ghosts
<1>3. ASSUME NEW s \in setup.sizes, Write(s) PROVE OnlyWriter
  BY <1>3 DEF Write, OnlyWriter, ghosts
<1>4. WriterStep => OnlyWriter
  BY DEF WriterStep, Skip, Adjust, ClearMagic, Fill, SetMagic, Advance, OnlyWriter, ghosts
<1> QED
  BY <1>1, <1>2, <1>3, <1>4 DEF Next, ReaderAction

\* What the stores of write leave in the buffer.
LEMMA Stores ==
  ASSUME TypeOK, Filling
  PROVE  /\ ClearMagic =>
              /\ ~buffer'[Offset].magic /\ buffer'[Offset].seq = sequence - 1 /\ buffer'[Offset].size = size
              /\ \A u \in Units \ {Offset} : buffer'[u] = buffer[u]
         /\ Fill =>
              /\ \A u \in Units : u \in Offset + 1 .. Offset + size =>
                   ~buffer'[u].magic /\ buffer'[u].seq = sequence - 1
              /\ \A u \in Units : u \notin Offset + 1 .. Offset + size => buffer'[u] = buffer[u]
         /\ SetMagic =>
              /\ buffer'[Offset].magic /\ buffer'[Offset].crc = sequence - 1
              /\ buffer'[Offset].seq = buffer[Offset].seq /\ buffer'[Offset].size = buffer[Offset].size
              /\ \A u \in Units \ {Offset} : buffer'[u] = buffer[u]
<1>1. BufferType /\ WriterType
  BY TypeParts
<1>2. /\ Offset \in Units /\ buffer[Offset] \in Headers
      /\ sequence - 1 \in -1 .. setup.writes /\ setup.writes \in Nat /\ setup \in Setups
  BY SMTT(30), <1>1, OffsetIn, SetupFacts DEF WriterType, BufferType
<1>3. ASSUME ClearMagic
      PROVE  /\ ~buffer'[Offset].magic /\ buffer'[Offset].seq = sequence - 1 /\ buffer'[Offset].size = size
             /\ \A u \in Units \ {Offset} : buffer'[u] = buffer[u]
  <2>1. size \in setup.sizes
    BY <1>3 DEF ClearMagic, Filling
  <2> DEFINE c == [buffer[Offset] EXCEPT !.magic = FALSE, !.seq = sequence - 1, !.size = size]
  <2>2. ~c.magic /\ c.seq = sequence - 1 /\ c.size = size
    <3>1. buffer[Offset] \in Headers /\ sequence - 1 \in -1 .. setup.writes
      BY <1>2
    <3> QED
      BY <3>1 DEF Headers
  <2>3. buffer' = [buffer EXCEPT ![Offset] = c]
    BY <1>3 DEF ClearMagic
  <2> HIDE DEF c
  <2>4. buffer'[Offset] = c /\ \A u \in Units \ {Offset} : buffer'[u] = buffer[u]
    BY <1>1, <1>2, <2>3 DEF BufferType
  <2> QED
    BY <2>2, <2>4
<1>4. ASSUME Fill
      PROVE  /\ \A u \in Units : u \in Offset + 1 .. Offset + size =>
                  ~buffer'[u].magic /\ buffer'[u].seq = sequence - 1
             /\ \A u \in Units : u \notin Offset + 1 .. Offset + size => buffer'[u] = buffer[u]
  <2> DEFINE c == [Blank EXCEPT !.seq = sequence - 1]
  <2>1. ~c.magic /\ c.seq = sequence - 1
    BY <1>2, DataUnit
  <2>2. buffer' = [u \in Units |-> IF u \in Offset + 1 .. Offset + size THEN c ELSE buffer[u]]
    BY <1>4 DEF Fill
  <2> HIDE DEF c
  <2> QED
    BY <2>1, <2>2
<1>5. ASSUME SetMagic
      PROVE  /\ buffer'[Offset].magic /\ buffer'[Offset].crc = sequence - 1
             /\ buffer'[Offset].seq = buffer[Offset].seq /\ buffer'[Offset].size = buffer[Offset].size
             /\ \A u \in Units \ {Offset} : buffer'[u] = buffer[u]
  <2> DEFINE c == [buffer[Offset] EXCEPT !.magic = TRUE, !.crc = sequence - 1]
  <2>1. c.magic /\ c.crc = sequence - 1 /\ c.seq = buffer[Offset].seq /\ c.size = buffer[Offset].size
    BY <1>2, MarkedHeader
  <2>2. buffer' = [buffer EXCEPT ![Offset] = c]
    BY <1>5 DEF SetMagic
  <2> HIDE DEF c
  <2>3. buffer'[Offset] = c /\ \A u \in Units \ {Offset} : buffer'[u] = buffer[u]
    BY <1>1, <1>2, <2>2 DEF BufferType
  <2> QED
    BY <2>1, <2>3
<1> QED
  BY <1>3, <1>4, <1>5

\* Where the writer goes: over the end of the ring to its beginning, or past the block.
LEMMA Moves ==
  ASSUME TypeOK, Filling
  PROVE  /\ Skip => Offset' = 0
         /\ Advance => Offset' = IF Offset + 1 + size = Capacity THEN 0 ELSE Offset + 1 + size
         /\ writePos' = writePos => Offset' = Offset
<1>1. /\ writePos \in Nat /\ Capacity \in Nat \ {0} /\ Offset \in Nat /\ Offset < Capacity
      /\ size \in Nat /\ (Advance => Offset + size < Capacity)
  BY SMTT(30), TypeParts, OffsetIn, SetupFacts DEF WriterType, Advance
<1>2. ASSUME Skip PROVE Offset' = 0
  <2>1. Capacity - Offset \in Nat /\ (writePos % Capacity) + (Capacity - Offset) = Capacity
    BY SMTT(30), <1>1 DEF Offset
  <2>2. (writePos + (Capacity - Offset)) % Capacity = 0
    BY <1>1, <2>1, OffsetEnd
  <2>3. writePos' = writePos + (Capacity - Offset)
    BY <1>1, <1>2 DEF Skip, Offset
  <2> QED
    BY <2>2, <2>3 DEF Offset
<1>3. ASSUME Advance PROVE Offset' = IF Offset + 1 + size = Capacity THEN 0 ELSE Offset + 1 + size
  <2>1. writePos' = writePos + (1 + size) /\ 1 + size \in Nat
    BY SMTT(30), <1>1, <1>3 DEF Advance
  <2>2. CASE Offset + 1 + size = Capacity
    <3>1. (writePos % Capacity) + (1 + size) = Capacity
      BY SMTT(30), <1>1, <2>2 DEF Offset
    <3>2. (writePos + (1 + size)) % Capacity = 0
      BY <1>1, <2>1, <3>1, OffsetEnd
    <3> QED
      BY <2>1, <2>2, <3>2 DEF Offset
  <2>3. CASE Offset + 1 + size # Capacity
    <3>1. (writePos % Capacity) + (1 + size) < Capacity
      BY SMTT(30), <1>1, <1>3, <2>3 DEF Offset
    <3>2. (writePos + (1 + size)) % Capacity = (writePos % Capacity) + (1 + size)
      BY <1>1, <2>1, <3>1, OffsetAdd
    <3>3. Offset' = Offset + (1 + size)
      BY <2>1, <3>2 DEF Offset
    <3> QED
      BY SMTT(30), <1>1, <2>3, <3>3
  <2> QED
    BY <2>2, <2>3
<1> QED
  BY <1>2, <1>3 DEF Offset

\* A bystander keeps what is known of the writer and of the buffer.
LEMMA BystanderKeeps ==
  ASSUME Bystander
  PROVE  (Filling => Filling') /\ (Whole => Whole') /\ (Laid => Laid')
BY DEF Bystander, Filling, Whole, Laid, Offset, Start, Wraps

\* write stores the header, the data and the magic in this order.
LEMMA FillingKept ==
  ASSUME TypeOK, Filling, Next
  PROVE  Filling'
<1>1. /\ writePos \in Nat /\ Capacity \in Nat \ {0} /\ NumSlots \in Nat \ {0} /\ Offset \in Nat /\ Offset < Capacity
      /\ size \in Nat /\ adjusting \in 0 .. NumSlots /\ setup \in Setups
      /\ writer \in {"clear", "fill", "magic", "advance"} => Offset + size < Capacity
  BY SMTT(30), TypeParts, OffsetIn, SetupFacts DEF WriterType
<1>2. ASSUME NEW s \in setup.sizes, Write(s) PROVE Filling'
  <2>1. Wraps(s)' = Wraps(s) /\ size' = s /\ setup' = setup /\ writer' = IF Wraps(s) THEN "skip" ELSE "clear"
    BY <1>2 DEF Write, Wraps
  <2> QED
    BY <2>1 DEF Filling, Wraps
<1>3. CASE Skip
  <2>1. Offset' = 0 /\ writer' = "adjust" /\ adjusting' = 1 /\ skipped' /\ size' = size /\ setup' = setup /\ size \in setup.sizes
    BY <1>3, Moves DEF Skip, Filling
  <2> QED
    BY SMTT(30), <2>1, <1>1 DEF Filling, Slots
<1>4. CASE Adjust
  <2>1. /\ adjusting \in Slots /\ Offset' = 0 /\ skipped' /\ size' = size /\ setup' = setup /\ size \in setup.sizes
        /\ writer' = IF adjusting = NumSlots THEN "clear" ELSE "adjust"
        /\ adjusting' = (adjusting + 1) % (NumSlots + 1)
    BY <1>4, Moves DEF Adjust, Filling, ghosts
  <2>2. adjusting # NumSlots => adjusting' \in Slots
    <3> SUFFICES ASSUME adjusting # NumSlots PROVE adjusting' \in Slots
      OBVIOUS
    <3>1. /\ NumSlots + 1 \in Nat \ {0} /\ adjusting + 1 \in 0 .. (NumSlots + 1) - 1
          /\ (NumSlots + 1) * 0 + (adjusting + 1) = adjusting + 1 /\ 0 \in Int
      BY SMTT(30), <1>1, <2>1 DEF Slots
    <3>2. ((NumSlots + 1) * 0 + (adjusting + 1)) % (NumSlots + 1) = adjusting + 1
      BY <3>1, Remainder
    <3> QED
      BY SMTT(30), <1>1, <2>1, <3>1, <3>2 DEF Slots
  <2> QED
    BY <2>1, <2>2 DEF Filling
<1>5. CASE ClearMagic
  <2>1. /\ Offset' = Offset /\ size' = size /\ setup' = setup /\ sequence' = sequence /\ writer' = "fill"
        /\ size \in setup.sizes
    BY <1>5, Moves DEF ClearMagic, Filling
  <2>2. ~buffer'[Offset].magic /\ buffer'[Offset].seq = sequence - 1 /\ buffer'[Offset].size = size
    BY <1>5, Stores
  <2> QED
    BY <2>1, <2>2 DEF Filling
<1>6. CASE Fill
  <2>1. /\ Offset' = Offset /\ size' = size /\ setup' = setup /\ sequence' = sequence /\ writer' = "magic"
        /\ size \in setup.sizes
        /\ ~buffer[Offset].magic /\ buffer[Offset].seq = sequence - 1 /\ buffer[Offset].size = size
    BY <1>6, Moves DEF Fill, Filling
  <2>2. /\ Offset \in Units /\ Offset \notin Offset + 1 .. Offset + size
        /\ \A u \in Offset + 1 .. Offset + size : u \in Units
    BY SMTT(30), <1>1, <1>6 DEF Units, Fill
  <2>3. buffer'[Offset] = buffer[Offset]
    BY <1>6, <2>2, Stores
  <2>4. \A u \in Offset + 1 .. Offset + size : buffer'[u].seq = sequence - 1 /\ ~buffer'[u].magic
    BY <1>6, <2>2, Stores
  <2> QED
    BY <2>1, <2>3, <2>4 DEF Filling
<1>7. CASE SetMagic
  <2>1. /\ Offset' = Offset /\ size' = size /\ setup' = setup /\ sequence' = sequence /\ writer' = "advance"
        /\ size \in setup.sizes /\ buffer[Offset].seq = sequence - 1 /\ buffer[Offset].size = size
    BY <1>7, Moves DEF SetMagic, Filling
  <2>2. \A u \in Offset + 1 .. Offset + size : u \in Units \ {Offset}
    BY SMTT(30), <1>1, <1>7 DEF Units, SetMagic
  <2>3. \A u \in Offset + 1 .. Offset + size : buffer'[u].seq = sequence - 1 /\ ~buffer'[u].magic
    <3>1. \A u \in Offset + 1 .. Offset + size : buffer[u].seq = sequence - 1 /\ ~buffer[u].magic
      BY <1>7 DEF SetMagic, Filling
    <3> QED
      BY <1>7, <2>2, <3>1, Stores
  <2>4. buffer'[Offset].magic /\ buffer'[Offset].seq = sequence - 1 /\ buffer'[Offset].size = size
    BY <1>7, <2>1, Stores
  <2> QED
    BY <2>1, <2>3, <2>4 DEF Filling
<1>8. CASE Advance
  BY <1>8 DEF Advance, Filling
<1> QED
  BY <1>2, <1>3, <1>4, <1>5, <1>6, <1>7, <1>8, BystanderKeeps, Steps DEF WriterStep

\* No block is laid over the data of another before it is laid over its header.
LEMMA WholeKept ==
  ASSUME TypeOK, Filling, Whole, Next
  PROVE  Whole'
<1>1. /\ writePos \in Nat /\ Capacity \in Nat \ {0} /\ Offset \in Units /\ Offset \in Nat /\ Offset < Capacity
      /\ size \in Nat /\ setup \in Setups
      /\ writer \in {"clear", "fill", "magic", "advance"} => Offset + size < Capacity
  BY SMTT(30), TypeParts, OffsetIn, SetupFacts DEF WriterType
<1>2. \A h \in Units : h \in Nat /\ h < Capacity /\ buffer[h].size \in Nat
  <2>1. \A h \in Units : buffer[h] \in Headers
    BY TypeParts DEF BufferType
  <2>2. \A x \in setup.sizes \cup {0} : x \in Nat
    BY SMTT(30), <1>1, SetupFacts
  <2> QED
    BY SMTT(30), <1>1, <2>1, <2>2 DEF Units, Headers
<1>3. \A h \in Units : buffer[h].magic => \A u \in h + 1 .. h + buffer[h].size : u \in Units /\ u # h
  BY SMTT(30), <1>1, <1>2 DEF Whole, Units
<1>4. ASSUME buffer' = buffer, Offset' = Offset PROVE Whole'
  BY <1>4 DEF Whole
<1>5. CASE Skip
  <2>1. Offset' = 0 /\ buffer' = buffer
    BY <1>5, Moves DEF Skip
  <2> QED
    BY SMTT(30), <2>1, <1>2 DEF Whole
<1>6. CASE ClearMagic
  <2>1. Offset' = Offset /\ ~buffer'[Offset].magic /\ \A u \in Units \ {Offset} : buffer'[u] = buffer[u]
    BY <1>6, Moves, Stores DEF ClearMagic
  <2>2. ASSUME NEW h \in Units, buffer'[h].magic
        PROVE  buffer'[h] = buffer[h] /\ \A u \in h + 1 .. h + buffer[h].size : buffer'[u] = buffer[u]
    <3>1. h # Offset /\ buffer'[h] = buffer[h] /\ buffer[h].magic
      BY <2>1, <2>2
    <3>2. Offset \notin h + 1 .. h + buffer[h].size
      BY SMTT(30), <3>1, <1>1, <1>2 DEF Whole
    <3> QED
      BY <3>1, <3>2, <2>1, <1>3
  <2> QED
    BY SMTT(30), <2>1, <2>2 DEF Whole
<1>7. CASE Fill
  <2>1. /\ Offset' = Offset /\ ~buffer[Offset].magic /\ Offset + size < Capacity
        /\ \A u \in Units : u \in Offset + 1 .. Offset + size => ~buffer'[u].magic
        /\ \A u \in Units : u \notin Offset + 1 .. Offset + size => buffer'[u] = buffer[u]
    BY <1>1, <1>7, Moves, Stores DEF Fill, Filling
  <2>2. ASSUME NEW h \in Units, buffer'[h].magic
        PROVE  buffer'[h] = buffer[h] /\ \A u \in h + 1 .. h + buffer[h].size : buffer'[u] = buffer[u]
    <3>1. h \notin Offset + 1 .. Offset + size /\ h # Offset /\ buffer'[h] = buffer[h] /\ buffer[h].magic
      BY <2>1, <2>2
    <3>2. \A u \in h + 1 .. h + buffer[h].size : u \notin Offset + 1 .. Offset + size
      BY SMTT(30), <3>1, <1>1, <1>2 DEF Whole
    <3> QED
      BY <3>1, <3>2, <2>1, <1>3
  <2> QED
    BY SMTT(30), <2>1, <2>2 DEF Whole
<1>8. CASE SetMagic
  <2>1. /\ Offset' = Offset /\ buffer'[Offset].crc = sequence - 1
        /\ buffer'[Offset].seq = buffer[Offset].seq /\ buffer'[Offset].size = buffer[Offset].size
        /\ \A u \in Units \ {Offset} : buffer'[u] = buffer[u]
    BY <1>8, Moves, Stores DEF SetMagic
  <2>2. /\ buffer[Offset].seq = sequence - 1 /\ buffer[Offset].size = size /\ Offset + size < Capacity
        /\ \A u \in Offset + 1 .. Offset + size : buffer[u].seq = sequence - 1
    BY <1>1, <1>8 DEF SetMagic, Filling
  <2>3. \A u \in Units : buffer'[u].seq = buffer[u].seq /\ buffer'[u].size = buffer[u].size
    BY <2>1
  <2>4. ASSUME NEW h \in Units, buffer'[h].magic
        PROVE  /\ buffer'[h].crc = buffer'[h].seq /\ h + buffer'[h].size < Capacity
               /\ \A u \in h + 1 .. h + buffer'[h].size : buffer'[u].seq = buffer'[h].seq
               /\ h < Offset => h + buffer'[h].size < Offset
    <3>1. CASE h = Offset
      <4>1. \A u \in Offset + 1 .. Offset + size : u \in Units
        BY SMTT(30), <1>1, <2>2 DEF Units
      <4> QED
        BY SMTT(30), <1>1, <2>1, <2>2, <2>3, <3>1, <4>1
    <3>2. CASE h # Offset
      <4>1. buffer'[h] = buffer[h] /\ buffer[h].magic
        BY <2>1, <2>4, <3>2
      <4> QED
        BY SMTT(30), <4>1, <2>3, <1>3 DEF Whole
    <3> QED
      BY <3>1, <3>2
  <2> QED
    BY <2>1, <2>4 DEF Whole
<1>9. CASE Advance
  <2>1. /\ buffer' = buffer /\ Offset' = IF Offset + 1 + size = Capacity THEN 0 ELSE Offset + 1 + size
        /\ buffer[Offset].size = size /\ \A u \in Offset + 1 .. Offset + size : ~buffer[u].magic
    BY <1>9, Moves DEF Advance, Filling
  <2>2. ASSUME NEW h \in Units, buffer[h].magic, h < Offset' PROVE h + buffer[h].size < Offset'
    <3>0. h \notin Offset + 1 .. Offset + size
      BY <2>1, <2>2
    <3>1. Offset' = Offset + 1 + size /\ h \in Nat /\ h \notin Offset + 1 .. Offset + size
      BY SMTT(30), <1>1, <1>2, <2>1, <2>2, <3>0
    <3>2. h < Offset \/ h = Offset
      BY SMTT(30), <1>1, <2>2, <3>1
    <3>3. h < Offset => h + buffer[h].size < Offset
      BY <2>2 DEF Whole
    <3> QED
      BY SMTT(30), <1>1, <1>2, <2>1, <3>1, <3>2, <3>3
  <2> QED
    BY <2>1, <2>2 DEF Whole
<1>10. (\E s \in setup.sizes : Write(s)) \/ Adjust => buffer' = buffer /\ Offset' = Offset
  BY DEF Write, Adjust, Offset
<1> QED
  BY <1>4, <1>5, <1>6, <1>7, <1>8, <1>9, <1>10, BystanderKeeps, Steps DEF WriterStep

\* The blocks begin one after the other, the first at 0.
LEMMA LaidKept ==
  ASSUME TypeOK, Laid, Next
  PROVE  Laid'
<1>1. writePos \in Nat /\ starts \in Seq(Nat) /\ Len(starts) \in Nat /\ sequence \in Nat /\ size \in Nat /\ skipped \in BOOLEAN
  BY SMTT(30), TypeParts, SetupFacts DEF WriterType
<1>2. ASSUME NEW s \in setup.sizes, Write(s) PROVE Laid'
  BY SMTT(30), <1>1, <1>2 DEF Write, Laid, Start, ghosts
<1>3. CASE Skip
  <2>1. writePos' \in Nat /\ writePos' >= writePos /\ starts' = starts /\ sequence' = sequence /\ skipped'
        /\ writer = "skip" /\ writer' = "adjust"
    BY SMTT(30), <1>3, OffsetIn, SetupFacts, TypeParts DEF Skip, Offset, WriterType
  <2> QED
    BY SMTT(30), <1>1, <2>1 DEF Laid
<1>4. CASE Adjust \/ ClearMagic \/ Fill \/ SetMagic
  BY <1>4 DEF Adjust, ClearMagic, Fill, SetMagic, Laid, Start, ghosts
<1>5. CASE Advance
  <2>1. /\ starts' = Append(starts, writePos) /\ writePos' = writePos + 1 + size /\ sequence' = sequence
        /\ writer = "advance" /\ writer' = "idle" /\ skipped' = skipped
    BY <1>5 DEF Advance
  <2>2. /\ Len(starts') = Len(starts) + 1 /\ starts'[Len(starts) + 1] = writePos
        /\ \A k \in 1 .. Len(starts) : starts'[k] = starts[k]
    BY SMTT(30), <1>1, <2>1
  <2>3. Len(starts') = sequence
    BY SMTT(30), <1>1, <2>1, <2>2 DEF Laid
  <2>4. Start(0)' = Start(0)
    BY SMTT(30), <1>1, <2>2 DEF Start
  <2>5. \A k \in 1 .. Len(starts') : k \in 1 .. Len(starts) \/ k = Len(starts) + 1
    BY SMTT(30), <1>1, <2>2
  <2>6. \A k \in 1 .. Len(starts) : starts[k] \in Nat
    BY SMTT(30), <1>1
  <2>7. \A k \in 1 .. Len(starts') : starts'[k] < writePos'
    BY SMTT(30), <1>1, <2>1, <2>2, <2>5, <2>6 DEF Laid
  <2>8. \A j, k \in 1 .. Len(starts') : j < k => starts'[j] < starts'[k]
    BY SMTT(30), <1>1, <2>2, <2>5 DEF Laid
  <2> QED
    BY <2>1, <2>3, <2>4, <2>7, <2>8 DEF Laid
<1> QED
  BY <1>2, <1>3, <1>4, <1>5, BystanderKeeps, Steps DEF WriterStep

-----------------------------------------------------------------------------
(* The readers *)

\* Until the first write the readers find nothing and stay where they are.
LEMMA UntouchedKept ==
  ASSUME TypeOK, Laid, Untouched, Next
  PROVE  Untouched'
<1> SUFFICES ASSUME sequence' = 0
             PROVE  /\ writePos' = 0 /\ writer' = "idle"
                    /\ \A i \in Slots : readPos'[i] = 0
                    /\ \A r \in Readers : /\ reader'[r] \in {"new", "claimed", "idle", "reading", "gone"}
                                          /\ seen'[r].read = 0 /\ last'[r] = -1
  BY DEF Untouched
<1>1. WriterType /\ SlotType /\ ReaderType
  BY TypeParts
<1>2. sequence = 0
  <2>1. ASSUME NEW s \in setup.sizes, Write(s) PROVE FALSE
    BY SMTT(30), <1>1, <2>1, SetupFacts DEF Write, WriterType
  <2>2. WriterStep \/ Bystander => sequence' = sequence
    BY DEF WriterStep, Skip, Adjust, ClearMagic, Fill, SetMagic, Advance, Bystander
  <2> QED
    BY <2>1, <2>2, Steps
<1>3. /\ writePos = 0 /\ writer = "idle" /\ \A i \in Slots : readPos[i] = 0
      /\ \A r \in Readers : reader[r] \in {"new", "claimed", "idle", "reading", "gone"}
      /\ \A r \in Readers : seen[r].read = 0 /\ last[r] = -1
  BY <1>2 DEF Untouched
<1>4. ~WriterStep /\ ~\E s \in setup.sizes : Write(s)
  <2>1. ASSUME NEW s \in setup.sizes, Write(s) PROVE FALSE
    BY SMTT(30), <1>2, <2>1 DEF Write
  <2> QED
    BY <1>3, <2>1 DEF WriterStep, Skip, Adjust, ClearMagic, Fill, SetMagic, Advance
<1>5. Bystander /\ ((\E i \in Slots : CleanReader(i)) \/ \E r \in Readers : ReaderAction(r))
  BY <1>4, Steps
<1>6. MinReadPos = 0
  <2>1. MinReadPos \in Nat /\ MinReadPos <= writePos
    BY <1>1, MinReadPosIs DEF WriterType, SlotType
  <2> QED
    BY SMTT(30), <1>3, <2>1
<1>7. writePos' = 0 /\ writer' = "idle"
  BY <1>3, <1>5 DEF Bystander
<1>8. CASE UNCHANGED <<readPos, reader, seen, last>>
  BY <1>3, <1>7, <1>8
<1>9. ASSUME NEW r \in Readers, Claim(r) \/ Leave(r)
      PROVE  /\ UNCHANGED <<readPos, seen, last>>
             /\ \A q \in Readers : reader'[q] \in {"new", "claimed", "idle", "reading", "gone"}
  BY <1>1, <1>3, <1>9 DEF Claim, Leave, Goto, ReaderType
<1>10. ASSUME NEW r \in Readers, Register(r)
       PROVE  /\ \A i \in Slots : readPos'[i] = 0
              /\ UNCHANGED <<seen, last>>
              /\ \A q \in Readers : reader'[q] \in {"new", "claimed", "idle", "reading", "gone"}
  BY <1>1, <1>3, <1>10 DEF Register, Goto, ReaderType, SlotType
<1>11. ASSUME NEW r \in Readers, LoadRead(r)
       PROVE  /\ UNCHANGED <<readPos, last>>
              /\ \A q \in Readers : seen'[q].read = 0
              /\ \A q \in Readers : reader'[q] \in {"new", "claimed", "idle", "reading", "gone"}
  <2>1. slot[r] \in Slots /\ readPos[slot[r]] = 0
    BY <1>1, <1>3, <1>11 DEF LoadRead, At, ReaderType
  <2> QED
    BY <1>1, <1>3, <1>11, <2>1 DEF LoadRead, Goto, ReaderType, control
<1>12. ASSUME NEW r \in Readers, LoadWrite(r)
       PROVE  /\ readPos' = readPos /\ last' = last
              /\ \A q \in Readers : seen'[q].read = 0
              /\ \A q \in Readers : reader'[q] \in {"new", "claimed", "idle", "reading", "gone"}
  <2>1. seen[r].read = 0 /\ Max({seen[r].read, MinReadPos}) = 0
    BY <1>3, <1>6, MaxIs
  <2>2. slot[r] \in Slots /\ readPos[slot[r]] = 0
    BY <1>1, <1>3, <1>12 DEF LoadWrite, At, ReaderType
  <2>3. reader' = [reader EXCEPT ![r] = "idle"] /\ seen' = [seen EXCEPT ![r] = [read |-> 0, write |-> writePos]]
    <3>1. ~(Max({seen[r].read, MinReadPos}) < writePos)
      BY SMTT(30), <1>3, <2>1
    <3> QED
      BY <1>12, <2>1, <3>1 DEF LoadWrite, Goto
  <2>4. readPos' = [readPos EXCEPT ![slot[r]] = readPos[slot[r]]]
    BY SMTT(30), <1>6, <1>12, <2>1 DEF LoadWrite
  <2>5. readPos' = readPos
    BY <1>1, <2>2, <2>4 DEF SlotType
  <2> QED
    BY SMTT(30), <1>1, <1>3, <1>12, <2>3, <2>5 DEF LoadWrite, ReaderType
<1>13. ASSUME NEW r \in Readers PROVE ~Validate(r) /\ ~Reject(r) /\ ~Deliver(r) /\ ~Release(r)
  BY <1>3 DEF Validate, Reject, Deliver, Release, At
<1>14. (\E i \in Slots : CleanReader(i)) \/ (\E r \in Readers : Die(r)) => UNCHANGED <<readPos, reader, seen, last>>
  BY DEF CleanReader, Die, control, rvars
<1> QED
  <2>1. ASSUME NEW r \in Readers, ReaderAction(r)
        PROVE  /\ \A i \in Slots : readPos'[i] = 0
               /\ \A q \in Readers : reader'[q] \in {"new", "claimed", "idle", "reading", "gone"}
               /\ \A q \in Readers : seen'[q].read = 0 /\ last'[q] = -1
    BY <1>3, <1>8, <1>9, <1>10, <1>11, <1>12, <1>13, <1>14, <2>1 DEF ReaderAction, ReadStep
  <2> QED
    BY <1>5, <1>7, <1>8, <1>14, <2>1

\* A slot is freed, and taken over, under the eyes of disturbed readers only.
LEMMA ExclusiveKept ==
  ASSUME TypeOK, Exclusive, Next
  PROVE  Exclusive'
<1>1. SlotType /\ ReaderType /\ setup \in Setups
  BY TypeParts DEF WriterType
<1>2. NoReader \notin Readers
  BY <1>1, SetupFacts
<1>3. ASSUME UNCHANGED <<active, slot, disturbed>>, dead \subseteq dead',
             \A q \in Readers : Attached(q)' => Attached(q)
      PROVE  Exclusive'
  BY <1>3 DEF Exclusive
<1>4. ASSUME OnlyWriter PROVE Exclusive'
  BY <1>4 DEF OnlyWriter, rvars, Exclusive, Attached
<1>5. ASSUME NEW i \in Slots, CleanReader(i) PROVE Exclusive'
  <2>1. /\ active' = [active EXCEPT ![i] = FALSE] /\ slot' = slot
        /\ disturbed' = disturbed \cup Others(i, NoReader) /\ \A q : Attached(q)' <=> Attached(q)
    BY <1>5 DEF CleanReader, rvars, Attached
  <2>2. \A q \in Readers : Attached(q) /\ slot[q] = i => q \in Others(i, NoReader)
    BY <1>2 DEF Others, Attached
  <2>3. ASSUME NEW r \in Readers, Attached(r), r \notin disturbed' PROVE active'[slot[r]]
    <3>1. slot[r] # i /\ slot[r] \in Slots /\ active[slot[r]]
      BY <1>1, <2>1, <2>2, <2>3 DEF Exclusive, Attached, ReaderType
    <3> QED
      BY <1>1, <2>1, <3>1 DEF SlotType
  <2>4. disturbed \subseteq disturbed'
    BY <2>1
  <2> QED
    BY <2>1, <2>3, <2>4 DEF Exclusive
<1>6. ASSUME NEW r \in Readers, Claim(r) PROVE Exclusive'
  <2> DEFINE free == {i \in Slots : ~active[i]}
             m == Min(free)
  <2>1. m \in Slots /\ ~active[m]
    BY <1>6, FreeSlot DEF Claim
  <2>2. /\ active' = [active EXCEPT ![m] = TRUE] /\ slot' = [slot EXCEPT ![r] = m] /\ dead' = dead
        /\ disturbed' = IF Others(m, r) = {} THEN disturbed ELSE disturbed \cup {r}
        /\ reader' = [reader EXCEPT ![r] = "claimed"]
    BY <1>6 DEF Claim, Goto
  <2> HIDE DEF m
  <2>3. /\ slot'[r] = m /\ \A q \in Readers \ {r} : slot'[q] = slot[q] /\ (Attached(q)' <=> Attached(q))
        /\ disturbed \subseteq disturbed'
    BY <1>1, <2>2 DEF ReaderType, Attached
  <2>4. active'[m] /\ \A i \in Slots : active[i] => active'[i]
    BY <1>1, <2>1, <2>2 DEF SlotType
  <2>5. ASSUME NEW q \in Readers \ {r}, Attached(q), q \notin disturbed'
        PROVE  slot[q] # m /\ active'[slot[q]]
    <3>1. active[slot[q]] /\ slot[q] \in Slots
      BY <1>1, <2>3, <2>5 DEF Exclusive, Attached, ReaderType
    <3> QED
      BY <2>1, <2>4, <3>1
  <2>6. ASSUME r \notin disturbed' PROVE \A q \in Readers \ {r} : Attached(q) => slot[q] # m
    BY <2>2, <2>6 DEF Others, Attached
  <2>7. ASSUME NEW x \in Readers, Attached(x)', x \notin disturbed'
        PROVE  active'[slot'[x]] /\ \A q \in Readers \ {x} : Attached(q)' => slot'[q] # slot'[x]
    <3>1. CASE x = r
      BY <2>3, <2>4, <2>6, <2>7, <3>1
    <3>2. CASE x # r
      <4>1. Attached(x) /\ x \notin disturbed /\ slot'[x] = slot[x] /\ slot[x] # m /\ active'[slot[x]]
        BY <2>3, <2>5, <2>7, <3>2
      <4>2. \A q \in Readers \ {x} : Attached(q) => slot[q] # slot[x]
        BY <4>1 DEF Exclusive
      <4> QED
        BY <2>3, <4>1, <4>2
    <3> QED
      BY <3>1, <3>2
  <2> QED
    BY <2>7 DEF Exclusive
<1>7. ASSUME NEW r \in Readers, Leave(r) PROVE Exclusive'
  <2>1. /\ active' = [active EXCEPT ![slot[r]] = FALSE] /\ slot' = slot /\ dead' = dead
        /\ disturbed' = disturbed \cup Others(slot[r], r) /\ reader' = [reader EXCEPT ![r] = "gone"]
    BY <1>7 DEF Leave, Goto
  <2>2. ~Attached(r)' /\ (\A q \in Readers : Attached(q)' => Attached(q)) /\ disturbed \subseteq disturbed'
    BY <1>1, <2>1 DEF ReaderType, Attached
  <2>3. ASSUME NEW x \in Readers, Attached(x)', x \notin disturbed' PROVE active'[slot[x]]
    <3>1. x # r /\ Attached(x) /\ slot[x] # slot[r] /\ slot[x] \in Slots /\ active[slot[x]]
      BY <1>1, <2>1, <2>2, <2>3 DEF Others, Attached, Exclusive, ReaderType
    <3> QED
      BY <1>1, <2>1, <3>1 DEF SlotType
  <2> QED
    BY <2>1, <2>2, <2>3 DEF Exclusive
<1>8. ASSUME NEW r \in Readers, Register(r) \/ ReadStep(r) \/ Die(r) PROVE Exclusive'
  <2>1. UNCHANGED <<active, slot, disturbed>> /\ dead \subseteq dead'
    BY <1>8 DEF Register, ReadStep, LoadRead, LoadWrite, Validate, Reject, Deliver, Release, Die, control, rvars, ghosts
  <2>2. \A q \in Readers : Attached(q)' => Attached(q)
    BY <1>1, <1>8 DEF Register, ReadStep, LoadRead, LoadWrite, Validate, Reject, Deliver, Release, Die, At, Goto, rvars,
       Attached, ReaderType
  <2> QED
    BY <1>3, <2>1, <2>2
<1> QED
  BY <1>4, <1>5, <1>6, <1>7, <1>8, Steps DEF ReaderAction

-----------------------------------------------------------------------------
(* The readers that are served *)

InOrder(r) == Room(r) /\ Kept(r) /\ Follows(r)

\* What is known of a reader's place among the blocks depends on this alone.
Same(r) ==
  /\ reader'[r] = reader[r] /\ Position(r)' = Position(r)
  /\ seen'[r] = seen[r] /\ block'[r] = block[r] /\ last'[r] = last[r]

\* A reader that did not move is served as before by a bystander.
LEMMA SameKeeps ==
  ASSUME Bystander, NEW r \in Readers, Same(r), InOrder(r)
  PROVE  InOrder(r)'
<1>1. \A k : (Start(k)' = Start(k)) /\ (Present(k)' <=> Present(k))
  BY DEF Bystander, Start, Present
<1>2. Room(r)'
  BY DEF Bystander, Same, InOrder, Room
<1>3. Kept(r)'
  BY <1>1 DEF Bystander, Same, InOrder, Kept
<1>4. Follows(r)'
  BY <1>1 DEF Bystander, Same, InOrder, Follows
<1> QED
  BY <1>2, <1>3, <1>4 DEF InOrder

\* The steps of another reader, and the clean-up of another slot, leave a served reader where it is.
LEMMA OtherReader ==
  ASSUME TypeOK, Exclusive, NEW r \in Readers, Served(r)',
         \/ \E i \in Slots : CleanReader(i)
         \/ \E p \in Readers \ {r} : ReaderAction(p)
         \/ Die(r)
  PROVE  Served(r) /\ Same(r)
<1>1. SlotType /\ ReaderType
  BY TypeParts
<1>2. ASSUME NEW i \in Slots, CleanReader(i) PROVE Served(r) /\ Same(r)
  <2>1. disturbed \subseteq disturbed' /\ UNCHANGED <<setup, dead, reader, slot, readPos, seen, block, last>>
    BY <1>2 DEF CleanReader, rvars
  <2> QED
    BY <2>1 DEF Served, Regular, Attached, Same, Position
<1>3. ASSUME NEW p \in Readers \ {r}, ReaderAction(p) PROVE Served(r) /\ Same(r)
  <2>1. setup' = setup /\ dead \subseteq dead' /\ disturbed \subseteq disturbed'
    BY <1>3 DEF ReaderAction, Claim, Register, ReadStep, LoadRead, LoadWrite, Validate, Reject, Deliver, Release,
       Leave, Die, ghosts
  <2>2. reader'[r] = reader[r] /\ slot'[r] = slot[r] /\ seen'[r] = seen[r] /\ block'[r] = block[r] /\ last'[r] = last[r]
    BY <1>1, <1>3 DEF ReaderAction, Claim, Register, ReadStep, LoadRead, LoadWrite, Validate, Reject, Deliver,
       Release, Leave, Die, Goto, rvars, ReaderType
  <2>3. Served(r)
    BY <2>1, <2>2 DEF Served, Regular, Attached
  <2>4. Position(r)' = Position(r)
    <3>1. CASE readPos' = readPos
      BY <2>2, <3>1 DEF Position
    <3>2. CASE Register(p) \/ LoadWrite(p) \/ Reject(p) \/ Release(p)
      <4>1. Attached(p) /\ slot[p] \in Slots /\ slot[r] \in Slots
        BY <1>1, <2>3, <3>2 DEF Register, LoadWrite, Reject, Release, At, Attached, ReaderType, Served
      <4>2. slot[p] # slot[r]
        BY <2>3, <4>1 DEF Exclusive, Served, Regular
      <4>3. readPos'[slot[r]] = readPos[slot[r]]
        BY <1>1, <3>2, <4>1, <4>2 DEF Register, LoadWrite, Reject, Release, SlotType
      <4> QED
        BY <2>2, <4>3 DEF Position
    <3> QED
      BY <1>3, <3>1, <3>2 DEF ReaderAction, Claim, ReadStep, LoadRead, Validate, Deliver, Leave, Die, control
  <2> QED
    BY <2>2, <2>3, <2>4 DEF Same
<1>4. CASE Die(r)
  BY <1>4 DEF Die, Served, Attached
<1> QED
  BY <1>2, <1>3, <1>4

\* The facts about a served reader, with their types.
LEMMA ServedFacts ==
  ASSUME TypeOK, Laid, Exclusive, NEW r \in Readers, Served(r)
  PROVE  /\ slot[r] \in Slots /\ active[slot[r]] /\ Position(r) \in Nat /\ last[r] \in Int /\ last[r] >= -1
         /\ MinReadPos \in Nat /\ MinReadPos <= Position(r)
         /\ writePos \in Nat /\ size \in Nat /\ Capacity \in Nat \ {0} /\ Len(starts) \in Nat
         /\ \A k \in Nat : Start(k) \in Nat /\ (k < Len(starts) => Start(k) < Start(k + 1) /\ Start(k) < writePos)
         /\ \A k \in Nat : Start(k) <= writePos
<1>1. WriterType /\ SlotType /\ ReaderType /\ setup \in Setups
  BY TypeParts DEF WriterType
<1>2. /\ slot[r] \in Slots /\ Position(r) \in Nat /\ last[r] \in Int /\ last[r] >= -1
      /\ writePos \in Nat /\ size \in Nat /\ Capacity \in Nat \ {0} /\ Len(starts) \in Nat /\ starts \in Seq(Nat)
  BY SMTT(30), <1>1, SetupFacts DEF WriterType, SlotType, ReaderType, Served, Attached, Position
<1>3. active[slot[r]]
  BY DEF Exclusive, Served, Regular
<1>4. MinReadPos \in Nat /\ MinReadPos <= Position(r)
  BY <1>1, <1>2, <1>3, MinReadPosIs DEF WriterType, SlotType, Position
<1>5. \A k \in Nat : k < Len(starts) => k + 1 \in 1 .. Len(starts) /\ starts[k + 1] \in Nat
  BY SMTT(30), <1>2
<1>6. \A k \in Nat : Start(k) \in Nat /\ (k < Len(starts) => Start(k) < writePos)
  BY <1>2, <1>5 DEF Start, Laid
<1>7. ASSUME NEW k \in Nat, k < Len(starts) PROVE Start(k) < Start(k + 1)
  <2>1. CASE k + 1 < Len(starts)
    BY SMTT(30), <1>2, <1>5, <1>7, <2>1 DEF Start, Laid
  <2>2. CASE ~(k + 1 < Len(starts))
    BY <1>2, <1>6, <1>7, <2>2 DEF Start
  <2> QED
    BY <2>1, <2>2
<1>8. \A k \in Nat : Start(k) <= writePos
  BY SMTT(30), <1>2, <1>5, <1>6 DEF Start
<1> QED
  BY <1>2, <1>3, <1>4, <1>6, <1>7, <1>8

\* A reader that has found a position before the writer's finds a whole block there.
LEMMA NextBlock ==
  ASSUME TypeOK, Whole, Laid, Exclusive, NEW r \in Readers, Served(r), InOrder(r),
         reader[r] \in {"loaded", "checked"}
  PROVE  /\ last[r] + 1 \in 0 .. Len(starts) - 1 /\ Position(r) = Start(last[r] + 1)
         /\ Place(r) = Position(r) % Capacity
         /\ Header(r).seq = last[r] + 1 /\ Header(r).size = Start(last[r] + 2) - Position(r) - 1
         /\ Intact(r)
<1>1. /\ last[r] + 1 <= Len(starts) /\ Position(r) = Start(last[r] + 1) /\ seen[r].read = Position(r)
      /\ Position(r) < writePos
  BY DEF InOrder, Follows
<1>2. last[r] + 1 \in 0 .. Len(starts) - 1
  BY SMTT(30), <1>1, ServedFacts DEF Start
<1>3. Present(last[r] + 1)
  <2>1. Position(r) <= Start(last[r] + 1)
    BY SMTT(30), <1>1, ServedFacts
  <2> QED
    BY <1>2, <2>1 DEF InOrder, Kept
<1>4. Place(r) = Position(r) % Capacity /\ Header(r) = buffer[Start(last[r] + 1) % Capacity]
  BY <1>1 DEF Place, Header
<1>5. (last[r] + 1) + 1 = last[r] + 2
  <2>1. last[r] \in Int
    BY ServedFacts
  <2> QED
    BY SMTT(30), <2>1
<1>6. Header(r).magic /\ Header(r).seq = last[r] + 1 /\ Header(r).size = Start(last[r] + 2) - Position(r) - 1
  BY <1>1, <1>3, <1>4, <1>5 DEF Present
<1>7. Place(r) \in Units
  <2>1. PICK q \in Int, o \in 0 .. Capacity - 1 : Position(r) % Capacity = o /\ Position(r) = Capacity * q + o
    BY ServedFacts, Laps
  <2> QED
    BY <1>4, <2>1 DEF Units
<1>8. Intact(r)
  BY <1>6, <1>7 DEF Whole, Intact, Header
<1> QED
  BY <1>1, <1>2, <1>4, <1>6, <1>8

\* A reader's own step takes it from one block to the next.
LEMMA OwnStep ==
  ASSUME TypeOK, Whole, Laid, Untouched, Exclusive, ~skipped, Bystander,
         NEW r \in Readers, Served(r) => InOrder(r), Served(r)',
         Claim(r) \/ Register(r) \/ ReadStep(r)
  PROVE  InOrder(r)'
<1>1. WriterType /\ SlotType /\ ReaderType
  BY TypeParts
<1>2. \A k : (Start(k)' = Start(k)) /\ (Present(k)' <=> Present(k))
  BY DEF Bystander, Start, Present
<1>3. CASE Claim(r)
  <2>1. sequence = 0 /\ reader'[r] = "claimed" /\ readPos' = readPos /\ last' = last
    BY <1>1, <1>3 DEF Claim, Goto, Served, Regular, ReaderType
  <2>2. writePos = 0 /\ writer = "idle" /\ last[r] = -1 /\ (\A i \in Slots : readPos[i] = 0) /\ Len(starts) = 0
    BY <2>1 DEF Untouched, Laid
  <2>3. slot'[r] \in Slots
    <3>1. Min({i \in Slots : ~active[i]}) \in Slots
      BY <1>3, FreeSlot DEF Claim
    <3> QED
      BY <1>1, <1>3, <3>1 DEF Claim, ReaderType
  <2>4. Position(r)' = 0
    BY <2>1, <2>2, <2>3 DEF Position
  <2>5. Room(r)'
    BY SMTT(30), <2>2, <2>4, SetupFacts, <1>1 DEF Room, Bystander, WriterType
  <2>6. Kept(r)'
    BY SMTT(30), <2>2 DEF Kept, Bystander
  <2>7. Follows(r)'
    BY <2>1, <2>2, <2>4 DEF Follows
  <2> QED
    BY <2>5, <2>6, <2>7 DEF InOrder
<1>4. ASSUME Register(r) \/ ReadStep(r) PROVE InOrder(r)'
  <2>1. /\ Attached(r) /\ UNCHANGED <<setup, dead, disturbed, slot>>
    BY <1>4 DEF Register, ReadStep, LoadRead, LoadWrite, Validate, Reject, Deliver, Release, At, Attached, ghosts
  <2>2. Served(r) /\ InOrder(r)
    BY <2>1 DEF Served, Regular
  <2>3. /\ slot[r] \in Slots /\ active[slot[r]] /\ Position(r) \in Nat /\ last[r] \in Int /\ last[r] >= -1
        /\ MinReadPos \in Nat /\ MinReadPos <= Position(r)
        /\ writePos \in Nat /\ Len(starts) \in Nat
    BY <2>2, ServedFacts
  <2>4. ASSUME NEW l \in {"idle", "reading", "loaded", "checked"}, reader'[r] = l, Position(r)' = Position(r), last' = last,
               reader[r] \in {"claimed", "idle", "reading", "loaded", "checked"},
               l # "idle" => seen'[r].read = Position(r), l \in {"loaded", "checked"} => Position(r) < writePos
        PROVE  InOrder(r)'
    <3>1. last[r] + 1 <= Len(starts) /\ Position(r) = Start(last[r] + 1)
      <4>1. CASE reader[r] = "claimed"
        <5>1. Position(r) = 0 /\ last[r] = -1 /\ Start(0) = 0
          BY <2>2, <4>1 DEF InOrder, Follows, Laid
        <5> QED
          BY SMTT(30), <2>3, <5>1
      <4>2. CASE reader[r] # "claimed"
        BY <2>2, <2>4, <4>2 DEF InOrder, Follows
      <4> QED
        BY <4>1, <4>2
    <3>2. Room(r)' /\ Kept(r)'
      BY <1>2, <2>2, <2>4 DEF InOrder, Room, Kept, Bystander
    <3>3. Follows(r)'
      BY <1>2, <2>4, <3>1 DEF Follows, Bystander
    <3> QED
      BY <3>2, <3>3 DEF InOrder
  <2>5. CASE Register(r)
    <3>1. reader[r] = "claimed" /\ reader'[r] = "idle" /\ last' = last /\ readPos'[slot[r]] = 0
      BY <1>1, <2>3, <2>5 DEF Register, At, Goto, ReaderType, SlotType
    <3>2. Position(r) = 0 /\ Position(r)' = 0
      BY <2>1, <2>2, <3>1 DEF InOrder, Follows, Position
    <3> QED
      BY <2>4, <3>1, <3>2
  <2>6. CASE LoadRead(r)
    <3>1. reader[r] = "idle" /\ reader'[r] = "reading" /\ last' = last /\ readPos' = readPos /\ seen'[r].read = Position(r)
      BY ZenonT(40), <1>1, <2>6 DEF LoadRead, At, Goto, ReaderType, control, Position
    <3> QED
      BY <2>1, <2>4, <3>1 DEF Position
  <2>7. CASE LoadWrite(r)
    <3>1. reader[r] = "reading" /\ seen[r].read = Position(r)
      BY <2>2, <2>7 DEF LoadWrite, At, InOrder, Follows
    <3>2. Max({seen[r].read, MinReadPos}) = Position(r) /\ ~(seen[r].read < MinReadPos)
      BY SMTT(30), <2>3, <3>1, MaxIs
    <3>3. readPos' = [readPos EXCEPT ![slot[r]] = readPos[slot[r]]]
      BY <2>7, <3>2 DEF LoadWrite
    <3>4. Position(r)' = Position(r)
      BY <1>1, <2>1, <2>3, <3>3 DEF SlotType, Position
    <3>5. /\ reader' = [reader EXCEPT ![r] = IF Position(r) < writePos THEN "loaded" ELSE "idle"]
          /\ seen' = [seen EXCEPT ![r] = [read |-> Position(r), write |-> writePos]] /\ last' = last
      BY <2>7, <3>2 DEF LoadWrite, Goto
    <3>6. reader'[r] = (IF Position(r) < writePos THEN "loaded" ELSE "idle") /\ seen'[r].read = Position(r)
      BY <1>1, <3>5 DEF ReaderType
    <3> QED
      BY <2>4, <3>1, <3>4, <3>5, <3>6
  <2>8. CASE Validate(r)
    <3>1. /\ reader[r] = "loaded" /\ reader'[r] \in {"checked", "idle"} /\ last' = last /\ readPos' = readPos /\ seen' = seen
      BY <1>1, <2>8 DEF Validate, At, Goto, ReaderType, control
    <3>2. seen[r].read = Position(r) /\ Position(r) < writePos
      BY <2>2, <3>1 DEF InOrder, Follows
    <3> QED
      BY <2>1, <2>4, <3>1, <3>2 DEF Position
  <2>9. CASE Reject(r)
    <3>1. reader[r] = "checked" /\ ~Intact(r)
      BY <2>9 DEF Reject, At
    <3> QED
      BY <2>2, <3>1, NextBlock
  <2>10. CASE Deliver(r)
    <3>1. /\ reader[r] = "checked" /\ reader'[r] = "holding" /\ readPos' = readPos
          /\ block'[r].at = Place(r) /\ block'[r].seq = Header(r).seq /\ block'[r].size = Header(r).size
          /\ last'[r] = Header(r).seq
      BY <1>1, <2>10 DEF Deliver, At, Goto, ReaderType, control
    <3>2. /\ last[r] + 1 \in 0 .. Len(starts) - 1 /\ Position(r) = Start(last[r] + 1)
          /\ Place(r) = Position(r) % Capacity
          /\ Header(r).seq = last[r] + 1 /\ Header(r).size = Start(last[r] + 2) - Position(r) - 1
      BY <2>2, <3>1, NextBlock
    <3>3. Position(r)' = Position(r) /\ last'[r] = last[r] + 1 /\ last'[r] + 1 = last[r] + 2
      BY SMTT(30), <2>1, <2>3, <3>1, <3>2 DEF Position
    <3>4. Room(r)' /\ Kept(r)'
      BY <1>2, <2>2, <3>3 DEF InOrder, Room, Kept, Bystander
    <3>5. Follows(r)'
      BY <1>2, <3>1, <3>2, <3>3 DEF Follows, Bystander
    <3> QED
      BY <3>4, <3>5 DEF InOrder
  <2>11. CASE Release(r)
    <3>1. /\ reader[r] = "holding" /\ reader'[r] = "idle" /\ last' = last
          /\ readPos' = [readPos EXCEPT ![slot[r]] = IF buffer[block[r].at].magic THEN @ + 1 + block[r].size ELSE @]
      BY <1>1, <2>11 DEF Release, At, Goto, ReaderType
    <3>2. /\ last[r] \in 0 .. Len(starts) - 1 /\ Position(r) = Start(last[r])
          /\ block[r].at = Position(r) % Capacity /\ block[r].size = Start(last[r] + 1) - Position(r) - 1
      BY <2>2, <3>1 DEF InOrder, Follows
    <3>3. buffer[block[r].at].magic
      <4>1. Position(r) <= Start(last[r])
        BY SMTT(30), <2>3, <3>2
      <4>2. Present(last[r])
        BY <2>2, <3>2, <4>1 DEF InOrder, Kept
      <4> QED
        BY <3>2, <4>2 DEF Present
    <3>4. Position(r)' = Position(r) + 1 + block[r].size
      BY <1>1, <2>1, <2>3, <3>1, <3>3 DEF SlotType, Position
    <3>5. /\ Start(last[r] + 1) \in Nat /\ Start(last[r]) < Start(last[r] + 1) /\ Start(last[r] + 1) <= writePos
          /\ last[r] + 1 <= Len(starts)
      <4>1. last[r] \in Nat /\ last[r] + 1 \in Nat /\ last[r] < Len(starts) /\ last[r] + 1 <= Len(starts)
        BY SMTT(30), <2>3, <3>2
      <4> QED
        BY <2>2, <4>1, ServedFacts
    <3>6. Position(r)' = Start(last[r] + 1)
      BY SMTT(30), <2>3, <3>2, <3>4, <3>5
    <3>7. Room(r)'
      <4>1. writer' = writer /\ writePos' = writePos /\ size' = size
        BY DEF Bystander
      <4>2. size \in Nat /\ Capacity \in Nat
        BY <2>2, ServedFacts
      <4>3. writePos - Position(r) + (IF writer = "idle" THEN 0 ELSE 1 + size) <= Capacity
        BY <2>2 DEF InOrder, Room
      <4> QED
        BY SMTT(60), <2>3, <3>2, <3>5, <3>6, <4>1, <4>2, <4>3 DEF Room
    <3>8. Kept(r)'
      <4>1. ASSUME NEW k \in 0 .. Len(starts) - 1, Position(r)' <= Start(k) PROVE Present(k)
        <5>1. Start(k) \in Nat /\ Position(r) <= Start(k)
          BY SMTT(60), <2>2, <2>3, <3>2, <3>5, <3>6, <4>1, ServedFacts
        <5> QED
          BY <2>2, <5>1 DEF InOrder, Kept
      <4> QED
        BY <1>2, <4>1 DEF Kept, Bystander
    <3>9. Follows(r)'
      BY <1>2, <3>1, <3>5, <3>6 DEF Follows, Bystander
    <3> QED
      BY <3>7, <3>8, <3>9 DEF InOrder
  <2> QED
    BY <1>4, <2>5, <2>6, <2>7, <2>8, <2>9, <2>10, <2>11 DEF ReadStep
<1> QED
  BY <1>3, <1>4

\* A block that a served reader has not released lies outside the one being written.
LEMMA Apart ==
  ASSUME TypeOK, Laid, Exclusive, NEW r \in Readers, Served(r), Room(r),
         writer \in {"clear", "fill", "magic", "advance"},
         NEW k \in 0 .. Len(starts) - 1, Position(r) <= Start(k)
  PROVE  /\ Start(k) % Capacity \in Units
         /\ Start(k) % Capacity \notin Offset .. Offset + size
<1>1. /\ Position(r) \in Nat /\ writePos \in Nat /\ size \in Nat /\ Capacity \in Nat \ {0} /\ Len(starts) \in Nat
      /\ Start(k) \in Nat /\ Start(k) < writePos
  BY SMTT(30), ServedFacts
<1>2. writePos - Position(r) + 1 + size <= Capacity
  BY SMTT(30), <1>1 DEF Room
<1>3. Offset + size < Capacity /\ Offset \in Nat
  BY <1>1, TypeParts, OffsetIn DEF WriterType
<1>4. PICK q \in Int, o \in 0 .. Capacity - 1 : Start(k) % Capacity = o /\ Start(k) = Capacity * q + o
  BY <1>1, Laps
<1>5. ASSUME NEW j \in 0 .. size PROVE Start(k) % Capacity # Offset + j
  <2>1. j \in Nat /\ writePos + j \in Nat /\ Start(k) < writePos + j /\ (writePos + j) - Start(k) < Capacity
    BY SMTT(30), <1>1, <1>2
  <2>2. (writePos % Capacity) + j < Capacity
    BY SMTT(30), <1>1, <1>3, <2>1 DEF Offset
  <2>3. (writePos + j) % Capacity = (writePos % Capacity) + j
    BY <1>1, <2>1, <2>2, OffsetAdd
  <2>4. Start(k) % Capacity # (writePos + j) % Capacity
    BY <1>1, <2>1, OffsetApart
  <2> QED
    BY <2>3, <2>4 DEF Offset
<1>6. ASSUME NEW x \in Offset .. Offset + size PROVE x - Offset \in 0 .. size /\ x = Offset + (x - Offset)
  BY SMTT(30), <1>1, <1>3
<1> QED
  BY <1>4, <1>5, <1>6 DEF Units

\* write leaves the served readers room for what they have not released.
LEMMA WriterServes ==
  ASSUME TypeOK, Filling, Laid, Exclusive, OnlyWriter, (\E s \in setup.sizes : Write(s)) \/ WriterStep, ~skipped',
         NEW r \in Readers, Served(r) => InOrder(r), Served(r)'
  PROVE  InOrder(r)'
<1>1. WriterType /\ SlotType /\ ReaderType
  BY TypeParts
<1>2. Served(r) /\ InOrder(r)
  BY DEF OnlyWriter, rvars, Served, Regular, Attached
<1>3. /\ Position(r) \in Nat /\ MinReadPos \in Nat /\ MinReadPos <= Position(r) /\ last[r] \in Int /\ last[r] >= -1
      /\ writePos \in Nat /\ size \in Nat /\ Capacity \in Nat \ {0} /\ Len(starts) \in Nat
  BY <1>2, ServedFacts
<1>4. /\ ~Skip /\ ~Adjust
  BY DEF Skip, Adjust, Filling, ghosts
<1>5. readPos' = readPos /\ Position(r)' = Position(r) /\ UNCHANGED <<reader, seen, block, last>>
  BY <1>4 DEF Write, WriterStep, ClearMagic, Fill, SetMagic, Advance, OnlyWriter, rvars, Position
<1>6. ASSUME NEW s \in setup.sizes, Write(s) PROVE InOrder(r)'
  <2>1. /\ UNCHANGED <<buffer, writePos, starts>> /\ size' = s /\ writer' # "idle"
        /\ writePos - MinReadPos + 1 + s <= Capacity
    BY <1>6 DEF Write, Fits, ghosts
  <2>2. s \in Nat
    BY SMTT(30), <1>1, SetupFacts DEF WriterType
  <2>3. \A k : (Start(k)' = Start(k)) /\ (Present(k)' <=> Present(k))
    BY <2>1 DEF Start, Present
  <2>4. Position(r) <= writePos
    BY <1>2 DEF InOrder, Room
  <2>5. Room(r)'
    BY SMTT(30), <1>3, <1>5, <2>1, <2>2, <2>4 DEF Room
  <2>6. Kept(r)' /\ Follows(r)'
    BY <1>2, <1>5, <2>1, <2>3 DEF InOrder, Kept, Follows
  <2> QED
    BY <2>5, <2>6 DEF InOrder
<1>7. CASE ClearMagic \/ Fill \/ SetMagic
  <2>1. /\ UNCHANGED <<writePos, starts, size>> /\ writer # "idle" /\ writer' # "idle" /\ Offset' = Offset
        /\ writer \in {"clear", "fill", "magic", "advance"}
    BY <1>7 DEF ClearMagic, Fill, SetMagic, ghosts, Offset
  <2>2. \A k : Start(k)' = Start(k)
    BY <2>1 DEF Start
  <2>3. Offset \in Offset .. Offset + size /\ \A u \in Offset + 1 .. Offset + size : u \in Offset .. Offset + size
    BY SMTT(30), <1>1, <1>3, OffsetIn DEF WriterType
  <2>4. ASSUME NEW u \in Units, u \notin Offset .. Offset + size PROVE buffer'[u] = buffer[u]
    BY <1>7, <2>3, <2>4, Stores
  <2>5. Room(r)'
    BY <1>2, <1>5, <2>1 DEF InOrder, Room
  <2>6. Kept(r)'
    <3>1. ASSUME NEW k \in 0 .. Len(starts) - 1, Position(r) <= Start(k) PROVE Present(k)'
      <4>1. Start(k) % Capacity \in Units /\ Start(k) % Capacity \notin Offset .. Offset + size
        BY <1>2, <2>1, <3>1, Apart DEF InOrder
      <4>2. buffer'[Start(k) % Capacity] = buffer[Start(k) % Capacity]
        BY <2>4, <4>1
      <4>3. Present(k)
        BY <1>2, <3>1 DEF InOrder, Kept
      <4> QED
        BY <2>2, <4>2, <4>3 DEF Present
    <3> QED
      BY <1>5, <2>1, <2>2, <3>1 DEF Kept
  <2>7. Follows(r)'
    BY <1>2, <1>5, <2>1, <2>2 DEF InOrder, Follows
  <2> QED
    BY <2>5, <2>6, <2>7 DEF InOrder
<1>8. CASE Advance
  <2>1. /\ buffer' = buffer /\ writePos' = writePos + 1 + size /\ starts' = Append(starts, writePos)
        /\ size' = size /\ writer = "advance" /\ writer' = "idle" /\ starts \in Seq(Nat)
    BY <1>1, <1>8 DEF Advance, WriterType
  <2>2. /\ Len(starts') = Len(starts) + 1 /\ starts'[Len(starts) + 1] = writePos
        /\ \A k \in 1 .. Len(starts) : starts'[k] = starts[k]
    BY SMTT(30), <2>1
  <2>3. ASSUME NEW k \in Nat, k <= Len(starts) PROVE Start(k)' = Start(k)
    <3>1. CASE k < Len(starts)
      <4>1. k + 1 \in 1 .. Len(starts) /\ k < Len(starts')
        BY SMTT(30), <1>3, <2>2, <3>1
      <4> QED
        BY <2>2, <3>1, <4>1 DEF Start
    <3>2. CASE k = Len(starts)
      BY SMTT(30), <1>3, <2>2, <3>2 DEF Start
    <3> QED
      BY SMTT(30), <1>3, <2>3, <3>1, <3>2
  <2>4. PICK n \in Nat : n = Len(starts)
    BY <1>3
  <2>8. Start(n)' = writePos /\ Start(n + 1)' = writePos'
    BY SMTT(30), <2>2, <2>4 DEF Start
  <2>5. Room(r)'
    BY SMTT(30), <1>2, <1>3, <1>5, <2>1 DEF InOrder, Room
  <2>6. Kept(r)'
    <3>1. ASSUME NEW k \in 0 .. Len(starts) - 1, Position(r) <= Start(k) PROVE Present(k)'
      <4>1. Start(k)' = Start(k) /\ Start(k + 1)' = Start(k + 1)
        BY SMTT(30), <1>3, <2>3, <3>1
      <4>2. Present(k)
        BY <1>2, <3>1 DEF InOrder, Kept
      <4> QED
        BY <2>1, <4>1, <4>2 DEF Present
    <3>2. Present(n)'
      <4>1. buffer[Offset].magic /\ buffer[Offset].seq = sequence - 1 /\ buffer[Offset].size = size
        BY <2>1 DEF Filling
      <4>2. sequence - 1 = n
        BY <2>1, <2>4 DEF Laid
      <4>3. Start(n)' = writePos /\ Start(n + 1)' - Start(n)' - 1 = size
        BY SMTT(30), <1>3, <2>1, <2>8
      <4> QED
        BY <2>1, <4>1, <4>2, <4>3 DEF Present, Offset
    <3>3. ASSUME NEW k \in 0 .. Len(starts') - 1 PROVE k \in 0 .. Len(starts) - 1 \/ k = n
      BY SMTT(30), <1>3, <2>2, <2>4
    <3>4. ASSUME NEW k \in 0 .. Len(starts) - 1 PROVE Start(k)' = Start(k)
      BY SMTT(30), <1>3, <2>3
    <3> QED
      BY <1>5, <3>1, <3>2, <3>3, <3>4 DEF Kept
  <2>7. Follows(r)'
    <3>1. CASE reader[r] = "claimed"
      BY <1>2, <1>5, <3>1 DEF InOrder, Follows
    <3>5. PICK l \in Int : l = last[r] /\ l = last'[r] /\ l >= -1
      BY <1>3, <1>5
    <3>2. CASE reader[r] \in {"idle", "reading", "loaded", "checked"}
      <4>1. l + 1 <= Len(starts) /\ Position(r) = Start(l + 1)
        BY <1>2, <3>2, <3>5 DEF InOrder, Follows
      <4>2. l + 1 \in Nat /\ l + 1 <= Len(starts')
        BY SMTT(30), <1>3, <2>2, <3>5, <4>1
      <4>5. Start(l + 1)' = Start(l + 1)
        BY <2>3, <4>1, <4>2
      <4>3. reader[r] \in {"reading", "loaded", "checked"} => seen[r].read = Position(r)
        BY <1>2 DEF InOrder, Follows
      <4>4. reader[r] \in {"loaded", "checked"} => Position(r) < writePos'
        BY SMTT(30), <1>2, <1>3, <2>1 DEF InOrder, Follows
      <4> QED
        BY <1>5, <3>2, <3>5, <4>1, <4>2, <4>3, <4>4, <4>5 DEF Follows
    <3>3. CASE reader[r] = "holding"
      <4>1. /\ l \in 0 .. Len(starts) - 1 /\ Position(r) = Start(l)
            /\ block[r].at = Position(r) % Capacity /\ block[r].seq = l
            /\ block[r].size = Start(l + 1) - Position(r) - 1
        BY <1>2, <3>3, <3>5 DEF InOrder, Follows
      <4>2. l \in 0 .. Len(starts') - 1 /\ l \in Nat /\ l + 1 \in Nat /\ l <= Len(starts) /\ l + 1 <= Len(starts)
        BY SMTT(30), <1>3, <2>2, <4>1
      <4>3. Start(l)' = Start(l) /\ Start(l + 1)' = Start(l + 1)
        BY <2>3, <4>2
      <4> QED
        BY <1>5, <3>3, <3>5, <4>1, <4>2, <4>3 DEF Follows
    <3>4. CASE reader[r] \in {"new", "gone"}
      BY <1>5, <3>4 DEF Follows
    <3> QED
      BY <1>1, <3>1, <3>2, <3>3, <3>4 DEF ReaderType
  <2> QED
    BY <2>5, <2>6, <2>7 DEF InOrder
<1> QED
  BY <1>4, <1>6, <1>7, <1>8 DEF WriterStep

\* Every step keeps the served readers in order.
LEMMA OrderKept ==
  ASSUME TypeOK, Filling, Whole, Laid, Untouched, Exclusive, Next, ~skipped',
         ~skipped => \A r \in Readers : Served(r) => InOrder(r),
         NEW r \in Readers, Served(r)'
  PROVE  InOrder(r)'
<1>1. CASE Bystander /\ \E i \in Slots : CleanReader(i)
  <2>1. ~skipped
    BY <1>1 DEF Bystander
  <2> QED
    BY <1>1, <2>1, OtherReader, SameKeeps
<1>2. ASSUME Bystander, NEW p \in Readers, ReaderAction(p) PROVE InOrder(r)'
  <2>1. ~skipped
    BY <1>2 DEF Bystander
  <2>2. CASE p # r
    <3>1. p \in Readers \ {r}
      BY <2>2
    <3>2. Served(r) /\ Same(r)
      BY <1>2, <3>1, OtherReader
    <3> QED
      BY <1>2, <2>1, <3>2, SameKeeps
  <2>3. CASE p = r /\ Die(r)
    BY <1>2, <2>1, <2>3, OtherReader, SameKeeps
  <2>4. CASE p = r /\ Leave(r)
    <3>1. reader'[r] = "gone"
      BY <2>4, TypeParts DEF Leave, Goto, ReaderType
    <3> QED
      BY <3>1 DEF Served, Attached
  <2>5. CASE p = r /\ (Claim(r) \/ Register(r) \/ ReadStep(r))
    BY <1>2, <2>1, <2>5, OwnStep
  <2> QED
    BY <1>2, <2>2, <2>3, <2>4, <2>5 DEF ReaderAction
<1>3. CASE OnlyWriter /\ ((\E s \in setup.sizes : Write(s)) \/ WriterStep)
  <2>1. CASE ~skipped
    BY <1>3, <2>1, WriterServes
  <2>2. CASE skipped
    BY <1>3, <2>2 DEF Write, WriterStep, Skip, Adjust, ClearMagic, Fill, SetMagic, Advance, ghosts
  <2> QED
    BY <2>1, <2>2
<1> QED
  BY <1>1, <1>2, <1>3, Steps

\* The ring begins empty.
LEMMA InitIInv == Init => IInv
<1> SUFFICES ASSUME Init PROVE IInv
  OBVIOUS
<1>1. setup \in Setups /\ setup.writes \in Nat /\ Capacity \in Nat \ {0} /\ NumSlots \in Nat \ {0}
  BY SetupFacts DEF Init
<1>2. 0 \in -1 .. setup.writes /\ -1 \in -1 .. setup.writes /\ 0 \in Units /\ 0 \in 0 .. NumSlots /\ 0 \in 0 .. Capacity - 1
  BY SMTT(30), <1>1 DEF Units
<1>3. Blank \in Headers /\ NoBlock \in Blocks
  BY <1>2 DEF Blank, NoBlock, Headers, Blocks
<1>4. BufferType
  BY <1>3 DEF Init, BufferType
<1>5. WriterType
  <2>1. writePos \in Nat /\ sequence \in 0 .. setup.writes /\ starts \in Seq(Nat) /\ size \in 0 .. Capacity - 1
        /\ adjusting \in 0 .. NumSlots
    BY SMTT(30), <1>1 DEF Init
  <2>2. writer = "idle" /\ skipped \in BOOLEAN
    BY DEF Init
  <2> QED
    BY <1>1, <2>1, <2>2 DEF WriterType
<1>6. SlotType
  BY SMTT(30), <1>1 DEF Init, SlotType
<1>7. ReaderType
  BY <1>1, <1>2, <1>3 DEF Init, ReaderType
<1>8. \A u \in Units : ~buffer[u].magic
  BY DEF Init, Blank
<1>9. Filling /\ Whole
  BY <1>8 DEF Init, Filling, Whole
<1>10. Laid
  BY SMTT(30) DEF Init, Laid, Start
<1>11. Untouched
  BY DEF Init, Untouched
<1>12. \A r \in Readers : ~Attached(r)
  BY DEF Init, Attached
<1>13. TypeOK
  BY <1>4, <1>5, <1>6, <1>7, TypeParts
<1> QED
  BY <1>9, <1>10, <1>11, <1>12, <1>13 DEF IInv, Exclusive, Served

\* Every step keeps the invariant.
LEMMA NextIInv == IInv /\ [Next]_vars => IInv'
<1> SUFFICES ASSUME IInv, [Next]_vars PROVE IInv'
  OBVIOUS
<1>1. CASE Next
  <2>1. TypeOK' /\ Filling' /\ Whole' /\ Laid' /\ Untouched' /\ Exclusive'
    BY <1>1, TypeKept, FillingKept, WholeKept, LaidKept, UntouchedKept, ExclusiveKept DEF IInv
  <2>2. ASSUME ~skipped', NEW r \in Readers, Served(r)' PROVE InOrder(r)'
    BY <1>1, <2>2, OrderKept DEF IInv, InOrder
  <2> QED
    BY <2>1, <2>2 DEF IInv, InOrder
<1>2. CASE UNCHANGED vars
  <2>1. UNCHANGED <<setup, buffer, writePos, sequence, numReaders, active, readPos, pid, writer, size, adjusting>>
    BY <1>2 DEF vars, control, wvars
  <2>2. UNCHANGED <<reader, slot, seen, block, last, dead, starts, skipped, disturbed>>
    BY <1>2 DEF vars, rvars, ghosts
  <2>3. TypeOK' /\ Filling' /\ Whole' /\ Laid' /\ Untouched' /\ Exclusive'
    BY ZenonT(40), <2>1, <2>2 DEF IInv, TypeOK, Filling, Whole, Laid, Untouched, Exclusive, Attached, Offset, Wraps, Start
  <2>4. ASSUME NEW r \in Readers PROVE (Served(r)' <=> Served(r)) /\ (InOrder(r) => InOrder(r)')
    BY <2>1, <2>2 DEF Served, Regular, Attached, InOrder, Room, Kept, Follows, Position, Present, Start
  <2> QED
    BY <2>2, <2>3, <2>4 DEF IInv, InOrder
<1> QED
  BY <1>1, <1>2

\* The invariant holds in every state the writer and the readers reach.
THEOREM Invariant == Spec => []IInv
BY InitIInv, NextIInv, PTL DEF Spec

\* What the runs check of the buffer.
LEMMA WholeMagic == IInv => MagicMeansWhole
<1> SUFFICES ASSUME IInv PROVE MagicMeansWhole
  OBVIOUS
<1>1. TypeOK /\ Whole
  BY DEF IInv
<1>2. ASSUME NEW h \in Units, buffer[h].magic, NEW u \in h + 1 .. h + buffer[h].size
      PROVE  u \in Units /\ buffer[u].seq = buffer[h].seq
  <2>1. /\ h + buffer[h].size < Capacity /\ buffer[u].seq = buffer[h].seq
    BY <1>1, <1>2 DEF Whole
  <2>2. buffer[h] \in Headers /\ setup \in Setups
    BY <1>1, TypeParts DEF BufferType, WriterType
  <2>3. buffer[h].size \in setup.sizes \cup {0}
    BY <2>2 DEF Headers
  <2>4. buffer[h].size \in Nat /\ Capacity \in Nat
    BY SMTT(30), <2>2, <2>3, SetupFacts
  <2> QED
    BY SMTT(30), <2>1, <2>4 DEF Units
<1> QED
  BY <1>1, <1>2 DEF MagicMeansWhole, Whole

\* write: a header has its magic only while the data behind it are all of its block,
\* with their crc, inside the buffer; for any number of readers and blocks, any
\* capacity and any sizes, with the end of the ring skipped or not.
THEOREM MagicWhole == Spec => []MagicMeansWhole
BY Invariant, WholeMagic, PTL

\* A block that a served reader holds is there.
LEMMA HeldThere == IInv => HeldBlockStays
<1> SUFFICES ASSUME IInv, NEW r \in Readers, reader[r] = "holding", Regular(r), ~skipped
             PROVE  /\ buffer[block[r].at].magic /\ buffer[block[r].at].seq = block[r].seq
                    /\ \A u \in block[r].at + 1 .. block[r].at + block[r].size : buffer[u].seq = block[r].seq
  BY DEF HeldBlockStays
<1>1. TypeOK /\ Whole /\ Laid /\ Exclusive
  BY DEF IInv
<1>2. Served(r)
  BY DEF Served, Regular, Attached
<1>3. Kept(r) /\ Follows(r)
  BY <1>2 DEF IInv
<1>4. /\ last[r] \in 0 .. Len(starts) - 1 /\ Position(r) = Start(last[r])
      /\ block[r].at = Position(r) % Capacity /\ block[r].seq = last[r]
      /\ block[r].size = Start(last[r] + 1) - Position(r) - 1
  BY <1>3 DEF Follows
<1>5. Position(r) <= Start(last[r])
  BY SMTT(30), <1>1, <1>2, <1>4, ServedFacts
<1>6. Present(last[r])
  BY <1>3, <1>4, <1>5 DEF Kept
<1>7. buffer[block[r].at].magic /\ buffer[block[r].at].seq = block[r].seq /\ buffer[block[r].at].size = block[r].size
  BY <1>4, <1>6 DEF Present
<1>8. block[r].at \in Units
  BY <1>1, TypeParts DEF ReaderType, Blocks
<1> QED
  BY <1>1, <1>7, <1>8 DEF Whole

\* tryRead and releaseBlock: as long as the blocks fit the ring exactly, a block that
\* a live reader with a slot of its own was given stays whole in the shared memory
\* until that reader releases it, however far the writer runs.
THEOREM HeldStays == Spec => []HeldBlockStays
BY Invariant, HeldThere, PTL

\* tryRead and releaseBlock: as long as the blocks fit the ring exactly, a live reader
\* that registered before the first write and has a slot of its own is given every
\* block, in the order of the writes.
THEOREM InSequence == Spec => NothingSkipped
<1> DEFINE A == \A r \in Readers : Delivered(r) /\ Regular(r) /\ ~skipped' => last'[r] = last[r] + 1
<1>1. ASSUME IInv, [Next]_vars PROVE A
  <2> SUFFICES ASSUME NEW r \in Readers, Delivered(r), Regular(r), ~skipped' PROVE last'[r] = last[r] + 1
    OBVIOUS
  <2>1. TypeOK /\ Whole /\ Laid /\ Exclusive
    BY <1>1 DEF IInv
  <2>2. reader[r] = "checked" /\ reader'[r] = "holding" /\ reader' # reader
    BY DEF Delivered
  <2>3. PICK p \in Readers : Bystander /\ ReaderAction(p)
    <3>1. Next
      BY <1>1, <2>2 DEF vars, rvars
    <3>2. ~OnlyWriter /\ ~\E i \in Slots : CleanReader(i)
      BY <2>2 DEF OnlyWriter, CleanReader, rvars
    <3> QED
      BY <3>1, <3>2, Steps
  <2>4. reader \in [Readers -> {"new", "claimed", "idle", "reading", "loaded", "checked", "holding", "gone"}]
        /\ last \in [Readers -> -1 .. setup.writes]
    BY <2>1, TypeParts DEF ReaderType
  <2>5. Deliver(p) /\ p = r
    BY <2>2, <2>3, <2>4 DEF ReaderAction, ReadStep, Claim, Register, LoadRead, LoadWrite, Validate, Reject, Deliver,
       Release, Leave, Die, At, Goto, rvars
  <2>6. ~skipped
    BY <2>3 DEF Bystander
  <2>7. Served(r)
    BY <2>2 DEF Served, Attached, Regular
  <2>8. InOrder(r)
    BY <1>1, <2>6, <2>7 DEF IInv, InOrder
  <2>9. Header(r).seq = last[r] + 1
    BY <2>1, <2>2, <2>7, <2>8, NextBlock
  <2> QED
    BY <2>4, <2>5, <2>9 DEF Deliver
<1>2. IInv /\ [Next]_vars => [A]_vars
  BY <1>1
<1> QED
  BY Invariant, <1>2, PTL DEF Spec, NothingSkipped
=============================================================================
