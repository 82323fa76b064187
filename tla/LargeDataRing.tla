---------------------------- MODULE LargeDataRing ----------------------------
(***************************************************************************)
(* The ring of a LargeDataChannel: one writer (write, with the clean-up of *)
(* dead readers it begins with) and several readers, each a process of its *)
(* own with a slot in the control block (tryRead, releaseBlock,            *)
(* registerReader, unregisterReader).                                      *)
(*                                                                         *)
(* The buffer is an array of units; a block is a header of one unit and    *)
(* its data, stored in one piece: what is too short for it at the end of   *)
(* the ring is skipped.  Readers look at blocks in place (zero copy).      *)
(* Data are reduced to the number of the block they were written for, and  *)
(* a CRC to the number of the block whose data it was computed from.       *)
(***************************************************************************)
EXTENDS Integers, Sequences, FiniteSets, FiniteSetsExt

CONSTANTS
  Readers,
  NumSlots,  \* MAX_READERS
  Capacity,  \* units in the buffer
  Setups,    \* the set-ups considered, see the variable setup
  NoReader   \* pid 0

Slots == 1 .. NumSlots
Units == 0 .. Capacity - 1

ASSUME LargeDataAssumption ==
  /\ {NumSlots, Capacity} \subseteq Nat \ {0}
  /\ \A u \in Setups : /\ u.readers \subseteq Readers /\ u.frail \cup u.late \subseteq u.readers
                       /\ u.sizes \subseteq 1 .. Capacity - 1 /\ u.writes \in Nat
  /\ NoReader \notin Readers

VARIABLES
  setup,      \* the readers; the frail ones, which may be killed or have their
              \* heartbeat time out while they live; the late ones, which may register
              \* after the first write; the sizes of data; the bound on the blocks
  buffer,                         \* [magic, seq, size, crc] of every unit
  writePos, sequence,             \* the control block
  numReaders,                     \* (below 0 where the unsigned num_readers wraps)
  active, readPos, pid,           \* its reader slots
  writer,     \* where the writer is
  size,       \* the size of the block it writes
  adjusting,  \* the slot its loop over the readers has come to
  reader,     \* where each reader is
  slot,       \* reader_id_, 0 before registration
  seen,       \* the read_pos and write_pos that tryRead has loaded
  block,      \* the DataBlock it holds
  last,       \* the number of the last block delivered, -1 before the first
  dead,       \* killed readers
  starts,     \* history: where the blocks written so far begin
  skipped,    \* history: whether the end of the ring was ever skipped
  disturbed   \* history: live readers whose slot was freed by, or shared with, another

control == <<buffer, writePos, sequence, numReaders, active, readPos, pid>>
wvars == <<writer, size, adjusting>>
rvars == <<reader, slot, seen, block, last>>
ghosts == <<starts, skipped, disturbed>>
vars == <<setup, control, wvars, rvars, dead, ghosts>>

Blank == [magic |-> FALSE, seq |-> -1, size |-> 0, crc |-> -1]
NoBlock == [at |-> 0, seq |-> -1, size |-> 0]

Init ==
  /\ setup \in Setups
  /\ buffer = [u \in Units |-> Blank]
  /\ writePos = 0 /\ sequence = 0 /\ numReaders = 0
  /\ active = [i \in Slots |-> FALSE]
  /\ readPos = [i \in Slots |-> 0]
  /\ pid = [i \in Slots |-> NoReader]
  /\ writer = "idle" /\ size = 0 /\ adjusting = 0
  /\ reader = [r \in Readers |-> "new"]
  /\ slot = [r \in Readers |-> 0]
  /\ seen = [r \in Readers |-> [read |-> 0, write |-> 0]]
  /\ block = [r \in Readers |-> NoBlock]
  /\ last = [r \in Readers |-> -1]
  /\ dead = {} /\ starts = <<>> /\ skipped = FALSE /\ disturbed = {}

At(r, l) == r \notin dead /\ reader[r] = l
Goto(r, l) == reader' = [reader EXCEPT ![r] = l]

\* the live readers, r apart, that believe slot i is theirs
Others(i, r) == {q \in Readers \ (dead \cup {r}) : slot[q] = i /\ reader[q] # "gone"}

\* getMinReadPos
MinReadPos == Min({writePos} \cup {readPos[i] : i \in {j \in Slots : active[j]}})
-----------------------------------------------------------------------------
(* The writer *)

\* cleanupDeadReaders, at the start of some writes: a slot whose process is dead
\* (pid 0 included: claimed and not yet registered) or silent is freed; pid stays.
CleanReader(i) ==
  /\ writer = "idle" /\ active[i]
  /\ pid[i] \in {NoReader} \cup dead \cup setup.frail
  /\ active' = [active EXCEPT ![i] = FALSE]
  /\ numReaders' = numReaders - 1
  /\ disturbed' = disturbed \cup Others(i, NoReader)
  /\ UNCHANGED <<setup, buffer, writePos, sequence, readPos, pid, wvars, rvars, dead, starts, skipped>>

\* space for the block in an empty ring
Fits_Empty(s) == 1 + s <= Capacity

\* The test for space leaves out what a wrap will skip.
Fits(s) == writePos - MinReadPos + 1 + s <= Capacity

\* Does the block run over the end of the ring?
Wraps(s) == (writePos % Capacity) + 1 + s > Capacity

\* write up to the choice of the place; a block that does not fit is refused (-1)
\* under every overflow policy.
Write(s) ==
  /\ writer = "idle" /\ sequence < setup.writes /\ Fits(s)
  /\ sequence' = sequence + 1
  /\ size' = s
  /\ writer' = IF Wraps(s) THEN "skip" ELSE "clear"
  /\ UNCHANGED <<setup, buffer, writePos, numReaders, active, readPos, pid, adjusting, rvars, dead, ghosts>>

\* The end of the ring is skipped ...
Skip ==
  /\ writer = "skip"
  /\ writePos' = writePos + Capacity - (writePos % Capacity)
  /\ adjusting' = 1
  /\ writer' = "adjust"
  /\ skipped' = TRUE
  /\ UNCHANGED <<setup, buffer, sequence, numReaders, active, readPos, pid, size, rvars, dead, starts, disturbed>>

\* ... and each reader behind the new position is moved there: the further condition
\* on its offset compares it with 0.
Adjust ==
  /\ writer = "adjust"
  /\ readPos' = [readPos EXCEPT ![adjusting] = IF active[adjusting] THEN Max({@, writePos}) ELSE @]
  /\ adjusting' = (adjusting + 1) % (NumSlots + 1)
  /\ writer' = IF adjusting = NumSlots THEN "clear" ELSE "adjust"
  /\ UNCHANGED <<setup, buffer, writePos, sequence, numReaders, active, pid, size, rvars, dead, ghosts>>

Offset == writePos % Capacity

\* the new header over a magic that is still set
ClearMagic_Kept ==
  /\ writer = "clear"
  /\ buffer' = [buffer EXCEPT ![Offset] = [@ EXCEPT !.seq = sequence - 1, !.size = size]]
  /\ writer' = "fill"
  /\ UNCHANGED <<setup, writePos, sequence, numReaders, active, readPos, pid, size, adjusting, rvars, dead, ghosts>>

\* The header comes first, with magic 0 and its old crc; ...
ClearMagic ==
  /\ writer = "clear"
  /\ buffer' = [buffer EXCEPT ![Offset] = [@ EXCEPT !.magic = FALSE, !.seq = sequence - 1, !.size = size]]
  /\ writer' = "fill"
  /\ UNCHANGED <<setup, writePos, sequence, numReaders, active, readPos, pid, size, adjusting, rvars, dead, ghosts>>

\* ... then the data, ...
Fill ==
  /\ writer = "fill"
  /\ buffer' = [u \in Units |-> IF u \in Offset + 1 .. Offset + size
                                THEN [Blank EXCEPT !.seq = sequence - 1] ELSE buffer[u]]
  /\ writer' = "magic"
  /\ UNCHANGED <<setup, writePos, sequence, numReaders, active, readPos, pid, size, adjusting, rvars, dead, ghosts>>

\* ... the crc and the magic, ...
SetMagic ==
  /\ writer = "magic"
  /\ buffer' = [buffer EXCEPT ![Offset] = [@ EXCEPT !.magic = TRUE, !.crc = sequence - 1]]
  /\ writer' = "advance"
  /\ UNCHANGED <<setup, writePos, sequence, numReaders, active, readPos, pid, size, adjusting, rvars, dead, ghosts>>

\* ... and the new position last.
Advance ==
  /\ writer = "advance"
  /\ writePos' = writePos + 1 + size
  /\ writer' = "idle"
  /\ starts' = Append(starts, writePos)
  /\ UNCHANGED <<setup, buffer, sequence, numReaders, active, readPos, pid, size, adjusting, rvars, dead, skipped, disturbed>>
-----------------------------------------------------------------------------
(* A reader *)

\* registerReader: the first free slot is claimed; its fields are set afterwards.
Claim(r) ==
  LET free == {i \in Slots : ~active[i]}
  IN /\ At(r, "new") /\ r \in setup.readers /\ free # {}
     /\ r \in setup.late \/ sequence = 0
     /\ active' = [active EXCEPT ![Min(free)] = TRUE]
     /\ slot' = [slot EXCEPT ![r] = Min(free)]
     /\ disturbed' = IF Others(Min(free), r) = {} THEN disturbed ELSE disturbed \cup {r}
     /\ Goto(r, "claimed")
     /\ UNCHANGED <<setup, buffer, writePos, sequence, numReaders, readPos, pid, wvars, seen, block, last, dead,
                    starts, skipped>>

Register(r) ==
  /\ At(r, "claimed")
  /\ readPos' = [readPos EXCEPT ![slot[r]] = 0]
  /\ pid' = [pid EXCEPT ![slot[r]] = r]
  /\ numReaders' = numReaders + 1
  /\ Goto(r, "idle")
  /\ UNCHANGED <<setup, buffer, writePos, sequence, active, wvars, slot, seen, block, last, dead, ghosts>>

\* tryRead loads its position, ...
LoadRead(r) ==
  /\ At(r, "idle")
  /\ seen' = [seen EXCEPT ![r].read = readPos[slot[r]]]
  /\ Goto(r, "reading")
  /\ UNCHANGED <<setup, control, wvars, slot, block, last, dead, ghosts>>

\* ... the writer's, and moves up to the smallest position of the active readers.
LoadWrite(r) ==
  LET read == Max({seen[r].read, MinReadPos})
  IN /\ At(r, "reading")
     /\ readPos' = [readPos EXCEPT ![slot[r]] = IF seen[r].read < MinReadPos THEN MinReadPos ELSE @]
     /\ seen' = [seen EXCEPT ![r] = [read |-> read, write |-> writePos]]
     /\ Goto(r, IF read < writePos THEN "loaded" ELSE "idle")
     /\ UNCHANGED <<setup, buffer, writePos, sequence, numReaders, active, pid, wvars, slot, block, last,
                    dead, ghosts>>

Place(r) == seen[r].read % Capacity
Header(r) == buffer[Place(r)]

\* validateBlock: the magic and the size are read, ...
Complete(r) == Header(r).magic /\ seen[r].write - seen[r].read >= 1 + Header(r).size

Validate(r) ==
  /\ At(r, "loaded")
  /\ Goto(r, IF Complete(r) THEN "checked" ELSE "idle")
  /\ UNCHANGED <<setup, control, wvars, slot, seen, block, last, dead, ghosts>>

\* ... then the data are compared with the crc.
Intact(r) == \A u \in Place(r) + 1 .. Place(r) + Header(r).size : buffer[u].seq = Header(r).crc

\* CRC_ERROR: past the header
Reject(r) ==
  /\ At(r, "checked") /\ ~Intact(r)
  /\ readPos' = [readPos EXCEPT ![slot[r]] = @ + 1]
  /\ Goto(r, "idle")
  /\ UNCHANGED <<setup, buffer, writePos, sequence, numReaders, active, pid, wvars, slot, seen, block, last,
                 dead, ghosts>>

Deliver(r) ==
  /\ At(r, "checked") /\ Intact(r)
  /\ block' = [block EXCEPT ![r] = [at |-> Place(r), seq |-> Header(r).seq, size |-> Header(r).size]]
  /\ last' = [last EXCEPT ![r] = Header(r).seq]
  /\ Goto(r, "holding")
  /\ UNCHANGED <<setup, control, wvars, slot, seen, dead, ghosts>>

\* releaseBlock with the position advanced by the data alone, and not at all
Release_NoHeader(r) ==
  /\ At(r, "holding")
  /\ readPos' = [readPos EXCEPT ![slot[r]] = @ + block[r].size]
  /\ block' = [block EXCEPT ![r] = NoBlock]
  /\ Goto(r, "idle")
  /\ UNCHANGED <<setup, buffer, writePos, sequence, numReaders, active, pid, wvars, slot, seen, last, dead, ghosts>>

Release_Forgotten(r) ==
  /\ At(r, "holding")
  /\ block' = [block EXCEPT ![r] = NoBlock]
  /\ Goto(r, "idle")
  /\ UNCHANGED <<setup, control, wvars, slot, seen, last, dead, ghosts>>

\* releaseBlock: nothing when the header has lost its magic (isValid)
Release(r) ==
  /\ At(r, "holding")
  /\ readPos' = [readPos EXCEPT ![slot[r]] = IF buffer[block[r].at].magic THEN @ + 1 + block[r].size ELSE @]
  /\ block' = [block EXCEPT ![r] = NoBlock]
  /\ Goto(r, "idle")
  /\ UNCHANGED <<setup, buffer, writePos, sequence, numReaders, active, pid, wvars, slot, seen, last, dead, ghosts>>

\* The destructor calls unregisterReader, whoever has the slot by now.
Leave(r) ==
  /\ At(r, "idle") \/ At(r, "holding")
  /\ active' = [active EXCEPT ![slot[r]] = FALSE]
  /\ pid' = [pid EXCEPT ![slot[r]] = NoReader]
  /\ numReaders' = numReaders - 1
  /\ disturbed' = disturbed \cup Others(slot[r], r)
  /\ Goto(r, "gone")
  /\ UNCHANGED <<setup, buffer, writePos, sequence, readPos, wvars, slot, seen, block, last, dead, starts, skipped>>

Die(r) ==
  /\ r \in setup.frail \ dead /\ reader[r] \notin {"new", "gone"}
  /\ dead' = dead \cup {r}
  /\ UNCHANGED <<setup, control, wvars, rvars, ghosts>>

WriterStep == Skip \/ Adjust \/ ClearMagic \/ Fill \/ SetMagic \/ Advance
ReadStep(r) == LoadRead(r) \/ LoadWrite(r) \/ Validate(r) \/ Reject(r) \/ Deliver(r) \/ Release(r)

Next ==
  \/ \E s \in setup.sizes : Write(s)
  \/ WriterStep
  \/ \E i \in Slots : CleanReader(i)
  \/ \E r \in Readers : Claim(r) \/ Register(r) \/ ReadStep(r) \/ Leave(r) \/ Die(r)

Spec == Init /\ [][Next]_vars

\* The writer finishes its call, and a reader that runs keeps polling.
FairSpec == Spec /\ WF_vars(WriterStep) /\ \A r \in Readers : WF_vars(ReadStep(r))
-----------------------------------------------------------------------------
(* Properties *)

\* Every variable holds a value of its type, and write stays inside the buffer.
TypeOK ==
  /\ setup \in Setups
  /\ buffer \in [Units -> [magic : BOOLEAN, seq : -1 .. setup.writes,
                           size : setup.sizes \cup {0}, crc : -1 .. setup.writes]]
  /\ writePos \in Nat /\ sequence \in 0 .. setup.writes /\ numReaders \in Int
  /\ active \in [Slots -> BOOLEAN] /\ readPos \in [Slots -> Nat]
  /\ pid \in [Slots -> Readers \cup {NoReader}]
  /\ writer \in {"idle", "skip", "adjust", "clear", "fill", "magic", "advance"}
  /\ size \in 0 .. Capacity - 1 /\ adjusting \in 0 .. NumSlots
  /\ writer \in {"clear", "fill", "magic", "advance"} => Offset + size < Capacity
  /\ reader \in [Readers -> {"new", "claimed", "idle", "reading", "loaded", "checked", "holding", "gone"}]
  /\ slot \in [Readers -> 0 .. NumSlots] /\ \A r \in Readers : reader[r] # "new" => slot[r] \in Slots
  /\ seen \in [Readers -> [read : Nat, write : Nat]]
  /\ block \in [Readers -> [at : Units, seq : -1 .. setup.writes, size : setup.sizes \cup {0}]]
  /\ last \in [Readers -> -1 .. setup.writes]
  /\ starts \in Seq(Nat) /\ skipped \in BOOLEAN /\ dead \subseteq setup.frail /\ disturbed \subseteq Readers

\* A live reader that registered before the first write and has a slot to itself
Regular(r) == r \notin UNION {setup.late, disturbed, dead}

Delivered(r) == reader[r] = "checked" /\ reader'[r] = "holding"

\* As long as the blocks fit the ring exactly, such a reader is given every block
\* once and in the order of the writes: tryRead and releaseBlock never pass over
\* one, while the writer runs into them, and other readers register, time out, are
\* killed and come back.
NothingSkipped ==
  [][\A r \in Readers : Delivered(r) /\ Regular(r) /\ ~skipped' => last'[r] = last[r] + 1]_vars

\* "skip the wasted space": the same when write has skipped the end of the ring,
\* where readers are to pass over the waste and nothing else.
OnlyWasteSkipped ==
  [][\A r \in Readers : Delivered(r) /\ Regular(r) => last'[r] = last[r] + 1]_vars

\* A header has its magic only while the data behind it are all of that block, with
\* their crc: write clears it before it touches anything and sets it when all is
\* there, and no later block is laid over the data before it is laid over the header.
\* All variables keep their types.
MagicMeansWhole ==
  /\ TypeOK
  /\ \A h \in Units : buffer[h].magic =>
       /\ buffer[h].crc = buffer[h].seq
       /\ \A u \in h + 1 .. h + buffer[h].size : u \in Units /\ buffer[u].seq = buffer[h].seq

\* The block that tryRead returned, which points into the shared memory, is the block
\* its header names, and stays so until releaseBlock, as long as the blocks fit the
\* ring exactly.  When the end of the ring is skipped, moving the reader gives the
\* block free while it is held.
HeldBlockStays ==
  \A r \in Readers : reader[r] = "holding" /\ Regular(r) /\ ~skipped =>
    /\ buffer[block[r].at].magic /\ buffer[block[r].at].seq = block[r].seq
    /\ \A u \in block[r].at + 1 .. block[r].at + block[r].size : buffer[u].seq = block[r].seq

Behind(r) == /\ Regular(r)
             /\ reader[r] \notin {"new", "claimed", "gone"}
             /\ last[r] < sequence - 1

\* The registered readers that keep polling catch up with the writer, unless they
\* leave: none is ever stuck at a position where no block begins, or waits for a
\* magic that does not come.  One that write has moved over the end of the ring may
\* be.
ReaderGoesOn ==
  (\E r \in Readers : Behind(r)) ~> (skipped \/ \A r \in Readers : ~Behind(r))
-----------------------------------------------------------------------------
(* The inductive invariant *)

\* The block being written: its header is there before its data, and those before
\* its magic.
Filling ==
  /\ writer # "idle" => size \in setup.sizes
  /\ writer = "skip" => Wraps(size)
  /\ writer = "adjust" => adjusting \in Slots /\ Offset = 0 /\ skipped
  /\ writer \in {"fill", "magic", "advance"} => buffer[Offset].seq = sequence - 1 /\ buffer[Offset].size = size
  /\ writer \in {"fill", "magic"} => ~buffer[Offset].magic
  /\ writer \in {"magic", "advance"} =>
       \A u \in Offset + 1 .. Offset + size : buffer[u].seq = sequence - 1 /\ ~buffer[u].magic
  /\ writer = "advance" => buffer[Offset].magic

\* The block behind a magic is whole, and ends before the writer if it begins there.
Whole ==
  \A h \in Units : buffer[h].magic =>
    /\ buffer[h].crc = buffer[h].seq /\ h + buffer[h].size < Capacity
    /\ \A u \in h + 1 .. h + buffer[h].size : buffer[u].seq = buffer[h].seq
    /\ h < Offset => h + buffer[h].size < Offset

\* Block k begins at Start(k), and the next one where the writer is.
Start(k) == IF k < Len(starts) THEN starts[k + 1] ELSE writePos

Laid ==
  /\ Len(starts) = IF writer = "idle" THEN sequence ELSE sequence - 1
  /\ Start(0) = 0 \/ skipped
  /\ \A k \in 1 .. Len(starts) : starts[k] < writePos
  /\ \A j, k \in 1 .. Len(starts) : j < k => starts[j] < starts[k]

\* Before the first write no reader has moved.
Untouched ==
  sequence = 0 =>
    /\ writePos = 0 /\ writer = "idle"
    /\ \A i \in Slots : readPos[i] = 0
    /\ \A r \in Readers : /\ reader[r] \in {"new", "claimed", "idle", "reading", "gone"}
                          /\ seen[r].read = 0 /\ last[r] = -1

Attached(r) == r \notin dead /\ reader[r] \notin {"new", "gone"}

\* A live reader that nobody disturbed has an active slot, which no other live
\* reader takes for its own.
Exclusive ==
  \A r \in Readers : Attached(r) /\ r \notin disturbed =>
    /\ active[slot[r]]
    /\ \A q \in Readers \ {r} : Attached(q) => slot[q] # slot[r]

Served(r) == Regular(r) /\ Attached(r)
Position(r) == readPos[slot[r]]

\* The writer does not come round to the reader, with the block it writes included.
Room(r) ==
  /\ Position(r) <= writePos
  /\ writePos - Position(r) + (IF writer = "idle" THEN 0 ELSE 1 + size) <= Capacity

\* The blocks the reader has not released are all there.
Present(k) ==
  LET header == buffer[Start(k) % Capacity]
  IN header.magic /\ header.seq = k /\ header.size = Start(k + 1) - Start(k) - 1

Kept(r) == \A k \in 0 .. Len(starts) - 1 : Position(r) <= Start(k) => Present(k)

\* The reader is at the block after the last one it was given, or at the one it holds.
Follows(r) ==
  /\ reader[r] = "claimed" => Position(r) = 0 /\ last[r] = -1
  /\ reader[r] \in {"idle", "reading", "loaded", "checked"} =>
       last[r] + 1 <= Len(starts) /\ Position(r) = Start(last[r] + 1)
  /\ reader[r] \in {"reading", "loaded", "checked"} => seen[r].read = Position(r)
  /\ reader[r] \in {"loaded", "checked"} => Position(r) < writePos
  /\ reader[r] = "holding" =>
       /\ last[r] \in 0 .. Len(starts) - 1 /\ Position(r) = Start(last[r])
       /\ block[r].at = Position(r) % Capacity /\ block[r].seq = last[r]
       /\ block[r].size = Start(last[r] + 1) - Position(r) - 1

IInv ==
  /\ TypeOK /\ Filling /\ Whole /\ Laid /\ Untouched /\ Exclusive
  /\ ~skipped => \A r \in Readers : Served(r) => Room(r) /\ Kept(r) /\ Follows(r)
==============================================================================
