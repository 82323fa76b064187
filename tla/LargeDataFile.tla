---------------------------- MODULE LargeDataFile ----------------------------
(***************************************************************************)
(* The shared memory object of a large data channel: who creates it, who   *)
(* counts as its user and who removes its name (create, initialize and the *)
(* destructor of LargeDataChannel.cpp, cleanupOrphanedChannels).           *)
(*                                                                         *)
(* Nothing is locked.  A process that opens the channel creates the object *)
(* if it finds it without a size, and adds itself to ref_count otherwise;  *)
(* the user that brings ref_count to 0 removes the name, and so does every *)
(* sweep for orphans that finds the object abandoned.  Both remove by      *)
(* name, whatever object has it by then.                                   *)
(***************************************************************************)
EXTENDS Integers, FiniteSets

CONSTANTS
  Processes,  \* process ids
  MaxObjects, \* bound on the objects created
  MaxReaders, \* MAX_READERS
  Setups,     \* see Scenario
  None        \* no object, no process

\* opens: how often each process opens the channel; started: the processes that
\* have opened another channel before, and made their startup sweep; readers,
\* writers: those that register as readers and that write; sweepers: those whose
\* cleanup thread sweeps; mortal: those that may be killed; idle: heartbeats may be
\* older than the timeout; mayFail: ftruncate and mmap may fail; found: the channel's
\* name contains "channel".
Scenario == [opens : [Processes -> Nat], started : SUBSET Processes, readers : SUBSET Processes,
             writers : SUBSET Processes, sweepers : SUBSET Processes, mortal : SUBSET Processes,
             idle : BOOLEAN, mayFail : BOOLEAN, found : BOOLEAN]

ASSUME FileAssumption ==
  /\ IsFiniteSet(Processes) /\ MaxObjects \in Nat /\ MaxReaders \in Nat
  /\ Setups \subseteq Scenario /\ None \notin Processes \cup Nat

Objects == 1 .. MaxObjects
Slots == 1 .. MaxReaders

VARIABLES
  setup,   \* the scenario
  name,    \* the object that has the channel's name
  file,    \* the objects
  next,    \* the next object
  pc,      \* where each process is
  held,    \* the object it has open
  reading, \* its reader_id_
  opened,  \* how often it opened the channel
  swept,   \* the processes that have done their startup sweep
  thread,  \* where the cleanup of each process is
  target,  \* the object it looks at
  dead,    \* the processes that were killed
  upset    \* history: the races and timeouts that happened

local == <<pc, held, reading, opened>>
sweeping == <<swept, thread, target>>
vars == <<setup, name, file, next, local, sweeping, dead, upset>>

\* RingBufferControl, as far as it is about the users; beat: the heartbeat is not 0
NewFile == [size |-> FALSE, ref |-> 0, writer |-> None, count |-> 0, beat |-> FALSE,
            slot |-> [i \in Slots |-> [active |-> FALSE, pid |-> None, beat |-> FALSE]]]

Init ==
  /\ setup \in Setups
  /\ name = None /\ file = [o \in Objects |-> NewFile] /\ next = 1
  /\ pc = [p \in Processes |-> "idle"] /\ held = [p \in Processes |-> None]
  /\ reading = [p \in Processes |-> None] /\ opened = [p \in Processes |-> 0]
  /\ swept = setup.started /\ thread = [p \in Processes |-> "idle"] /\ target = [p \in Processes |-> None]
  /\ dead = {} /\ upset = {}

Live(p) == p \notin dead
At(p, l) == Live(p) /\ pc[p] = l
Goto(p, l) == pc' = [pc EXCEPT ![p] = l]
SweepAt(p, l) == Live(p) /\ thread[p] = l
SweepGoto(p, l) == thread' = [thread EXCEPT ![p] = l]

\* The object that p has open changes.
Change(p, v) == file' = [file EXCEPT ![held[p]] = v]
Blame(condition, reason) == upset' = IF condition THEN upset \cup {reason} ELSE upset
-----------------------------------------------------------------------------
(* create and initialize *)

\* The first channel of a process is opened after a sweep.
Create(p) ==
  /\ At(p, "idle") /\ thread[p] = "idle" /\ opened[p] < setup.opens[p]
  /\ opened' = [opened EXCEPT ![p] = @ + 1]
  /\ IF p \in swept THEN Goto(p, "open") /\ UNCHANGED thread
                    ELSE Goto(p, "startup") /\ SweepGoto(p, "look")
  /\ UNCHANGED <<setup, name, file, next, held, reading, swept, target, dead, upset>>

StartupDone(p) ==
  /\ At(p, "startup") /\ thread[p] = "idle"
  /\ swept' = swept \cup {p} /\ Goto(p, "open")
  /\ UNCHANGED <<setup, name, file, next, held, reading, opened, thread, target, dead, upset>>

Removing == \E q \in Processes : Live(q) /\ (pc[q] = "unlink" \/ thread[q] = "remove")

\* shm_open(O_CREAT)
Open(p) ==
  /\ At(p, "open") /\ Goto(p, "stat")
  /\ IF name = None
       THEN /\ next \in Objects /\ next' = next + 1
            /\ name' = next /\ held' = [held EXCEPT ![p] = next]
       ELSE held' = [held EXCEPT ![p] = name] /\ UNCHANGED <<name, next>>
  /\ Blame(Removing, "removing")
  /\ UNCHANGED <<setup, file, reading, opened, sweeping, dead>>

\* fstat: the creator is the one that finds no size.
Stat(p) ==
  /\ At(p, "stat")
  /\ Goto(p, IF file[held[p]].size THEN "count" ELSE "size")
  /\ Blame(~file[held[p]].size /\ \E q \in Processes \ {p} : pc[q] = "size" /\ held[q] = held[p], "double")
  /\ UNCHANGED <<setup, name, file, next, held, reading, opened, sweeping, dead>>

Size(p) ==
  /\ At(p, "size") /\ Goto(p, "store")
  /\ Change(p, [file[held[p]] EXCEPT !.size = TRUE])
  /\ UNCHANGED <<setup, name, next, held, reading, opened, sweeping, dead, upset>>

InitializeFails(p) ==
  /\ setup.mayFail /\ (At(p, "size") \/ At(p, "store") \/ At(p, "count"))
  /\ Goto(p, "idle") /\ held' = [held EXCEPT ![p] = None] /\ Blame(TRUE, "failed")
  /\ UNCHANGED <<setup, name, file, next, reading, opened, sweeping, dead>>

\* The creator's stores: ref_count, ...
Store(p) ==
  /\ At(p, "store") /\ Goto(p, "record")
  /\ Change(p, [file[held[p]] EXCEPT !.ref = 1])
  /\ UNCHANGED <<setup, name, next, held, reading, opened, sweeping, dead, upset>>

\* ... writer_pid, ...
Record(p) ==
  /\ At(p, "record") /\ Goto(p, "clear")
  /\ Change(p, [file[held[p]] EXCEPT !.writer = p])
  /\ UNCHANGED <<setup, name, next, held, reading, opened, sweeping, dead, upset>>

\* ... num_readers and the readers' slots.
Clear(p) ==
  /\ At(p, "clear") /\ Goto(p, "use")
  /\ Change(p, [file[held[p]] EXCEPT !.count = 0, !.slot = NewFile.slot])
  /\ UNCHANGED <<setup, name, next, held, reading, opened, sweeping, dead, upset>>

Count_Twice(p) ==
  /\ At(p, "count") /\ Goto(p, "use")
  /\ Change(p, [file[held[p]] EXCEPT !.ref = @ + 2])
  /\ Blame(file[held[p]].ref = 0, "zero")
  /\ UNCHANGED <<setup, name, next, held, reading, opened, sweeping, dead>>

\* The others add themselves to ref_count.
Count(p) ==
  /\ At(p, "count") /\ Goto(p, "use")
  /\ Change(p, [file[held[p]] EXCEPT !.ref = @ + 1])
  /\ Blame(file[held[p]].ref = 0, "zero")
  /\ UNCHANGED <<setup, name, next, held, reading, opened, sweeping, dead>>
-----------------------------------------------------------------------------
(* Use: registerReader, write with its cleanupDeadReaders *)

Free(o) == {i \in Slots : ~file[o].slot[i].active}

\* The creator of o is not done with its stores.
Initialising(o) == \E q \in Processes : Live(q) /\ held[q] = o /\ pc[q] \in {"store", "record", "clear"}

\* Slot i is between the two halves of an unregisterReader.
Vacating(o, i) == \E q \in Processes : Live(q) /\ held[q] = o /\ pc[q] = "leave" /\ reading[q] = i

\* The first free slot is taken by setting active, ...
RegisterReader(p) ==
  /\ At(p, "use") /\ p \in setup.readers /\ reading[p] = None
  /\ \E i \in Free(held[p]) :
       /\ \A j \in Free(held[p]) : i <= j
       /\ Change(p, [file[held[p]] EXCEPT !.slot[i].active = TRUE])
       /\ reading' = [reading EXCEPT ![p] = i]
       /\ upset' = upset \cup {x \in {"hasty"} : Initialising(held[p])} \cup {x \in {"overtaking"} : Vacating(held[p], i)}
  /\ Goto(p, "name")
  /\ UNCHANGED <<setup, name, next, held, opened, sweeping, dead>>

\* ... then pid, heartbeat and num_readers are.
NameReader(p) ==
  /\ At(p, "name") /\ Goto(p, "use")
  /\ Change(p, [file[held[p]] EXCEPT !.slot[reading[p]].pid = p, !.slot[reading[p]].beat = TRUE, !.count = @ + 1])
  /\ UNCHANGED <<setup, name, next, held, reading, opened, sweeping, dead, upset>>

DeadReaders_AllAfterFirst(o) ==
  {i \in Slots : file[o].slot[i].active /\ \E j \in 1 .. i : file[o].slot[j].active /\ file[o].slot[j].pid \in dead \cup {None}}

\* The slots that a clean-up gives free: without a live process, or silent.
DeadReaders(o) == {i \in Slots : /\ file[o].slot[i].active
                                 /\ file[o].slot[i].pid \in dead \cup {None} \/ setup.idle}

Naming(o) == \E q \in Processes : Live(q) /\ held[q] = o /\ pc[q] = "name"

\* The clean-up is made every 30 s; a write sets the writer's heartbeat.
Write(p) ==
  /\ At(p, "use") /\ p \in setup.writers
  /\ \E gone \in {{}, DeadReaders(held[p])} :
       /\ gone # {} \/ ~file[held[p]].beat
       /\ LET f == file[held[p]]
          IN Change(p, [f EXCEPT !.beat = TRUE, !.count = @ - Cardinality(gone),
                           !.slot = [i \in Slots |-> [f.slot[i] EXCEPT !.active = @ /\ i \notin gone]]])
       /\ Blame(gone # {} /\ Naming(held[p]), "unnamed")
  /\ UNCHANGED <<setup, name, next, local, sweeping, dead>>
-----------------------------------------------------------------------------
(* The destructor *)

\* unregisterReader gives the slot free, ...
Close(p) ==
  /\ At(p, "use")
  /\ IF reading[p] # None
       THEN Change(p, [file[held[p]] EXCEPT !.slot[reading[p]].active = FALSE]) /\ Goto(p, "leave")
       ELSE UNCHANGED file /\ Goto(p, "check")
  /\ UNCHANGED <<setup, name, next, held, reading, opened, sweeping, dead, upset>>

\* ... then takes the process id and num_readers back.
Leave(p) ==
  /\ At(p, "leave") /\ Goto(p, "check") /\ reading' = [reading EXCEPT ![p] = None]
  /\ Change(p, [file[held[p]] EXCEPT !.slot[reading[p]].pid = None, !.count = @ - 1])
  /\ UNCHANGED <<setup, name, next, held, opened, sweeping, dead, upset>>

\* ref_count is looked at, ...
Check(p) ==
  /\ At(p, "check")
  /\ IF file[held[p]].ref > 0
       THEN Goto(p, "drop") /\ UNCHANGED held
       ELSE Goto(p, "idle") /\ held' = [held EXCEPT ![p] = None]
  /\ UNCHANGED <<setup, name, file, next, reading, opened, sweeping, dead, upset>>

Drop_OffByOne(p) ==
  /\ At(p, "drop")
  /\ Change(p, [file[held[p]] EXCEPT !.ref = @ - 1])
  /\ Goto(p, IF file[held[p]].ref = 0 THEN "unlink" ELSE "idle") /\ held' = [held EXCEPT ![p] = None]
  /\ UNCHANGED <<setup, name, next, reading, opened, sweeping, dead, upset>>

\* ... then decremented; the object is unmapped, ...
Drop(p) ==
  /\ At(p, "drop")
  /\ Change(p, [file[held[p]] EXCEPT !.ref = @ - 1])
  /\ Goto(p, IF file[held[p]].ref = 1 THEN "unlink" ELSE "idle") /\ held' = [held EXCEPT ![p] = None]
  /\ UNCHANGED <<setup, name, next, reading, opened, sweeping, dead, upset>>

\* ... and the last user removes the name.
Unlink(p) ==
  /\ At(p, "unlink") /\ Goto(p, "idle") /\ name' = None
  /\ UNCHANGED <<setup, file, next, held, reading, opened, sweeping, dead, upset>>
-----------------------------------------------------------------------------
(* cleanupOrphanedChannels: at startup and in the cleanup thread *)

StartSweep(p) ==
  /\ SweepAt(p, "idle") /\ p \in setup.sweepers /\ pc[p] # "startup" /\ SweepGoto(p, "look")
  /\ UNCHANGED <<setup, name, file, next, local, swept, target, dead, upset>>

\* Only names that contain "channel" are looked at; an object without a size cannot
\* be mapped and is skipped.
Look(p) ==
  /\ SweepAt(p, "look")
  /\ IF setup.found /\ \E o \in Objects : name = o /\ file[o].size
       THEN target' = [target EXCEPT ![p] = name] /\ SweepGoto(p, "judge")
       ELSE SweepGoto(p, "idle") /\ UNCHANGED target
  /\ UNCHANGED <<setup, name, file, next, local, swept, dead, upset>>

Unreferenced(o) == file[o].ref = 0

AllDead_WriterOnly(o) == file[o].writer \in dead

AllDead_NeedsReaders(o) ==
  /\ file[o].writer \in dead \cup {None}
  /\ \A i \in Slots : file[o].slot[i].active => file[o].slot[i].pid \in dead \cup {None}
  /\ file[o].count # 0

\* A slot that has just been taken has no process id yet, or that of its last user.
AllDead(o) ==
  /\ file[o].writer \in dead \cup {None}
  /\ \A i \in Slots : file[o].slot[i].active => file[o].slot[i].pid \in dead \cup {None}
  /\ file[o].writer # None \/ file[o].count # 0

Silent(o) ==
  /\ setup.idle /\ file[o].beat
  /\ file[o].count = 0 \/ \A i \in Slots : file[o].slot[i].active => file[o].slot[i].beat

Recorded(o) == {file[o].writer} \cup {file[o].slot[i].pid : i \in {i \in Slots : file[o].slot[i].active}}

Holders(o) == {q \in Processes : Live(q) /\ held[q] = o}

\* The object is judged after it was opened, when the name may be another's.
Doom(p, condition, reason) ==
  /\ SweepGoto(p, "remove") /\ UNCHANGED target
  /\ upset' = upset \cup {x \in {reason} : condition} \cup {x \in {"removing"} : name \notin {target[p], None}}

Judge(p) ==
  /\ SweepAt(p, "judge")
  /\ LET o == target[p]
     IN \/ Unreferenced(o) /\ Doom(p, \E q \in Holders(o) : pc[q] = "store", "unborn")
        \/ /\ ~Unreferenced(o) /\ AllDead(o)
           /\ Doom(p, ~(Holders(o) \subseteq Recorded(o)), "unrecorded")
        \/ ~Unreferenced(o) /\ ~AllDead(o) /\ Silent(o) /\ Doom(p, Holders(o) # {}, "idle")
        \/ /\ ~Unreferenced(o) /\ ~AllDead(o) /\ SweepGoto(p, "idle")
           /\ target' = [target EXCEPT ![p] = None] /\ UNCHANGED upset
  /\ UNCHANGED <<setup, name, file, next, local, swept, dead>>

\* shm_unlink, by name
Remove(p) ==
  /\ SweepAt(p, "remove") /\ SweepGoto(p, "idle")
  /\ name' = None /\ target' = [target EXCEPT ![p] = None]
  /\ UNCHANGED <<setup, file, next, local, swept, dead, upset>>
-----------------------------------------------------------------------------
Kill(p) ==
  /\ p \in setup.mortal \ dead /\ dead' = dead \cup {p}
  /\ UNCHANGED <<setup, name, file, next, local, sweeping, upset>>

Use(p) == Create(p) \/ RegisterReader(p) \/ Write(p) \/ Close(p)

Work(p) ==
  \/ StartupDone(p) \/ Open(p) \/ Stat(p) \/ Size(p) \/ InitializeFails(p) \/ Store(p) \/ Record(p)
  \/ Clear(p) \/ Count(p) \/ NameReader(p) \/ Leave(p) \/ Check(p) \/ Drop(p) \/ Unlink(p)

Sweep(p) == StartSweep(p) \/ Look(p) \/ Judge(p) \/ Remove(p)

Next == \E p \in Processes : Use(p) \/ Work(p) \/ Sweep(p) \/ Kill(p)

Spec == Init /\ [][Next]_vars

\* The cleanup thread comes back every two minutes, and finishes what it began.
FairSpec == Spec /\ \A p \in Processes : WF_vars(Sweep(p))
-----------------------------------------------------------------------------
(* Properties *)

Early == {"stat", "size", "store", "count"}
Attached == {"record", "clear", "use", "name", "leave", "check", "drop"}

\* The processes that have counted themselves in ref_count of object o, killed
\* ones included
Users(o) == {p \in Processes : pc[p] \in Attached /\ held[p] = o}

Slot == [active : BOOLEAN, pid : Processes \cup {None}, beat : BOOLEAN]
File == [size : BOOLEAN, ref : Int, writer : Processes \cup {None}, count : Int, beat : BOOLEAN, slot : [Slots -> Slot]]

\* Every variable has its type.
TypeOK ==
  /\ setup \in Setups /\ name \in Objects \cup {None} /\ next \in 1 .. MaxObjects + 1
  /\ file \in [Objects -> File]
  /\ pc \in [Processes -> Early \cup Attached \cup {"idle", "startup", "open", "unlink"}]
  /\ held \in [Processes -> Objects \cup {None}] /\ reading \in [Processes -> Slots \cup {None}]
  /\ opened \in [Processes -> Nat] /\ swept \subseteq Processes
  /\ thread \in [Processes -> {"idle", "look", "judge", "remove"}]
  /\ target \in [Processes -> Objects \cup {None}] /\ dead \subseteq Processes
  /\ upset \subseteq {"removing", "double", "failed", "zero", "unborn", "unrecorded", "idle",
                     "hasty", "unnamed", "overtaking"}

\* None of the races happened that concern more than the readers' slots.
Calm == upset \subseteq {"failed", "hasty", "unnamed", "overtaking"}

\* A live process that has the channel open uses the object that has the name, so
\* that the next one to open it meets it there: neither the last user nor a sweep
\* takes the name away under a user.  The code gives no such guarantee when the
\* channel is opened while its name is being removed ("removing") or while
\* ref_count is 0 ("zero"), is created twice ("double"), is swept while it is
\* created ("unborn"), when its writer is dead and a user is no reader
\* ("unrecorded"), or when heartbeats are old ("idle").  All variables keep their
\* types.
OneChannel ==
  /\ TypeOK
  /\ Calm => \A p \in Processes : Live(p) /\ pc[p] \in Attached => held[p] = name

\* ref_count is the number of processes that have the channel open, killed ones
\* included, under the same conditions; it never exceeds that number, whatever
\* races there were.
RefsCountUsers ==
  \A o \in Objects :
    /\ file[o].ref <= Cardinality(Users(o))
    /\ Calm => file[o].ref = Cardinality(Users(o))

\* Nothing happened that may cost a live reader its slot: nobody created the object
\* twice ("double"), or registered while the creator still initialises the slots
\* ("hasty") or a reader leaves the slot ("overtaking"), no clean-up came while a
\* reader had taken a slot and not yet stored its process id ("unnamed"), and no
\* heartbeat is old.
Orderly == ~setup.idle /\ upset \cap {"double", "hasty", "unnamed", "overtaking"} = {}

\* A live process that has registered as a reader has its slot, with its process id,
\* until it unregisters, so that it keeps the writer from overwriting what it has not
\* read and a sweep from removing the channel: no other process's registerReader,
\* unregisterReader, cleanupDeadReaders, creation or death takes it away.  The code
\* gives no such guarantee unless all of these are Orderly.
ReadersKeepTheirSlot ==
  Orderly =>
    \A p \in Processes : Live(p) /\ pc[p] = "use" /\ reading[p] # None =>
      LET s == file[held[p]].slot[reading[p]] IN s.active /\ s.pid = p

\* "Auto-cleanup on process exit": when everybody has closed the channel its name
\* is gone, whatever races there were, as long as nobody was killed and no
\* initialize failed.
NothingLeft ==
  dead = {} /\ "failed" \notin upset /\ (\A p \in Processes : pc[p] = "idle") => name = None

\* The invariant the proofs rest on.  Where a process is tells what it has open;
\* objects not yet created are blank; a sweep looks at objects that have a size.
Placed ==
  /\ name # None => name < next
  /\ \A p \in Processes :
       /\ pc[p] \in Early \cup Attached <=> held[p] # None
       /\ held[p] # None => held[p] < next
       /\ reading[p] # None => pc[p] \in {"name", "use", "leave"}
       /\ pc[p] \in {"name", "leave"} => reading[p] # None
       /\ thread[p] \in {"judge", "remove"} => target[p] # None /\ file[target[p]].size
  /\ \A o \in Objects : o >= next => file[o] = NewFile

\* An object has one creator, which is done before anybody uses the object.
Born(o) ==
  /\ ~file[o].size => \A p \in Processes : held[p] = o => pc[p] \in {"stat", "size"}
  /\ \A p \in Processes : held[p] = o /\ pc[p] = "size" => ~file[o].size
  /\ \A p \in Processes : held[p] = o /\ pc[p] \in {"size", "store"} =>
       \A q \in Processes \ {p} : held[q] = o => pc[q] \in {"stat", "count"}

\* Nobody uses the object any more, or will without finding that ref_count is 0.
Finished(o) ==
  /\ file[o].size
  /\ \A p \in Holders(o) : file[o].ref = 0 /\ pc[p] \in {"stat", "count"}

Named ==
  /\ \A o \in Objects : o < next /\ o # name => Finished(o)
  /\ Removing /\ name # None => Finished(name)

\* Whoever has an object open past fstat, unless it creates it, finds a size; an
\* object has at most one creator, which is done before anybody reads.
Sized == \A p \in Processes : pc[p] \in Attached \cup {"store", "count"} => file[held[p]].size

Created ==
  /\ \A p, q \in Processes : pc[p] = "size" /\ pc[q] = "size" /\ held[p] = held[q] => p = q
  /\ \A p \in Processes : pc[p] = "size" => ~file[held[p]].size

\* Whoever reads has its slot; no two live readers have the same.
Seated ==
  \A p \in Processes : Live(p) /\ pc[p] \in {"name", "use"} /\ reading[p] # None =>
    /\ file[held[p]].slot[reading[p]].active
    /\ pc[p] = "use" => file[held[p]].slot[reading[p]].pid = p
    /\ ~Initialising(held[p])
    /\ \A q \in Processes \ {p} : Live(q) /\ held[q] = held[p] => reading[q] # reading[p]

\* Whoever brings ref_count to 0 removes the name; before the first user there is
\* one about to become it.
LastRemoves ==
  dead = {} /\ "failed" \notin upset /\ name # None /\ (\A p \in Processes : pc[p] # "unlink") =>
    \/ file[name].ref >= 1
    \/ /\ file[name].ref = 0 /\ Users(name) = {}
       /\ \E p \in Processes : held[p] = name /\ pc[p] \in Early

IInv ==
  /\ TypeOK /\ Placed /\ RefsCountUsers /\ LastRemoves
  /\ Calm => Named /\ \A o \in Objects : Born(o)
  /\ Sized /\ (Orderly => Created /\ Seated)

Abandoned ==
  /\ name # None /\ setup.found /\ \E p \in setup.sweepers : Live(p)
  /\ LET f == file[name]
     IN /\ Holders(name) = {} /\ f.size
        /\ f.writer = None \/ f.writer \in dead
        /\ f.ref = 0 \/ f.writer # None \/ f.count # 0

\* "Startup cleanup for orphaned channels" and the cleanup thread: as long as a
\* node lives on, a channel whose users are gone and whose creator is dead is
\* removed or opened again.  Not so if the channel's name does not contain "channel",
\* which create() does not ask for, or if the creator was killed before it recorded
\* its process id, or before the object got its size.
OrphansGo == Abandoned ~> ~Abandoned
==============================================================================
