----------------------------- MODULE RegistryFile -----------------------------
(***************************************************************************)
(* The life of the shared object /librpc_registry: initialize, the         *)
(* destructor and cleanupOrphanedRegistry of SharedMemoryRegistry.cpp.     *)
(*                                                                         *)
(* The name is bound to at most one object; an object that was unlinked    *)
(* lives on for those who have it mapped.  The creator fills it in without *)
(* a lock and sets magic last; everybody else works on it under its mutex. *)
(* Sections under the mutex are one step here, since they read and write   *)
(* only what the mutex protects; what happens outside it is split.  An     *)
(* instance is one SharedMemoryRegistry; a process may have several.       *)
(***************************************************************************)
EXTENDS Integers, FiniteSets

CONSTANTS
  Instances,  \* SharedMemoryRegistry objects
  Processes,
  Owner,      \* the process of each instance
  Mortal,     \* the processes that may be killed
  CanFail,    \* TRUE: ftruncate and mmap may fail
  MaxObjects, \* bound on the objects ever created under the name
  CountMod    \* ref_count wraps at 2^32

Objects == 1 .. MaxObjects

ASSUME FileAssumption ==
  /\ MaxObjects \in Nat \ {0} /\ CountMod \in Nat \ {0, 1}
  /\ IsFiniteSet(Instances) /\ Owner \in [Instances -> Processes] /\ Mortal \subseteq Processes
  /\ CanFail \in BOOLEAN

VARIABLES
  name,    \* the object the name is bound to, 0 if none
  object,  \* the objects: sized, magic, ref_pids (whose pid is in slot 0, how often
           \* each is in the others), ref_count, and how often it was initialised
  created, \* how many objects were created
  pc,      \* where each instance is
  held,    \* the object it has mapped (shm_fd_, registry_), 0 if none
  swept,   \* the object its cleanupOrphanedRegistry has opened
  back,    \* where it goes on after cleanupOrphanedRegistry
  dead,    \* the processes that were killed
  upset    \* history: a removal by name crossed a process that was opening the object

vars == <<name, object, created, pc, held, swept, back, dead, upset>>

Unused == [sized |-> FALSE, magic |-> FALSE, first |-> {}, pids |-> [p \in Processes |-> 0], count |-> 0, inits |-> 0]

Init ==
  /\ name = 0
  /\ object = [o \in Objects |-> Unused]
  /\ created = 0
  /\ pc = [i \in Instances |-> "start"]
  /\ held = [i \in Instances |-> 0]
  /\ swept = [i \in Instances |-> 0]
  /\ back = [i \in Instances |-> "start"]
  /\ dead = {} /\ upset = FALSE

At(i, l) == Owner[i] \notin dead /\ pc[i] = l
Goto(i, l) == pc' = [pc EXCEPT ![i] = l]
Opening(i) == Owner[i] \notin dead /\ pc[i] \in {"resize", "adopt", "stat", "reset", "publish", "wait"}
Removing == \E i \in Instances : At(i, "unlink")
Upset(condition) == upset' = (upset \/ condition)
-----------------------------------------------------------------------------
(* initialize *)

\* shm_open with O_CREAT | O_EXCL
Create(i) ==
  /\ At(i, "start") /\ name = 0 /\ created < MaxObjects
  /\ created' = created + 1
  /\ name' = created + 1
  /\ held' = [held EXCEPT ![i] = created + 1]
  /\ Goto(i, "resize")
  /\ Upset(Removing)
  /\ UNCHANGED <<object, swept, back, dead>>

CreateFails(i) ==
  /\ At(i, "start") /\ name # 0
  /\ Goto(i, "open")
  /\ UNCHANGED <<name, object, created, held, swept, back, dead, upset>>

\* ftruncate by the creator, or by an opener that met size 0; then mmap
Resize(i) ==
  /\ At(i, "resize") \/ At(i, "adopt")
  /\ object' = [object EXCEPT ![held[i]].sized = TRUE]
  /\ Goto(i, "reset")
  /\ UNCHANGED <<name, created, held, swept, back, dead, upset>>

AdoptFails(i) ==
  /\ CanFail /\ At(i, "adopt")
  /\ held' = [held EXCEPT ![i] = 0]
  /\ Goto(i, "failed")
  /\ UNCHANGED <<name, object, created, swept, back, dead, upset>>

\* The creator's ftruncate, or the mmap of either, fails: the name is unlinked.
CreatorFails(i) ==
  /\ CanFail /\ (At(i, "resize") \/ At(i, "reset"))
  /\ name' = 0
  /\ held' = [held EXCEPT ![i] = 0]
  /\ Goto(i, "failed")
  /\ Upset(name # held[i] \/ \E j \in Instances \ {i} : Owner[j] \notin dead /\ held[j] = name)
  /\ UNCHANGED <<object, created, swept, back, dead>>

Open(i) ==
  /\ At(i, "open") /\ name # 0
  /\ held' = [held EXCEPT ![i] = name]
  /\ Goto(i, "stat")
  /\ Upset(Removing)
  /\ UNCHANGED <<name, object, created, swept, back, dead>>

OpenFails(i) ==
  /\ At(i, "open") /\ name = 0
  /\ Goto(i, "failed")
  /\ UNCHANGED <<name, object, created, held, swept, back, dead, upset>>

\* An object without a size is taken over: its creator "may have failed".
Stat(i) ==
  /\ At(i, "stat")
  /\ Goto(i, IF object[held[i]].sized THEN "wait" ELSE "adopt")
  /\ UNCHANGED <<name, object, created, held, swept, back, dead, upset>>

\* mutex, ref_pids, ref_count and entries are initialised ...
Reset(i) ==
  /\ At(i, "reset")
  /\ object' = [object EXCEPT ![held[i]].first = {}, ![held[i]].pids = [p \in Processes |-> 0],
                              ![held[i]].count = 0, ![held[i]].inits = @ + 1]
  /\ Goto(i, "publish")
  /\ UNCHANGED <<name, created, held, swept, back, dead, upset>>

\* ... then the creator is recorded in slot 0, whatever is there, and magic is set.
Publish(i) ==
  /\ At(i, "publish")
  /\ object' = [object EXCEPT ![held[i]].first = {Owner[i]},
                              ![held[i]].count = 1, ![held[i]].magic = TRUE]
  /\ Goto(i, "using")
  /\ UNCHANGED <<name, created, held, swept, back, dead, upset>>

\* The pid is put into the first free slot of ref_pids.
WithPid(o, p) ==
  IF object[o].first = {} THEN [object[o] EXCEPT !.first = {p}] ELSE [object[o] EXCEPT !.pids[p] = @ + 1]

\* Under the mutex: the pid is recorded and counted.
Join_CountOnly(i) ==
  /\ At(i, "wait") /\ object[held[i]].magic
  /\ object' = [object EXCEPT ![held[i]].count = (@ + 1) % CountMod]
  /\ Goto(i, "using")
  /\ UNCHANGED <<name, created, held, swept, back, dead, upset>>

Join(i) ==
  /\ At(i, "wait") /\ object[held[i]].magic
  /\ object' = [object EXCEPT ![held[i]] = [WithPid(held[i], Owner[i]) EXCEPT !.count = (@ + 1) % CountMod]]
  /\ Goto(i, "using")
  /\ UNCHANGED <<name, created, held, swept, back, dead, upset>>

\* magic is not set after 100 tries
JoinFails(i) ==
  /\ At(i, "wait") /\ ~object[held[i]].magic
  /\ held' = [held EXCEPT ![i] = 0]
  /\ Goto(i, "failed")
  /\ UNCHANGED <<name, object, created, swept, back, dead, upset>>

\* The program tries again.
Retry(i) ==
  /\ At(i, "failed")
  /\ Goto(i, "start")
  /\ UNCHANGED <<name, object, created, held, swept, back, dead, upset>>
-----------------------------------------------------------------------------
(* The destructor *)

\* The first slot that has the pid is freed, if there is one.
WithoutPid(o, p) ==
  CASE p \in object[o].first -> [object[o] EXCEPT !.first = @ \ {p}]
    [] p \notin object[o].first /\ object[o].pids[p] > 0 -> [object[o] EXCEPT !.pids[p] = @ - 1]
    [] OTHER -> object[o]

\* Under the mutex: the pid is removed and the count lowered.
Removed(o, p) == [WithoutPid(o, p) EXCEPT !.count = (@ - 1) % CountMod]

Leave_NeverLast(i) ==
  /\ At(i, "using")
  /\ object' = [object EXCEPT ![held[i]] = Removed(held[i], Owner[i])]
  /\ held' = [held EXCEPT ![i] = 0]
  /\ Goto(i, "done")
  /\ UNCHANGED <<name, created, swept, back, dead, upset>>

Leave(i) ==
  LET left == Removed(held[i], Owner[i])
  IN /\ At(i, "using")
     /\ object' = [object EXCEPT ![held[i]] = left]
     /\ held' = [held EXCEPT ![i] = 0]
     /\ Goto(i, IF left.count = 0 THEN "sweep" ELSE "done")
     /\ back' = [back EXCEPT ![i] = "done"]
     /\ UNCHANGED <<name, created, swept, dead, upset>>
-----------------------------------------------------------------------------
(* cleanupOrphanedRegistry: from the destructor, or the cleanup thread *)

SweepStart(i) ==
  /\ At(i, "using")
  /\ Goto(i, "sweep")
  /\ back' = [back EXCEPT ![i] = "using"]
  /\ UNCHANGED <<name, object, created, held, swept, dead, upset>>

SweepOpen(i) ==
  /\ At(i, "sweep")
  /\ swept' = [swept EXCEPT ![i] = name]
  /\ Goto(i, IF name = 0 THEN back[i] ELSE "judge")
  /\ UNCHANGED <<name, object, created, held, back, dead, upset>>

\* How often a pid is in the ref_pids of a header
Refs(h, p) == h.pids[p] + (IF p \in h.first THEN 1 ELSE 0)

InUse_ByCount(o) == object[o].count > 1 /\ \E p \in Processes \ dead : Refs(object[o], p) > 0

\* Under the mutex: is a process of ref_pids alive?
InUse(o) == \E p \in Processes \ dead : Refs(object[o], p) > 0

Using(i) == Owner[i] \notin dead /\ held[i] # 0 /\ object[held[i]].magic
              /\ (pc[i] = "using" \/ (pc[i] \in {"sweep", "judge", "unlink"} /\ back[i] = "using"))

\* A live user may have registered a node: the pids of the entries count, too.
MayHaveEntry(o) == \E i \in Instances : Using(i) /\ held[i] = o

\* The mutex of an object without a size cannot be touched: SIGBUS.
SweepFaults(i) ==
  /\ At(i, "judge") /\ ~object[swept[i]].sized
  /\ Goto(i, "fault")
  /\ dead' = dead \cup {Owner[i]}
  /\ UNCHANGED <<name, object, created, held, swept, back, upset>>

SweepKeep(i) ==
  /\ At(i, "judge") /\ object[swept[i]].sized
  /\ object[swept[i]].magic /\ (InUse(swept[i]) \/ MayHaveEntry(swept[i]))
  /\ swept' = [swept EXCEPT ![i] = 0]
  /\ Goto(i, back[i])
  /\ UNCHANGED <<name, object, created, held, back, dead, upset>>

\* Nobody does, or magic is 0: the mutex is released, and then ...
SweepJudge(i) ==
  /\ At(i, "judge") /\ object[swept[i]].sized
  /\ object[swept[i]].magic => ~InUse(swept[i])
  /\ Goto(i, "unlink")
  /\ Upset(name \notin {swept[i], 0} \/ \E j \in Instances : Opening(j) /\ held[j] = swept[i])
  /\ UNCHANGED <<name, object, created, held, swept, back, dead>>

\* ... whatever the name is bound to now is unlinked.
SweepUnlink(i) ==
  /\ At(i, "unlink")
  /\ name' = 0
  /\ swept' = [swept EXCEPT ![i] = 0]
  /\ Goto(i, back[i])
  /\ UNCHANGED <<object, created, held, back, dead, upset>>
-----------------------------------------------------------------------------
\* A process is killed, with all its instances.
Killed(f, p, v) == [i \in Instances |-> IF Owner[i] = p THEN v ELSE f[i]]

Die(p) ==
  /\ p \in Mortal \ dead
  /\ dead' = dead \cup {p}
  /\ pc' = Killed(pc, p, "killed")
  /\ held' = Killed(held, p, 0)
  /\ swept' = Killed(swept, p, 0)
  /\ back' = Killed(back, p, "start")
  /\ UNCHANGED <<name, object, created, upset>>

Steps(i) ==
  \/ Create(i) \/ CreateFails(i) \/ Resize(i) \/ CreatorFails(i)
  \/ AdoptFails(i) \/ Open(i) \/ OpenFails(i) \/ Stat(i) \/ Reset(i) \/ Publish(i) \/ Join(i) \/ JoinFails(i)
  \/ Retry(i) \/ SweepOpen(i) \/ SweepFaults(i) \/ SweepKeep(i) \/ SweepJudge(i)
  \/ SweepUnlink(i)

Next ==
  \/ \E i \in Instances : Steps(i) \/ Leave(i) \/ SweepStart(i)
  \/ \E p \in Processes : Die(p)

Spec == Init /\ [][Next]_vars
-----------------------------------------------------------------------------
(* Properties *)

\* Every variable holds a value of its type, and the name is bound to an object
\* that was created.
TypeOK ==
  /\ name \in 0 .. created
  /\ object \in [Objects -> [sized : BOOLEAN, magic : BOOLEAN, first : SUBSET Processes,
                             pids : [Processes -> Nat], count : 0 .. CountMod - 1, inits : Nat]]
  /\ created \in 0 .. MaxObjects
  /\ pc \in [Instances -> {"start", "resize", "adopt", "failed", "open", "stat", "wait", "reset", "publish",
                           "using", "done", "sweep", "judge", "unlink", "fault", "killed"}]
  /\ held \in [Instances -> 0 .. created] /\ swept \in [Instances -> 0 .. created]
  /\ back \in [Instances -> {"start", "using", "done"}]
  /\ dead \subseteq Processes /\ upset \in BOOLEAN

\* In an object that was initialised once, every live user is recorded, once for
\* each of its instances: a cleanup that judges that object finds it in use.
UsersAreRecorded ==
  \A o \in Objects : object[o].inits = 1 =>
    \A p \in Processes \ dead :
      Refs(object[o], p) = Cardinality({i \in Instances : Using(i) /\ held[i] = o /\ Owner[i] = p})

\* All users meet in one registry: the object a live instance uses has the name, so
\* that nodes which start later find those which are there.  Neither a leaver nor
\* a sweep takes the name from a registry in use, unless the object was initialised
\* twice, or was opened or created while it was being judged or removed, which the
\* code does by name and after it has released the mutex.
OneRegistry ==
  ~upset /\ (\A o \in Objects : object[o].inits <= 1) =>
    \A i \in Instances : Using(i) => held[i] = name

\* When every instance has been destroyed in the regular way, the last one has
\* removed the registry, unless an object was initialised twice.
LastOneCleans ==
  (/\ \A i \in Instances : pc[i] = "done"
   /\ \A o \in Objects : object[o].inits <= 1) => name = 0
-----------------------------------------------------------------------------
(* The inductive invariant behind UsersAreRecorded and OneRegistry *)

User(i) == pc[i] = "using" \/ (pc[i] \in {"sweep", "judge", "unlink"} /\ back[i] = "using")
Attached(i) == Opening(i) \/ (Owner[i] \notin dead /\ User(i))

\* Whoever opens or uses an object has one, and only finished ones are used.
HeldSound ==
  \A i \in Instances :
    /\ Opening(i) => held[i] # 0
    /\ Owner[i] \notin dead /\ User(i) => held[i] # 0 /\ object[held[i]].magic

\* What initialising an object once means: one instance fills in an empty one.
InitialisedOnce ==
  \A o \in Objects :
    LET Filling(i) == At(i, "publish") /\ held[i] = o
    IN /\ object[o].magic => object[o].inits # 0
       /\ object[o].inits = 0 => \A i \in Instances : ~Filling(i)
       /\ object[o].inits = 1 /\ object[o].magic => \A i \in Instances : ~Filling(i)
       /\ object[o].inits = 1 /\ ~object[o].magic => \A p \in Processes : Refs(object[o], p) = 0
       /\ object[o].inits = 1 => \A i, j \in Instances : Filling(i) /\ Filling(j) => i = j

NoneTwice == \A o \in Objects : object[o].inits <= 1

\* Everybody is at the object that has the name; nobody is when it is removed.
Meeting ==
  ~upset /\ NoneTwice =>
    /\ \A i \in Instances : Attached(i) => held[i] = name
    /\ Removing => \A i \in Instances : ~Attached(i)

IInv == TypeOK /\ HeldSound /\ InitialisedOnce /\ UsersAreRecorded /\ Meeting
-----------------------------------------------------------------------------
(* What LastOneCleans needs besides *)

\* A process that is dead was killed or has faulted, and one of its instances shows it.
DeathShows ==
  \A i \in Instances : Owner[i] \in dead =>
    \E j \in Instances : Owner[j] = Owner[i] /\ pc[j] \in {"killed", "fault"}

AllLive == \A i \in Instances : Owner[i] \notin dead
Users(o) == {i \in Instances : Using(i) /\ held[i] = o}

\* As long as nobody has died, ref_count is the number of users.
Counted ==
  AllLive => \A o \in Objects : object[o].inits = 1 /\ object[o].magic =>
               object[o].count = Cardinality(Users(o)) % CountMod

\* i will remove the name, or will be among those of which one does.
Guards(i) ==
  \/ pc[i] \in {"sweep", "unlink"} \/ (pc[i] = "judge" /\ swept[i] = name)
  \/ held[i] = name /\ (pc[i] \in {"resize", "reset", "publish"} \/ User(i))

\* As long as nobody has died, a name that is bound has somebody who answers for it.
Guarded == AllLive /\ NoneTwice /\ name # 0 => \E i \in Instances : Guards(i)

CleanInv == DeathShows /\ Counted /\ Guarded
==============================================================================
