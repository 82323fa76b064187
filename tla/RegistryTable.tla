---------------------------- MODULE RegistryTable ----------------------------
(***************************************************************************)
(* The table of nodes in the shared registry: registerNode, unregisterNode,*)
(* updateHeartbeat, cleanupStaleNodes and the lookup behind findNode of    *)
(* SharedMemoryRegistry.cpp.                                               *)
(*                                                                         *)
(* Every operation runs under the registry's robust, process-shared mutex, *)
(* but it is a sequence of stores, and the process may be killed between   *)
(* any two of them: the next process gets the mutex (EOWNERDEAD) and goes  *)
(* on with the table as it was left.  So the stores are steps of their     *)
(* own; the reads that precede the first store are part of taking the      *)
(* mutex.  A node is one process with one node id; it may be started again *)
(* under the same id, with a new process id.  An operation that cannot get *)
(* the mutex in time gives up and changes nothing.                         *)
(***************************************************************************)
EXTENDS Integers, Sequences, FiniteSets, FiniteSetsExt

CONSTANTS
  Nodes,          \* node ids
  NumEntries,     \* MAX_REGISTRY_ENTRIES
  CountMod,       \* num_entries wraps at 2^32
  Setups,         \* see Scenario
  None, OwnerDead \* mutex values besides the nodes; None also: no id, no process

Slots == 1 .. NumEntries

\* starts: bound on the processes started under one id; mortal: the nodes whose
\* process may be killed; late: those whose heartbeat may miss the timeout; brief:
\* all happens within a second, before a heartbeat thread runs or a timeout passes.
Scenario == [starts : Nat, mortal : SUBSET Nodes, late : SUBSET Nodes, brief : BOOLEAN]

ASSUME RegistryAssumption ==
  /\ {NumEntries, CountMod} \subseteq Nat \ {0} /\ CountMod > NumEntries
  /\ \A u \in Setups : u \in Scenario
  /\ None \notin Nodes /\ OwnerDead \notin Nodes /\ None # OwnerDead

VARIABLES
  setup,      \* the scenario
  entry,      \* entries[]
  numEntries, \* header.num_entries
  mutex,      \* the owner of header.global_lock
  up,         \* the nodes whose process runs
  start,      \* how often each node was started: its process id
  op,         \* the operation each node is in
  step,       \* how many of its stores it has made
  at,         \* the entry it works on
  registered, \* the nodes whose registerNode has returned true
  late,       \* history: the live nodes whose heartbeat once missed the timeout
  interrupted, \* history: whether a process was killed inside an operation
  ghosts       \* history: the ids that a killed process left in an entry it had
               \* claimed and not yet given its own id

history == <<late, interrupted, ghosts>>
vars == <<setup, entry, numEntries, mutex, up, start, op, step, at, registered, history>>

\* Process ids, and memory names, which are made from them.
Process(n) == <<n, start[n]>>
Nobody     == <<None, 0>>
Alive(p)   == p[1] \in up /\ start[p[1]] = p[2]

\* last_heartbeat: 0 means that the entry is being initialised.
Free == [flags |-> 0, id |-> None, shm |-> Nobody, pid |-> Nobody, hb |-> "zero"]

Init ==
  /\ setup \in Setups
  /\ entry = [i \in Slots |-> Free]
  /\ numEntries = 0
  /\ mutex = None
  /\ up = {}
  /\ start = [n \in Nodes |-> 0]
  /\ op = [n \in Nodes |-> "none"]
  /\ step = [n \in Nodes |-> 0]
  /\ at = [n \in Nodes |-> 1]
  /\ registered = {}
  /\ late = {}
  /\ interrupted = FALSE
  /\ ghosts = {}
-----------------------------------------------------------------------------
(* The stores of each operation, in the order of the code *)

NewStores     == <<"flags=1", "id", "shm", "pid", "hb", "flags=3", "count+1">>
UpdateStores  == <<"shm", "pid", "hb", "flags=3">>
RemoveStores  == <<"count-1", "flags=0", "clear names", "clear pid", "clear hb">>
BeatStores    == <<"hb">>

CleanStores_KeepCount     == <<"flags=0", "clear pid", "clear hb", "clear names">>
CleanStores   == <<"flags=0", "clear pid", "clear hb", "clear names", "count-1">>

\* The operations: registerNode takes a free entry or updates the node's own;
\* unregisterNode may find no entry; cleanupStaleNodes scans and removes.
Ops == {"none", "claim", "update", "unregister", "unlisted", "heartbeat", "scan", "remove"}
Stores(o) == CASE o = "claim"      -> NewStores
               [] o = "update"     -> UpdateStores
               [] o = "unregister" -> RemoveStores
               [] o = "heartbeat"  -> BeatStores
               [] o = "remove"     -> CleanStores
               [] OTHER            -> << >>
NextStore(n) == Stores(op[n])[step[n] + 1]
Storing(n) == step[n] < Len(Stores(op[n]))

Stored(e, n, store) ==
  CASE store = "flags=0"     -> [e EXCEPT !.flags = 0]
    [] store = "flags=1"     -> [e EXCEPT !.flags = 1]
    [] store = "flags=3"     -> [e EXCEPT !.flags = 3]
    [] store = "id"          -> [e EXCEPT !.id = n]
    [] store = "shm"         -> [e EXCEPT !.shm = Process(n)]
    [] store = "pid"         -> [e EXCEPT !.pid = Process(n)]
    [] store = "hb"          -> [e EXCEPT !.hb = "fresh"]
    [] store = "clear names" -> [e EXCEPT !.id = None, !.shm = Nobody]
    [] store = "clear pid"   -> [e EXCEPT !.pid = Nobody]
    [] store = "clear hb"    -> [e EXCEPT !.hb = "zero"]
    [] OTHER                 -> e

Counted(c, store) ==
  CASE store = "count+1" -> (c + 1) % CountMod
    [] store = "count-1" -> (c - 1) % CountMod
    [] OTHER             -> c

Store(n) ==
  /\ n \in up /\ Storing(n)
  /\ entry' = [entry EXCEPT ![at[n]] = Stored(@, n, NextStore(n))]
  /\ numEntries' = Counted(numEntries, NextStore(n))
  /\ step' = [step EXCEPT ![n] = @ + 1]
  /\ UNCHANGED <<setup, mutex, up, start, op, at, registered, history>>
-----------------------------------------------------------------------------
\* findEntryIndex: the first valid entry with this id
Valid(i)   == entry[i].flags \in {1, 3}
Matches(n) == {i \in Slots : Valid(i) /\ entry[i].id = n}
Unused     == {i \in Slots : entry[i].flags = 0}

\* RegistryLock, for operation o: free, or left behind by a dead owner
CanLock_NotRobust == mutex = None
CanLock == mutex \in {None, OwnerDead}

Begin(n, o, i) ==
  /\ n \in up /\ op[n] = "none" /\ CanLock
  /\ mutex' = n
  /\ op' = [op EXCEPT ![n] = o]
  /\ at' = [at EXCEPT ![n] = i]
  /\ UNCHANGED <<setup, entry, numEntries, up, start, step, registered, history>>

\* registerNode: the node's entry is updated, or a free one is taken.
Register_Blind(n) ==
  /\ n \notin registered
  /\ Unused # {} /\ Begin(n, "claim", Min(Unused))

Register(n) ==
  /\ n \notin registered
  /\ \/ Matches(n) # {} /\ Begin(n, "update", Min(Matches(n)))
     \/ Matches(n) = {} /\ Unused # {} /\ Begin(n, "claim", Min(Unused))

\* registerNode finds no free entry: initialize fails and the process gives up.
RegisterFull(n) ==
  /\ n \in up /\ op[n] = "none" /\ CanLock
  /\ n \notin registered
  /\ Matches(n) = {} /\ Unused = {}
  /\ mutex' = None
  /\ up' = up \ {n}
  /\ UNCHANGED <<setup, entry, numEntries, start, op, step, at, registered, history>>

\* unregisterNode, when the node is destroyed
Unregister(n) ==
  /\ n \in registered
  /\ \/ Matches(n) # {} /\ Begin(n, "unregister", Min(Matches(n)))
     \/ Matches(n) = {} /\ Begin(n, "unlisted", 1)

\* updateHeartbeat: nothing happens when the entry is gone.
Heartbeat(n) ==
  /\ n \in registered /\ ~setup.brief
  /\ Matches(n) # {} /\ Begin(n, "heartbeat", Min(Matches(n)))

\* cleanupStaleNodes: late or dead, except entries that are being initialised.
Stale_Any(i) == Valid(i) /\ entry[i].hb # "zero"
Stale(i) == Valid(i) /\ entry[i].hb # "zero" /\ (entry[i].hb = "old" \/ ~Alive(entry[i].pid))

Cleanup(n) == n \in registered /\ ~setup.brief /\ Begin(n, "scan", 1)

CleanSlot(n) ==
  /\ n \in up /\ op[n] = "scan" /\ at[n] \in Slots
  /\ \/ /\ Stale(at[n])
        /\ op' = [op EXCEPT ![n] = "remove"]
        /\ UNCHANGED at
     \/ /\ ~Stale(at[n])
        /\ at' = [at EXCEPT ![n] = @ + 1]
        /\ UNCHANGED op
  /\ UNCHANGED <<setup, entry, numEntries, mutex, up, start, step, registered, history>>

\* The entry is removed, and the scan goes on.
CleanNext(n) ==
  /\ n \in up /\ op[n] = "remove" /\ ~Storing(n)
  /\ op' = [op EXCEPT ![n] = "scan"]
  /\ at' = [at EXCEPT ![n] = @ + 1]
  /\ step' = [step EXCEPT ![n] = 0]
  /\ UNCHANGED <<setup, entry, numEntries, mutex, up, start, registered, history>>

\* The operation is over and the mutex released.
Finish(n) ==
  /\ n \in up /\ op[n] \notin {"none", "remove"} /\ ~Storing(n)
  /\ op[n] = "scan" => at[n] \notin Slots
  /\ mutex' = None
  /\ op' = [op EXCEPT ![n] = "none"]
  /\ step' = [step EXCEPT ![n] = 0]
  /\ registered' = IF op[n] \in {"claim", "update"} THEN registered \cup {n}
                   ELSE IF op[n] \in {"unregister", "unlisted"} THEN registered \ {n} ELSE registered
  /\ up' = IF op[n] \in {"unregister", "unlisted"} THEN up \ {n} ELSE up
  /\ UNCHANGED <<setup, entry, numEntries, start, at, history>>
-----------------------------------------------------------------------------
(* The environment: processes and time *)

Start(n) ==
  /\ n \notin up /\ start[n] < setup.starts
  /\ up' = up \cup {n}
  /\ start' = [start EXCEPT ![n] = @ + 1]
  /\ late' = late \ {n}
  /\ UNCHANGED <<setup, entry, numEntries, mutex, op, step, at, registered, interrupted, ghosts>>

\* A free entry may hold the id of a node whose removal was not finished; from its
\* claim (flags = 1) to the store of the new id it is valid under the old one.
Exposed(n) ==
  IF op[n] = "claim" /\ step[n] = 1 THEN {entry[at[n]].id} \ {None, n} ELSE {}

\* The process is killed; the mutex it may hold is robust.
Die(n) ==
  /\ n \in up \cap setup.mortal
  /\ up' = up \ {n}
  /\ mutex' = IF mutex = n THEN OwnerDead ELSE mutex
  /\ op' = [op EXCEPT ![n] = "none"]
  /\ step' = [step EXCEPT ![n] = 0]
  /\ registered' = registered \ {n}
  /\ interrupted' = (interrupted \/ mutex = n)
  /\ ghosts' = ghosts \cup Exposed(n)
  /\ UNCHANGED <<setup, entry, numEntries, start, at, late>>

\* NODE_TIMEOUT_MS passes without a heartbeat: five periods of a live node's
\* heartbeat thread, or any time at all for an entry nobody refreshes.
TimePasses(i) ==
  LET n == entry[i].pid[1]
  IN /\ entry[i].hb = "fresh" /\ ~setup.brief
     /\ Alive(entry[i].pid) => n \in setup.late
     /\ entry' = [entry EXCEPT ![i].hb = "old"]
     /\ late' = IF Alive(entry[i].pid) THEN late \cup {n} ELSE late
     /\ UNCHANGED <<setup, numEntries, mutex, up, start, op, step, at, registered, interrupted, ghosts>>

Steps(n) == Store(n) \/ CleanSlot(n) \/ CleanNext(n) \/ Finish(n)

Next ==
  \/ \E n \in Nodes :
       \/ Start(n) \/ Die(n) \/ Register(n) \/ RegisterFull(n) \/ Unregister(n)
       \/ Heartbeat(n) \/ Cleanup(n) \/ Steps(n)
  \/ \E i \in Slots : TimePasses(i)

Spec == Init /\ [][Next]_vars

\* A live process goes on with its operation; the heartbeat thread of a live node
\* runs cleanupStaleNodes every second, and gets the mutex, which others hold
\* only for moments, within the five seconds it waits for it.
FairSpec == Spec /\ \A n \in Nodes : WF_vars(Steps(n)) /\ SF_vars(Cleanup(n))
-----------------------------------------------------------------------------
(* Properties *)

Entries == [flags : {0, 1, 3}, id : Nodes \cup {None}, hb : {"zero", "fresh", "old"},
            shm : (Nodes \cup {None}) \X Nat, pid : (Nodes \cup {None}) \X Nat]

\* Every variable holds a value of its type, and the mutex has an owner exactly
\* while that owner is in an operation.
TypeOK ==
  /\ setup \in Setups
  /\ entry \in [Slots -> Entries]
  /\ numEntries \in 0 .. CountMod - 1
  /\ mutex \in Nodes \cup {None, OwnerDead}
  /\ up \subseteq Nodes
  /\ start \in [Nodes -> 0 .. setup.starts]
  /\ op \in [Nodes -> Ops]
  /\ step \in [Nodes -> Nat]
  /\ \A n \in Nodes : (op[n] # "none" <=> mutex = n) /\ step[n] <= Len(Stores(op[n]))
  /\ at \in [Nodes -> 1 .. NumEntries + 1]
  /\ registered \subseteq up
  /\ late \subseteq Nodes
  /\ interrupted \in BOOLEAN
  /\ ghosts \subseteq Nodes

\* findNode, called while no operation is under way.
Quiet == mutex \in {None, OwnerDead}
Found(n) == entry[Min(Matches(n))]

\* A node that has registered and whose heartbeats are in time is found, under the
\* name of the memory its own process made: no other process's registration,
\* removal or cleanup takes its entry away, wherever that process is killed.  The
\* exception: two processes killed one after the other, the first while it removed
\* an entry of the node, the second while it claimed that entry, leave an entry
\* valid under the node's id, and findNode may come to it first.
RegisteredNodesFound ==
  Quiet => \A n \in registered \ (late \cup ghosts) :
             Matches(n) # {} /\ Found(n).shm = Process(n) /\ Found(n).pid = Process(n)

\* An entry that is published (flags 0x3) is complete at any moment: an id, a
\* memory name, a process and a heartbeat, wherever the processes that wrote it
\* were killed.
PublishedEntriesComplete ==
  \A i \in Slots :
    entry[i].flags = 3 =>
      /\ entry[i].id # None /\ entry[i].shm # Nobody
      /\ entry[i].pid # Nobody /\ entry[i].hb # "zero"

\* Two published entries never carry the same id, although a process killed in an
\* operation may leave its id behind in an entry that is claimed again, unless that
\* claim is cut short too.
IdsUnique ==
  \A i, j \in Slots : entry[i].flags = 3 /\ entry[j].flags = 3
                        /\ entry[i].id = entry[j].id /\ entry[i].id \notin ghosts => i = j

\* num_entries, which getActiveNodeCount returns, is the number of active entries,
\* also when live nodes miss the timeout and are cleaned up before they
\* unregister.  A process killed inside an operation may leave it wrong for good:
\* EOWNERDEAD repairs the mutex, not the count.
CountIsActive ==
  Quiet /\ ~interrupted => numEntries = Cardinality({i \in Slots : entry[i].flags = 3})

Dead(i) == Valid(i) /\ entry[i].id # None /\ ~Alive(entry[i].pid)

\* The published entry of a dead process disappears, or is taken over by a new
\* process, as long as some node goes on running its heartbeat thread: a process
\* killed inside an operation does not stop the others.  The entry of a process
\* killed before it published it is not covered: its last_heartbeat is 0, and the
\* cleanup skips it as one that is being initialised.
DeadNodesRemoved ==
  \A i \in Slots :
    (entry[i].flags = 3 /\ Dead(i)) ~>
      (~Dead(i) \/ registered = {} \/ setup.brief)
-----------------------------------------------------------------------------
(* The inductive invariant behind the safety properties *)

\* How far the entry is that node n works on.
ClaimSound(n) ==
  LET e == entry[at[n]]  done == step[n]
  IN /\ \A j \in Slots \ {at[n]} : ~(Valid(j) /\ entry[j].id = n)
     /\ e.flags = IF done = 0 THEN 0 ELSE IF done < 6 THEN 1 ELSE 3
     /\ done > 1 => e.id = n
     /\ done > 2 => e.shm = Process(n)
     /\ done > 3 => e.pid = Process(n)
     /\ done > 4 => e.hb # "zero"

UpdateSound(n) ==
  LET e == entry[at[n]]  done == step[n]
  IN /\ Valid(at[n]) /\ e.id = n
     /\ done > 0 => e.shm = Process(n)
     /\ done > 1 => e.pid = Process(n)
     /\ done > 2 => e.hb # "zero"
     /\ done > 3 => e.flags = 3

UnregisterSound(n) ==
  LET e == entry[at[n]]
  IN IF step[n] < 2 THEN Valid(at[n]) /\ e.id = n ELSE e.flags = 0

RemoveSound(n) == IF step[n] = 0 THEN Stale(at[n]) ELSE entry[at[n]].flags = 0

OpsSound ==
  \A n \in Nodes :
    /\ op[n] # "none" => n \in up
    /\ op[n] \in {"claim", "update", "unregister", "heartbeat", "remove"} => at[n] \in Slots
    /\ op[n] \in {"claim", "update"} => n \notin registered
    /\ op[n] = "claim" => ClaimSound(n)
    /\ op[n] = "update" => UpdateSound(n)
    /\ op[n] = "unregister" => UnregisterSound(n)
    /\ op[n] = "remove" => RemoveSound(n)

\* No entry names a process that was never started.
PidsKnown ==
  \A i \in Slots : entry[i].pid[1] \in Nodes => entry[i].pid[2] <= start[entry[i].pid[1]]

\* The heartbeat of a live node is old only if the node was late, or has just
\* entered its process id and not yet its first heartbeat.
OldMeansLate ==
  \A i \in Slots, n \in Nodes :
    entry[i].hb = "old" /\ entry[i].pid = Process(n) /\ n \in up =>
      \/ n \in late
      \/ op[n] = "claim" /\ at[n] = i /\ step[n] < 5
      \/ op[n] = "update" /\ at[n] = i /\ step[n] < 3

\* A valid entry is the only one with its id, save one that is just being claimed.
BeingClaimed(i) == \E n \in Nodes : op[n] = "claim" /\ at[n] = i /\ step[n] = 1

ValidIdsUnique ==
  \A i, j \in Slots :
    Valid(i) /\ Valid(j) /\ ~BeingClaimed(i) /\ ~BeingClaimed(j)
      /\ entry[i].id = entry[j].id /\ entry[i].id \notin ghosts \cup {None} => i = j

\* A registered node has its entry, unless it was late or is unregistering.
Listed(n, i) == entry[i].flags = 3 /\ entry[i].id = n /\ entry[i].shm = Process(n) /\ entry[i].pid = Process(n)
RegisteredListed ==
  \A n \in registered \ (late \cup ghosts) :
    op[n] \notin {"unregister", "unlisted"} => \E i \in Slots : Listed(n, i)

\* num_entries, corrected by the operation that is under way
Active == {i \in Slots : entry[i].flags = 3}
Behind == {n \in Nodes : \/ op[n] = "claim" /\ step[n] = 6
                         \/ op[n] = "unregister" /\ step[n] = 1}
Ahead  == {n \in Nodes : op[n] = "remove" /\ step[n] \in 1 .. 4}

CountSound ==
  ~interrupted =>
    /\ \A i \in Slots : entry[i].flags = 1 => \E n \in Nodes : op[n] = "claim" /\ at[n] = i
    /\ numEntries = Cardinality(Active) + (IF Ahead # {} THEN 1 ELSE 0) - (IF Behind # {} THEN 1 ELSE 0)

IInv ==
  /\ TypeOK /\ OpsSound /\ PidsKnown /\ OldMeansLate /\ PublishedEntriesComplete
  /\ ValidIdsUnique /\ RegisteredListed /\ CountSound
==============================================================================
