------------------------------ MODULE NodeMemory ------------------------------
(***************************************************************************)
(* The life of one node's shared memory (SharedMemoryTransportV3.cpp): the *)
(* owner creates it, registers, gets ready and destroys it; peers connect  *)
(* and disconnect, each listing its process id in the memory's header; the *)
(* cleanup master runs cleanupOrphanedMemory.                              *)
(*                                                                         *)
(* The accessor list and its counter are separate atomics, changed without *)
(* a lock.  A peer may live in the owner's process: the heartbeat loop     *)
(* connects to every registered node but itself.                           *)
(***************************************************************************)
EXTENDS Integers, FiniteSets, FiniteSetsExt

CONSTANTS
  Peers,        \* nodes that connect to the owner's memory
  Processes,    \* process ids
  Placements,   \* how the peers may be spread over the processes
  OwnerProcess, \* the process of the owner
  Mortal,       \* the processes that may be killed
  MaxAccessors, \* MAX_ACCESSORS
  MaxConnects,  \* bound on the connections a peer makes
  InitMayFail,  \* TRUE: ftruncate, mmap, registerNode and queue creation may fail
  None          \* no process id

Slots == 1 .. MaxAccessors

ASSUME MemoryAssumption ==
  /\ MaxAccessors \in Nat \ {0} /\ MaxConnects \in Nat /\ InitMayFail \in BOOLEAN
  /\ IsFiniteSet(Peers) /\ Placements \subseteq [Peers -> Processes] /\ OwnerProcess \in Processes
  /\ Mortal \subseteq Processes /\ None \notin Processes

VARIABLES
  process,  \* the process of each peer
  linked,   \* the name exists
  sized,    \* ftruncate was called
  magic,    \* header.magic is set
  owned,    \* header.owner_pid is set
  ready,    \* header.ready
  pids,     \* header.accessor_pids
  count,    \* header.num_accessors
  listed,   \* the node is in the registry
  owner,    \* where the owner is
  peer,     \* where each peer is
  added,    \* its connectToNode found a free slot
  connects, \* how often it tried to connect
  master,   \* where the cleanup master is
  dead,     \* the processes that were killed
  unlisted  \* history: the processes that connected while the list was full

memory == <<linked, sized, magic, owned, ready, pids, count, listed>>
memoryVars == <<process, memory, owner, peer, added, connects, master, dead, unlisted>>

MemoryInit ==
  /\ process \in Placements
  /\ linked = FALSE /\ sized = FALSE /\ magic = FALSE /\ owned = FALSE /\ ready = FALSE /\ listed = FALSE
  /\ pids = [i \in Slots |-> None]
  /\ count = 0
  /\ owner = "new"
  /\ peer = [n \in Peers |-> "idle"]
  /\ added = [n \in Peers |-> FALSE]
  /\ connects = [n \in Peers |-> 0]
  /\ master = "idle"
  /\ dead = {}
  /\ unlisted = {}

OwnerAt(l) == OwnerProcess \notin dead /\ owner = l
PeerAt(n, l) == process[n] \notin dead /\ peer[n] = l
PeerGoto(n, l) == peer' = [peer EXCEPT ![n] = l]

SlotsOf(p) == {i \in Slots : pids[i] = p}
-----------------------------------------------------------------------------
(* The owner: initialize *)

Create ==
  /\ OwnerAt("new") /\ linked' = TRUE /\ owner' = "size"
  /\ UNCHANGED <<process, sized, magic, owned, ready, pids, count, listed, peer, added, connects, master, dead, unlisted>>

Size ==
  /\ OwnerAt("size") /\ sized' = TRUE /\ owner' = "fill"
  /\ UNCHANGED <<process, linked, magic, owned, ready, pids, count, listed, peer, added, connects, master, dead, unlisted>>

\* The header, which only the cleanup master can meet: magic comes first, then
\* owner_pid, the accessor list and the queues.
Fill ==
  /\ OwnerAt("fill") /\ magic' = TRUE /\ owner' = "own"
  /\ UNCHANGED <<process, linked, sized, owned, ready, pids, count, listed, peer, added, connects, master, dead, unlisted>>

Own ==
  /\ OwnerAt("own") /\ owned' = TRUE /\ owner' = "register"
  /\ UNCHANGED <<process, linked, sized, magic, ready, pids, count, listed, peer, added, connects, master, dead, unlisted>>

Register ==
  /\ OwnerAt("register") /\ listed' = TRUE /\ owner' = "ready"
  /\ UNCHANGED <<process, linked, sized, magic, owned, ready, pids, count, peer, added, connects, master, dead, unlisted>>

\* The second phase of the commit
Ready ==
  /\ OwnerAt("ready") /\ ready' = TRUE /\ owner' = "running"
  /\ UNCHANGED <<process, linked, sized, magic, owned, pids, count, listed, peer, added, connects, master, dead, unlisted>>

InitializeFails ==
  /\ InitMayFail /\ (OwnerAt("size") \/ OwnerAt("fill") \/ OwnerAt("register"))
  /\ linked' = FALSE /\ owner' = "gone"
  /\ UNCHANGED <<process, sized, magic, owned, ready, pids, count, listed, peer, added, connects, master, dead, unlisted>>
-----------------------------------------------------------------------------
(* The owner: the destructor *)

\* removeAccessor(getpid()) on its own memory
DropOwnPid ==
  /\ OwnerAt("running")
  /\ \/ /\ SlotsOf(OwnerProcess) # {}
        /\ pids' = [pids EXCEPT ![Min(SlotsOf(OwnerProcess))] = None]
        /\ owner' = "uncount"
     \/ /\ SlotsOf(OwnerProcess) = {}
        /\ owner' = "unregister"
        /\ UNCHANGED pids
  /\ UNCHANGED <<process, linked, sized, magic, owned, ready, count, listed, peer, added, connects, master, dead, unlisted>>

DropOwnCount ==
  /\ OwnerAt("uncount") /\ count' = count - 1 /\ owner' = "unregister"
  /\ UNCHANGED <<process, linked, sized, magic, owned, ready, pids, listed, peer, added, connects, master, dead, unlisted>>

Unregister ==
  /\ OwnerAt("unregister") /\ listed' = FALSE /\ owner' = "grace"
  /\ UNCHANGED <<process, linked, sized, magic, owned, ready, pids, count, peer, added, connects, master, dead, unlisted>>

\* hasActiveAccessors: nobody when the counter is 0; otherwise dead ones are removed.
Dead == {i \in Slots : pids[i] \in dead}
Active_OffByOne == count > 1 /\ \E i \in Slots : pids[i] \in Processes \ dead
Active == count # 0 /\ \E i \in Slots : pids[i] \in Processes \ dead
Swept == count # 0 /\ Dead # {}

DropDead ==
  IF Swept
  THEN /\ pids' = [i \in Slots |-> IF i \in Dead THEN None ELSE pids[i]]
       /\ count' = count - Cardinality(Dead)
  ELSE UNCHANGED <<pids, count>>

\* After 300 ms: keep the memory if a process still uses it.
CheckAccessors ==
  /\ OwnerAt("grace")
  /\ DropDead
  /\ owner' = IF Active THEN "gone" ELSE "unlink"
  /\ UNCHANGED <<process, linked, sized, magic, owned, ready, listed, peer, added, connects, master, dead, unlisted>>

Unlink ==
  /\ OwnerAt("unlink") /\ linked' = FALSE /\ owner' = "gone"
  /\ UNCHANGED <<process, sized, magic, owned, ready, pids, count, listed, peer, added, connects, master, dead, unlisted>>
-----------------------------------------------------------------------------
(* A peer: connectToNode *)

Lookup(n) ==
  /\ PeerAt(n, "idle") /\ connects[n] < MaxConnects
  /\ connects' = [connects EXCEPT ![n] = @ + 1]
  /\ PeerGoto(n, IF listed THEN "open" ELSE "idle")
  /\ UNCHANGED <<process, memory, owner, added, master, dead, unlisted>>

\* shm_open and mmap; then magic, ready and the owner's process are checked.
Open(n) ==
  /\ PeerAt(n, "open")
  /\ PeerGoto(n, IF linked THEN "verify" ELSE "idle")
  /\ UNCHANGED <<process, memory, owner, added, connects, master, dead, unlisted>>

Usable == magic /\ ready /\ OwnerProcess \notin dead

Verify(n) ==
  /\ PeerAt(n, "verify")
  /\ PeerGoto(n, IF Usable THEN "list" ELSE "idle")
  /\ UNCHANGED <<process, memory, owner, added, connects, master, dead, unlisted>>

\* A free slot is taken by compare-and-swap; a full list is only a warning.
AddPid(n) ==
  /\ PeerAt(n, "list")
  /\ \/ /\ SlotsOf(None) # {}
        /\ pids' = [pids EXCEPT ![Min(SlotsOf(None))] = process[n]]
        /\ added' = [added EXCEPT ![n] = TRUE]
        /\ PeerGoto(n, "count")
        /\ UNCHANGED unlisted
     \/ /\ SlotsOf(None) = {}
        /\ added' = [added EXCEPT ![n] = FALSE]
        /\ unlisted' = unlisted \cup {process[n]}
        /\ PeerGoto(n, "queue")
        /\ UNCHANGED pids
  /\ UNCHANGED <<process, linked, sized, magic, owned, ready, count, listed, owner, connects, master, dead>>

AddCount(n) ==
  /\ PeerAt(n, "count")
  /\ count' = count + 1
  /\ PeerGoto(n, "queue")
  /\ UNCHANGED <<process, linked, sized, magic, owned, ready, pids, listed, owner, added, connects, master, dead, unlisted>>

Connected(n) ==
  /\ PeerAt(n, "queue")
  /\ PeerGoto(n, "connected")
  /\ UNCHANGED <<process, memory, owner, added, connects, master, dead, unlisted>>

\* findOrCreateQueue fails: the pid is removed again if it was added.
QueueFails(n) ==
  /\ InitMayFail /\ PeerAt(n, "queue")
  /\ PeerGoto(n, IF added[n] THEN "unlist" ELSE "idle")
  /\ UNCHANGED <<process, memory, owner, added, connects, master, dead, unlisted>>

(* disconnectFromNode, and the peer's own destructor *)
Disconnect(n) ==
  /\ PeerAt(n, "connected")
  /\ PeerGoto(n, "unlist")
  /\ UNCHANGED <<process, memory, owner, added, connects, master, dead, unlisted>>

RemovePid_Any(n) ==
  /\ PeerAt(n, "unlist")
  /\ pids' = [pids EXCEPT ![1] = None]
  /\ PeerGoto(n, "uncount")
  /\ UNCHANGED <<process, linked, sized, magic, owned, ready, count, listed, owner, added, connects, master, dead, unlisted>>

RemovePid_Keep(n) ==
  /\ PeerAt(n, "unlist")
  /\ PeerGoto(n, "idle")
  /\ UNCHANGED <<process, memory, owner, added, connects, master, dead, unlisted>>

RemovePid(n) ==
  /\ PeerAt(n, "unlist")
  /\ \/ /\ SlotsOf(process[n]) # {}
        /\ pids' = [pids EXCEPT ![Min(SlotsOf(process[n]))] = None]
        /\ PeerGoto(n, "uncount")
     \/ /\ SlotsOf(process[n]) = {}
        /\ PeerGoto(n, "idle")
        /\ UNCHANGED pids
  /\ UNCHANGED <<process, linked, sized, magic, owned, ready, count, listed, owner, added, connects, master, dead, unlisted>>

RemoveCount(n) ==
  /\ PeerAt(n, "uncount")
  /\ count' = count - 1
  /\ PeerGoto(n, "idle")
  /\ UNCHANGED <<process, linked, sized, magic, owned, ready, pids, listed, owner, added, connects, master, dead, unlisted>>
-----------------------------------------------------------------------------
(* The cleanup master, in a process of its own: cleanupOrphanedMemory *)

\* The header is mapped read-only: an object without a size, and a dead accessor
\* that hasActiveAccessors wants to remove, both kill the process.
EmptyFault == ~sized
WriteFault == sized /\ magic /\ Swept
Orphaned == magic => owned /\ OwnerProcess \in dead /\ ~Active

MasterFaults ==
  /\ master = "idle" /\ linked
  /\ \/ EmptyFault /\ master' = "empty fault"
     \/ WriteFault /\ master' = "write fault"
  /\ UNCHANGED <<process, memory, owner, peer, added, connects, dead, unlisted>>

\* The node with the next smallest process id becomes the master.
NewMaster ==
  /\ master \in {"empty fault", "write fault"} /\ master' = "idle"
  /\ UNCHANGED <<process, memory, owner, peer, added, connects, dead, unlisted>>

MasterJudges ==
  /\ master = "idle" /\ linked /\ ~EmptyFault /\ ~WriteFault /\ Orphaned
  /\ master' = IF magic THEN "unlink" ELSE "unlink leftover"
  /\ UNCHANGED <<process, memory, owner, peer, added, connects, dead, unlisted>>

MasterUnlinks ==
  /\ master \in {"unlink", "unlink leftover"} /\ linked' = FALSE /\ master' = "idle"
  /\ UNCHANGED <<process, sized, magic, owned, ready, pids, count, listed, owner, peer, added, connects, dead, unlisted>>

\* A process is killed; the registry drops a dead node by and by.
Die(p) ==
  /\ p \in Mortal \ dead
  /\ dead' = dead \cup {p}
  /\ UNCHANGED <<process, memory, owner, peer, added, connects, master, unlisted>>

Expire ==
  /\ OwnerProcess \in dead /\ listed /\ listed' = FALSE
  /\ UNCHANGED <<process, linked, sized, magic, owned, ready, pids, count, owner, peer, added, connects, master, dead, unlisted>>

OwnerStep ==
  \/ Create \/ Size \/ Fill \/ Own \/ Register \/ Ready \/ InitializeFails
  \/ DropOwnPid \/ DropOwnCount \/ Unregister \/ CheckAccessors \/ Unlink

PeerStep(n) ==
  \/ Lookup(n) \/ Open(n) \/ Verify(n) \/ AddPid(n) \/ AddCount(n) \/ Connected(n)
  \/ QueueFails(n) \/ Disconnect(n) \/ RemovePid(n) \/ RemoveCount(n)

MasterStep == MasterFaults \/ NewMaster \/ MasterJudges \/ MasterUnlinks

MemoryNext ==
  \/ OwnerStep \/ MasterStep \/ Expire
  \/ \E n \in Peers : PeerStep(n)
  \/ \E p \in Processes : Die(p)

MemorySpec == MemoryInit /\ [][MemoryNext]_memoryVars

\* The cleanup thread comes back every five minutes.
MemoryFairSpec == MemorySpec /\ WF_memoryVars(MasterStep)
-----------------------------------------------------------------------------
(* Properties *)

\* Every variable holds a value of its type.
MemoryTypeOK ==
  /\ process \in Placements /\ unlisted \subseteq Processes
  /\ linked \in BOOLEAN /\ sized \in BOOLEAN /\ magic \in BOOLEAN
  /\ owned \in BOOLEAN /\ ready \in BOOLEAN /\ listed \in BOOLEAN
  /\ pids \in [Slots -> Processes \cup {None}]
  /\ count \in Int
  /\ owner \in {"new", "size", "fill", "own", "register", "ready", "running", "uncount",
                "unregister", "grace", "unlink", "gone"}
  /\ peer \in [Peers -> {"idle", "open", "verify", "list", "count", "queue",
                         "connected", "unlist", "uncount"}]
  /\ added \in [Peers -> BOOLEAN]
  /\ connects \in [Peers -> 0 .. MaxConnects]
  /\ master \in {"idle", "unlink", "unlink leftover", "empty fault", "write fault"}
  /\ dead \subseteq Processes

Live(n)  == process[n] \notin dead
HoldsSlot(n) == peer[n] \in {"count", "queue", "connected", "unlist"} /\ added[n]

Occupied   == Slots \ SlotsOf(None)
Holders(p) == {n \in Peers : process[n] = p /\ HoldsSlot(n)}
PeersAt(l) == {n \in Peers : peer[n] = l}

Recorded ==
  \A p \in Processes \ (dead \cup unlisted \cup {OwnerProcess}) :
    Cardinality(SlotsOf(p)) = Cardinality(Holders(p))

Counted ==
  count = Cardinality(Occupied) - Cardinality(PeersAt("count")) + Cardinality(PeersAt("uncount"))
          + (IF owner = "uncount" THEN 1 ELSE 0)

\* The accessor list and its counter follow the connections.  A live process that
\* uses the memory through k connections, and is not the owner's, is in the list k
\* times: no other process's disconnect, crash or cleanup removes its entries.
\* num_accessors is the length of the list, but for the processes that are, or were
\* killed, between their two stores.  A process that connected while the list was
\* full is not covered: on disconnect it removes another connection's entry.
AccessorsRecorded == MemoryTypeOK /\ Recorded /\ Counted

\* The inductive invariant: besides, a connection that is not in the list found the
\* list full, and whoever goes on to connect has found the magic.
NotAdded == \A n \in Peers : peer[n] \in {"count", "queue", "connected", "unlist"} /\ ~added[n]
                               => process[n] \in unlisted
Verified == \A n \in Peers : peer[n] \in {"list", "count", "queue", "connected", "unlist", "uncount"} => magic
MemoryIInv == AccessorsRecorded /\ NotAdded /\ Verified

\* The memory of an owner that was killed after it gave the memory its size is
\* removed by the cleanup master once no live peer uses it.  Not so when the owner
\* was killed between magic and owner_pid: owner_pid = 0 counts as alive for ever.
\* And while a dead process is in the accessor list every master is killed by the
\* look at it.
DeadMemoryRemoved ==
  (OwnerProcess \in dead /\ sized /\ (magic => owned)) ~>
    (~linked \/ Dead # {} \/ \E n \in Peers : peer[n] # "idle" /\ Live(n))

\* The connections of live processes, other than the owner's, that are in the list
\* and the counter
Users == {n \in Peers : /\ Live(n) /\ HoldsSlot(n) /\ peer[n] # "count"
                        /\ process[n] \notin unlisted \cup {OwnerProcess}}

\* "No active accessors": neither the owner's destructor nor the cleanup master, of
\* which the latter may take memory under construction for a leftover, decides to
\* remove the memory while another live process is connected to it.  Not so while a
\* process is, or was killed, between taking its slot and counting it: a counter
\* that is one short may read 0.
UsedMemoryKept ==
  [][(CheckAccessors /\ owner' = "unlink") \/ MasterJudges => PeersAt("count") # {} \/ Users = {}]_memoryVars
==============================================================================
