--------------------------- MODULE QueueDirectory ---------------------------
(***************************************************************************)
(* The table of inbound queues in one node's shared memory, and how the    *)
(* nodes that send to it find their queue in it or claim one:              *)
(* findOrCreateQueue, connectToNode and disconnectFromNode of              *)
(* SharedMemoryTransportV3.cpp.  No lock protects the table.  A sender is  *)
(* a node id; connections_mutex_ keeps the threads of its process apart,   *)
(* so it runs one search at a time.  Its process may be killed and started *)
(* again under the same id.                                                *)
(***************************************************************************)
EXTENDS Integers, FiniteSets

CONSTANTS
  Senders,     \* the ids of the nodes that send
  NumSlots,    \* MAX_INBOUND_QUEUES
  MaxQueues,   \* header.max_queues
  Mortal,      \* the senders that may be killed and restarted
  MaxConnects, \* bound on the searches of one sender
  InitMayFail, \* whether sem_init may fail (semaphore mode only)
  None         \* no sender, no slot

Slots == 1 .. NumSlots

ASSUME DirectoryAssumption ==
  /\ NumSlots \in Nat /\ MaxQueues \in 1 .. NumSlots /\ MaxConnects \in Nat
  /\ Mortal \subseteq Senders
  /\ InitMayFail \in BOOLEAN
  /\ None \notin Senders /\ None \notin Int

VARIABLES
  flags,     \* flags of each slot: 0 free, 1 valid, 3 valid and active
  sender,    \* sender_id of each slot
  numQueues, \* header.num_queues
  pc,        \* where each sender is
  loaded,    \* the num_queues its search has read
  at,        \* the slot its search has come to
  mine,      \* my_queue of its connection
  searches,  \* its searches so far
  givenBack  \* history: the slots given back after a failed sem_init

directoryVars == <<flags, sender, numQueues, pc, loaded, at, mine, searches, givenBack>>

DirectoryInit ==
  /\ flags = [i \in Slots |-> 0]
  /\ sender = [i \in Slots |-> None]
  /\ numQueues = 0
  /\ pc = [s \in Senders |-> "idle"]
  /\ loaded = [s \in Senders |-> 0]
  /\ at = [s \in Senders |-> 1]
  /\ mine = [s \in Senders |-> None]
  /\ searches = [s \in Senders |-> 0]
  /\ givenBack = {}

Goto(s, where) == pc' = [pc EXCEPT ![s] = where]
MoveTo(s, i)   == at' = [at EXCEPT ![s] = i]
Valid(i)       == flags[i] \in {1, 3}

\* connectToNode of a sender that is not connected: read num_queues
ConnectBegin(s) ==
  /\ pc[s] \in {"idle", "refused"} /\ mine[s] = None
  /\ searches[s] < MaxConnects
  /\ searches' = [searches EXCEPT ![s] = @ + 1]
  /\ loaded' = [loaded EXCEPT ![s] = numQueues]
  /\ MoveTo(s, 1)
  /\ Goto(s, "lookup")
  /\ UNCHANGED <<flags, sender, numQueues, mine, givenBack>>

\* The search covers the first num_queues slots only.
Searched(s) == at[s] <= loaded[s] /\ at[s] <= NumSlots

LookupFound(s) ==
  /\ pc[s] = "lookup" /\ Searched(s)
  /\ Valid(at[s]) /\ sender[at[s]] = s
  /\ mine' = [mine EXCEPT ![s] = at[s]]
  /\ Goto(s, "idle")
  /\ UNCHANGED <<flags, sender, numQueues, loaded, at, searches, givenBack>>

LookupNext(s) ==
  /\ pc[s] = "lookup" /\ Searched(s)
  /\ ~(Valid(at[s]) /\ sender[at[s]] = s)
  /\ MoveTo(s, at[s] + 1)
  /\ UNCHANGED <<flags, sender, numQueues, pc, loaded, mine, searches, givenBack>>

\* Not found: the limit is checked against the count read before the search.
LimitReached_Early(s) == loaded[s] + 1 >= MaxQueues
LimitReached(s) == loaded[s] >= MaxQueues

LookupFailed(s) ==
  /\ pc[s] = "lookup" /\ ~Searched(s)
  /\ MoveTo(s, 1)
  /\ Goto(s, IF LimitReached(s) THEN "refused" ELSE "claim")
  /\ UNCHANGED <<flags, sender, numQueues, loaded, mine, searches, givenBack>>

\* flags.compare_exchange_strong(0, 0x1), slot after slot
ClaimSlot_NotAtomic(s) ==
  /\ pc[s] = "claim" /\ at[s] <= NumSlots /\ flags[at[s]] # 3
  /\ flags' = [flags EXCEPT ![at[s]] = 1]
  /\ Goto(s, "name")
  /\ UNCHANGED <<sender, numQueues, loaded, at, mine, searches, givenBack>>

ClaimSlot(s) ==
  /\ pc[s] = "claim" /\ at[s] <= NumSlots /\ flags[at[s]] = 0
  /\ flags' = [flags EXCEPT ![at[s]] = 1]
  /\ Goto(s, "name")
  /\ UNCHANGED <<sender, numQueues, loaded, at, mine, searches, givenBack>>

ClaimNext(s) ==
  /\ pc[s] = "claim" /\ at[s] <= NumSlots /\ flags[at[s]] # 0
  /\ MoveTo(s, at[s] + 1)
  /\ UNCHANGED <<flags, sender, numQueues, pc, loaded, mine, searches, givenBack>>

ClaimFailed(s) ==
  /\ pc[s] = "claim" /\ at[s] > NumSlots
  /\ Goto(s, "refused")
  /\ UNCHANGED <<flags, sender, numQueues, loaded, at, mine, searches, givenBack>>

\* writeAtomicString(q.sender_id_atomic, sender_id)
NameSlot(s) ==
  /\ pc[s] = "name"
  /\ sender' = [sender EXCEPT ![at[s]] = s]
  /\ Goto(s, "activate")
  /\ UNCHANGED <<flags, numQueues, loaded, at, mine, searches, givenBack>>

\* sem_init fails: the slot is given back
InitFailed(s) ==
  /\ InitMayFail
  /\ pc[s] = "activate"
  /\ flags' = [flags EXCEPT ![at[s]] = 0]
  /\ givenBack' = givenBack \cup {at[s]}
  /\ Goto(s, "refused")
  /\ UNCHANGED <<sender, numQueues, loaded, at, mine, searches>>

Activate_Forgotten(s) ==
  /\ pc[s] = "activate"
  /\ Goto(s, "publish")
  /\ UNCHANGED <<flags, sender, numQueues, loaded, at, mine, searches, givenBack>>

Activate(s) ==
  /\ pc[s] = "activate"
  /\ flags' = [flags EXCEPT ![at[s]] = 3]
  /\ Goto(s, "publish")
  /\ UNCHANGED <<sender, numQueues, loaded, at, mine, searches, givenBack>>

\* num_queues.fetch_add(1); the connection is made
Publish(s) ==
  /\ pc[s] = "publish"
  /\ numQueues' = numQueues + 1
  /\ mine' = [mine EXCEPT ![s] = at[s]]
  /\ Goto(s, "idle")
  /\ UNCHANGED <<flags, sender, loaded, at, searches, givenBack>>

\* disconnectFromNode: the queue stays where it is
Disconnect(s) ==
  /\ pc[s] = "idle" /\ mine[s] # None
  /\ mine' = [mine EXCEPT ![s] = None]
  /\ UNCHANGED <<flags, sender, numQueues, pc, loaded, at, searches, givenBack>>

\* The process dies, wherever it is, and is started again.
Restart(s) ==
  /\ s \in Mortal
  /\ pc[s] # "idle" \/ mine[s] # None
  /\ mine' = [mine EXCEPT ![s] = None]
  /\ Goto(s, "idle")
  /\ UNCHANGED <<flags, sender, numQueues, loaded, at, searches, givenBack>>

DirectoryNext ==
  \E s \in Senders :
    \/ ConnectBegin(s) \/ LookupFound(s) \/ LookupNext(s) \/ LookupFailed(s)
    \/ ClaimSlot(s) \/ ClaimNext(s) \/ ClaimFailed(s)
    \/ NameSlot(s) \/ InitFailed(s) \/ Activate(s) \/ Publish(s)
    \/ Disconnect(s) \/ Restart(s)

DirectorySpec == DirectoryInit /\ [][DirectoryNext]_directoryVars
-----------------------------------------------------------------------------
(* Properties *)

\* Every variable holds a value of its type.
DirectoryTypeOK ==
  /\ flags \in [Slots -> {0, 1, 3}]
  /\ sender \in [Slots -> Senders \cup {None}]
  /\ numQueues \in Nat
  /\ pc \in [Senders -> {"idle", "lookup", "claim", "name", "activate", "publish", "refused"}]
  /\ loaded \in [Senders -> Nat]
  /\ at \in [Senders -> 1 .. NumSlots + 1]
  /\ mine \in [Senders -> Slots \cup {None}]
  /\ searches \in [Senders -> 0 .. MaxConnects]
  /\ givenBack \subseteq Slots

\* The slots a sender writes to: the queue of its connection, and the slot it
\* has claimed and is setting up.
Uses(s) == (IF mine[s] = None THEN {} ELSE {mine[s]})
           \cup (IF pc[s] \in {"name", "activate", "publish"} THEN {at[s]} ELSE {})

\* Every ring has at most one producer, which the lock-free ring depends on: no
\* slot is claimed twice, and no search returns another sender's queue, also
\* when senders search at the same time, are killed half-way and come back.  A
\* slot given back after a failed sem_init keeps the sender's id and is not
\* covered: its old sender may find it again while the next one sets it up.
OneProducerPerQueue ==
  \A s, t \in Senders : s # t => Uses(s) \cap Uses(t) \subseteq givenBack

\* The receive loop attributes what arrives on a connection's queue to the sender
\* that holds the connection, with the same exception.
ConnectionsAreAttributed ==
  \A s \in Senders : mine[s] # None => sender[mine[s]] = s \/ mine[s] \in givenBack

\* The search sees queues whose initialization is complete: a connection's queue
\* is active, so that the receive loop reads it.  Not so for a sender that was
\* killed before it activated its slot and finds the slot again after its restart,
\* nor for a slot given back.
ConnectionsAreReceived ==
  \A s \in Senders :
    mine[s] # None => flags[mine[s]] = 3 \/ s \in Mortal \/ mine[s] \in givenBack

\* A queue that has become active stays active and keeps its sender: the receive
\* loop reads the sender once per batch and never finds the queue gone.
ActiveQueuesStay ==
  [][\A i \in Slots : flags[i] = 3 => flags'[i] = 3 /\ sender'[i] = sender[i]]_directoryVars

Taken == {i \in Slots : flags[i] # 0}

\* num_queues never exceeds the number of active queues, whoever dies in between;
\* the search it bounds and the receive loop's refresh never overrun the table.
CountBehindTable == numQueues <= Cardinality({i \in Slots : flags[i] = 3})

\* Unless sem_init has failed, a search that is turned away has found max_queues
\* slots in use.
RefusedOnlyWhenFull ==
  \A s \in Senders :
    pc[s] = "refused" => Cardinality(Taken) >= MaxQueues \/ givenBack # {}
-----------------------------------------------------------------------------
(* The inductive invariant behind the theorems of Connections_proofs.        *)

Claiming(s) == pc[s] \in {"name", "activate", "publish"}

\* A sender that has claimed a slot finds it as it left it ...
ClaimsSound ==
  \A s \in Senders :
    /\ Claiming(s) => at[s] \in Slots
    /\ pc[s] \in {"name", "activate"} => flags[at[s]] = 1
    /\ pc[s] = "publish" => flags[at[s]] = 3
    /\ pc[s] \in {"activate", "publish"} => sender[at[s]] = s

\* ... and nobody else has claimed it.
ClaimsExclusive ==
  \A s, t \in Senders : s # t /\ Claiming(s) /\ Claiming(t) => at[s] # at[t]

\* The active queues whose creator has raised the count, or died before it.
Published == {i \in Slots : flags[i] = 3 /\ \A s \in Senders : pc[s] = "publish" => at[s] # i}

CountsPublished ==
  /\ numQueues <= Cardinality(Published)
  /\ \A s \in Senders : loaded[s] <= numQueues

\* What a slot's id says, as long as the slot is not given back: a slot has an id
\* only while it is taken, and a slot just claimed has none.
IdsSound ==
  /\ ConnectionsAreAttributed
  /\ \A i \in Slots \ givenBack : sender[i] # None => flags[i] # 0
  /\ \A s \in Senders : pc[s] = "name" => sender[at[s]] = None \/ at[s] \in givenBack

\* A slot that is valid, not active, and has the id of a sender that is never
\* killed is the one this sender is about to activate.
InitsSound ==
  /\ ConnectionsAreReceived
  /\ \A i \in Slots \ givenBack, s \in Senders \ Mortal :
       flags[i] = 1 /\ sender[i] = s => pc[s] = "activate" /\ at[s] = i

\* The slots a claiming sender has passed are taken, or were.
PassedTaken ==
  \A s \in Senders : pc[s] = "claim" =>
    \A i \in Slots : i < at[s] => flags[i] # 0 \/ i \in givenBack

DirectoryIInv ==
  /\ DirectoryTypeOK /\ ClaimsSound /\ ClaimsExclusive /\ CountsPublished
  /\ IdsSound /\ InitsSound /\ PassedTaken /\ RefusedOnlyWhenFull
=============================================================================
