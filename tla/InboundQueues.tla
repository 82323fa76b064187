--------------------------- MODULE InboundQueues ----------------------------
(***************************************************************************)
(* How messages get from the senders to one receiving node: send() and the *)
(* two receive loops of SharedMemoryTransportV3.cpp, the pending counters, *)
(* the notification (a condition variable or semaphores in the receiver's  *)
(* shared memory), the creation of a sender's queue, and stopReceiving().  *)
(*                                                                         *)
(* Each sender owns one InboundQueue with a control and a data ring.  A    *)
(* ring is the FIFO channel of SpscRing, kept here as the numbers of       *)
(* messages written to and read from it.  A sender is one transport with   *)
(* one sending thread; connections_mutex_ keeps its threads apart in each  *)
(* of the three sections of send() (fast path, connect, retry), and only a *)
(* disconnect by another thread can fall in between.  A sender's process   *)
(* may die between any two steps.  That connectToNode finds the queue the  *)
(* sender already has is taken for granted here; QueueDirectory examines   *)
(* it.                                                                     *)
(***************************************************************************)
EXTENDS Integers, FiniteSets

CONSTANTS
  Senders,      \* the senders
  Slot,         \* the slot of each sender's queue
  Capacity,     \* messages a ring holds
  DataPerPass,  \* MAX_DATA_PER_QUEUE
  PendMod,      \* the pending counters wrap at 2^32
  CongMax,      \* SHM_CONGESTION_MAX
  CongInc,      \* SHM_CONGESTION_INCREMENT
  CongInitial,  \* SHM_CONGESTION_INITIAL
  Setups,       \* the set-ups considered, see the variable setup
  None, Rcv     \* "no thread" and the receive thread, as owners of the mutex

Kinds == {"control", "data"}

ASSUME InboundAssumption ==
  /\ IsFiniteSet(Senders) /\ Slot \in [Senders -> Nat]
  /\ \A s, t \in Senders : Slot[s] = Slot[t] => s = t
  /\ {Capacity, DataPerPass, CongMax, CongInc, CongInitial} \subseteq Nat \ {0}
  /\ PendMod \in Nat /\ PendMod > Capacity + 1
  /\ \A u \in Setups : /\ u.mechanism \in {"cv", "semaphore"}
                       /\ u.mortal \subseteq Senders
                       /\ u.sends \in [Senders -> [Kinds -> Nat]]
                       /\ u.foreign \in BOOLEAN
  /\ None \notin Senders /\ Rcv \notin Senders /\ None # Rcv

VARIABLES
  setup,       \* config_.notify_mechanism (the same on both sides), the senders
               \* whose process may die, the bound on the messages of each ring,
               \* and whether a process died with another node's global_mutex
  written,     \* messages written to each ring
  taken,       \* messages read from each ring and given to the callback
  pending,     \* control_pending, data_pending
  sem,         \* control_sem, data_sem
  congestion,  \* congestion_level of each queue
  active,      \* the queues whose flags are 0x3
  numQueues,   \* header.num_queues
  mutex,       \* the owner of header.global_mutex
  conn,        \* the senders with a connection
  spc,         \* where each sender is in send()
  skind,       \* is_control of the message being sent
  sfast,       \* whether it is sent on the fast path
  receiving,   \* receiving_
  rpc,         \* where the receive thread is in its loop
  todo,        \* the queues this pass has still to visit
  pass,        \* the pass: control first, then data
  processed,   \* processed, for the queue being drained
  hasMessages, \* has_messages
  known,       \* active_queues
  cached,      \* cached_num_queues
  woken,       \* the waiting receive thread has been signalled
  heart,       \* where the heartbeat thread is
  stopper      \* where stopReceiving() is

ringVars   == <<written, taken, pending>>
queueVars  == <<active, numQueues>>
senderVars == <<conn, spc, skind, sfast, congestion>>
loopVars   == <<todo, pass, processed, hasMessages, known, cached>>
stopVars   == <<heart, stopper>>
vars == <<setup, ringVars, sem, queueVars, mutex, senderVars, receiving, rpc, loopVars, woken, stopVars>>

InRing(s, k) == written[s][k] - taken[s][k]

Init ==
  /\ setup \in Setups
  /\ written = [s \in Senders |-> [k \in Kinds |-> 0]]
  /\ taken = written
  /\ pending = written
  /\ sem = written
  /\ congestion = [s \in Senders |-> 0]
  /\ active = {}
  /\ numQueues = 0
  /\ mutex = None
  /\ conn = {}
  /\ spc = [s \in Senders |-> "idle"]
  /\ skind = [s \in Senders |-> "data"]
  /\ sfast = [s \in Senders |-> TRUE]
  /\ receiving = TRUE
  /\ rpc = "top"
  /\ todo = {}
  /\ pass = "control"
  /\ processed = 0
  /\ hasMessages = FALSE
  /\ known = {}
  /\ cached = 0
  /\ woken = FALSE
  /\ heart = "loop"
  /\ stopper = "idle"
-----------------------------------------------------------------------------
(* send() *)

Goto(s, where) == spc' = [spc EXCEPT ![s] = where]

\* pthread_cond_signal, pthread_cond_broadcast: only a waiting thread notices
Wake == woken' = (woken \/ rpc = "waiting")

\* tryWrite succeeds: the ring has room
SendWrite(s, k, fast) ==
  /\ InRing(s, k) < Capacity
  /\ written[s][k] < setup.sends[s][k]
  /\ written' = [written EXCEPT ![s][k] = @ + 1]
  /\ skind' = [skind EXCEPT ![s] = k]
  /\ sfast' = [sfast EXCEPT ![s] = fast]
  /\ Goto(s, "count")
  /\ UNCHANGED <<taken, pending, sem, queueVars, mutex, conn, congestion,
                 setup, receiving, rpc, loopVars, woken, stopVars>>

\* tryWrite fails: the message is dropped, and a data queue gets more congested
CongestionUp(c, fast) ==
  IF ~fast THEN CongInitial ELSE IF c < CongMax THEN c + CongInc ELSE c

SendFull(s, k, fast) ==
  /\ InRing(s, k) >= Capacity
  /\ congestion' = IF k = "data" THEN [congestion EXCEPT ![s] = CongestionUp(@, fast)]
                                 ELSE congestion
  /\ Goto(s, "idle")
  /\ UNCHANGED <<ringVars, sem, queueVars, mutex, conn, skind, sfast,
                 setup, receiving, rpc, loopVars, woken, stopVars>>

SendFast(s, k) ==
  /\ spc[s] = "idle" /\ s \in conn
  /\ SendWrite(s, k, TRUE) \/ SendFull(s, k, TRUE)

\* Not connected: connectToNode finds the sender's queue or creates one.
SendSlow(s, k) ==
  /\ spc[s] = "idle" /\ s \notin conn
  /\ written[s][k] < setup.sends[s][k]
  /\ skind' = [skind EXCEPT ![s] = k]
  /\ IF s \in active
     THEN conn' = conn \cup {s} /\ Goto(s, "retry")
     ELSE conn' = conn /\ Goto(s, "create")
  /\ UNCHANGED <<ringVars, sem, queueVars, mutex, sfast, congestion,
                 setup, receiving, rpc, loopVars, woken, stopVars>>

\* findOrCreateQueue: counters reset, then flags = 0x3 ...
CreateQueue(s) ==
  /\ spc[s] = "create"
  /\ pending' = [pending EXCEPT ![s] = [k \in Kinds |-> 0]]
  /\ sem' = [sem EXCEPT ![s] = [k \in Kinds |-> 0]]
  /\ congestion' = IF setup.mechanism = "cv" THEN [congestion EXCEPT ![s] = 0] ELSE congestion
  /\ active' = active \cup {s}
  /\ Goto(s, IF setup.mechanism = "cv" THEN "lock" ELSE "publish")
  /\ UNCHANGED <<written, taken, numQueues, mutex, conn, skind, sfast,
                 setup, receiving, rpc, loopVars, woken, stopVars>>

\* ... a signal under the receiver's global_mutex ...
CreateLock(s) ==
  /\ spc[s] = "lock" /\ mutex = None
  /\ mutex' = s
  /\ Goto(s, "signal_new")
  /\ UNCHANGED <<ringVars, sem, queueVars, conn, skind, sfast, congestion,
                 setup, receiving, rpc, loopVars, woken, stopVars>>

CreateSignal(s) ==
  /\ spc[s] = "signal_new"
  /\ Wake
  /\ Goto(s, "unlock")
  /\ UNCHANGED <<ringVars, sem, queueVars, mutex, conn, skind, sfast, congestion,
                 setup, receiving, rpc, loopVars, stopVars>>

CreateUnlock(s) ==
  /\ spc[s] = "unlock"
  /\ mutex' = None
  /\ Goto(s, "publish")
  /\ UNCHANGED <<ringVars, sem, queueVars, conn, skind, sfast, congestion,
                 setup, receiving, rpc, loopVars, woken, stopVars>>

\* ... and the count of queues last.
PublishQueue(s) ==
  /\ spc[s] = "publish"
  /\ numQueues' = numQueues + 1
  /\ conn' = conn \cup {s}
  /\ Goto(s, "retry")
  /\ UNCHANGED <<ringVars, sem, active, mutex, skind, sfast, congestion,
                 setup, receiving, rpc, loopVars, woken, stopVars>>

SendRetry(s) ==
  /\ spc[s] = "retry" /\ s \in conn
  /\ SendWrite(s, skind[s], FALSE) \/ SendFull(s, skind[s], FALSE)

\* Disconnected in between: the message is dropped.
SendDropped(s) ==
  /\ spc[s] = "retry" /\ s \notin conn
  /\ Goto(s, "idle")
  /\ UNCHANGED <<ringVars, sem, queueVars, mutex, conn, skind, sfast, congestion,
                 setup, receiving, rpc, loopVars, woken, stopVars>>

\* A sent data message lowers the congestion, on the fast path only.
Relax(s) ==
  congestion' = IF skind[s] = "data" /\ sfast[s] /\ congestion[s] > 0
                THEN [congestion EXCEPT ![s] = @ - 1] ELSE congestion

\* prev = pending.fetch_add(1)
SendCount(s) ==
  LET k == skind[s]
  IN /\ spc[s] = "count"
     /\ pending' = [pending EXCEPT ![s][k] = (@ + 1) % PendMod]
     /\ IF pending[s][k] = 0
        THEN Goto(s, "signal") /\ UNCHANGED congestion
        ELSE Goto(s, "idle") /\ Relax(s)
     /\ UNCHANGED <<written, taken, sem, queueVars, mutex, conn, skind, sfast,
                    setup, receiving, rpc, loopVars, woken, stopVars>>

\* prev == 0: notify the receiver, without taking its mutex
SendSignal(s) ==
  /\ spc[s] = "signal"
  /\ IF setup.mechanism = "cv"
     THEN Wake /\ UNCHANGED sem
     ELSE sem' = [sem EXCEPT ![s][skind[s]] = @ + 1] /\ UNCHANGED woken
  /\ Relax(s)
  /\ Goto(s, "idle")
  /\ UNCHANGED <<ringVars, queueVars, mutex, conn, skind, sfast,
                 setup, receiving, rpc, loopVars, stopVars>>

\* disconnectFromNode, after the receiver was reported gone
Disconnect(s) ==
  /\ spc[s] \in {"idle", "retry"} /\ s \in conn
  /\ conn' = conn \ {s}
  /\ UNCHANGED <<ringVars, sem, queueVars, mutex, spc, skind, sfast, congestion,
                 setup, receiving, rpc, loopVars, woken, stopVars>>

\* The sender's process dies; a mutex it holds stays locked (it is not robust).
Die(s) ==
  /\ s \in setup.mortal
  /\ spc[s] \notin {"dead", "died_uncounted"}
  /\ Goto(s, IF spc[s] = "count" THEN "died_uncounted" ELSE "dead")
  /\ UNCHANGED <<ringVars, sem, queueVars, mutex, conn, skind, sfast, congestion,
                 setup, receiving, rpc, loopVars, woken, stopVars>>

SenderSteps(s) ==
  \/ CreateQueue(s) \/ CreateLock(s) \/ CreateSignal(s) \/ CreateUnlock(s)
  \/ PublishQueue(s) \/ SendRetry(s) \/ SendDropped(s) \/ SendCount(s) \/ SendSignal(s)

Sender(s) ==
  \/ \E k \in Kinds : SendFast(s, k) \/ SendSlow(s, k)
  \/ SenderSteps(s)
  \/ Disconnect(s)
  \/ Die(s)
-----------------------------------------------------------------------------
(* receiveLoop_CV, receiveLoop_Semaphore *)

\* The queues are visited in the order of their slots.
First(S) == CHOOSE s \in S : \A t \in S : Slot[s] <= Slot[t]

RcvStop ==
  /\ rpc = "top" /\ ~receiving
  /\ rpc' = "exit"
  /\ UNCHANGED <<ringVars, sem, queueVars, mutex, senderVars, setup, receiving, loopVars, woken, stopVars>>

\* The list is rebuilt when num_queues has changed or the list is empty; the
\* semaphore loop also rebuilds it every SHM_QUEUE_REFRESH_INTERVAL rounds.
Refreshes_OnlyWhenEmpty == {known = {}}
Refreshes ==
  IF numQueues # cached \/ known = {} THEN {TRUE}
  ELSE IF setup.mechanism = "semaphore" THEN BOOLEAN ELSE {FALSE}

RcvLoadCount ==
  /\ rpc = "top" /\ receiving
  /\ \E refresh \in Refreshes :
       IF refresh
       THEN /\ cached' = numQueues
            /\ known' = {}
            /\ todo' = Senders
            /\ rpc' = "scan"
       ELSE /\ todo' = known
            /\ rpc' = "visit"
            /\ UNCHANGED <<cached, known>>
  /\ pass' = "control"
  /\ hasMessages' = FALSE
  /\ UNCHANGED <<ringVars, sem, queueVars, mutex, senderVars, setup, receiving, processed, woken, stopVars>>

\* The flags are read slot by slot, after num_queues.
RcvScan ==
  /\ rpc = "scan" /\ todo # {}
  /\ known' = known \cup ({First(todo)} \cap active)
  /\ todo' = todo \ {First(todo)}
  /\ UNCHANGED <<ringVars, sem, queueVars, mutex, senderVars, setup, receiving, rpc, pass, processed,
                 hasMessages, cached, woken, stopVars>>

RcvScanned ==
  /\ rpc = "scan" /\ todo = {}
  /\ todo' = known
  /\ rpc' = IF known = {} THEN "idle" ELSE "visit"
  /\ UNCHANGED <<ringVars, sem, queueVars, mutex, senderVars, setup, receiving, pass, processed,
                 hasMessages, known, cached, woken, stopVars>>

\* No queue yet: wait up to SHM_TIMEOUT_IDLE_MS, or until stopReceiving
RcvIdle ==
  /\ rpc = "idle"
  /\ rpc' = "top"
  /\ UNCHANGED <<ringVars, sem, queueVars, mutex, senderVars, setup, receiving, loopVars, woken, stopVars>>

\* The condition-variable loop trusts the pending counter and skips the queue.
Skips(s) == setup.mechanism = "cv" /\ pending[s][pass] = 0

RcvVisit ==
  /\ rpc = "visit" /\ todo # {}
  /\ IF Skips(First(todo))
     THEN todo' = todo \ {First(todo)} /\ UNCHANGED <<rpc, processed>>
     ELSE rpc' = "drain" /\ processed' = 0 /\ UNCHANGED todo
  /\ UNCHANGED <<ringVars, sem, queueVars, mutex, senderVars, setup, receiving,
                 pass, hasMessages, known, cached, woken, stopVars>>

MoreToRead ==
  /\ InRing(First(todo), pass) > 0
  /\ pass = "data" => processed < DataPerPass

\* tryRead and the callback
RcvRead ==
  /\ rpc = "drain" /\ MoreToRead
  /\ taken' = [taken EXCEPT ![First(todo)][pass] = @ + 1]
  /\ processed' = processed + 1
  /\ hasMessages' = TRUE
  /\ UNCHANGED <<written, pending, sem, queueVars, mutex, senderVars, setup, receiving, rpc,
                 todo, pass, known, cached, woken, stopVars>>

\* pending.fetch_sub(processed), once for the whole batch
RcvDrained_Reset ==
  /\ rpc = "drain" /\ ~MoreToRead
  /\ pending' = [pending EXCEPT ![First(todo)][pass] = 0]
  /\ todo' = todo \ {First(todo)}
  /\ rpc' = "visit"
  /\ UNCHANGED <<written, taken, sem, queueVars, mutex, senderVars, setup, receiving,
                 pass, processed, hasMessages, known, cached, woken, stopVars>>

RcvDrained ==
  /\ rpc = "drain" /\ ~MoreToRead
  /\ pending' = [pending EXCEPT ![First(todo)][pass] = (@ - processed) % PendMod]
  /\ todo' = todo \ {First(todo)}
  /\ rpc' = "visit"
  /\ UNCHANGED <<written, taken, sem, queueVars, mutex, senderVars, setup, receiving,
                 pass, processed, hasMessages, known, cached, woken, stopVars>>

RcvDataPass ==
  /\ rpc = "visit" /\ todo = {} /\ pass = "control"
  /\ pass' = "data"
  /\ todo' = known
  /\ UNCHANGED <<ringVars, sem, queueVars, mutex, senderVars, setup, receiving, rpc,
                 processed, hasMessages, known, cached, woken, stopVars>>

RcvPassesDone ==
  /\ rpc = "visit" /\ todo = {} /\ pass = "data"
  /\ rpc' = IF hasMessages THEN "top" ELSE IF setup.mechanism = "cv" THEN "lock" ELSE "trywait"
  /\ UNCHANGED <<ringVars, sem, queueVars, mutex, senderVars, setup, receiving, loopVars, woken, stopVars>>

\* pthread_mutex_lock(&global_mutex)
RcvLock ==
  /\ rpc = "lock" /\ mutex = None
  /\ mutex' = Rcv
  /\ rpc' = "locked"
  /\ UNCHANGED <<ringVars, sem, queueVars, senderVars, setup, receiving, loopVars, woken, stopVars>>

\* pthread_cond_timedwait: the mutex is given up and the thread waits ...
RcvWait ==
  /\ rpc = "locked"
  /\ mutex' = None
  /\ woken' = FALSE
  /\ rpc' = "waiting"
  /\ UNCHANGED <<ringVars, sem, queueVars, senderVars, setup, receiving, loopVars, stopVars>>

\* ... until a signal or the timeout; then it holds the mutex again.
RcvWoken ==
  /\ rpc = "waiting" /\ woken /\ mutex = None
  /\ mutex' = Rcv
  /\ woken' = FALSE
  /\ rpc' = "unlock"
  /\ UNCHANGED <<ringVars, sem, queueVars, senderVars, setup, receiving, loopVars, stopVars>>

RcvTimeout ==
  /\ rpc = "waiting" /\ ~woken /\ mutex = None
  /\ mutex' = Rcv
  /\ rpc' = "unlock"
  /\ UNCHANGED <<ringVars, sem, queueVars, senderVars, setup, receiving, loopVars, woken, stopVars>>

RcvUnlock_Missing ==
  /\ rpc = "unlock"
  /\ rpc' = "top"
  /\ UNCHANGED <<ringVars, sem, queueVars, mutex, senderVars, setup, receiving, loopVars, woken, stopVars>>

RcvUnlock ==
  /\ rpc = "unlock"
  /\ mutex' = None
  /\ rpc' = "top"
  /\ UNCHANGED <<ringVars, sem, queueVars, senderVars, setup, receiving, loopVars, woken, stopVars>>

\* sem_trywait on the control semaphores, then on the data semaphores
Posted(k) == {s \in known : sem[s][k] > 0}

RcvTryWait ==
  /\ rpc = "trywait"
  /\ IF Posted("control") \cup Posted("data") = {}
     THEN rpc' = "semwait" /\ UNCHANGED sem
     ELSE LET k == IF Posted("control") # {} THEN "control" ELSE "data"
          IN rpc' = "top" /\ sem' = [sem EXCEPT ![First(Posted(k))][k] = @ - 1]
  /\ UNCHANGED <<ringVars, queueVars, mutex, senderVars, setup, receiving, loopVars, woken, stopVars>>

\* sem_timedwait on the first queue's control semaphore only
RcvSemWait ==
  LET first == First(known)
  IN /\ rpc = "semwait"
     /\ sem' = IF sem[first]["control"] > 0
               THEN [sem EXCEPT ![first]["control"] = @ - 1] ELSE sem
     /\ rpc' = "top"
     /\ UNCHANGED <<ringVars, queueVars, mutex, senderVars, setup, receiving, loopVars, woken, stopVars>>

Receiver ==
  \/ RcvStop \/ RcvLoadCount \/ RcvScan \/ RcvScanned \/ RcvIdle \/ RcvVisit \/ RcvRead \/ RcvDrained
  \/ RcvDataPass \/ RcvPassesDone \/ RcvLock \/ RcvWait \/ RcvWoken \/ RcvTimeout
  \/ RcvUnlock \/ RcvTryWait \/ RcvSemWait
-----------------------------------------------------------------------------
(* heartbeatLoop, as far as stopReceiving waits for its end *)

\* connectToNode waits for another node's global_mutex, which nobody gives back.
HeartBlocks ==
  /\ heart = "loop" /\ stopper # "done" /\ setup.foreign /\ setup.mechanism = "cv"
  /\ heart' = "blocked"
  /\ UNCHANGED <<setup, ringVars, sem, queueVars, mutex, senderVars, receiving, rpc, loopVars, woken, stopper>>
-----------------------------------------------------------------------------
(* stopReceiving, called by the thread that destroys the node *)

StopBegin ==
  /\ stopper = "idle"
  /\ receiving' = FALSE
  /\ stopper' = "wake"
  /\ UNCHANGED <<setup, ringVars, sem, queueVars, mutex, senderVars, rpc, loopVars, woken, heart>>

\* trylock; broadcast only if the mutex was free
StopWake ==
  /\ stopper = "wake"
  /\ IF mutex = None THEN Wake ELSE UNCHANGED woken
  /\ stopper' = "join"
  /\ UNCHANGED <<ringVars, sem, queueVars, mutex, senderVars, setup, receiving, rpc, loopVars, heart>>

\* receive_thread_.join(), ...
StopJoined ==
  /\ stopper = "join" /\ rpc = "exit"
  /\ stopper' = "heartbeat"
  /\ UNCHANGED <<ringVars, sem, queueVars, mutex, senderVars, setup, receiving, rpc, loopVars, woken, heart>>

\* ... heartbeat_thread_.join(): in its loop it sees receiving_ and ends
StopHeartbeat ==
  /\ stopper = "heartbeat" /\ heart = "loop"
  /\ stopper' = "done"
  /\ UNCHANGED <<ringVars, sem, queueVars, mutex, senderVars, setup, receiving, rpc, loopVars, woken, heart>>

StopSteps == StopWake \/ StopJoined \/ StopHeartbeat
Stopper == StopBegin \/ StopSteps

Next == (\E s \in Senders : Sender(s)) \/ Receiver \/ HeartBlocks \/ Stopper

Spec == Init /\ [][Next]_vars

\* The receive thread keeps running, a sender that is inside send() and alive
\* goes on with it, and stopReceiving goes on once called.  Nobody has to send,
\* to disconnect, to die or to call stopReceiving.
Fairness ==
  /\ WF_vars(Receiver)
  /\ \A s \in Senders : WF_vars(SenderSteps(s))
  /\ WF_vars(StopSteps)

FairSpec == Spec /\ Fairness
-----------------------------------------------------------------------------
(* Properties *)

\* Every variable holds a value of its type; in particular the unsigned
\* congestion_level never wraps below zero.
TypeOK ==
  /\ setup \in Setups
  /\ written \in [Senders -> [Kinds -> Nat]]
  /\ taken \in [Senders -> [Kinds -> Nat]]
  /\ pending \in [Senders -> [Kinds -> 0 .. PendMod - 1]]
  /\ sem \in [Senders -> [Kinds -> Nat]]
  /\ congestion \in [Senders -> Nat]
  /\ active \subseteq Senders
  /\ numQueues \in 0 .. Cardinality(Senders)
  /\ mutex \in Senders \cup {None, Rcv}
  /\ conn \subseteq Senders
  /\ spc \in [Senders -> {"idle", "create", "lock", "signal_new", "unlock", "publish", "retry",
                          "count", "signal", "dead", "died_uncounted"}]
  /\ skind \in [Senders -> Kinds]
  /\ sfast \in [Senders -> BOOLEAN]
  /\ receiving \in BOOLEAN
  /\ rpc \in {"top", "scan", "idle", "visit", "drain", "lock", "locked", "waiting", "unlock",
              "trywait", "semwait", "exit"}
  /\ todo \subseteq Senders
  /\ pass \in Kinds
  /\ processed \in Nat
  /\ hasMessages \in BOOLEAN
  /\ known \subseteq Senders
  /\ cached \in 0 .. Cardinality(Senders)
  /\ woken \in BOOLEAN
  /\ heart \in {"loop", "blocked"}
  /\ stopper \in {"idle", "wake", "join", "heartbeat", "done"}

\* Messages of the ring that its pending counter does not count yet (written,
\* fetch_add still to come) or still counts (read, fetch_sub still to come).
Uncounted(s, k) == IF spc[s] \in {"count", "died_uncounted"} /\ skind[s] = k THEN 1 ELSE 0
Unsubtracted(s, k) ==
  IF rpc = "drain" /\ s = First(todo) /\ k = pass THEN processed ELSE 0

\* The pending counter, although it is raised after the write and lowered in
\* batches after the reads and so may pass below zero in between, never drifts:
\* modulo 2^32 it is the number of messages in the ring, corrected by the
\* message just being sent and the batch just being read.
PendingCountsRing ==
  \A s \in Senders, k \in Kinds :
    pending[s][k] = (InRing(s, k) + Unsubtracted(s, k) - Uncounted(s, k)) % PendMod

\* global_mutex is held only where the code holds it: a signal that creates a
\* queue and a receive thread that goes to sleep exclude each other.
MutexOwner ==
  /\ mutex = Rcv <=> rpc \in {"locked", "unlock"}
  /\ \A s \in Senders : spc[s] \in {"signal_new", "unlock"} => mutex = s

\* A dead sender may have taken global_mutex with it.
MutexOrphaned == mutex \in Senders /\ spc[mutex] = "dead"

\* Every message send() reported as sent reaches the callback, as long as the
\* node keeps receiving: whatever the rings hold, they are drained, so neither a
\* skipped queue, nor a lost signal, nor a stale list of queues, nor the limit on
\* data messages strands one.  The exceptions are a sender that died between
\* tryWrite and fetch_add, and one that died holding global_mutex.
Undelivered(s, k) == InRing(s, k) > 0 /\ spc[s] # "died_uncounted"

EveryMessageDelivered ==
  (\E s \in Senders, k \in Kinds : Undelivered(s, k))
    ~> \/ \A s \in Senders, k \in Kinds : ~Undelivered(s, k)
       \/ ~receiving
       \/ MutexOrphaned

\* stopReceiving returns, both threads joined, unless a dead sender holds
\* global_mutex or the heartbeat thread waits, in connectToNode, for that of another
\* node, which a process took with it.
StopReturns == stopper # "idle" ~> (stopper = "done" \/ MutexOrphaned \/ heart = "blocked")
-----------------------------------------------------------------------------
(* The inductive invariant behind the safety properties *)

\* A queue that was never activated is empty, and nobody is connected to it.
Untouched ==
  \A s \in Senders :
    /\ s \notin active => /\ spc[s] \in {"idle", "create", "dead"} /\ s \notin conn
                          /\ \A k \in Kinds : written[s][k] = 0 /\ taken[s][k] = 0
    /\ spc[s] = "create" => s \notin active

\* The receive thread visits active queues only.
VisitsActive ==
  /\ known \subseteq active
  /\ rpc \in {"visit", "drain"} => todo \subseteq active
  /\ rpc = "drain" => todo # {}

\* num_queues counts no queue before its creator has published it.
Published == {s \in active : spc[s] \notin {"lock", "signal_new", "unlock", "publish"}}
QueuesCounted == numQueues <= Cardinality(Published)

IInv == TypeOK /\ Untouched /\ VisitsActive /\ QueuesCounted /\ PendingCountsRing /\ MutexOwner
=============================================================================
