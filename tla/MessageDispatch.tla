--------------------------- MODULE MessageDispatch ---------------------------
(***************************************************************************)
(* What a node does with the messages that reach it (NodeImpl.cpp):        *)
(* subscribe and unsubscribe, enqueueMessage and its overflow policies,    *)
(* the processing threads that call the subscriber back, and the           *)
(* destructor that takes all of this down.                                 *)
(*                                                                         *)
(* The messages come from in-process publishers, each of which holds a     *)
(* shared_ptr to the node while it delivers, and from the transport's      *)
(* receive thread, which holds none.  The node has one message group:      *)
(* groups share nothing but the threads.                                   *)
(***************************************************************************)
EXTENDS Integers, Sequences, FiniteSets

CONSTANTS
  Topics,      \* topics of the group
  App,         \* the application's thread
  Publishers,  \* threads of other nodes of the process that publish
  Receiver,    \* the transport's receive thread
  System,      \* the system thread
  Nobody,      \* no thread
  NumThreads,  \* NUM_PROCESSING_THREADS
  Route,       \* the hash: the processing thread of each topic
  MaxQueue,    \* config.node.max_queue_size
  MaxBatch,    \* MAX_MESSAGE_BATCH_SIZE
  MaxSends,    \* bound on the messages of a sender
  MaxSubs,     \* bound on the calls of subscribe
  Setups       \* what the user's code does: see UserCode

Workers == 1 .. NumThreads
Senders == Publishers \cup {Receiver}
Holders == Publishers \cup Workers \cup {App, System}
Policies == {"DROP_OLDEST", "DROP_NEWEST", "BLOCK"}

\* publishes: the subscriber's and the discovery callback publish on their own node;
\* greets: another node's discovery callback answers a new service with a publish;
\* policies: the overflow policies the application sets;
\* topics: the topics in use; sends, subscribes: how often each sender sends and
\* the application subscribes.
UserCode == [publishes : BOOLEAN, greets : BOOLEAN, policies : SUBSET Policies, topics : SUBSET Topics,
             sends : [Senders -> 0 .. MaxSends], subscribes : 0 .. MaxSubs]

ASSUME DispatchAssumption ==
  /\ NumThreads \in Nat \ {0} /\ Topics # {} /\ Route \in [Topics -> Workers]
  /\ MaxQueue \in Nat \ {0} /\ MaxBatch \in Nat \ {0} /\ MaxSends \in Nat \ {0} /\ MaxSubs \in Nat
  /\ Setups \subseteq UserCode
  /\ Publishers \cap (Workers \cup {App, System, Receiver, Nobody}) = {}
  /\ Workers \cap {App, System, Nobody} = {} /\ App \notin {System, Nobody} /\ System # Nobody

VARIABLES
  setup,      \* what the user's code does
  topics,     \* subscriptions_[group].topics; empty: there is no such group
  callback,   \* its callback, by the number of the subscribe that set it; 0: none
  locked,     \* subscribe holds subscriptions_mutex_
  app,        \* where the application's thread is
  subscribes, \* history: how often subscribe was called
  sender,     \* where each sender is
  packet,     \* the message it delivers
  sent,       \* history: how many messages it began to deliver
  policy,     \* overflow_policy_
  queue,      \* message_queues_
  worker,     \* where each processing thread is
  batch,      \* its batch; the first message is the one at work
  calling,    \* the callback it found for that message
  last,       \* history: the last message of each sender and topic called back
  tally,      \* history: what became of each thread's messages; dropped_messages_ is
              \* the dropped ones of all of them
  system,     \* where the system thread is
  holders,    \* who holds a shared_ptr to the node
  destroyer,  \* who runs the destructor
  dtor,       \* where it is
  notified,   \* the condition variables it notified
  missed,     \* history: threads notified between their test and their sleep
  touched     \* history: who used a queue that was already destroyed

subscription == <<topics, callback, locked, app, subscribes>>
sending == <<sender, packet, sent>>
working == <<worker, batch, calling, last>>
ending == <<destroyer, dtor, notified, missed>>
vars == <<setup, subscription, sending, policy, queue, working, tally, system, holders, ending, touched>>

Running == dtor \in {"none", "flag"}
SystemRunning == dtor \in {"none", "flag", "stop"}
Alive == dtor # "aborted"
QueuesExist == dtor \notin {"transport", "done"}

Fates == {"accepted", "dropped", "displaced", "unheard", "delivered"}
Calling == {"called", "publishing", "answered", "destroying"}

Message == [from : Senders, topic : Topics, number : 1 .. MaxSends, since : 0 .. MaxSubs]

NoPacket(s) == [from |-> s, topic |-> CHOOSE t \in Topics : TRUE, number |-> 1, since |-> 0]

Init ==
  /\ setup \in Setups
  /\ topics = {} /\ callback = 0 /\ locked = FALSE /\ app = "idle" /\ subscribes = 0
  /\ sender = [s \in Senders |-> "idle"]
  /\ packet = [s \in Senders |-> NoPacket(s)]
  /\ sent = [s \in Senders |-> 0]
  /\ policy = "DROP_OLDEST"
  /\ queue = [w \in Workers |-> <<>>]
  /\ worker = [w \in Workers |-> "test"]
  /\ batch = [w \in Workers |-> <<>>]
  /\ calling = [w \in Workers |-> 0]
  /\ last = [s \in Senders |-> [t \in Topics |-> 0]]
  /\ tally = [w \in Workers |-> [f \in Fates |-> 0]]
  /\ system = "running" /\ holders = {App}
  /\ destroyer = Nobody /\ dtor = "none" /\ notified = {} /\ missed = {} /\ touched = {}

Count(w, fates) ==
  tally' = [tally EXCEPT ![w] = [f \in Fates |-> IF f \in fates THEN @[f] + 1 ELSE @[f]]]

\* h drops its shared_ptr; whoever drops the last one runs the destructor.
Release(h) ==
  /\ holders' = holders \ {h}
  /\ IF holders = {h} THEN destroyer' = h /\ dtor' = "flag" ELSE UNCHANGED <<destroyer, dtor>>
  /\ UNCHANGED <<notified, missed>>
-----------------------------------------------------------------------------
(* The application's thread *)

AppAt(l) == Alive /\ App \in holders /\ app = l

Subscribe_KeepsCallback(T) ==
  /\ AppAt("idle") /\ ~locked /\ subscribes < setup.subscribes /\ T # {}
  /\ topics' = topics \cup T
  /\ subscribes' = subscribes + 1 /\ callback' = IF callback = 0 THEN subscribes + 1 ELSE callback
  /\ locked' = TRUE /\ app' = "register"
  /\ UNCHANGED <<setup, sending, policy, queue, working, tally, system, holders, ending, touched>>

\* subscribe: the topics are added and the callback replaced under the lock ...
Subscribe(T) ==
  /\ AppAt("idle") /\ ~locked /\ subscribes < setup.subscribes /\ T # {}
  /\ topics' = topics \cup T
  /\ subscribes' = subscribes + 1 /\ callback' = subscribes + 1
  /\ locked' = TRUE /\ app' = "register"
  /\ UNCHANGED <<setup, sending, policy, queue, working, tally, system, holders, ending, touched>>

\* ... which is held while registerService tells the other nodes ...
Registered ==
  /\ AppAt("register") /\ locked' = FALSE /\ app' = "idle"
  /\ UNCHANGED <<setup, topics, callback, subscribes, sending, policy, queue, working, tally, system, holders, ending, touched>>

\* ... so that a discovery callback that publishes comes back, in this thread,
\* to enqueueMessage of this node and waits there for the lock it holds.
Greeted ==
  /\ AppAt("register") /\ setup.greets /\ app' = "stuck"
  /\ UNCHANGED <<setup, topics, callback, locked, subscribes, sending, policy, queue, working, tally, system, holders, ending, touched>>

\* unsubscribe: no topics named means all; a group without topics is erased.
Unsubscribe(T) ==
  /\ AppAt("idle") /\ ~locked /\ topics # {}
  /\ topics' = IF T = {} THEN {} ELSE topics \ T
  /\ callback' = IF topics' = {} THEN 0 ELSE callback
  /\ UNCHANGED <<setup, locked, app, subscribes, sending, policy, queue, working, tally, system, holders, ending, touched>>

SetQueueOverflowPolicy(p) ==
  /\ AppAt("idle") /\ p \in setup.policies /\ policy' = p
  /\ UNCHANGED <<setup, subscription, sending, queue, working, tally, system, holders, ending, touched>>

LetGo ==
  /\ AppAt("idle") /\ Release(App)
  /\ UNCHANGED <<setup, subscription, sending, policy, queue, working, tally, system, touched>>
-----------------------------------------------------------------------------
(* The senders: deliverInProcess, processPacket and enqueueMessage *)

Goto(s, l) == Alive /\ sender' = [sender EXCEPT ![s] = l]

\* A publisher locks the weak_ptr of the registry, which works while somebody
\* holds the node; the receive thread runs until the transport is destroyed.
Deliver(s, t) ==
  /\ sender[s] = "idle" /\ sent[s] < setup.sends[s]
  /\ IF s \in Publishers
       THEN holders # {} /\ holders' = holders \cup {s}
       ELSE dtor # "done" /\ UNCHANGED holders
  /\ sent' = [sent EXCEPT ![s] = @ + 1]
  /\ packet' = [packet EXCEPT ![s] = [from |-> s, topic |-> t, number |-> sent[s] + 1, since |-> 0]]
  /\ Goto(s, "check")
  /\ UNCHANGED <<setup, subscription, policy, queue, working, tally, system, ending, touched>>

\* The quick check, under a shared lock of its own
Check(s) ==
  /\ sender[s] = "check" /\ ~locked
  /\ packet' = [packet EXCEPT ![s].since = subscribes]
  /\ Goto(s, IF packet[s].topic \in topics THEN "push" ELSE "leave")
  /\ UNCHANGED <<setup, subscription, sent, policy, queue, working, tally, system, holders, ending, touched>>

Target_RoundRobin(s) == 1 + (packet[s].number % NumThreads)
Target(s) == Route[packet[s].topic]

\* A processing thread keeps the queue's mutex from its test until it sleeps.
QueueUnlocked(w) == worker[w] # "tested"

Overflow_PopsFirst(q, msg) == IF policy = "DROP_NEWEST" THEN Tail(q) ELSE Append(Tail(q), msg)
Overflow(q, msg) ==
  CASE policy = "DROP_OLDEST" -> Append(Tail(q), msg)
    [] policy = "DROP_NEWEST" -> q
    [] policy = "BLOCK" -> Append(Tail(q), msg)

IsFull(q) == Len(q) >= MaxQueue
Pushed(q, msg) == IF IsFull(q) THEN Overflow(q, msg) ELSE Append(q, msg)

\* The second critical section.  Only a drop counts in dropped_messages_: the
\* policy BLOCK replaces the oldest message without a word.
Push(s) ==
  LET w == Target(s)
  IN /\ sender[s] = "push" /\ QueuesExist /\ QueueUnlocked(w)
     /\ queue' = [queue EXCEPT ![w] = Pushed(@, packet[s])]
     /\ Count(w, {"accepted"} \cup (IF ~IsFull(queue[w]) THEN {} ELSE IF policy = "BLOCK" THEN {"displaced"} ELSE {"dropped"}))
     /\ Goto(s, "notify")
     /\ UNCHANGED <<setup, subscription, packet, sent, policy, working, system, holders, ending, touched>>

Notify_Nobody(s) ==
  /\ sender[s] = "notify" /\ QueuesExist /\ Goto(s, "leave")
  /\ UNCHANGED <<setup, subscription, packet, sent, policy, queue, working, tally, system, holders, ending, touched>>

\* notify_one, after the mutex was released
Notify(s) ==
  LET w == Target(s)
  IN /\ sender[s] = "notify" /\ QueuesExist
     /\ worker' = IF worker[w] = "asleep" THEN [worker EXCEPT ![w] = "test"] ELSE worker
     /\ Goto(s, "leave")
     /\ UNCHANGED <<setup, subscription, packet, sent, policy, queue, batch, calling, last, tally, system, holders, ending, touched>>

\* The publisher drops its shared_ptr; the receive thread goes on.
Leave(s) ==
  /\ sender[s] = "leave" /\ Goto(s, "idle") /\ packet' = [packet EXCEPT ![s] = NoPacket(s)]
  /\ IF s \in Publishers THEN Release(s) ELSE UNCHANGED <<holders, ending>>
  /\ UNCHANGED <<setup, subscription, sent, policy, queue, working, tally, system, touched>>

\* The queues, their mutexes and condition variables are members declared after
\* the transport: they are destroyed before it joins the receive thread.
Touch(s) ==
  /\ sender[s] \in {"push", "notify"} /\ ~QueuesExist
  /\ touched' = touched \cup {s} /\ Goto(s, "leave")
  /\ UNCHANGED <<setup, subscription, packet, sent, policy, queue, working, tally, system, holders, ending>>
-----------------------------------------------------------------------------
(* The processing threads: messageProcessingThread *)

WorkerGoto(w, l) == Alive /\ worker' = [worker EXCEPT ![w] = l]

\* The loop condition and the predicate of wait, under the queue's mutex
Test(w) ==
  /\ worker[w] = "test"
  /\ LET n == IF Len(queue[w]) < MaxBatch THEN Len(queue[w]) ELSE MaxBatch
     IN IF ~Running
          THEN WorkerGoto(w, "gone") /\ UNCHANGED <<queue, batch>>
          ELSE IF n = 0
            THEN WorkerGoto(w, "tested") /\ UNCHANGED <<queue, batch>>
            ELSE /\ batch' = [batch EXCEPT ![w] = SubSeq(queue[w], 1, n)]
                 /\ queue' = [queue EXCEPT ![w] = SubSeq(@, n + 1, Len(@))]
                 /\ WorkerGoto(w, "lookup")
  /\ UNCHANGED <<setup, subscription, sending, policy, calling, last, tally, system, holders, ending, touched>>

Sleep(w) ==
  /\ worker[w] = "tested" /\ WorkerGoto(w, "asleep")
  /\ UNCHANGED <<setup, subscription, sending, policy, queue, batch, calling, last, tally, system, holders, ending, touched>>

\* The message at work is done: the next of the batch, or the loop again.
Advance(w, what) ==
  /\ batch' = [batch EXCEPT ![w] = Tail(@)]
  /\ calling' = [calling EXCEPT ![w] = 0]
  /\ Count(w, {what})
  /\ WorkerGoto(w, IF Len(batch[w]) = 1 THEN "test" ELSE "lookup")

\* The callback of the message's group as it is now, under a shared lock: the
\* topic is not looked at again.  The callback runs outside the lock, ...
Lookup(w) ==
  /\ worker[w] = "lookup" /\ ~locked
  /\ IF callback = 0
       THEN Advance(w, "unheard") /\ UNCHANGED last
       ELSE LET msg == Head(batch[w])
            IN /\ calling' = [calling EXCEPT ![w] = callback]
               /\ last' = [last EXCEPT ![msg.from][msg.topic] = msg.number]
               /\ WorkerGoto(w, "called") /\ UNCHANGED <<batch, tally>>
  /\ UNCHANGED <<setup, subscription, sending, policy, queue, system, holders, ending, touched>>

\* ... may publish: getAllNodes gives it a shared_ptr to its own node too ...
CallPublishes(w) ==
  /\ worker[w] = "called" /\ setup.publishes /\ holders # {}
  /\ holders' = holders \cup {w} /\ WorkerGoto(w, "publishing")
  /\ UNCHANGED <<setup, subscription, sending, policy, queue, batch, calling, last, tally, system, ending, touched>>

\* ... which may turn out to be the last one ...
CallPublished(w) ==
  /\ worker[w] = "publishing" /\ Release(w)
  /\ WorkerGoto(w, IF holders = {w} THEN "destroying" ELSE "answered")
  /\ UNCHANGED <<setup, subscription, sending, policy, queue, batch, calling, last, tally, system, touched>>

\* ... and returns.
Return(w) ==
  /\ worker[w] \in {"called", "answered"} /\ Advance(w, "delivered")
  /\ UNCHANGED <<setup, subscription, sending, policy, queue, last, system, holders, ending, touched>>
-----------------------------------------------------------------------------
(* The system thread: systemMessageThread *)

SystemAt(l) == Alive /\ system = l

\* A message makes it call the discovery callback, which may publish as well.
SystemPublishes ==
  /\ SystemAt("running") /\ setup.publishes /\ holders # {}
  /\ holders' = holders \cup {System} /\ system' = "publishing"
  /\ UNCHANGED <<setup, subscription, sending, policy, queue, working, tally, ending, touched>>

SystemPublished ==
  /\ SystemAt("publishing") /\ Release(System)
  /\ system' = IF holders = {System} THEN "destroying" ELSE "running"
  /\ UNCHANGED <<setup, subscription, sending, policy, queue, working, tally, touched>>

\* enqueueSystemMessage wakes it even after it slept through its end.
SystemPrompted ==
  /\ SystemAt("missed") /\ system' = "running"
  /\ UNCHANGED <<setup, subscription, sending, policy, queue, working, tally, holders, ending, touched>>

\* It sees that system_running_ is false.
SystemEnds ==
  /\ SystemAt("running") /\ ~SystemRunning /\ system' = "gone"
  /\ UNCHANGED <<setup, subscription, sending, policy, queue, working, tally, holders, ending, touched>>
-----------------------------------------------------------------------------
(* The destructor *)

\* running_ = false, without the mutex of any queue
Stop ==
  /\ dtor = "flag" /\ dtor' = "stop"
  /\ UNCHANGED <<setup, subscription, sending, policy, queue, working, tally, system, holders, destroyer, notified, missed, touched>>

\* unregisterNode, and the heartbeat and cleanup threads are joined; then
\* system_running_ = false and the system thread is notified, without its mutex: if
\* it has tested but does not sleep yet, it is not woken.
StopOthers ==
  /\ dtor = "stop" /\ dtor' = "system"
  /\ system' \in {system} \cup {l \in {"missed"} : system = "running"}
  /\ UNCHANGED <<setup, subscription, sending, policy, queue, working, tally, holders, destroyer, notified, missed, touched>>

JoinSystem ==
  /\ dtor = "system" /\ system = "gone" /\ dtor' = "notify"
  /\ UNCHANGED <<setup, subscription, sending, policy, queue, working, tally, system, holders, destroyer, notified, missed, touched>>

NotifyAll_FirstOnly(w) ==
  /\ dtor = "notify" /\ w = 1 /\ notified = {} /\ notified' = Workers
  /\ missed' = IF worker[w] = "tested" THEN {w} ELSE {}
  /\ worker' = IF worker[w] = "asleep" THEN [worker EXCEPT ![w] = "test"] ELSE worker
  /\ UNCHANGED <<setup, subscription, sending, policy, queue, batch, calling, last, tally, system, holders, destroyer, dtor, touched>>

\* notify_all of one thread's condition variable, without its mutex: a thread
\* that has tested but does not sleep yet is not woken.
NotifyAll(w) ==
  /\ dtor = "notify" /\ w \notin notified /\ \A v \in Workers : v < w => v \in notified
  /\ notified' = notified \cup {w}
  /\ missed' = IF worker[w] = "tested" THEN missed \cup {w} ELSE missed
  /\ worker' = IF worker[w] = "asleep" THEN [worker EXCEPT ![w] = "test"] ELSE worker
  /\ UNCHANGED <<setup, subscription, sending, policy, queue, batch, calling, last, tally, system, holders, destroyer, dtor, touched>>

Join_Detached ==
  /\ dtor = "notify" /\ notified = Workers /\ dtor' = "transport"
  /\ UNCHANGED <<setup, subscription, sending, policy, queue, working, tally, system, holders, destroyer, notified, missed, touched>>

\* All threads are joined; then the members go, from the last one up to the
\* queues.
Join ==
  /\ dtor = "notify" /\ notified = Workers /\ \A w \in Workers : worker[w] = "gone"
  /\ dtor' = "transport"
  /\ UNCHANGED <<setup, subscription, sending, policy, queue, working, tally, system, holders, destroyer, notified, missed, touched>>

\* A thread that joins itself: join throws, out of a destructor.
JoinSelf ==
  /\ \/ dtor = "system" /\ destroyer = System
     \/ /\ dtor = "notify" /\ notified = Workers
        /\ destroyer \in Workers /\ \A w \in Workers : w < destroyer => worker[w] = "gone"
  /\ dtor' = "aborted"
  /\ UNCHANGED <<setup, subscription, sending, policy, queue, working, tally, system, holders, destroyer, notified, missed, touched>>

\* The transport's destructor joins the receive thread.
DestroyTransport ==
  /\ dtor = "transport" /\ sender[Receiver] = "idle" /\ dtor' = "done"
  /\ UNCHANGED <<setup, subscription, sending, policy, queue, working, tally, system, holders, destroyer, notified, missed, touched>>
-----------------------------------------------------------------------------
AppNext ==
  \/ \E T \in SUBSET setup.topics : Subscribe(T) \/ Unsubscribe(T)
  \/ Registered \/ Greeted \/ LetGo
  \/ \E p \in Policies : SetQueueOverflowPolicy(p)

SenderSteps(s) == Check(s) \/ Push(s) \/ Notify(s) \/ Leave(s) \/ Touch(s)
WorkerSteps(w) == Test(w) \/ Sleep(w) \/ Lookup(w) \/ CallPublished(w) \/ Return(w)
SystemSteps == SystemPublished \/ SystemEnds
DestructorSteps == Stop \/ StopOthers \/ JoinSystem \/ Join \/ JoinSelf \/ DestroyTransport \/ \E w \in Workers : NotifyAll(w)

Next ==
  \/ AppNext
  \/ \E s \in Senders : SenderSteps(s) \/ \E t \in setup.topics : Deliver(s, t)
  \/ \E w \in Workers : WorkerSteps(w) \/ CallPublishes(w)
  \/ SystemSteps \/ SystemPublishes \/ SystemPrompted
  \/ DestructorSteps

Spec == Init /\ [][Next]_vars

\* Every thread runs and every callback returns; nobody has to send, subscribe
\* or let the node go, and no system message has to come.
FairSpec ==
  /\ Spec
  /\ WF_vars(Registered)
  /\ \A s \in Senders : WF_vars(SenderSteps(s))
  /\ \A w \in Workers : WF_vars(WorkerSteps(w))
  /\ WF_vars(SystemSteps)
  /\ WF_vars(DestructorSteps)
-----------------------------------------------------------------------------
(* Properties *)

\* Every variable has its type and no queue or batch exceeds its limit.
TypeOK ==
  /\ setup \in Setups /\ topics \subseteq Topics /\ callback \in 0 .. MaxSubs /\ subscribes \in 0 .. MaxSubs
  /\ locked \in BOOLEAN /\ app \in {"idle", "register", "stuck"}
  /\ sender \in [Senders -> {"idle", "check", "push", "notify", "leave"}]
  /\ packet \in [Senders -> Message] /\ sent \in [Senders -> 0 .. MaxSends]
  /\ policy \in Policies
  /\ queue \in [Workers -> Seq(Message)] /\ \A w \in Workers : Len(queue[w]) <= MaxQueue
  /\ batch \in [Workers -> Seq(Message)] /\ \A w \in Workers : Len(batch[w]) <= MaxBatch
  /\ worker \in [Workers -> Calling \cup {"test", "tested", "asleep", "lookup", "gone"}]
  /\ calling \in [Workers -> 0 .. MaxSubs]
  /\ last \in [Senders -> [Topics -> 0 .. MaxSends]]
  /\ tally \in [Workers -> [Fates -> Nat]]
  /\ system \in {"running", "publishing", "destroying", "missed", "gone"}
  /\ holders \subseteq Holders /\ destroyer \in Holders \cup {Nobody}
  /\ dtor \in {"none", "flag", "stop", "system", "notify", "transport", "done", "aborted"}
  /\ notified \subseteq Workers /\ missed \subseteq Workers /\ touched \subseteq Senders

Balanced(w) ==
  tally[w]["accepted"] = Len(queue[w]) + Len(batch[w]) + tally[w]["delivered"] + tally[w]["unheard"]
                           + tally[w]["dropped"] + tally[w]["displaced"]

\* Every message a processing thread was given by enqueueMessage waits, was called
\* back, found no callback any more, was counted in dropped_messages_, or was
\* displaced by the policy BLOCK: nothing else loses or repeats a message,
\* whatever changes of policy, of subscriptions and of threads happen meanwhile.
\* Queues keep their limit and all variables their types.
Accounted ==
  /\ TypeOK
  /\ \A w \in Workers : Balanced(w)

Before(m, n) == m.from = n.from /\ m.topic = n.topic => m.number < n.number
Ordered(q) == \A i, j \in DOMAIN q : i < j => Before(q[i], q[j])
New(m) == last[m.from][m.topic] < m.number

\* What thread w has still to call back
Todo(w) == (IF worker[w] \in Calling THEN Tail(batch[w]) ELSE batch[w]) \o queue[w]

\* "The same group:topic must map to the same thread, to keep the order of the
\* messages": the messages of a sender on a topic that wait to be called back,
\* in batch and queue, are in the order in which they were sent and come after
\* those already called back, the one at work included; so no message is called
\* back twice or after a later one, under all three policies.
InOrder ==
  \A w \in Workers :
    /\ Ordered(Todo(w))
    /\ \A i \in DOMAIN Todo(w) : Route[Todo(w)[i].topic] = w /\ New(Todo(w)[i])

\* A callback that a subscribe replaced, or an unsubscribe removed, is never
\* called for a message that passed the check of enqueueMessage afterwards,
\* although callback and check read the subscriptions at different times.
NeverAnOldCallback ==
  \A w \in Workers :
    worker[w] \in Calling => calling[w] >= Head(batch[w]).since

\* The destructor: when the queues are destroyed the system thread and every
\* processing thread have ended and no publisher is delivering, so that only the
\* receive thread, which the transport joins later, can still use them; and the
\* thread that runs the destructor is never one it has to join, unless a callback
\* publishes.
TeardownOrder ==
  /\ ~QueuesExist => /\ system = "gone" /\ \A w \in Workers : worker[w] = "gone"
                     /\ \A p \in Publishers : sender[p] = "idle"
  /\ touched \subseteq {Receiver}
  /\ destroyer \in Workers \cup {System} => setup.publishes

\* The invariant the proofs rest on.  A message of s in a queue or batch was
\* numbered before the one s is about to push ...
Issued(s) == IF sender[s] \in {"check", "push"} THEN sent[s] - 1 ELSE sent[s]

Known(w, q) ==
  \A i \in DOMAIN q :
    Route[q[i].topic] = w /\ q[i].number <= Issued(q[i].from) /\ q[i].since <= subscribes

\* ... and a thread's queue follows its batch, whose first message is at work.
Lined(w) ==
  /\ Known(w, queue[w]) /\ Known(w, batch[w])
  /\ Ordered(queue[w]) /\ Ordered(batch[w])
  /\ \A i \in DOMAIN batch[w], j \in DOMAIN queue[w] : Before(batch[w][i], queue[w][j])
  /\ \A i \in DOMAIN queue[w] : New(queue[w][i])
  /\ \A i \in DOMAIN batch[w] : i > 1 \/ worker[w] \notin Calling => New(batch[w][i])
  /\ batch[w] # <<>> <=> worker[w] \in Calling \cup {"lookup"}

Packed(s) ==
  /\ \A t \in Topics : last[s][t] <= Issued(s)
  /\ packet[s].since <= subscribes
  /\ sender[s] \in {"check", "push"} => packet[s].from = s /\ packet[s].number = sent[s]

\* Whoever delivers or publishes holds the node, which is destroyed only when
\* nobody does.
Held ==
  /\ dtor # "none" => holders = {}
  /\ \A s \in Publishers : sender[s] # "idle" => s \in holders
  /\ \A w \in Workers : worker[w] = "publishing" => w \in holders /\ setup.publishes
  /\ system = "publishing" => System \in holders /\ setup.publishes
  /\ dtor \in {"notify", "transport", "done"} => system = "gone"

IInv ==
  /\ Accounted /\ NeverAnOldCallback /\ TeardownOrder
  /\ \A w \in Workers : Lined(w)
  /\ \A s \in Senders : Packed(s)
  /\ callback # 0 => callback = subscribes
  /\ Held

\* A message that waits in a queue is taken by its thread or the node ends: no
\* wake-up of enqueueMessage is lost, although it notifies after the unlock.
\* Excepted is the thread that subscribes and waits for its own lock.
EveryMessageTaken ==
  \A w \in Workers : queue[w] # <<>> ~> queue[w] = <<>> \/ dtor # "none" \/ app = "stuck"

\* The destructor returns, unless the system thread or a processing thread was
\* between its test and its sleep when it was notified or the destructor runs on a
\* thread it has to join.
DestructorReturns ==
  dtor = "flag" ~> dtor = "done" \/ system = "missed" \/ missed # {} \/ destroyer \in Workers \cup {System}
==============================================================================
