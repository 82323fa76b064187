--------------------------- MODULE ServiceDiscovery ---------------------------
(***************************************************************************)
(* How nodes find each other and each other's services (NodeImpl.cpp,      *)
(* GlobalRegistry.cpp, heartbeatLoop and broadcast of                      *)
(* SharedMemoryTransportV3.cpp).                                           *)
(*                                                                         *)
(* A node enters its process's GlobalRegistry and then the shared          *)
(* registry, asks everybody for services, announces its own when it        *)
(* subscribes and says goodbye when it is destroyed.  Messages go through  *)
(* the control ring between two nodes into the receiver's system queue and *)
(* are handled by its system thread.  The heartbeat thread connects to new *)
(* nodes and removes dead ones from the shared registry.                   *)
(*                                                                         *)
(* A node has one service, named by the node: services share nothing but   *)
(* the messages' path.  Node ids end in the process id and do not return.  *)
(***************************************************************************)
EXTENDS Integers, Sequences, FiniteSets

CONSTANTS
  Nodes,      \* node ids
  Processes,  \* process ids
  Setups      \* see Scenario

\* process: where the nodes live; early: nodes that are up and connected to each
\* other from the start, offering: those of them that are subscribed; newcomers:
\* nodes that may be created; toggles: how often each subscribes or unsubscribes;
\* leavers: nodes that may be destroyed; publishers: nodes that publish; late:
\* nodes whose heartbeat may be late; mortal: processes that may be killed;
\* ringSize: messages a control ring holds; systemSize: MAX_SYSTEM_QUEUE_SIZE.
Scenario == [process : [Nodes -> Processes], early : SUBSET Nodes, offering : SUBSET Nodes,
             newcomers : SUBSET Nodes, toggles : [Nodes -> Nat], leavers : SUBSET Nodes,
             publishers : SUBSET Nodes, late : SUBSET Nodes, mortal : SUBSET Processes,
             ringSize : Nat \ {0}, systemSize : Nat \ {0}]

ASSUME DiscoveryAssumption ==
  \A s \in Setups : s \in Scenario /\ s.offering \subseteq s.early

VARIABLES
  setup,      \* the scenario
  main,       \* where the thread that creates, uses and destroys each node is
  job,        \* the broadcast it is in: the message, and the nodes still to be sent to
  offers,     \* the node is subscribed
  toggled,    \* how often it subscribed or unsubscribed
  local,      \* GlobalRegistry::nodes_ of each process
  services,   \* GlobalRegistry::services_ of each process
  registered, \* the nodes in the shared registry
  ready,      \* the nodes whose memory is ready
  conn,       \* remote_connections_ of each node
  ring,       \* ring[a][b]: the control ring from a to b
  queue,      \* system_queue_ of each node
  system,     \* whom the system thread of each node is answering
  missed,     \* the nodes being destroyed whose system thread sleeps on
  beat,       \* where the heartbeat thread of each node is in its cleaning
  removed,    \* its nodes_before; at the end those it has not reported yet
  publish,    \* the publish each node is in
  dead,       \* the processes that were killed
  left,       \* history: the nodes each node reported with NODE_LEFT
  lost,       \* history: pairs of nodes with a message lost on a full ring or queue
  tardy,      \* history: nodes that sent a service after their farewell began
  crossed,    \* history: pairs of a node and an asker it answered as it no longer should
  unreported  \* history: removed nodes whose remover ended before it reported them

tables == <<local, services, registered, ready>>
path == <<conn, ring, queue>>
history == <<left, lost, tardy, crossed, unreported>>
vars == <<setup, main, job, offers, toggled, tables, path, system, missed, beat, removed, publish, dead, history>>

Kinds == {"QUERY", "REGISTER", "UNREGISTER", "LEAVE"}
NoJob == [kind |-> "LEAVE", todo |-> {}]
NoPublish == [at |-> "idle", inside |-> {}, found |-> {}, outside |-> {}]

Home(n) == setup.process[n]
Alive(n) == Home(n) \notin dead
NodesOf(p) == {n \in Nodes : Home(n) = p}
MainAt(n, l) == Alive(n) /\ main[n] = l
MainGoto(n, l) == main' = [main EXCEPT ![n] = l]

Init ==
  /\ setup \in Setups
  /\ main = [n \in Nodes |-> IF n \in setup.early THEN "up" ELSE "new"]
  /\ job = [n \in Nodes |-> NoJob]
  /\ offers = [n \in Nodes |-> n \in setup.offering] /\ toggled = [n \in Nodes |-> 0]
  /\ local = [p \in Processes |-> NodesOf(p) \cap setup.early]
  /\ services = [p \in Processes |-> IF local[p] = {} THEN {} ELSE setup.offering]
  /\ registered = setup.early /\ ready = setup.early
  /\ conn = [n \in Nodes |-> IF n \in setup.early THEN setup.early \ {n} ELSE {}]
  /\ ring = [a \in Nodes |-> [b \in Nodes |-> <<>>]]
  /\ queue = [n \in Nodes |-> <<>>]
  /\ system = [n \in Nodes |-> {}] /\ missed = {}
  /\ beat = [n \in Nodes |-> "idle"] /\ removed = [n \in Nodes |-> {}]
  /\ publish = [n \in Nodes |-> NoPublish]
  /\ dead = {}
  /\ left = [n \in Nodes |-> {}] /\ lost = {} /\ tardy = {} /\ crossed = {} /\ unreported = {}

\* The receive and heartbeat threads run from startReceiving to stopReceiving.
Receiving(n) ==
  Alive(n) /\ main[n] \notin {"new", "register", "ready", "unlist", "gone"}

Added(table, p, n) == [table EXCEPT ![p] = @ \cup {n}]
Removed(table, p, n) == [table EXCEPT ![p] = @ \ {n}]
-----------------------------------------------------------------------------
(* Sending: SharedMemoryTransportV3::send *)

\* connectToNode: the node is in the registry and its memory is ready.
Connectable(b) == b \in registered /\ b \in ready /\ Alive(b)

Connect(a, b) == conn' = [conn EXCEPT ![a] = @ \cup {b}]

\* A connection is made if there is none; a full ring refuses the message.  What
\* is written to the memory of a node that no longer reads it is not kept.
Send(a, b, kind) ==
  IF b \notin conn[a] /\ ~Connectable(b)
    THEN UNCHANGED <<conn, ring, lost>>
    ELSE /\ Connect(a, b)
         /\ IF ~Alive(b) \/ main[b] \in {"unlist", "gone"}
              THEN UNCHANGED <<ring, lost>>
              ELSE IF Len(ring[a][b]) < setup.ringSize
                THEN ring' = [ring EXCEPT ![a][b] = Append(@, kind)] /\ UNCHANGED lost
                ELSE lost' = lost \cup {<<a, b>>} /\ UNCHANGED ring

\* broadcast: the registry is read once, then each node is sent to.
StartBroadcast(n, kind, l) ==
  /\ job' = [job EXCEPT ![n] = [kind |-> kind, todo |-> registered \ {n}]]
  /\ MainGoto(n, l)

After(l) ==
  CASE l = "querying" -> "up"
    [] l = "telling" -> "up"
    [] l = "leaving" -> "forget"

BroadcastTo(n, b) ==
  /\ Alive(n) /\ main[n] \in {"querying", "telling", "leaving"} /\ b \in job[n].todo
  /\ Send(n, b, job[n].kind)
  /\ job' = [job EXCEPT ![n].todo = @ \ {b}]
  /\ UNCHANGED <<setup, main, offers, toggled, tables, queue, system, missed, beat, removed, publish, dead, left, tardy, crossed, unreported>>

BroadcastDone(n) ==
  /\ Alive(n) /\ main[n] \in {"querying", "telling", "leaving"} /\ job[n].todo = {}
  /\ job' = [job EXCEPT ![n] = NoJob] /\ MainGoto(n, After(main[n]))
  /\ UNCHANGED <<setup, offers, toggled, tables, path, system, missed, beat, removed, publish, dead, history>>
-----------------------------------------------------------------------------
(* A node's life: initialize, subscribe, unsubscribe, the destructor *)

\* registerNode
RegisterNode(n) ==
  /\ MainAt(n, "new") /\ n \in setup.newcomers /\ local' = Added(local, Home(n), n) /\ MainGoto(n, "register")
  /\ UNCHANGED <<setup, job, offers, toggled, services, registered, ready, path, system, missed, beat, removed, publish, dead, history>>

\* The transport's initialize: first the registry, ...
RegisterShared(n) ==
  /\ MainAt(n, "register") /\ registered' = registered \cup {n} /\ MainGoto(n, "ready")
  /\ UNCHANGED <<setup, job, offers, toggled, local, services, ready, path, system, missed, beat, removed, publish, dead, history>>

\* ... then ready; startReceiving
GetReady(n) ==
  /\ MainAt(n, "ready") /\ ready' = ready \cup {n} /\ MainGoto(n, "query")
  /\ UNCHANGED <<setup, job, offers, toggled, local, services, registered, path, system, missed, beat, removed, publish, dead, history>>

Query_Skipped(n) ==
  /\ MainAt(n, "query") /\ MainGoto(n, "up")
  /\ UNCHANGED <<setup, job, offers, toggled, tables, path, system, missed, beat, removed, publish, dead, history>>

\* queryRemoteServices.  The empty messages sent just before only connect, and
\* NODE_JOIN, which follows, only calls back.
Query(n) ==
  /\ MainAt(n, "query") /\ StartBroadcast(n, "QUERY", "querying")
  /\ UNCHANGED <<setup, offers, toggled, tables, path, system, missed, beat, removed, publish, dead, history>>

\* subscribe and unsubscribe: registerService and unregisterService
Subscribe(n) ==
  /\ MainAt(n, "up") /\ ~offers[n] /\ toggled[n] < setup.toggles[n]
  /\ offers' = [offers EXCEPT ![n] = TRUE] /\ toggled' = [toggled EXCEPT ![n] = @ + 1]
  /\ services' = Added(services, Home(n), n) /\ MainGoto(n, "tell")
  /\ UNCHANGED <<setup, job, local, registered, ready, path, system, missed, beat, removed, publish, dead, history>>

Unsubscribe(n) ==
  /\ MainAt(n, "up") /\ offers[n] /\ toggled[n] < setup.toggles[n]
  /\ offers' = [offers EXCEPT ![n] = FALSE] /\ toggled' = [toggled EXCEPT ![n] = @ + 1]
  /\ services' = Removed(services, Home(n), n) /\ MainGoto(n, "tell")
  /\ UNCHANGED <<setup, job, local, registered, ready, path, system, missed, beat, removed, publish, dead, history>>

\* broadcastServiceUpdate, after the table was changed
Tell(n) ==
  /\ MainAt(n, "tell") /\ StartBroadcast(n, IF offers[n] THEN "REGISTER" ELSE "UNREGISTER", "telling")
  /\ UNCHANGED <<setup, offers, toggled, tables, path, system, missed, beat, removed, publish, dead, history>>

\* The last shared_ptr is dropped: getAllNodes, with which the destructor's
\* unregisterNode begins, and every other look at nodes_ passes over the node.
Destroy(n) ==
  /\ MainAt(n, "up") /\ n \in setup.leavers /\ publish[n].at \in {"idle", "done"}
  /\ local' = Removed(local, Home(n), n) /\ MainGoto(n, "leave")
  /\ UNCHANGED <<setup, job, offers, toggled, services, registered, ready, path, system, missed, beat, removed, publish, dead, history>>

\* NODE_LEAVE is broadcast, ...
SayGoodbye(n) ==
  /\ MainAt(n, "leave") /\ StartBroadcast(n, "LEAVE", "leaving")
  /\ UNCHANGED <<setup, offers, toggled, tables, path, system, missed, beat, removed, publish, dead, history>>

\* ... then GlobalRegistry::unregisterNode takes what is left of the node out of
\* one table ...
ForgetNode(n) ==
  /\ MainAt(n, "forget") /\ local' = Removed(local, Home(n), n) /\ MainGoto(n, "clear")
  /\ UNCHANGED <<setup, job, offers, toggled, services, registered, ready, path, system, missed, beat, removed, publish, dead, history>>

\* ... and its services out of the other, under another lock.
ClearServices(n) ==
  /\ MainAt(n, "clear") /\ services' = Removed(services, Home(n), n) /\ MainGoto(n, "stop")
  /\ UNCHANGED <<setup, job, offers, toggled, local, registered, ready, path, system, missed, beat, removed, publish, dead, history>>

\* system_running_ is cleared and the system thread notified without the mutex of
\* its queue: between its test and its sleep it does not notice.
StopSystem(n) ==
  /\ MainAt(n, "stop") /\ MainGoto(n, "join")
  /\ \/ UNCHANGED missed
     \/ system[n] = {} /\ queue[n] = <<>> /\ missed' = missed \cup {n}
  /\ UNCHANGED <<setup, job, offers, toggled, tables, path, system, beat, removed, publish, dead, history>>

\* It is joined when it has finished its message, and never while it sleeps.
JoinSystem(n) ==
  /\ MainAt(n, "join") /\ system[n] = {} /\ n \notin missed /\ MainGoto(n, "close")
  /\ UNCHANGED <<setup, job, offers, toggled, tables, path, system, missed, beat, removed, publish, dead, history>>

\* The transport's destructor: the receive and heartbeat threads are joined and
\* the connections dropped, ...
CloseTransport(n) ==
  /\ MainAt(n, "close") /\ beat[n] = "idle"
  /\ conn' = [conn EXCEPT ![n] = {}] /\ MainGoto(n, "unlist")
  /\ UNCHANGED <<setup, job, offers, toggled, tables, ring, queue, system, missed, beat, removed, publish, dead, history>>

\* ... then the node is taken from the registry.
Unlist(n) ==
  /\ MainAt(n, "unlist") /\ registered' = registered \ {n} /\ MainGoto(n, "gone")
  /\ UNCHANGED <<setup, job, offers, toggled, local, services, ready, path, system, missed, beat, removed, publish, dead, history>>
-----------------------------------------------------------------------------
(* The receiver's side: processPacket and enqueueSystemMessage, the system thread *)

\* A full system queue drops its oldest message; the system thread is notified, and
\* wakes up even if it slept through the end.
Receive(a, b) ==
  /\ Receiving(b) /\ ring[a][b] # <<>>
  /\ ring' = [ring EXCEPT ![a][b] = Tail(@)]
  /\ LET full == Len(queue[b]) >= setup.systemSize
         rest == IF full THEN Tail(queue[b]) ELSE queue[b]
     IN /\ queue' = [queue EXCEPT ![b] = Append(rest, [kind |-> Head(ring[a][b]), from |-> a])]
        /\ lost' = IF full THEN lost \cup {<<Head(queue[b]).from, b>>} ELSE lost
  /\ missed' = missed \ {b}
  /\ UNCHANGED <<setup, main, job, offers, toggled, tables, conn, system, beat, removed, publish, dead, left, tardy, crossed, unreported>>

\* The system thread takes the oldest message.
Takes(n, kind) ==
  /\ Alive(n) /\ main[n] \notin {"new", "join", "close", "unlist", "gone"}
  /\ system[n] = {} /\ queue[n] # <<>> /\ Head(queue[n]).kind = kind
  /\ queue' = [queue EXCEPT ![n] = Tail(@)]

HandleRegister(n) ==
  /\ Takes(n, "REGISTER") /\ services' = Added(services, Home(n), Head(queue[n]).from)
  /\ tardy' = IF \E m \in NodesOf(Home(n)) : Head(queue[n]).from \in left[m] THEN tardy \cup {Head(queue[n]).from} ELSE tardy
  /\ UNCHANGED <<setup, main, job, offers, toggled, local, registered, ready, conn, ring, system, missed, beat, removed, publish, dead, left, lost, crossed, unreported>>

HandleUnregister(n) ==
  /\ Takes(n, "UNREGISTER") /\ services' = Removed(services, Home(n), Head(queue[n]).from)
  /\ UNCHANGED <<setup, main, job, offers, toggled, local, registered, ready, conn, ring, system, missed, beat, removed, publish, dead, history>>

NodeLeft_KeepsServices(n, x) ==
  /\ left' = [left EXCEPT ![n] = @ \cup {x}]
  /\ conn' = [conn EXCEPT ![n] = @ \ {x}]
  /\ UNCHANGED services

\* handleNodeEvent, for NODE_LEAVE and for a node the heartbeat thread removed:
\* NODE_LEFT is reported, the services removed, the connection dropped.
NodeLeft(n, x) ==
  /\ left' = [left EXCEPT ![n] = @ \cup {x}]
  /\ services' = Removed(services, Home(n), x)
  /\ conn' = [conn EXCEPT ![n] = @ \ {x}]

HandleLeave(n) ==
  /\ Takes(n, "LEAVE") /\ NodeLeft(n, Head(queue[n]).from)
  /\ UNCHANGED <<setup, main, job, offers, toggled, local, registered, ready, ring, system, missed, beat, removed, publish, dead, lost, tardy, crossed, unreported>>

\* A query: the node looks for its own service in the process's table ...
HandleQuery(n) ==
  /\ Takes(n, "QUERY")
  /\ LET asker == Head(queue[n]).from
     IN IF n \in services[Home(n)]
          THEN system' = [system EXCEPT ![n] = {asker}] /\ UNCHANGED crossed
          ELSE crossed' = (IF offers[n] THEN crossed \cup {<<n, asker>>} ELSE crossed) /\ UNCHANGED system
  /\ UNCHANGED <<setup, main, job, offers, toggled, tables, conn, ring, missed, beat, removed, publish, dead, left, lost, tardy, unreported>>


\* ... and sends it to the asker.
Answer(n, asker) ==
  /\ Alive(n) /\ asker \in system[n]
  /\ Send(n, asker, "REGISTER") /\ system' = [system EXCEPT ![n] = {}]
  /\ tardy' = IF main[n] \in {"leaving", "forget", "clear", "stop", "join"} THEN tardy \cup {n} ELSE tardy
  /\ crossed' = IF ~offers[n] /\ main[n] # "tell" THEN crossed \cup {<<n, asker>>} ELSE crossed
  /\ UNCHANGED <<setup, main, job, offers, toggled, tables, queue, missed, beat, removed, publish, dead, left, unreported>>
-----------------------------------------------------------------------------
(* The heartbeat thread: heartbeatLoop *)


\* Every round begins with a connection to each registered node that has none.
HeartbeatConnects(n, b) ==
  /\ Receiving(n) /\ beat[n] = "idle" /\ b # n /\ b \notin conn[n] /\ Connectable(b)
  /\ Connect(n, b)
  /\ UNCHANGED <<setup, main, job, offers, toggled, tables, ring, queue, system, missed, beat, removed, publish, dead, left, lost, tardy, crossed, unreported>>

BeatGoto(n, from, to) == beat[n] = from /\ beat' = [beat EXCEPT ![n] = to]

\* nodes_before is read, which matters only if nodes can become stale, ...
HeartbeatLists(n) ==
  /\ Receiving(n) /\ (setup.mortal # {} \/ setup.late # {})
  /\ BeatGoto(n, "idle", "clean") /\ removed' = [removed EXCEPT ![n] = registered \ {n}]
  /\ UNCHANGED <<setup, main, job, offers, toggled, tables, path, system, missed, publish, dead, history>>

\* ... cleanupStaleNodes removes the nodes whose process is dead or whose heartbeat
\* is late (the thread has just updated its own) ...
HeartbeatCleans(n) ==
  /\ Alive(n)
  /\ \E late \in SUBSET (setup.late \ {n}) :
       LET stale == {x \in registered : ~Alive(x) \/ x \in late}
       IN /\ registered' = registered \ stale
          /\ unreported' = unreported \cup (stale \ removed[n])
          /\ IF stale = {} THEN BeatGoto(n, "clean", "idle") /\ removed' = [removed EXCEPT ![n] = {}]
                           ELSE BeatGoto(n, "clean", "compare") /\ UNCHANGED removed
  /\ UNCHANGED <<setup, main, job, offers, toggled, local, services, ready, path, system, missed, publish, dead, left, lost, tardy, crossed>>

HeartbeatCompares_Before(n) ==
  /\ Alive(n) /\ BeatGoto(n, "compare", "report")
  /\ removed' = [removed EXCEPT ![n] = @ \cap registered]
  /\ UNCHANGED <<setup, main, job, offers, toggled, tables, path, system, missed, publish, dead, history>>

\* ... and only the thread that removed one asks which nodes are gone since.
HeartbeatCompares(n) ==
  /\ Alive(n) /\ BeatGoto(n, "compare", "report")
  /\ removed' = [removed EXCEPT ![n] = @ \ registered]
  /\ UNCHANGED <<setup, main, job, offers, toggled, tables, path, system, missed, publish, dead, history>>

\* It reports them itself, past the system queue.
HeartbeatReports(n, x) ==
  /\ Alive(n) /\ beat[n] = "report" /\ x \in removed[n] /\ NodeLeft(n, x)
  /\ removed' = [removed EXCEPT ![n] = @ \ {x}]
  /\ UNCHANGED <<setup, main, job, offers, toggled, local, registered, ready, ring, queue, system, missed, beat, publish, dead, lost, tardy, crossed, unreported>>

HeartbeatEnds(n) ==
  /\ Alive(n) /\ removed[n] = {} /\ BeatGoto(n, "report", "idle")
  /\ UNCHANGED <<setup, main, job, offers, toggled, tables, path, system, missed, removed, publish, dead, history>>
-----------------------------------------------------------------------------
(* publish: deliverInProcess and deliverInterProcess *)

PublishGoto(n, from, value) ==
  /\ Alive(n) /\ publish[n].at = from /\ publish' = [publish EXCEPT ![n] = value]
  /\ UNCHANGED <<setup, main, job, offers, toggled, tables, path, system, missed, beat, removed, dead, history>>

PublishInside(n) ==
  /\ MainAt(n, "up") /\ n \in setup.publishers
  /\ PublishGoto(n, "idle", [publish[n] EXCEPT !.at = "find", !.inside = local[Home(n)] \ {n}])

PublishFinds(n) ==
  PublishGoto(n, "find", [publish[n] EXCEPT !.at = "choose", !.found = services[Home(n)]])

PublishOutside_NoSkip(n) ==
  PublishGoto(n, "choose", [publish[n] EXCEPT !.at = "done",
    !.outside = {x \in publish[n].found \ {n} : x \in registered}])

\* The nodes of the process are skipped, then those not in the registry.
PublishOutside(n) ==
  PublishGoto(n, "choose", [publish[n] EXCEPT !.at = "done",
    !.outside = {x \in publish[n].found \ {n} : x \notin local[Home(n)] /\ x \in registered}])
-----------------------------------------------------------------------------
Kill(p) ==
  /\ p \in setup.mortal \ dead /\ dead' = dead \cup {p}
  /\ unreported' = unreported \cup UNION {IF beat[n] = "idle" THEN {} ELSE removed[n] \ registered : n \in NodesOf(p)}
  /\ UNCHANGED <<setup, main, job, offers, toggled, tables, path, system, missed, beat, removed, publish, left, lost, tardy, crossed>>

MainSteps(n) ==
  \/ RegisterShared(n) \/ GetReady(n) \/ Query(n) \/ Tell(n) \/ BroadcastDone(n)
  \/ \E b \in Nodes : BroadcastTo(n, b)
  \/ SayGoodbye(n) \/ ForgetNode(n) \/ ClearServices(n) \/ StopSystem(n) \/ JoinSystem(n) \/ CloseTransport(n) \/ Unlist(n)

ReceiveSteps(n) == \E a \in Nodes : Receive(a, n)

SystemSteps(n) ==
  \/ HandleRegister(n) \/ HandleUnregister(n) \/ HandleLeave(n) \/ HandleQuery(n)
  \/ \E asker \in Nodes : Answer(n, asker)

HeartbeatSteps(n) ==
  \/ HeartbeatLists(n) \/ HeartbeatCleans(n) \/ HeartbeatCompares(n) \/ HeartbeatEnds(n)
  \/ \E x \in Nodes : HeartbeatConnects(n, x) \/ HeartbeatReports(n, x)

UserSteps(n) ==
  \/ RegisterNode(n) \/ Subscribe(n) \/ Unsubscribe(n) \/ Destroy(n)
  \/ PublishInside(n) \/ PublishFinds(n) \/ PublishOutside(n)

Next ==
  \/ \E n \in Nodes : MainSteps(n) \/ ReceiveSteps(n) \/ SystemSteps(n) \/ HeartbeatSteps(n) \/ UserSteps(n)
  \/ \E p \in Processes : Kill(p)

Spec == Init /\ [][Next]_vars

\* Every thread runs; nobody has to create, use or destroy a node.  The heartbeat
\* thread, which is not always at the start of a round, connects in every round.
FairSpec ==
  /\ Spec
  /\ \A n \in Nodes : /\ WF_vars(MainSteps(n)) /\ WF_vars(ReceiveSteps(n))
                      /\ WF_vars(SystemSteps(n)) /\ WF_vars(HeartbeatSteps(n))
                      /\ SF_vars(\E x \in Nodes : HeartbeatConnects(n, x))
-----------------------------------------------------------------------------
(* Properties *)

Up(n) == MainAt(n, "up")

\* Nothing is on its way between the nodes, in their queues or in their threads; a
\* node whose system thread missed its end hangs in its destructor.
Quiet ==
  \A n \in Nodes :
    /\ Alive(n) => /\ main[n] \in {"new", "up", "gone"} \/ n \in missed
                /\ system[n] = {} /\ beat[n] \in {"idle", "clean"}
    /\ Receiving(n) => /\ queue[n] = <<>> /\ \A x \in Nodes : ring[x][n] = <<>>
                       /\ \A x \in registered : Alive(x)

\* Every variable has its type and no ring or queue exceeds its limit.
TypeOK ==
  /\ setup \in Setups
  /\ main \in [Nodes -> {"new", "register", "ready", "query", "querying", "up", "tell", "telling",
                         "leave", "leaving", "forget", "clear", "stop", "join", "close", "unlist", "gone"}]
  /\ job \in [Nodes -> [kind : Kinds, todo : SUBSET Nodes]]
  /\ offers \in [Nodes -> BOOLEAN] /\ toggled \in [Nodes -> Nat]
  /\ local \in [Processes -> SUBSET Nodes] /\ services \in [Processes -> SUBSET Nodes]
  /\ registered \subseteq Nodes /\ ready \subseteq Nodes /\ conn \in [Nodes -> SUBSET Nodes]
  /\ ring \in [Nodes -> [Nodes -> Seq(Kinds)]] /\ \A x, y \in Nodes : Len(ring[x][y]) <= setup.ringSize
  /\ queue \in [Nodes -> Seq([kind : Kinds, from : Nodes])] /\ \A x \in Nodes : Len(queue[x]) <= setup.systemSize
  /\ system \in [Nodes -> SUBSET Nodes] /\ missed \subseteq Nodes /\ removed \in [Nodes -> SUBSET Nodes]
  /\ beat \in [Nodes -> {"idle", "clean", "compare", "report"}]
  /\ publish \in [Nodes -> [at : {"idle", "find", "choose", "done"}, inside : SUBSET Nodes,
                            found : SUBSET Nodes, outside : SUBSET Nodes]]
  /\ dead \subseteq Processes /\ left \in [Nodes -> SUBSET Nodes]
  /\ lost \subseteq Nodes \X Nodes /\ crossed \subseteq Nodes \X Nodes
  /\ tardy \subseteq Nodes /\ unreported \subseteq Nodes

Suspected(n) == \E m \in Nodes : n \in left[m]

\* What n sends reaches the tables of m's process: m is in the registry, and no node
\* of the process, other than n, was destroyed, or hangs, with messages it had not
\* handled, or left the tables with nobody to keep them up to date.
Told(m, n) == m \in registered /\ \A x \in NodesOf(Home(m)) \ {n} : main[x] # "gone" /\ x \notin missed

\* Discovery converges: once nothing is on its way, every process with a node
\* that is up knows the services of exactly the subscribed nodes, whatever the
\* order in which nodes started, asked, subscribed and unsubscribed.  Excepted
\* are messages lost on a full ring or queue, nodes reported as left or taken from
\* the registry while they were up, processes that destroyed one of their nodes, and
\* answers to a query that crossed a change of the subscription.
\* Rings and system queues keep their limits and all variables their types.
Converged ==
  /\ TypeOK
  /\ Quiet => \A n, m \in Nodes : Up(n) /\ n \in registered /\ Up(m) /\ Told(m, n) =>
                \/ n \in services[Home(m)] <=> offers[n]
                \/ lost # {} \/ Suspected(n) \/ Suspected(m)
                \/ \E x \in NodesOf(Home(m)) : <<n, x>> \in crossed

\* No zombie services ("clean up all services registered by this node"): once
\* nothing is on its way, no process knows a service of a node that was destroyed or
\* hangs in its destructor, or of a dead node that it reported, unless that node's
\* service was sent after its farewell, or arrived after its end was reported, or
\* messages were lost.  Excepted, too, are processes that destroyed another of their
\* nodes.
DepartedForgotten ==
  Quiet => \A n, m \in Nodes :
             /\ Up(m) /\ Told(m, n)
             /\ main[n] = "gone" \/ n \in missed \/ \E x \in NodesOf(Home(m)) : n \in left[x] /\ ~Alive(n)
            => n \notin services[Home(m)] \/ n \in tardy \/ lost # {}

\* A killed node that had registered is reported with NODE_LEFT by some node, as
\* long as one is up and nobody was killed between removing and reporting it.
DeathReported ==
  Quiet => \A n \in Nodes :
             ~Alive(n) /\ main[n] \notin {"new", "register", "gone"} /\ (\E m \in Nodes : Up(m))
               => Suspected(n) \/ n \in unreported

\* Where a node is from the start of its destructor, when nodes_ no longer has it.
Ended == {"leave", "leaving", "forget", "clear", "stop", "join", "close", "unlist", "gone"}

\* "Skip in-process nodes - they are already handled by deliverInProcess": a
\* publish reaches no node both ways, unless that node's destructor has begun and
\* keeps its callbacks from being called.
PublishedOnce ==
  \A n \in Nodes : publish[n].at = "done" =>
    \A x \in publish[n].inside \cap publish[n].outside : main[x] \in Ended

\* The inductive invariant.  GlobalRegistry has just the nodes of its process that
\* are between registerNode and their destructor; a publish inside the process went
\* to such nodes; and whatever happened to a registered node, some table, thread or report still has it.
LocalExact == \A n \in Nodes : main[n] \notin Ended \cup {"new"} => n \in local[Home(n)]
LocalKnown == \A p \in Processes : \A x \in local[p] : Home(x) = p /\ main[x] # "new"
InsideKnown == \A n \in Nodes : \A x \in publish[n].inside : Home(x) = Home(n) /\ main[x] # "new"
Pending(n, m) == Alive(m) /\ beat[m] \in {"compare", "report"} /\ n \in removed[m]
Tracked == \A n \in Nodes : main[n] \notin {"new", "register", "gone"} =>
             n \in registered \/ Suspected(n) \/ n \in unreported \/ \E m \in Nodes : Pending(n, m)
IInv == TypeOK /\ LocalExact /\ LocalKnown /\ InsideKnown /\ Tracked /\ PublishedOnce


==============================================================================
