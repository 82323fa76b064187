------------------------- MODULE Connections_proofs -------------------------
(***************************************************************************)
(* Proofs about how nodes come to talk to each other: the discovery of     *)
(* nodes and services (ServiceDiscovery), and the table in a node's memory *)
(* where the others claim their inbound queues (QueueDirectory), for any   *)
(* number of nodes, processes, services, slots and connections.  The two   *)
(* specifications share no variable.                                       *)
(***************************************************************************)
EXTENDS ServiceDiscovery, QueueDirectory, FiniteSetTheorems, TLAPS

\* Leaves go to Zenon unless they name another prover.
USE Zenon
-----------------------------------------------------------------------------
(* The discovery of nodes and services *)

\* The scenario gives every node a process and every ring and queue room.
LEMMA ScenarioParts ==
  ASSUME DiscoveryAssumption, setup \in Setups
  PROVE  /\ \A n \in Nodes : Home(n) \in Processes
         /\ setup.early \in SUBSET Nodes /\ setup.offering \in SUBSET Nodes
         /\ setup.mortal \in SUBSET Processes
         /\ setup.ringSize \in Nat \ {0} /\ setup.systemSize \in Nat \ {0}
BY DEF DiscoveryAssumption, Scenario, Home

\* A store into a table of tables.
LEMMA NestedStore ==
  ASSUME NEW S, NEW f \in [Nodes -> [Nodes -> S]], NEW x \in Nodes, NEW y \in Nodes, NEW v \in S,
         NEW g, g = [f EXCEPT ![x][y] = v]
  PROVE  /\ g \in [Nodes -> [Nodes -> S]]
         /\ \A i, j \in Nodes : g[i][j] = IF i = x /\ j = y THEN v ELSE f[i][j]
BY SMTT(30)

\* A message more is within the limit if there was room, and one less always is.
LEMMA Lengths ==
  ASSUME NEW S, NEW s \in Seq(S), NEW v \in S
  PROVE  /\ Append(s, v) \in Seq(S) /\ Len(Append(s, v)) = Len(s) + 1 /\ Len(s) \in Nat
         /\ s # <<>> => Tail(s) \in Seq(S) /\ Len(Tail(s)) = Len(s) - 1 /\ Head(s) \in S /\ Len(s) >= 1
BY SMTT(30)

Messages == [kind : Kinds, from : Nodes]
RingType == ring \in [Nodes -> [Nodes -> Seq(Kinds)]] /\ \A x, y \in Nodes : Len(ring[x][y]) <= setup.ringSize
QueueType == queue \in [Nodes -> Seq(Messages)] /\ \A x \in Nodes : Len(queue[x]) <= setup.systemSize

\* send keeps the types.
LEMMA SendType ==
  ASSUME DiscoveryAssumption, TypeOK, setup' = setup,
         NEW x \in Nodes, NEW y \in Nodes, NEW k \in Kinds, Send(x, y, k)
  PROVE  /\ conn' \in [Nodes -> SUBSET Nodes] /\ RingType'
         /\ lost' \subseteq Nodes \X Nodes
<1>1. conn' \in [Nodes -> SUBSET Nodes]
  <2>1. conn \in [Nodes -> SUBSET Nodes] /\ (conn' = conn \/ conn' = [conn EXCEPT ![x] = @ \cup {y}])
    BY DEF TypeOK, Send, Connect
  <2> QED
    BY SMTT(30), <2>1
<1>2. lost' \subseteq Nodes \X Nodes
  BY SMTT(30) DEF TypeOK, Send, Connect
<1>3. RingType'
  <2>1. RingType
    BY DEF TypeOK, RingType
  <2>2. CASE ring' = ring
    BY <2>1, <2>2 DEF RingType
  <2>3. CASE Len(ring[x][y]) < setup.ringSize /\ ring' = [ring EXCEPT ![x][y] = Append(@, k)]
    <3>1. ring[x][y] \in Seq(Kinds)
      BY <2>1 DEF RingType
    <3>2. /\ Append(ring[x][y], k) \in Seq(Kinds) /\ Len(ring[x][y]) \in Nat
          /\ Len(Append(ring[x][y], k)) = Len(ring[x][y]) + 1
      BY <3>1, Lengths
    <3>3. setup.ringSize \in Nat
      BY ScenarioParts DEF TypeOK
    <3>4. Len(Append(ring[x][y], k)) <= setup.ringSize
      BY SMTT(30), <2>3, <3>2, <3>3
    <3>5. /\ ring' \in [Nodes -> [Nodes -> Seq(Kinds)]]
          /\ \A i, j \in Nodes : ring'[i][j] = IF i = x /\ j = y THEN Append(ring[x][y], k) ELSE ring[i][j]
      <4>1. PICK v : v = Append(ring[x][y], k)
        OBVIOUS
      <4>2. ring' = [ring EXCEPT ![x][y] = v] /\ v \in Seq(Kinds) /\ ring \in [Nodes -> [Nodes -> Seq(Kinds)]]
        BY <2>1, <2>3, <3>2, <4>1 DEF RingType
      <4> QED
        BY ZenonT(40), <4>1, <4>2, NestedStore
    <3> QED
      BY <2>1, <3>4, <3>5 DEF RingType
  <2> QED
    BY <2>2, <2>3 DEF Send
<1> QED
  BY <1>1, <1>2, <1>3

\* So does receiving a message ...
LEMMA ReceiveType ==
  ASSUME DiscoveryAssumption, TypeOK, NEW x \in Nodes, NEW y \in Nodes, Receive(x, y)
  PROVE  RingType' /\ QueueType' /\ lost' \subseteq Nodes \X Nodes
<1>1. RingType /\ QueueType /\ setup' = setup
  BY DEF TypeOK, RingType, QueueType, Messages, Receive
<1>2. ring[x][y] \in Seq(Kinds) /\ ring[x][y] # <<>> /\ ring' = [ring EXCEPT ![x][y] = Tail(ring[x][y])]
  BY <1>1 DEF RingType, Receive
<1>3. "QUERY" \in Kinds
  BY DEF Kinds
<1>4. /\ Tail(ring[x][y]) \in Seq(Kinds) /\ Len(Tail(ring[x][y])) = Len(ring[x][y]) - 1
      /\ Head(ring[x][y]) \in Kinds /\ Len(ring[x][y]) \in Nat
  BY <1>2, <1>3, Lengths
<1>5. setup.ringSize \in Nat /\ setup.systemSize \in Nat \ {0}
  BY ScenarioParts DEF TypeOK
<1>6. RingType'
  <2>1. Len(Tail(ring[x][y])) <= setup.ringSize
    BY SMTT(30), <1>1, <1>4, <1>5 DEF RingType
  <2>2. /\ ring' \in [Nodes -> [Nodes -> Seq(Kinds)]]
        /\ \A i, j \in Nodes : ring'[i][j] = IF i = x /\ j = y THEN Tail(ring[x][y]) ELSE ring[i][j]
    <3>1. PICK v : v = Tail(ring[x][y])
      OBVIOUS
    <3>2. ring' = [ring EXCEPT ![x][y] = v] /\ v \in Seq(Kinds) /\ ring \in [Nodes -> [Nodes -> Seq(Kinds)]]
      BY <1>1, <1>2, <1>4, <3>1 DEF RingType
    <3> QED
      BY ZenonT(40), <3>1, <3>2, NestedStore
  <2> QED
    BY <1>1, <2>1, <2>2 DEF RingType
<1>7. PICK msg : msg = [kind |-> Head(ring[x][y]), from |-> x]
  OBVIOUS
<1>8. msg \in Messages
  BY <1>4, <1>7 DEF Messages
<1>9. queue[y] \in Seq(Messages) /\ Len(queue[y]) <= setup.systemSize
  BY <1>1 DEF QueueType
<1>10. Len(queue[y]) \in Nat
  BY <1>8, <1>9, Lengths
<1>11. CASE Len(queue[y]) >= setup.systemSize
  <2>1. queue[y] # <<>>
    BY SMTT(30), <1>5, <1>9, <1>11
  <2>2. /\ Tail(queue[y]) \in Seq(Messages) /\ Len(Tail(queue[y])) = Len(queue[y]) - 1
        /\ Head(queue[y]) \in Messages
    BY <1>8, <1>9, <2>1, Lengths
  <2>3. /\ queue' = [queue EXCEPT ![y] = Append(Tail(queue[y]), msg)]
        /\ lost' = lost \cup {<<Head(queue[y]).from, y>>}
    BY <1>7, <1>11 DEF Receive
  <2>4. /\ Append(Tail(queue[y]), msg) \in Seq(Messages)
        /\ Len(Append(Tail(queue[y]), msg)) = Len(Tail(queue[y])) + 1
    BY SMTT(30), <1>8, <2>2, Lengths
  <2>5. Len(Append(Tail(queue[y]), msg)) <= setup.systemSize
    BY SMTT(30), <1>5, <1>9, <1>10, <2>2, <2>4
  <2>6. QueueType'
    BY <1>1, <2>3, <2>4, <2>5 DEF QueueType
  <2>7. lost' \subseteq Nodes \X Nodes
    <3>1. PICK f : f = Head(queue[y]).from
      OBVIOUS
    <3>2. f \in Nodes
      BY <2>2, <3>1 DEF Messages
    <3>3. lost' = lost \cup {<<f, y>>} /\ lost \subseteq Nodes \X Nodes
      BY <2>3, <3>1 DEF TypeOK
    <3> QED
      BY SMTT(30), <3>2, <3>3
  <2> QED
    BY <1>6, <2>6, <2>7
<1>12. CASE ~(Len(queue[y]) >= setup.systemSize)
  <2>1. queue' = [queue EXCEPT ![y] = Append(queue[y], msg)] /\ lost' = lost
    BY <1>7, <1>12 DEF Receive
  <2>2. /\ Append(queue[y], msg) \in Seq(Messages)
        /\ Len(Append(queue[y], msg)) = Len(queue[y]) + 1
    BY SMTT(30), <1>8, <1>9, Lengths
  <2>3. Len(Append(queue[y], msg)) <= setup.systemSize
    BY SMTT(30), <1>5, <1>10, <1>12, <2>2
  <2>4. QueueType'
    BY <1>1, <2>1, <2>2, <2>3 DEF QueueType
  <2> QED
    BY <1>6, <2>1, <2>4 DEF TypeOK
<1> QED
  BY <1>11, <1>12

\* ... and taking one from the system queue.
LEMMA TakesType ==
  ASSUME DiscoveryAssumption, TypeOK, setup' = setup, NEW n \in Nodes, NEW k, Takes(n, k)
  PROVE  QueueType' /\ Head(queue[n]).from \in Nodes
<1>1. QueueType
  BY DEF TypeOK, QueueType, Messages
<1>2. queue[n] \in Seq(Messages) /\ queue[n] # <<>> /\ queue' = [queue EXCEPT ![n] = Tail(queue[n])]
  BY <1>1 DEF QueueType, Takes
<1>3. [kind |-> "QUERY", from |-> n] \in Messages
  BY DEF Kinds, Messages
<1>4. /\ Tail(queue[n]) \in Seq(Messages) /\ Len(Tail(queue[n])) = Len(queue[n]) - 1
      /\ Head(queue[n]) \in Messages /\ Len(queue[n]) \in Nat
  BY ZenonT(40), <1>2, <1>3, Lengths
<1>5. setup.systemSize \in Nat
  BY ScenarioParts DEF TypeOK
<1>6. Len(Tail(queue[n])) <= setup.systemSize
  BY SMTT(30), <1>1, <1>4, <1>5 DEF QueueType
<1> QED
  BY <1>1, <1>2, <1>4, <1>6 DEF QueueType, Messages

\* The types of the variables other than ring and queue.
OtherTypes ==
  /\ main \in [Nodes -> {"new", "register", "ready", "query", "querying", "up", "tell", "telling",
                         "leave", "leaving", "forget", "clear", "stop", "join", "close", "unlist", "gone"}]
  /\ job \in [Nodes -> [kind : Kinds, todo : SUBSET Nodes]]
  /\ offers \in [Nodes -> BOOLEAN] /\ toggled \in [Nodes -> Nat]
  /\ local \in [Processes -> SUBSET Nodes] /\ services \in [Processes -> SUBSET Nodes]
  /\ registered \subseteq Nodes /\ ready \subseteq Nodes /\ conn \in [Nodes -> SUBSET Nodes]
  /\ system \in [Nodes -> SUBSET Nodes] /\ missed \subseteq Nodes /\ removed \in [Nodes -> SUBSET Nodes]
  /\ beat \in [Nodes -> {"idle", "clean", "compare", "report"}]
  /\ publish \in [Nodes -> [at : {"idle", "find", "choose", "done"}, inside : SUBSET Nodes,
                            found : SUBSET Nodes, outside : SUBSET Nodes]]
  /\ dead \subseteq Processes /\ left \in [Nodes -> SUBSET Nodes]
  /\ lost \subseteq Nodes \X Nodes /\ crossed \subseteq Nodes \X Nodes
  /\ tardy \subseteq Nodes /\ unreported \subseteq Nodes

\* They make up TypeOK.
LEMMA DiscoveryTypeParts ==
  /\ TypeOK <=> setup \in Setups /\ RingType /\ QueueType /\ OtherTypes
  /\ TypeOK' <=> (setup \in Setups)' /\ RingType' /\ QueueType' /\ OtherTypes'
<1>1. \A A, B, C : A \cup B \subseteq C <=> A \subseteq C /\ B \subseteq C
  OBVIOUS
<1> QED
  BY <1>1 DEF TypeOK, RingType, QueueType, Messages, OtherTypes

\* A step of a node's thread that creates, uses and destroys it keeps the types.
LEMMA MainType ==
  ASSUME DiscoveryAssumption, TypeOK, NEW n \in Nodes, MainSteps(n) \/ UserSteps(n)
  PROVE  TypeOK'
<1> USE DEF tables, path, history
<1>1. setup \in Setups /\ RingType /\ QueueType /\ OtherTypes
  BY DiscoveryTypeParts
<1>2. Home(n) \in Processes
  BY <1>1, ScenarioParts
<1>3. NoJob \in [kind : Kinds, todo : SUBSET Nodes] /\ registered \ {n} \in SUBSET Nodes
  BY <1>1 DEF NoJob, Kinds, OtherTypes
<1>4. ASSUME UNCHANGED <<setup, ring, queue>>, OtherTypes' PROVE TypeOK'
  <2>1. (setup \in Setups)' /\ RingType' /\ QueueType'
    BY <1>1, <1>4 DEF RingType, QueueType
  <2> QED
    BY <1>4, <2>1, DiscoveryTypeParts
<1>5. CASE RegisterNode(n)
  BY SMTT(30), <1>1, <1>2, <1>4, <1>5 DEF RegisterNode, MainGoto, Added, OtherTypes
<1>6. CASE RegisterShared(n)
  BY SMTT(30), <1>1, <1>4, <1>6 DEF RegisterShared, MainGoto, OtherTypes
<1>7. CASE GetReady(n)
  BY SMTT(30), <1>1, <1>4, <1>7 DEF GetReady, MainGoto, OtherTypes
<1>8. CASE Query(n)
  BY SMTT(30), <1>1, <1>4, <1>8 DEF Query, StartBroadcast, MainGoto, OtherTypes, Kinds
<1>9. CASE Tell(n)
  BY SMTT(30), <1>1, <1>4, <1>9 DEF Tell, StartBroadcast, MainGoto, OtherTypes, Kinds
<1>10. CASE SayGoodbye(n)
  BY SMTT(30), <1>1, <1>4, <1>10 DEF SayGoodbye, StartBroadcast, MainGoto, OtherTypes, Kinds
<1>11. CASE BroadcastDone(n)
  BY SMTT(30), <1>1, <1>3, <1>4, <1>11 DEF BroadcastDone, MainGoto, After, OtherTypes
<1>12. ASSUME NEW b \in Nodes, BroadcastTo(n, b) PROVE TypeOK'
  <2>1. job[n].kind \in Kinds /\ setup' = setup
    BY <1>1, <1>12 DEF BroadcastTo, OtherTypes
  <2>2. Send(n, b, job[n].kind)
    BY <1>12 DEF BroadcastTo
  <2>3. /\ conn' \in [Nodes -> SUBSET Nodes] /\ RingType'
        /\ lost' \subseteq Nodes \X Nodes
    BY <2>1, <2>2, SendType
  <2>4. job' \in [Nodes -> [kind : Kinds, todo : SUBSET Nodes]]
    BY SMTT(30), <1>1, <1>12 DEF BroadcastTo, OtherTypes
  <2>5. OtherTypes'
    BY <1>1, <1>12, <2>3, <2>4 DEF BroadcastTo, OtherTypes
  <2>6. (setup \in Setups)' /\ QueueType'
    BY <1>1, <1>12 DEF BroadcastTo, QueueType
  <2> QED
    BY <2>3, <2>5, <2>6, DiscoveryTypeParts
<1>13. CASE Subscribe(n)
  BY SMTT(30), <1>1, <1>2, <1>4, <1>13 DEF Subscribe, MainGoto, Added, OtherTypes
<1>14. CASE Unsubscribe(n)
  BY SMTT(30), <1>1, <1>2, <1>4, <1>14 DEF Unsubscribe, MainGoto, Removed, OtherTypes
<1>15. CASE ForgetNode(n)
  BY SMTT(30), <1>1, <1>2, <1>4, <1>15 DEF ForgetNode, MainGoto, Removed, OtherTypes
<1>16. CASE ClearServices(n)
  BY SMTT(30), <1>1, <1>2, <1>4, <1>16 DEF ClearServices, MainGoto, Removed, OtherTypes
<1>17. CASE StopSystem(n) \/ JoinSystem(n) \/ CloseTransport(n) \/ Unlist(n)
  <2>1. /\ missed' \subseteq Nodes /\ conn' \in [Nodes -> SUBSET Nodes] /\ registered' \subseteq Nodes
        /\ \E l \in {"join", "close", "unlist", "gone"} : MainGoto(n, l)
    BY <1>1, <1>17 DEF StopSystem, JoinSystem, CloseTransport, Unlist, OtherTypes
  <2>2. main' \in [Nodes -> {"new", "register", "ready", "query", "querying", "up", "tell", "telling",
                             "leave", "leaving", "forget", "clear", "stop", "join", "close", "unlist", "gone"}]
    BY <1>1, <2>1 DEF MainGoto, OtherTypes
  <2>3. UNCHANGED <<setup, job, offers, toggled, local, services, ready, ring, queue, system, beat, removed, publish,
                    dead, left, lost, tardy, crossed, unreported>>
    BY <1>17 DEF StopSystem, JoinSystem, CloseTransport, Unlist
  <2>4. OtherTypes'
    BY <1>1, <2>1, <2>2, <2>3 DEF OtherTypes
  <2> QED
    BY <1>4, <2>3, <2>4
<1>18. ASSUME NEW v \in [at : {"idle", "find", "choose", "done"}, inside : SUBSET Nodes,
                       found : SUBSET Nodes, outside : SUBSET Nodes],
              NEW l, PublishGoto(n, l, v)
       PROVE  TypeOK'
  <2>1. OtherTypes' /\ UNCHANGED <<setup, ring, queue>>
    BY <1>1, <1>18 DEF PublishGoto, OtherTypes
  <2> QED
    BY <1>4, <2>1
<1>19. PICK r : r = publish[n]
  OBVIOUS
<1>20. r \in [at : {"idle", "find", "choose", "done"}, inside : SUBSET Nodes,
              found : SUBSET Nodes, outside : SUBSET Nodes]
  BY <1>1, <1>19 DEF OtherTypes
<1>21. local[Home(n)] \in SUBSET Nodes /\ services[Home(n)] \in SUBSET Nodes
  BY <1>1, <1>2 DEF OtherTypes
<1>22. CASE PublishInside(n)
  <2>1. [r EXCEPT !.at = "find", !.inside = local[Home(n)] \ {n}]
          \in [at : {"idle", "find", "choose", "done"}, inside : SUBSET Nodes,
               found : SUBSET Nodes, outside : SUBSET Nodes]
    BY ZenonT(40), <1>20, <1>21
  <2> QED
    BY <1>18, <1>19, <1>22, <2>1 DEF PublishInside
<1>23. CASE PublishFinds(n)
  <2>1. [r EXCEPT !.at = "choose", !.found = services[Home(n)]]
          \in [at : {"idle", "find", "choose", "done"}, inside : SUBSET Nodes,
               found : SUBSET Nodes, outside : SUBSET Nodes]
    BY ZenonT(40), <1>20, <1>21
  <2> QED
    BY <1>18, <1>19, <1>23, <2>1 DEF PublishFinds
<1>24. CASE PublishOutside(n)
  <2>1. PICK o : o = {x \in publish[n].found \ {n} : x \notin local[Home(n)] /\ x \in registered}
    OBVIOUS
  <2>2. o \in SUBSET Nodes
    BY <1>19, <1>20, <2>1
  <2>3. [r EXCEPT !.at = "done", !.outside = o]
          \in [at : {"idle", "find", "choose", "done"}, inside : SUBSET Nodes,
               found : SUBSET Nodes, outside : SUBSET Nodes]
    BY ZenonT(40), <1>20, <2>2
  <2> QED
    BY <1>18, <1>19, <1>24, <2>1, <2>3 DEF PublishOutside
<1>25. CASE Destroy(n)
  BY SMTT(30), <1>1, <1>2, <1>4, <1>25 DEF Destroy, MainGoto, Removed, OtherTypes
<1> QED
  BY <1>5, <1>6, <1>7, <1>8, <1>9, <1>10, <1>11, <1>12, <1>13, <1>14, <1>15, <1>16, <1>17, <1>22, <1>23, <1>24, <1>25
  DEF MainSteps, UserSteps

\* So does one of its other threads.
LEMMA ThreadType ==
  ASSUME DiscoveryAssumption, TypeOK, NEW n \in Nodes, ReceiveSteps(n) \/ SystemSteps(n) \/ HeartbeatSteps(n)
  PROVE  TypeOK'
<1> USE DEF tables, path, history
<1>1. setup \in Setups /\ RingType /\ QueueType /\ OtherTypes
  BY DiscoveryTypeParts
<1>2. Home(n) \in Processes
  BY <1>1, ScenarioParts
<1>3. ASSUME NEW x \in Nodes, Receive(x, n) PROVE TypeOK'
  <2>1. RingType' /\ QueueType' /\ lost' \subseteq Nodes \X Nodes
    BY <1>3, ReceiveType
  <2>2. (setup \in Setups)' /\ OtherTypes'
    BY <1>1, <1>3, <2>1 DEF Receive, OtherTypes
  <2> QED
    BY <2>1, <2>2, DiscoveryTypeParts
<1>4. ASSUME NEW k, Takes(n, k), UNCHANGED <<setup, ring>>, Head(queue[n]).from \in Nodes
             => OtherTypes' PROVE TypeOK'
  <2>1. QueueType' /\ Head(queue[n]).from \in Nodes
    BY <1>4, TakesType
  <2>2. (setup \in Setups)' /\ RingType'
    BY <1>1, <1>4 DEF RingType
  <2> QED
    BY <1>4, <2>1, <2>2, DiscoveryTypeParts
<1>5. CASE HandleRegister(n)
  <2>1. Takes(n, "REGISTER") /\ UNCHANGED <<setup, ring>>
    BY <1>5 DEF HandleRegister
  <2>2. Head(queue[n]).from \in Nodes => OtherTypes'
    BY SMTT(30), <1>1, <1>2, <1>5 DEF HandleRegister, Added, OtherTypes
  <2> QED
    BY <1>4, <2>1, <2>2
<1>6. CASE HandleUnregister(n)
  <2>1. Takes(n, "UNREGISTER") /\ UNCHANGED <<setup, ring>>
    BY <1>6 DEF HandleUnregister
  <2>2. Head(queue[n]).from \in Nodes => OtherTypes'
    BY SMTT(30), <1>1, <1>2, <1>6 DEF HandleUnregister, Removed, OtherTypes
  <2> QED
    BY <1>4, <2>1, <2>2
<1>7. CASE HandleLeave(n)
  <2>1. Takes(n, "LEAVE") /\ UNCHANGED <<setup, ring>>
    BY <1>7 DEF HandleLeave
  <2>2. Head(queue[n]).from \in Nodes => OtherTypes'
    BY SMTT(30), <1>1, <1>2, <1>7 DEF HandleLeave, NodeLeft, Removed, OtherTypes
  <2> QED
    BY <1>4, <2>1, <2>2
<1>8. CASE HandleQuery(n)
  <2>1. Takes(n, "QUERY") /\ UNCHANGED <<setup, ring>>
    BY <1>8 DEF HandleQuery
  <2>2. Head(queue[n]).from \in Nodes => OtherTypes'
    <3>1. SUFFICES ASSUME Head(queue[n]).from \in Nodes PROVE OtherTypes'
      OBVIOUS
    <3>2. PICK asker : asker = Head(queue[n]).from
      OBVIOUS
    <3>3. /\ system' = [system EXCEPT ![n] = {asker}] \/ system' = system
          /\ crossed' = crossed \cup {<<n, asker>>} \/ crossed' = crossed
      BY <1>8, <3>2 DEF HandleQuery
    <3>4. system' \in [Nodes -> SUBSET Nodes] /\ crossed' \subseteq Nodes \X Nodes
      <4>1. system \in [Nodes -> SUBSET Nodes] /\ crossed \subseteq Nodes \X Nodes /\ asker \in Nodes
        BY <1>1, <3>1, <3>2 DEF OtherTypes
      <4> QED
        BY SMTT(30), <3>3, <4>1
    <3> QED
      BY <1>1, <1>8, <3>4 DEF HandleQuery, OtherTypes
  <2> QED
    BY <1>4, <2>1, <2>2
<1>9. ASSUME NEW x \in Nodes, Answer(n, x) PROVE TypeOK'
  <2>1. "REGISTER" \in Kinds /\ setup' = setup /\ Send(n, x, "REGISTER")
    BY <1>9 DEF Kinds, Answer
  <2>2. /\ conn' \in [Nodes -> SUBSET Nodes] /\ RingType'
        /\ lost' \subseteq Nodes \X Nodes
    BY <2>1, SendType
  <2>3. system' \in [Nodes -> SUBSET Nodes] /\ tardy' \subseteq Nodes /\ crossed' \subseteq Nodes \X Nodes
    BY SMTT(30), <1>1, <1>9 DEF Answer, OtherTypes
  <2>4. OtherTypes'
    BY <1>1, <1>9, <2>2, <2>3 DEF Answer, OtherTypes
  <2>5. (setup \in Setups)' /\ QueueType'
    BY <1>1, <1>9 DEF Answer, QueueType
  <2> QED
    BY <2>2, <2>4, <2>5, DiscoveryTypeParts
<1>10. ASSUME UNCHANGED <<setup, ring, queue>>, OtherTypes' PROVE TypeOK'
  <2>1. (setup \in Setups)' /\ RingType' /\ QueueType'
    BY <1>1, <1>10 DEF RingType, QueueType
  <2> QED
    BY <1>10, <2>1, DiscoveryTypeParts
<1>11. CASE HeartbeatLists(n) \/ HeartbeatCompares(n) \/ HeartbeatEnds(n)
  <2>1. removed' \in [Nodes -> SUBSET Nodes]
    BY SMTT(30), <1>1, <1>11 DEF HeartbeatLists, HeartbeatCompares, HeartbeatEnds, OtherTypes
  <2>2. beat' \in [Nodes -> {"idle", "clean", "compare", "report"}]
    <3>1. PICK l \in {"idle", "clean", "report"} : beat' = [beat EXCEPT ![n] = l]
      BY <1>11 DEF HeartbeatLists, HeartbeatCompares, HeartbeatEnds, BeatGoto
    <3>2. beat \in [Nodes -> {"idle", "clean", "compare", "report"}]
      BY <1>1 DEF OtherTypes
    <3> QED
      BY <3>1, <3>2
  <2>3. OtherTypes' /\ UNCHANGED <<setup, ring, queue>>
    BY <1>1, <1>11, <2>1, <2>2 DEF HeartbeatLists, HeartbeatCompares, HeartbeatEnds, OtherTypes
  <2> QED
    BY <1>10, <2>3
<1>12. CASE HeartbeatCleans(n)
  BY ZenonT(40), <1>1, <1>10, <1>12 DEF HeartbeatCleans, BeatGoto, OtherTypes
<1>13. ASSUME NEW x \in Nodes, HeartbeatConnects(n, x) PROVE TypeOK'
  BY SMTT(30), <1>1, <1>10, <1>13 DEF HeartbeatConnects, Connect, OtherTypes
<1>14. ASSUME NEW x \in Nodes, HeartbeatReports(n, x) PROVE TypeOK'
  BY SMTT(30), <1>1, <1>2, <1>10, <1>14 DEF HeartbeatReports, NodeLeft, Removed, OtherTypes
<1> QED
  BY <1>3, <1>5, <1>6, <1>7, <1>8, <1>9, <1>11, <1>12, <1>13, <1>14
  DEF ReceiveSteps, SystemSteps, HeartbeatSteps

\* So does the death of a process: every step keeps the types.
LEMMA DiscoveryType ==
  ASSUME DiscoveryAssumption, TypeOK, [Next]_vars
  PROVE  TypeOK'
<1>1. setup \in Setups /\ RingType /\ QueueType /\ OtherTypes
  BY DiscoveryTypeParts
<1>2. ASSUME NEW p \in Processes, Kill(p) PROVE TypeOK'
  <2>1. UNION {IF beat[n] = "idle" THEN {} ELSE removed[n] \ registered : n \in NodesOf(p)} \subseteq Nodes
    BY SMTT(30), <1>1 DEF OtherTypes, NodesOf
  <2>2. OtherTypes'
    BY <1>1, <1>2, <2>1 DEF Kill, OtherTypes, tables, path
  <2>3. (setup \in Setups)' /\ RingType' /\ QueueType'
    BY <1>1, <1>2 DEF Kill, RingType, QueueType, path
  <2> QED
    BY <2>2, <2>3, DiscoveryTypeParts
<1>3. CASE UNCHANGED vars
  <2>1. (setup \in Setups)' /\ RingType' /\ QueueType' /\ OtherTypes'
    BY <1>1, <1>3 DEF vars, tables, path, history, RingType, QueueType, OtherTypes
  <2> QED
    BY <2>1, DiscoveryTypeParts
<1> QED
  BY <1>2, <1>3, MainType, ThreadType DEF Next

-----------------------------------------------------------------------------
(* GlobalRegistry and publish *)

\* A step after which GlobalRegistry has the same nodes, and that brings no node to
\* life and none back.
Calm ==
  /\ local' = local
  /\ \A x \in Nodes : (main'[x] = "new" <=> main[x] = "new") /\ (main[x] \in Ended => main'[x] \in Ended)

\* The steps that take a node from it.
Withdraws(n) ==
  /\ local' = Removed(local, Home(n), n) /\ UNCHANGED <<setup, publish>> /\ main[n] # "new"
  /\ MainGoto(n, "leave") \/ MainGoto(n, "clear")

\* Only registerNode, the start of the destructor and unregisterNode are not.
LEMMA MainMoves ==
  ASSUME TypeOK, [Next]_vars
  PROVE  /\ setup' = setup
         /\ Calm \/ \E n \in Nodes : RegisterNode(n) \/ Withdraws(n)
<1> USE DEF tables, path, history
<1>1. ASSUME NEW n \in Nodes, NEW l, MainGoto(n, l), local' = local, main[n] # "new", l # "new",
             main[n] \in Ended => l \in Ended
      PROVE  Calm
  BY <1>1 DEF Calm, MainGoto, TypeOK
<1>2. ASSUME main' = main, local' = local PROVE Calm
  BY <1>2 DEF Calm
<1>3. ASSUME NEW n \in Nodes, MainSteps(n) PROVE setup' = setup /\ (Calm \/ Withdraws(n))
  <2>1. CASE RegisterShared(n) \/ GetReady(n)
    BY <1>1, <2>1 DEF RegisterShared, GetReady, MainAt, Ended
  <2>2. CASE Query(n) \/ Tell(n) \/ SayGoodbye(n)
    BY <1>1, <2>2 DEF Query, Tell, SayGoodbye, StartBroadcast, MainAt, Ended
  <2>3. CASE BroadcastDone(n)
    <3>1. main[n] \in {"querying", "telling", "leaving"} /\ MainGoto(n, After(main[n])) /\ local' = local
          /\ setup' = setup
      BY <2>3 DEF BroadcastDone
    <3>2. After(main[n]) # "new" /\ main[n] # "new" /\ (main[n] \in Ended => After(main[n]) \in Ended)
      BY SMTT(30), <3>1 DEF After, Ended
    <3> QED
      BY <1>1, <3>1, <3>2
  <2>4. CASE \E b \in Nodes : BroadcastTo(n, b)
    BY <1>2, <2>4 DEF BroadcastTo
  <2>5. CASE ClearServices(n) \/ StopSystem(n) \/ JoinSystem(n) \/ CloseTransport(n) \/ Unlist(n)
    BY <1>1, <2>5 DEF ClearServices, StopSystem, JoinSystem, CloseTransport, Unlist, MainAt, Ended
  <2>6. CASE ForgetNode(n)
    BY <2>6 DEF ForgetNode, MainAt, Withdraws
  <2> QED
    BY <1>3, <2>1, <2>2, <2>3, <2>4, <2>5, <2>6 DEF MainSteps
<1>4. ASSUME NEW n \in Nodes, UserSteps(n) PROVE setup' = setup /\ (Calm \/ RegisterNode(n) \/ Withdraws(n))
  <2>1. CASE RegisterNode(n)
    BY <2>1 DEF RegisterNode
  <2>2. CASE Subscribe(n) \/ Unsubscribe(n)
    BY <1>1, <2>2 DEF Subscribe, Unsubscribe, MainAt, Ended
  <2>3. CASE Destroy(n)
    BY <2>3 DEF Destroy, MainAt, Withdraws
  <2>4. CASE PublishInside(n) \/ PublishFinds(n) \/ PublishOutside(n)
    BY <1>2, <2>4 DEF PublishInside, PublishFinds, PublishOutside, PublishGoto
  <2> QED
    BY <1>4, <2>1, <2>2, <2>3, <2>4 DEF UserSteps
<1>5. ASSUME NEW n \in Nodes, ReceiveSteps(n) \/ SystemSteps(n) PROVE setup' = setup /\ Calm
  BY <1>2, <1>5 DEF ReceiveSteps, Receive, SystemSteps, HandleRegister, HandleUnregister, HandleLeave,
     HandleQuery, Answer
<1>6. ASSUME NEW n \in Nodes, HeartbeatSteps(n) PROVE setup' = setup /\ Calm
  BY <1>2, <1>6 DEF HeartbeatSteps, HeartbeatLists, HeartbeatCleans, HeartbeatCompares, HeartbeatEnds,
     HeartbeatConnects, HeartbeatReports
<1>7. ASSUME NEW p \in Processes, Kill(p) PROVE setup' = setup /\ Calm
  BY <1>2, <1>7 DEF Kill
<1>8. CASE UNCHANGED vars
  BY <1>2, <1>8 DEF vars
<1> QED
  BY <1>3, <1>4, <1>5, <1>6, <1>7, <1>8 DEF Next

\* GlobalRegistry has the nodes it should have.
LEMMA LocalKeeps ==
  ASSUME DiscoveryAssumption, TypeOK, LocalExact, LocalKnown, [Next]_vars
  PROVE  LocalExact' /\ LocalKnown'
<1>1. setup' = setup /\ (Calm \/ \E n \in Nodes : RegisterNode(n) \/ Withdraws(n))
  BY MainMoves
<1>2. \A n : Home(n)' = Home(n)
  BY <1>1 DEF Home
<1>3. \A n \in Nodes : Home(n) \in Processes
  BY ScenarioParts DEF TypeOK
<1>4. \A p \in Processes : local[p] \in SUBSET Nodes
  BY DEF TypeOK
<1>5. CASE Calm
  <2>1. LocalExact'
    BY <1>2, <1>5 DEF Calm, LocalExact
  <2>2. LocalKnown'
    BY <1>2, <1>4, <1>5 DEF Calm, LocalKnown
  <2> QED
    BY <2>1, <2>2
<1>6. ASSUME NEW n \in Nodes, RegisterNode(n) PROVE LocalExact' /\ LocalKnown'
  <2>1. local' = [local EXCEPT ![Home(n)] = @ \cup {n}] /\ main' = [main EXCEPT ![n] = "register"]
    BY <1>6 DEF RegisterNode, Added, MainGoto
  <2>2. \A p \in Processes : local'[p] = IF p = Home(n) THEN local[p] \cup {n} ELSE local[p]
    BY <1>3, <2>1 DEF TypeOK
  <2>3. \A x \in Nodes : main'[x] = IF x = n THEN "register" ELSE main[x]
    BY <2>1 DEF TypeOK
  <2>4. LocalExact'
    BY ZenonT(40), <1>2, <1>3, <2>2, <2>3 DEF LocalExact
  <2>5. \A p \in Processes : \A x \in local'[p] : x \in Nodes /\ Home(x) = p /\ main'[x] # "new"
    <3>1. SUFFICES ASSUME NEW p \in Processes, NEW x \in local'[p]
                   PROVE  x \in Nodes /\ Home(x) = p /\ main'[x] # "new"
      OBVIOUS
    <3>2. CASE x = n /\ p = Home(n)
      BY <2>3, <3>2
    <3>3. CASE x \in local[p]
      BY <1>4, <2>3, <3>3 DEF LocalKnown
    <3> QED
      BY <2>2, <3>2, <3>3
  <2>6. LocalKnown'
    BY <1>2, <2>5 DEF LocalKnown
  <2> QED
    BY <2>4, <2>6
<1>7. ASSUME NEW n \in Nodes, Withdraws(n) PROVE LocalExact' /\ LocalKnown'
  <2>1. PICK l \in {"leave", "clear"} :
          local' = [local EXCEPT ![Home(n)] = @ \ {n}] /\ main' = [main EXCEPT ![n] = l]
    BY <1>7 DEF Withdraws, Removed, MainGoto
  <2>2. \A p \in Processes : local'[p] = IF p = Home(n) THEN local[p] \ {n} ELSE local[p]
    BY <1>3, <2>1 DEF TypeOK
  <2>3. \A x \in Nodes : main'[x] = IF x = n THEN l ELSE main[x]
    BY <2>1 DEF TypeOK
  <2>4. LocalExact'
    BY ZenonT(40), <1>2, <1>3, <2>2, <2>3 DEF LocalExact, Ended
  <2>5. LocalKnown'
    BY ZenonT(40), <1>2, <1>4, <2>2, <2>3 DEF LocalKnown
  <2> QED
    BY <2>4, <2>5
<1> QED
  BY <1>1, <1>5, <1>6, <1>7

\* Only the steps of publish change what it found.
LEMMA PublishMoves ==
  ASSUME [Next]_vars
  PROVE  \/ publish' = publish
         \/ \E n \in Nodes : PublishInside(n) \/ PublishFinds(n) \/ PublishOutside(n)
<1>1. ASSUME NEW n \in Nodes, MainSteps(n) PROVE publish' = publish
  BY <1>1 DEF MainSteps, RegisterShared, GetReady, Query, Tell, BroadcastDone, BroadcastTo, SayGoodbye,
     ForgetNode, ClearServices, StopSystem, JoinSystem, CloseTransport, Unlist
<1>2. ASSUME NEW n \in Nodes, ReceiveSteps(n) \/ SystemSteps(n) PROVE publish' = publish
  BY <1>2 DEF ReceiveSteps, Receive, SystemSteps, HandleRegister, HandleUnregister, HandleLeave, HandleQuery,
     Answer
<1>3. ASSUME NEW n \in Nodes, HeartbeatSteps(n) PROVE publish' = publish
  BY <1>3 DEF HeartbeatSteps, HeartbeatLists, HeartbeatCleans, HeartbeatCompares, HeartbeatEnds,
     HeartbeatConnects, HeartbeatReports
<1>4. ASSUME NEW n \in Nodes, RegisterNode(n) \/ Subscribe(n) \/ Unsubscribe(n)
             \/ Destroy(n) PROVE publish' = publish
  BY <1>4 DEF RegisterNode, Subscribe, Unsubscribe, Destroy
<1>5. CASE (\E p \in Processes : Kill(p)) \/ UNCHANGED vars
  BY <1>5 DEF Kill, vars
<1> QED
  BY <1>1, <1>2, <1>3, <1>4, <1>5 DEF Next, UserSteps

\* A publish reaches no node both ways.
LEMMA PublishKeeps ==
  ASSUME DiscoveryAssumption, TypeOK, LocalExact, LocalKnown, InsideKnown, PublishedOnce, [Next]_vars
  PROVE  InsideKnown' /\ PublishedOnce'
<1>1. setup' = setup /\ (Calm \/ \E n \in Nodes : RegisterNode(n) \/ Withdraws(n))
  BY MainMoves
<1>2. \A n : Home(n)' = Home(n)
  BY <1>1 DEF Home
<1>3. \A n \in Nodes : Home(n) \in Processes
  BY ScenarioParts DEF TypeOK
<1>4. \A x \in Nodes : (main[x] # "new" => main'[x] # "new") /\ (main[x] \in Ended => main'[x] \in Ended)
  <2>1. CASE Calm
    BY <2>1 DEF Calm
  <2>2. ASSUME NEW n \in Nodes, RegisterNode(n) \/ Withdraws(n)
        PROVE  \A x \in Nodes : (main[x] # "new" => main'[x] # "new") /\ (main[x] \in Ended
               => main'[x] \in Ended)
    BY SMTT(30), <2>2 DEF RegisterNode, Withdraws, MainGoto, MainAt, TypeOK, Ended
  <2> QED
    BY <1>1, <2>1, <2>2
<1>5. \A n \in Nodes : publish[n].inside \in SUBSET Nodes
  BY DEF TypeOK
<1>6. CASE publish' = publish
  <2>1. InsideKnown'
    BY <1>2, <1>4, <1>5, <1>6 DEF InsideKnown
  <2>2. PublishedOnce'
    BY <1>4, <1>5, <1>6 DEF PublishedOnce
  <2> QED
    BY <2>1, <2>2
<1>7. ASSUME NEW n \in Nodes, NEW v, publish' = [publish EXCEPT ![n] = v], main' = main,
             \A x \in v.inside : x \in Nodes /\ Home(x) = Home(n) /\ main[x] # "new",
             v.at = "done" => \A x \in v.inside \cap v.outside : main[x] \in Ended
      PROVE  InsideKnown' /\ PublishedOnce'
  <2>1. \A m \in Nodes : publish'[m] = IF m = n THEN v ELSE publish[m]
    BY <1>7 DEF TypeOK
  <2>2. InsideKnown'
    BY <1>2, <1>7, <2>1 DEF InsideKnown
  <2>3. PublishedOnce'
    BY ZenonT(40), <1>7, <2>1 DEF PublishedOnce
  <2> QED
    BY <2>2, <2>3
<1>8. ASSUME NEW n \in Nodes, PublishInside(n) PROVE InsideKnown' /\ PublishedOnce'
  <2>1. PICK v : v = [publish[n] EXCEPT !.at = "find", !.inside = local[Home(n)] \ {n}]
    OBVIOUS
  <2>2. publish' = [publish EXCEPT ![n] = v] /\ main' = main
    BY <1>8, <2>1 DEF PublishInside, PublishGoto
  <2>3. v.inside = local[Home(n)] \ {n} /\ v.at = "find"
    BY SMTT(30), <2>1 DEF TypeOK
  <2>4. \A x \in v.inside : x \in Nodes /\ Home(x) = Home(n) /\ main[x] # "new"
    BY <1>3, <2>3 DEF LocalKnown, TypeOK
  <2> QED
    BY <1>7, <2>2, <2>3, <2>4
<1>9. ASSUME NEW n \in Nodes, PublishFinds(n) PROVE InsideKnown' /\ PublishedOnce'
  <2>1. PICK v : v = [publish[n] EXCEPT !.at = "choose", !.found = services[Home(n)]]
    OBVIOUS
  <2>2. publish' = [publish EXCEPT ![n] = v] /\ main' = main
    BY <1>9, <2>1 DEF PublishFinds, PublishGoto
  <2>3. v.inside = publish[n].inside /\ v.at = "choose"
    BY SMTT(30), <2>1 DEF TypeOK
  <2>4. \A x \in v.inside : x \in Nodes /\ Home(x) = Home(n) /\ main[x] # "new"
    BY <1>5, <2>3 DEF InsideKnown
  <2> QED
    BY <1>7, <2>2, <2>3, <2>4
<1>10. ASSUME NEW n \in Nodes, PublishOutside(n) PROVE InsideKnown' /\ PublishedOnce'
  <2>1. PICK o : o = {x \in publish[n].found \ {n} : x \notin local[Home(n)] /\ x \in registered}
    OBVIOUS
  <2>2. PICK v : v = [publish[n] EXCEPT !.at = "done", !.outside = o]
    OBVIOUS
  <2>3. publish' = [publish EXCEPT ![n] = v] /\ main' = main
    BY <1>10, <2>1, <2>2 DEF PublishOutside, PublishGoto
  <2>4. v.inside = publish[n].inside /\ v.outside = o
    BY SMTT(30), <2>2 DEF TypeOK
  <2>5. \A x \in v.inside : x \in Nodes /\ Home(x) = Home(n) /\ main[x] # "new"
    BY <1>5, <2>4 DEF InsideKnown
  <2>6. \A x \in v.inside \cap v.outside : main[x] \in Ended
    BY <2>1, <2>4, <2>5 DEF LocalExact
  <2> QED
    BY <1>7, <2>3, <2>5, <2>6
<1> QED
  BY <1>6, <1>8, <1>9, <1>10, PublishMoves

-----------------------------------------------------------------------------
(* Reports *)

\* Where a node is that is not in the shared registry.
Outside == {"new", "register", "gone"}

\* A step that takes no node from the registry and has nothing to do with reports.
Uninvolved ==
  /\ UNCHANGED <<setup, dead, beat, removed>>
  /\ registered \subseteq registered' /\ unreported \subseteq unreported'
  /\ \A m \in Nodes : left[m] \subseteq left'[m]
  /\ \A x \in Nodes : main'[x] \notin Outside => main[x] \notin Outside \/ x \in registered'

\* It keeps track of the nodes.
LEMMA UninvolvedKeeps == ASSUME Tracked, Uninvolved PROVE Tracked'
<1>1. \A n, m \in Nodes : Pending(n, m) => Pending(n, m)'
  BY DEF Uninvolved, Pending, Alive, Home
<1>2. \A n \in Nodes : Suspected(n) => Suspected(n)'
  BY DEF Uninvolved, Suspected
<1> QED
  BY <1>1, <1>2 DEF Tracked, Uninvolved, Outside

\* The steps that do not run the heartbeat's cleaning.
LEMMA OrdinaryKeeps ==
  ASSUME DiscoveryAssumption, TypeOK, Tracked, NEW n \in Nodes,
         MainSteps(n) \/ UserSteps(n) \/ ReceiveSteps(n) \/ SystemSteps(n)
  PROVE  Tracked'
<1> USE DEF tables, path, history
<1>1. ASSUME UNCHANGED <<setup, dead, beat, removed, registered, unreported, left>>, NEW l, MainGoto(n, l),
             main[n] \notin Outside \/ l \in Outside
      PROVE  Tracked'
  <2>1. Uninvolved
    BY <1>1 DEF Uninvolved, MainGoto, TypeOK
  <2> QED
    BY <2>1, UninvolvedKeeps
<1>2. ASSUME UNCHANGED <<setup, dead, beat, removed, registered, unreported, left, main>> PROVE Tracked'
  <2>1. Uninvolved
    BY <1>2 DEF Uninvolved
  <2> QED
    BY <2>1, UninvolvedKeeps
<1>3. CASE MainSteps(n)
  <2>1. CASE RegisterShared(n)
    <3>1. Uninvolved
      BY <2>1 DEF RegisterShared, MainGoto, Uninvolved, TypeOK
    <3> QED
      BY <3>1, UninvolvedKeeps
  <2>2. CASE GetReady(n) \/ ForgetNode(n) \/ ClearServices(n) \/ StopSystem(n) \/ JoinSystem(n)
             \/ CloseTransport(n)
    BY <1>1, <2>2 DEF GetReady, ForgetNode, ClearServices, StopSystem, JoinSystem, CloseTransport, MainAt, Outside
  <2>3. CASE Query(n) \/ Tell(n) \/ SayGoodbye(n)
    BY <1>1, <2>3 DEF Query, Tell, SayGoodbye, StartBroadcast, MainAt, Outside
  <2>4. CASE BroadcastDone(n)
    BY <1>1, <2>4 DEF BroadcastDone, Outside
  <2>5. CASE \E b \in Nodes : BroadcastTo(n, b)
    BY <1>2, <2>5 DEF BroadcastTo
  <2>6. CASE Unlist(n)
    <3>1. registered' = registered \ {n} /\ main' = [main EXCEPT ![n] = "gone"] /\ UNCHANGED <<setup, dead,
          beat, removed, unreported, left>>
      BY <2>6 DEF Unlist, MainGoto
    <3>2. \A x, m \in Nodes : Pending(x, m)' <=> Pending(x, m)
      BY <3>1 DEF Pending, Alive, Home
    <3>3. \A x \in Nodes : Suspected(x)' <=> Suspected(x)
      BY <3>1 DEF Suspected
    <3>4. \A x \in Nodes : main'[x] = IF x = n THEN "gone" ELSE main[x]
      BY <3>1 DEF TypeOK
    <3> QED
      BY <3>1, <3>2, <3>3, <3>4 DEF Tracked
  <2> QED
    BY <1>3, <2>1, <2>2, <2>3, <2>4, <2>5, <2>6 DEF MainSteps
<1>4. CASE UserSteps(n)
  <2>1. CASE RegisterNode(n) \/ Subscribe(n) \/ Unsubscribe(n)
    BY <1>1, <2>1 DEF RegisterNode, Subscribe, Unsubscribe, MainAt, Outside
  <2>2. CASE Destroy(n)
    BY <1>1, <2>2 DEF Destroy, MainAt, Outside
  <2>3. CASE PublishInside(n) \/ PublishFinds(n) \/ PublishOutside(n)
    BY <1>2, <2>3 DEF PublishInside, PublishFinds, PublishOutside, PublishGoto
  <2> QED
    BY <1>4, <2>1, <2>2, <2>3 DEF UserSteps
<1>5. CASE ReceiveSteps(n)
  BY <1>2, <1>5 DEF ReceiveSteps, Receive
<1>6. CASE SystemSteps(n)
  <2>1. CASE HandleLeave(n)
    <3>1. Uninvolved
      BY <2>1 DEF HandleLeave, NodeLeft, Uninvolved, TypeOK
    <3> QED
      BY <3>1, UninvolvedKeeps
  <2>2. CASE ~HandleLeave(n)
    BY <1>2, <1>6, <2>2 DEF SystemSteps, HandleRegister, HandleUnregister, HandleQuery, Answer
  <2> QED
    BY <2>1, <2>2
<1> QED
  BY <1>3, <1>4, <1>5, <1>6

\* A node that is taken from the registry by cleanupStaleNodes is reported by the
\* thread that took it, or noted as unreported.
LEMMA CleaningKeeps ==
  ASSUME DiscoveryAssumption, TypeOK, Tracked, NEW n \in Nodes, HeartbeatSteps(n)
  PROVE  Tracked'
<1> USE DEF tables, path, history
<1>1. ASSUME NEW x \in Nodes, HeartbeatConnects(n, x) PROVE Tracked'
  <2>1. Uninvolved
    BY <1>1 DEF HeartbeatConnects, Uninvolved
  <2> QED
    BY <2>1, UninvolvedKeeps
<1>2. CASE HeartbeatLists(n)
  <2>1. /\ UNCHANGED <<setup, dead, main, registered, unreported, left>>
        /\ beat[n] = "idle" /\ \A m \in Nodes \ {n} : beat'[m] = beat[m] /\ removed'[m] = removed[m]
    BY <1>2 DEF HeartbeatLists, BeatGoto, TypeOK
  <2>2. \A x, m \in Nodes : Pending(x, m) => Pending(x, m)'
    BY <2>1 DEF Pending, Alive, Home
  <2>3. \A x \in Nodes : Suspected(x)' <=> Suspected(x)
    BY <2>1 DEF Suspected
  <2> QED
    BY <2>1, <2>2, <2>3 DEF Tracked
<1>3. CASE HeartbeatEnds(n)
  <2>1. /\ UNCHANGED <<setup, dead, main, registered, removed, unreported, left>>
        /\ removed[n] = {} /\ \A m \in Nodes \ {n} : beat'[m] = beat[m]
    BY <1>3 DEF HeartbeatEnds, BeatGoto, TypeOK
  <2>2. \A x, m \in Nodes : Pending(x, m) => Pending(x, m)'
    BY <2>1 DEF Pending, Alive, Home
  <2>3. \A x \in Nodes : Suspected(x)' <=> Suspected(x)
    BY <2>1 DEF Suspected
  <2> QED
    BY <2>1, <2>2, <2>3 DEF Tracked
<1>4. CASE HeartbeatCompares(n)
  <2>1. /\ UNCHANGED <<setup, dead, main, registered, unreported, left>>
        /\ beat[n] = "compare" /\ beat'[n] = "report" /\ removed'[n] = removed[n] \ registered
        /\ \A m \in Nodes \ {n} : beat'[m] = beat[m] /\ removed'[m] = removed[m]
    BY <1>4 DEF HeartbeatCompares, BeatGoto, TypeOK
  <2>2. \A x, m \in Nodes : Pending(x, m) => Pending(x, m)' \/ x \in registered
    BY <2>1 DEF Pending, Alive, Home
  <2>3. \A x \in Nodes : Suspected(x)' <=> Suspected(x)
    BY <2>1 DEF Suspected
  <2> QED
    BY <2>1, <2>2, <2>3 DEF Tracked
<1>5. ASSUME NEW y \in Nodes, HeartbeatReports(n, y) PROVE Tracked'
  <2>1. /\ UNCHANGED <<setup, dead, main, registered, unreported, beat>>
        /\ removed'[n] = removed[n] \ {y} /\ \A m \in Nodes \ {n} : removed'[m] = removed[m]
        /\ y \in left'[n] /\ \A m \in Nodes : left[m] \subseteq left'[m]
    BY SMTT(30), <1>5 DEF HeartbeatReports, NodeLeft, TypeOK
  <2>2. \A x \in Nodes : Suspected(x) => Suspected(x)'
    BY <2>1 DEF Suspected
  <2>3. Suspected(y)'
    BY <2>1 DEF Suspected
  <2>4. \A x, m \in Nodes : Pending(x, m) => Pending(x, m)' \/ x = y
    BY <2>1 DEF Pending, Alive, Home
  <2> QED
    BY <2>1, <2>2, <2>3, <2>4 DEF Tracked
<1>6. CASE HeartbeatCleans(n)
  <2>1. PICK late \in SUBSET (setup.late \ {n}) :
          LET stale == {x \in registered : ~Alive(x) \/ x \in late}
          IN /\ registered' = registered \ stale
             /\ unreported' = unreported \cup (stale \ removed[n])
             /\ IF stale = {} THEN BeatGoto(n, "clean", "idle") /\ removed' = [removed EXCEPT ![n] = {}]
                              ELSE BeatGoto(n, "clean", "compare") /\ UNCHANGED removed
    BY <1>6 DEF HeartbeatCleans
  <2>2. PICK stale : stale = {x \in registered : ~Alive(x) \/ x \in late}
    OBVIOUS
  <2>3. /\ registered' = registered \ stale /\ unreported' = unreported \cup (stale \ removed[n])
        /\ IF stale = {} THEN BeatGoto(n, "clean", "idle") /\ removed' = [removed EXCEPT ![n] = {}]
                         ELSE BeatGoto(n, "clean", "compare") /\ UNCHANGED removed
    BY <2>1, <2>2
  <2>4. UNCHANGED <<setup, dead, main, left>> /\ Alive(n)
    BY <1>6 DEF HeartbeatCleans
  <2>5. beat[n] = "clean" /\ \A m \in Nodes \ {n} : beat'[m] = beat[m] /\ removed'[m] = removed[m]
    <3>1. beat \in [Nodes -> {"idle", "clean", "compare", "report"}] /\ removed \in [Nodes -> SUBSET Nodes]
      BY DEF TypeOK
    <3> QED
      BY <2>3, <3>1 DEF BeatGoto
  <2>6. stale # {} => beat'[n] = "compare" /\ removed'[n] = removed[n]
    <3>1. DOMAIN beat = Nodes
      BY DEF TypeOK
    <3> QED
      BY <2>3, <3>1 DEF BeatGoto
  <2>7. \A x, m \in Nodes : Pending(x, m) => Pending(x, m)'
    BY <2>4, <2>5 DEF Pending, Alive, Home
  <2>8. \A x \in Nodes : Suspected(x)' <=> Suspected(x)
    BY <2>4 DEF Suspected
  <2>9. \A x \in stale : x \in unreported' \/ Pending(x, n)'
    BY <2>3, <2>4, <2>6 DEF Pending, Alive, Home
  <2>10. \A x \in Nodes : x \in registered => x \in registered' \/ x \in stale
    BY <2>3
  <2>11. \A x \in Nodes : x \in unreported => x \in unreported'
    BY <2>3
  <2> QED
    BY <2>4, <2>7, <2>8, <2>9, <2>10, <2>11 DEF Tracked
<1> QED
  BY <1>1, <1>2, <1>3, <1>4, <1>5, <1>6 DEF HeartbeatSteps

\* A process that is killed between removing and reporting leaves the nodes unreported.
LEMMA KillKeeps ==
  ASSUME TypeOK, Tracked, NEW p \in Processes, Kill(p)
  PROVE  Tracked'
<1>1. /\ UNCHANGED <<setup, main, registered, left, beat, removed>> /\ dead' = dead \cup {p}
      /\ unreported' =
            unreported \cup UNION {IF beat[n] = "idle" THEN {} ELSE removed[n] \ registered : n \in NodesOf(p)}
  BY DEF Kill, tables
<1>2. \A x, m \in Nodes : Pending(x, m) => Pending(x, m)' \/ x \in registered \/ x \in unreported'
  <2>1. SUFFICES ASSUME NEW x \in Nodes, NEW m \in Nodes, Pending(x, m), ~Pending(x, m)', x \notin registered
                 PROVE  x \in unreported'
    OBVIOUS
  <2>2. m \in NodesOf(p)
    BY <1>1, <2>1 DEF Pending, Alive, Home, NodesOf
  <2>3. beat[m] # "idle" /\ x \in removed[m]
    BY <2>1 DEF Pending
  <2>4. x \in (IF beat[m] = "idle" THEN {} ELSE removed[m] \ registered)
    BY <2>1, <2>3
  <2> QED
    BY <1>1, <2>2, <2>4
<1>3. \A x \in Nodes : (Suspected(x)' <=> Suspected(x)) /\ (x \in unreported => x \in unreported')
  BY <1>1 DEF Suspected
<1> QED
  BY <1>1, <1>2, <1>3 DEF Tracked

-----------------------------------------------------------------------------
(* The theorems *)

\* The nodes that are up from the start satisfy the invariant.
LEMMA DiscoveryInit == ASSUME DiscoveryAssumption, Init PROVE IInv
<1>1. setup \in Setups
  BY DEF Init
<1>2. /\ \A n \in Nodes : Home(n) \in Processes
      /\ setup.early \in SUBSET Nodes /\ setup.offering \in SUBSET Nodes
      /\ setup.ringSize \in Nat /\ setup.systemSize \in Nat
  BY <1>1, ScenarioParts
<1>3. RingType
  BY SMTT(30), <1>2 DEF Init, RingType
<1>4. QueueType
  BY SMTT(30), <1>2 DEF Init, QueueType
<1>5. OtherTypes
  <2>1. main \in [Nodes -> {"new", "register", "ready", "query", "querying", "up", "tell", "telling",
                         "leave", "leaving", "forget", "clear", "stop", "join", "close", "unlist", "gone"}]
    BY DEF Init
  <2>2. job \in [Nodes -> [kind : Kinds, todo : SUBSET Nodes]]
    BY DEF Init, NoJob, Kinds
  <2>3. offers \in [Nodes -> BOOLEAN] /\ toggled \in [Nodes -> Nat]
    BY SMTT(30) DEF Init
  <2>4. local \in [Processes -> SUBSET Nodes] /\ services \in [Processes -> SUBSET Nodes]
    BY <1>2 DEF Init, NodesOf
  <2>5. registered \subseteq Nodes /\ ready \subseteq Nodes /\ conn \in [Nodes -> SUBSET Nodes]
    BY <1>2 DEF Init
  <2>6. /\ system \in [Nodes -> SUBSET Nodes] /\ removed \in [Nodes -> SUBSET Nodes]
        /\ beat \in [Nodes -> {"idle", "clean", "compare", "report"}] /\ left \in [Nodes -> SUBSET Nodes]
        /\ dead \subseteq Processes /\ lost \subseteq Nodes \X Nodes /\ crossed \subseteq Nodes \X Nodes
        /\ missed \subseteq Nodes /\ tardy \subseteq Nodes /\ unreported \subseteq Nodes
    BY DEF Init
  <2>7. publish \in [Nodes -> [at : {"idle", "find", "choose", "done"}, inside : SUBSET Nodes,
                            found : SUBSET Nodes, outside : SUBSET Nodes]]
    BY DEF Init, NoPublish
  <2> QED
    BY <2>1, <2>2, <2>3, <2>4, <2>5, <2>6, <2>7 DEF OtherTypes
<1>6. TypeOK
  BY <1>1, <1>3, <1>4, <1>5, DiscoveryTypeParts
<1>7. \A n \in Nodes : main[n] = IF n \in setup.early THEN "up" ELSE "new"
  BY DEF Init
<1>8. LocalExact /\ LocalKnown
  BY <1>2, <1>7 DEF Init, LocalExact, LocalKnown, NodesOf
<1>9. InsideKnown /\ PublishedOnce
  BY SMTT(30) DEF Init, InsideKnown, PublishedOnce, NoPublish
<1>10. Tracked
  BY <1>7 DEF Init, Tracked
<1> QED
  BY <1>6, <1>8, <1>9, <1>10 DEF IInv

\* A step keeps the invariant.
LEMMA DiscoveryNext == ASSUME DiscoveryAssumption, IInv, [Next]_vars PROVE IInv'
<1>1. TypeOK'
  BY DiscoveryType DEF IInv
<1>2. LocalExact' /\ LocalKnown'
  BY LocalKeeps DEF IInv
<1>3. InsideKnown' /\ PublishedOnce'
  BY PublishKeeps DEF IInv
<1>4. Tracked'
  <2>1. TypeOK /\ Tracked
    BY DEF IInv
  <2>2. CASE UNCHANGED vars
    <3>1. Uninvolved
      BY <2>2 DEF Uninvolved, vars, tables, history
    <3> QED
      BY <2>1, <3>1, UninvolvedKeeps
  <2> QED
    BY <2>1, <2>2, OrdinaryKeeps, CleaningKeeps, KillKeeps DEF Next
<1> QED
  BY <1>1, <1>2, <1>3, <1>4 DEF IInv

\* GlobalRegistry, publishes and reports are right for any number of
\* nodes, processes and messages, in every scenario.
THEOREM DiscoveryInvariant == Spec => []IInv
<1>1. Init => IInv
  BY DiscoveryInit, DiscoveryAssumption
<1>2. IInv /\ [Next]_vars => IInv'
  BY DiscoveryNext, DiscoveryAssumption
<1> QED
  BY <1>1, <1>2, PTL DEF Spec

\* A publish reaches no node both inside and outside the process.
THEOREM ReachedOnce == Spec => []PublishedOnce
<1>1. IInv => PublishedOnce
  BY DEF IInv
<1> QED
  BY <1>1, DiscoveryInvariant, PTL

\* A killed node that had registered is reported with NODE_LEFT.
THEOREM DeadReported == Spec => []DeathReported
<1>1. IInv => DeathReported
  <2>1. SUFFICES ASSUME Tracked, Quiet, NEW n \in Nodes, ~Alive(n), main[n] \notin {"new", "register", "gone"},
                        NEW m \in Nodes, Up(m)
                 PROVE  Suspected(n) \/ n \in unreported
    BY DEF IInv, DeathReported
  <2>2. Receiving(m)
    BY <2>1 DEF Up, MainAt, Receiving
  <2>3. n \notin registered
    BY <2>1, <2>2 DEF Quiet
  <2>4. \A x \in Nodes : ~Pending(n, x)
    BY <2>1 DEF Quiet, Pending
  <2> QED
    BY <2>1, <2>3, <2>4 DEF Tracked
<1> QED
  BY <1>1, DiscoveryInvariant, PTL
-----------------------------------------------------------------------------
(* The table of inbound queues *)

\* The sets of slots that are counted are finite, and a larger set counts more.
LEMMA SlotSets ==
  ASSUME NEW A, NEW B, A \subseteq B, B \subseteq Slots
  PROVE  /\ IsFiniteSet(A) /\ IsFiniteSet(B)
         /\ Cardinality(A) \in Nat /\ Cardinality(B) \in Nat
         /\ Cardinality(A) <= Cardinality(B)
<1>1. IsFiniteSet(Slots)
  BY SMTT(30), FS_Interval, DirectoryAssumption DEF Slots
<1>2. IsFiniteSet(B)
  BY <1>1, FS_Subset
<1>3. IsFiniteSet(A) /\ Cardinality(A) <= Cardinality(B)
  BY <1>2, FS_Subset
<1> QED
  BY <1>2, <1>3, FS_CardinalityType

\* There are as many slots as MAX_INBOUND_QUEUES says.
LEMMA SlotCount == Cardinality(Slots) = NumSlots
BY SMTT(30), FS_Interval, DirectoryAssumption DEF Slots

\* An empty table satisfies the invariant.
LEMMA DirectoryStarts == DirectoryInit => DirectoryIInv
<1> SUFFICES ASSUME DirectoryInit PROVE DirectoryIInv
  OBVIOUS
<1>1. DirectoryTypeOK
  BY SMTT(30), DirectoryAssumption DEF DirectoryInit, DirectoryTypeOK, Slots
<1>2. ClaimsSound /\ ClaimsExclusive /\ RefusedOnlyWhenFull
  BY DEF DirectoryInit, ClaimsSound, ClaimsExclusive, RefusedOnlyWhenFull, Claiming
<1>3. IdsSound /\ InitsSound /\ PassedTaken
  BY SMTT(30) DEF DirectoryInit, IdsSound, ConnectionsAreAttributed, InitsSound, ConnectionsAreReceived,
     PassedTaken
<1>4. Published \subseteq Slots
  BY DEF Published
<1>5. Cardinality(Published) \in Nat
  BY <1>4, SlotSets
<1>6. CountsPublished
  BY SMTT(30), <1>5 DEF DirectoryInit, CountsPublished
<1> QED
  BY <1>1, <1>2, <1>3, <1>6 DEF DirectoryIInv

\* A step of one sender.
Action(s) ==
  \/ ConnectBegin(s) \/ LookupFound(s) \/ LookupNext(s) \/ LookupFailed(s)
  \/ ClaimSlot(s) \/ ClaimNext(s) \/ ClaimFailed(s)
  \/ NameSlot(s) \/ InitFailed(s) \/ Activate(s) \/ Publish(s)
  \/ Disconnect(s) \/ Restart(s)

\* A step keeps the types.
LEMMA StepType ==
  ASSUME DirectoryTypeOK, ClaimsSound, NEW s \in Senders
  PROVE  Action(s) => DirectoryTypeOK'
<1>1. CASE ConnectBegin(s)
  BY SMTT(30), <1>1, DirectoryAssumption DEF ConnectBegin, MoveTo, Goto, DirectoryTypeOK, ClaimsSound, Claiming,
     Slots
<1>2. CASE LookupFound(s)
  BY SMTT(30), <1>2, DirectoryAssumption DEF LookupFound, Searched, Valid, Goto, DirectoryTypeOK, ClaimsSound,
     Claiming, Slots
<1>3. CASE LookupNext(s)
  BY SMTT(30), <1>3, DirectoryAssumption DEF LookupNext, Searched, MoveTo, DirectoryTypeOK, ClaimsSound,
     Claiming, Slots
<1>4. CASE LookupFailed(s)
  BY SMTT(30), <1>4, DirectoryAssumption DEF LookupFailed, Searched, LimitReached, MoveTo, Goto,
     DirectoryTypeOK, ClaimsSound, Claiming, Slots
<1>5. CASE ClaimSlot(s)
  BY <1>5, DirectoryAssumption DEF ClaimSlot, Goto, DirectoryTypeOK, ClaimsSound, Claiming, Slots
<1>6. CASE ClaimNext(s)
  BY SMTT(30), <1>6, DirectoryAssumption DEF ClaimNext, MoveTo, DirectoryTypeOK, ClaimsSound, Claiming, Slots
<1>7. CASE ClaimFailed(s)
  BY <1>7, DirectoryAssumption DEF ClaimFailed, Goto, DirectoryTypeOK, ClaimsSound, Claiming, Slots
<1>8. CASE NameSlot(s)
  BY <1>8, DirectoryAssumption DEF NameSlot, Goto, DirectoryTypeOK, ClaimsSound, Claiming, Slots
<1>9. CASE InitFailed(s)
  BY <1>9, DirectoryAssumption DEF InitFailed, Goto, DirectoryTypeOK, ClaimsSound, Claiming, Slots
<1>10. CASE Activate(s)
  BY <1>10, DirectoryAssumption DEF Activate, Goto, DirectoryTypeOK, ClaimsSound, Claiming, Slots
<1>11. CASE Publish(s)
  BY SMTT(30), <1>11, DirectoryAssumption DEF Publish, Goto, DirectoryTypeOK, ClaimsSound, Claiming, Slots
<1>12. CASE Disconnect(s)
  BY <1>12, DirectoryAssumption DEF Disconnect, DirectoryTypeOK, ClaimsSound, Claiming, Slots
<1>13. CASE Restart(s)
  BY <1>13, DirectoryAssumption DEF Restart, Goto, DirectoryTypeOK, ClaimsSound, Claiming, Slots
<1> QED
  BY <1>1, <1>2, <1>3, <1>4, <1>5, <1>6, <1>7, <1>8, <1>9, <1>10, <1>11, <1>12, <1>13 DEF Action

\* A step keeps the claims sound and exclusive: the compare-and-swap takes free
\* slots only, and only the claimer touches a slot until it is active.
LEMMA StepClaims ==
  ASSUME DirectoryTypeOK, ClaimsSound, ClaimsExclusive, NEW s \in Senders
  PROVE  Action(s) => ClaimsSound' /\ ClaimsExclusive'
<1>1. CASE ConnectBegin(s)
  BY <1>1, DirectoryAssumption DEF ConnectBegin, MoveTo, Goto, DirectoryTypeOK, ClaimsSound, ClaimsExclusive,
     Claiming, Slots
<1>2. CASE LookupFound(s)
  BY <1>2, DirectoryAssumption DEF LookupFound, Searched, Valid, Goto, DirectoryTypeOK, ClaimsSound,
     ClaimsExclusive, Claiming, Slots
<1>3. CASE LookupNext(s)
  BY <1>3, DirectoryAssumption DEF LookupNext, Searched, MoveTo, DirectoryTypeOK, ClaimsSound, ClaimsExclusive,
     Claiming, Slots
<1>4. CASE LookupFailed(s)
  BY <1>4, DirectoryAssumption DEF LookupFailed, Searched, LimitReached, MoveTo, Goto, DirectoryTypeOK,
     ClaimsSound, ClaimsExclusive, Claiming, Slots
<1>5. CASE ClaimSlot(s)
  BY SMTT(30), <1>5, DirectoryAssumption DEF ClaimSlot, Goto, DirectoryTypeOK, ClaimsSound, ClaimsExclusive,
     Claiming, Slots
<1>6. CASE ClaimNext(s)
  BY <1>6, DirectoryAssumption DEF ClaimNext, MoveTo, DirectoryTypeOK, ClaimsSound, ClaimsExclusive, Claiming,
     Slots
<1>7. CASE ClaimFailed(s)
  BY <1>7, DirectoryAssumption DEF ClaimFailed, Goto, DirectoryTypeOK, ClaimsSound, ClaimsExclusive, Claiming,
     Slots
<1>8. CASE NameSlot(s)
  BY SMTT(30), <1>8, DirectoryAssumption DEF NameSlot, Goto, DirectoryTypeOK, ClaimsSound, ClaimsExclusive,
     Claiming, Slots
<1>9. CASE InitFailed(s)
  BY <1>9, DirectoryAssumption DEF InitFailed, Goto, DirectoryTypeOK, ClaimsSound, ClaimsExclusive, Claiming,
     Slots
<1>10. CASE Activate(s)
  BY SMTT(30), <1>10, DirectoryAssumption DEF Activate, Goto, DirectoryTypeOK, ClaimsSound, ClaimsExclusive,
     Claiming, Slots
<1>11. CASE Publish(s)
  BY <1>11, DirectoryAssumption DEF Publish, Goto, DirectoryTypeOK, ClaimsSound, ClaimsExclusive, Claiming,
     Slots
<1>12. CASE Disconnect(s)
  BY <1>12, DirectoryAssumption DEF Disconnect, DirectoryTypeOK, ClaimsSound, ClaimsExclusive, Claiming, Slots
<1>13. CASE Restart(s)
  BY <1>13, DirectoryAssumption DEF Restart, Goto, DirectoryTypeOK, ClaimsSound, ClaimsExclusive, Claiming,
     Slots
<1> QED
  BY <1>1, <1>2, <1>3, <1>4, <1>5, <1>6, <1>7, <1>8, <1>9, <1>10, <1>11, <1>12, <1>13 DEF Action

\* A published queue stays published.
LEMMA PublishedStay ==
  ASSUME DirectoryTypeOK, ClaimsSound, NEW s \in Senders
  PROVE  Action(s) => Published \subseteq Published'
<1>1. CASE ConnectBegin(s)
  BY <1>1, DirectoryAssumption DEF ConnectBegin, MoveTo, Goto, Published, DirectoryTypeOK, ClaimsSound, Claiming
<1>2. CASE LookupFound(s)
  BY <1>2, DirectoryAssumption DEF LookupFound, Searched, Valid, Goto, Published, DirectoryTypeOK, ClaimsSound,
     Claiming
<1>3. CASE LookupNext(s)
  BY <1>3, DirectoryAssumption DEF LookupNext, Searched, MoveTo, Published, DirectoryTypeOK, ClaimsSound,
     Claiming
<1>4. CASE LookupFailed(s)
  BY <1>4, DirectoryAssumption DEF LookupFailed, Searched, LimitReached, MoveTo, Goto, Published,
     DirectoryTypeOK, ClaimsSound, Claiming
<1>5. CASE ClaimSlot(s)
  BY SMTT(30), <1>5, DirectoryAssumption DEF ClaimSlot, Goto, Published, DirectoryTypeOK, ClaimsSound, Claiming
<1>6. CASE ClaimNext(s)
  BY <1>6, DirectoryAssumption DEF ClaimNext, MoveTo, Published, DirectoryTypeOK, ClaimsSound, Claiming
<1>7. CASE ClaimFailed(s)
  BY <1>7, DirectoryAssumption DEF ClaimFailed, Goto, Published, DirectoryTypeOK, ClaimsSound, Claiming
<1>8. CASE NameSlot(s)
  BY <1>8, DirectoryAssumption DEF NameSlot, Goto, Published, DirectoryTypeOK, ClaimsSound, Claiming
<1>9. CASE InitFailed(s)
  BY SMTT(30), <1>9, DirectoryAssumption DEF InitFailed, Goto, Published, DirectoryTypeOK, ClaimsSound, Claiming
<1>10. CASE Activate(s)
  BY SMTT(30), <1>10, DirectoryAssumption DEF Activate, Goto, Published, DirectoryTypeOK, ClaimsSound, Claiming
<1>11. CASE Publish(s)
  BY <1>11, DirectoryAssumption DEF Publish, Goto, Published, DirectoryTypeOK, ClaimsSound, Claiming
<1>12. CASE Disconnect(s)
  BY <1>12, DirectoryAssumption DEF Disconnect, Published, DirectoryTypeOK, ClaimsSound, Claiming
<1>13. CASE Restart(s)
  BY <1>13, DirectoryAssumption DEF Restart, Goto, Published, DirectoryTypeOK, ClaimsSound, Claiming
<1> QED
  BY <1>1, <1>2, <1>3, <1>4, <1>5, <1>6, <1>7, <1>8, <1>9, <1>10, <1>11, <1>12, <1>13 DEF Action

\* Raising the count publishes one more queue, and only that raises the count.
LEMMA StepCount ==
  ASSUME DirectoryTypeOK, DirectoryTypeOK', ClaimsSound, ClaimsExclusive, CountsPublished, NEW s \in Senders,
         Action(s)
  PROVE  CountsPublished'
<1>1. Published \subseteq Published' /\ Published' \subseteq Slots
  BY PublishedStay DEF Published
<1>2. /\ IsFiniteSet(Published) /\ Cardinality(Published) \in Nat
      /\ Cardinality(Published') \in Nat /\ Cardinality(Published) <= Cardinality(Published')
  BY <1>1, SlotSets
<1>3. numQueues \in Nat /\ numQueues' \in Nat /\ loaded \in [Senders -> Nat]
  BY DEF DirectoryTypeOK
<1>4. CASE Publish(s)
  <2>1. at[s] \in Slots /\ at[s] \notin Published
    BY <1>4 DEF Publish, Published, ClaimsSound, Claiming
  <2>2. at[s] \in Published'
    BY <1>4, <2>1 DEF Publish, Goto, Published, ClaimsSound, ClaimsExclusive, Claiming, DirectoryTypeOK
  <2>3. /\ Cardinality(Published \cup {at[s]}) = Cardinality(Published) + 1
        /\ Cardinality(Published \cup {at[s]}) <= Cardinality(Published')
    BY SMTT(30), <1>1, <1>2, <2>1, <2>2, FS_AddElement, SlotSets
  <2> QED
    BY SMTT(30), <1>2, <1>3, <1>4, <2>3 DEF Publish, CountsPublished
<1>5. CASE ConnectBegin(s)
  BY SMTT(30), <1>2, <1>3, <1>5 DEF ConnectBegin, CountsPublished
<1>6. CASE numQueues' = numQueues /\ loaded' = loaded
  BY SMTT(30), <1>2, <1>3, <1>6 DEF CountsPublished
<1> QED
  BY <1>4, <1>5, <1>6 DEF Action, LookupFound, LookupNext, LookupFailed, ClaimSlot, ClaimNext,
     ClaimFailed, NameSlot, InitFailed, Activate, Disconnect, Restart

\* Outside the slots given back, ids mean what they say.
LEMMA StepIds ==
  ASSUME DirectoryTypeOK, ClaimsSound, ClaimsExclusive, IdsSound, NEW s \in Senders
  PROVE  Action(s) => IdsSound'
<1>1. CASE ConnectBegin(s)
  BY <1>1, DirectoryAssumption DEF ConnectBegin, MoveTo, Goto, IdsSound, ConnectionsAreAttributed,
     DirectoryTypeOK, ClaimsSound, ClaimsExclusive, Claiming
<1>2. CASE LookupFound(s)
  BY <1>2, DirectoryAssumption DEF LookupFound, Searched, Valid, Goto, IdsSound, ConnectionsAreAttributed,
     DirectoryTypeOK, ClaimsSound, ClaimsExclusive, Claiming
<1>3. CASE LookupNext(s)
  BY <1>3, DirectoryAssumption DEF LookupNext, Searched, MoveTo, IdsSound, ConnectionsAreAttributed,
     DirectoryTypeOK, ClaimsSound, ClaimsExclusive, Claiming
<1>4. CASE LookupFailed(s)
  BY <1>4, DirectoryAssumption DEF LookupFailed, Searched, LimitReached, MoveTo, Goto, IdsSound,
     ConnectionsAreAttributed, DirectoryTypeOK, ClaimsSound, ClaimsExclusive, Claiming
<1>5. CASE ClaimSlot(s)
  BY SMTT(30), <1>5, DirectoryAssumption DEF ClaimSlot, Goto, IdsSound, ConnectionsAreAttributed,
     DirectoryTypeOK, ClaimsSound, ClaimsExclusive, Claiming, Slots
<1>6. CASE ClaimNext(s)
  BY <1>6, DirectoryAssumption DEF ClaimNext, MoveTo, IdsSound, ConnectionsAreAttributed, DirectoryTypeOK,
     ClaimsSound, ClaimsExclusive, Claiming
<1>7. CASE ClaimFailed(s)
  BY <1>7, DirectoryAssumption DEF ClaimFailed, Goto, IdsSound, ConnectionsAreAttributed, DirectoryTypeOK,
     ClaimsSound, ClaimsExclusive, Claiming
<1>8. CASE NameSlot(s)
  BY SMTT(30), <1>8, DirectoryAssumption DEF NameSlot, Goto, IdsSound, ConnectionsAreAttributed,
     DirectoryTypeOK, ClaimsSound, ClaimsExclusive, Claiming
<1>9. CASE InitFailed(s)
  BY <1>9, DirectoryAssumption DEF InitFailed, Goto, IdsSound, ConnectionsAreAttributed, DirectoryTypeOK,
     ClaimsSound, ClaimsExclusive, Claiming
<1>10. CASE Activate(s)
  BY SMTT(30), <1>10, DirectoryAssumption DEF Activate, Goto, IdsSound, ConnectionsAreAttributed,
     DirectoryTypeOK, ClaimsSound, ClaimsExclusive, Claiming
<1>11. CASE Publish(s)
  BY <1>11, DirectoryAssumption DEF Publish, Goto, IdsSound, ConnectionsAreAttributed, DirectoryTypeOK,
     ClaimsSound, ClaimsExclusive, Claiming
<1>12. CASE Disconnect(s)
  BY <1>12, DirectoryAssumption DEF Disconnect, IdsSound, ConnectionsAreAttributed, DirectoryTypeOK,
     ClaimsSound, ClaimsExclusive, Claiming
<1>13. CASE Restart(s)
  BY <1>13, DirectoryAssumption DEF Restart, Goto, IdsSound, ConnectionsAreAttributed, DirectoryTypeOK,
     ClaimsSound, ClaimsExclusive, Claiming
<1> QED
  BY <1>1, <1>2, <1>3, <1>4, <1>5, <1>6, <1>7, <1>8, <1>9, <1>10, <1>11, <1>12, <1>13 DEF Action

\* A step keeps the connections of senders that are never killed on active queues:
\* such a sender never finds its id in a slot that is not active.
LEMMA StepInits ==
  ASSUME DirectoryTypeOK, ClaimsSound, ClaimsExclusive, IdsSound, InitsSound, NEW s \in Senders
  PROVE  Action(s) => InitsSound'
<1>1. CASE ConnectBegin(s)
  BY SMTT(30), <1>1, DirectoryAssumption DEF ConnectBegin, MoveTo, Goto, InitsSound, ConnectionsAreReceived,
     IdsSound, DirectoryTypeOK, ClaimsSound, ClaimsExclusive, Claiming, Slots
<1>2. CASE LookupFound(s)
  BY SMTT(30), <1>2, DirectoryAssumption DEF LookupFound, Searched, Valid, Goto, InitsSound,
     ConnectionsAreReceived, IdsSound, DirectoryTypeOK, ClaimsSound, ClaimsExclusive, Claiming, Slots
<1>3. CASE LookupNext(s)
  BY SMTT(30), <1>3, DirectoryAssumption DEF LookupNext, Searched, MoveTo, InitsSound, ConnectionsAreReceived,
     IdsSound, DirectoryTypeOK, ClaimsSound, ClaimsExclusive, Claiming, Slots
<1>4. CASE LookupFailed(s)
  BY SMTT(30), <1>4, DirectoryAssumption DEF LookupFailed, Searched, LimitReached, MoveTo, Goto, InitsSound,
     ConnectionsAreReceived, IdsSound, DirectoryTypeOK, ClaimsSound, ClaimsExclusive, Claiming, Slots
<1>5. CASE ClaimSlot(s)
  BY SMTT(30), <1>5, DirectoryAssumption DEF ClaimSlot, Goto, InitsSound, ConnectionsAreReceived, IdsSound,
     DirectoryTypeOK, ClaimsSound, ClaimsExclusive, Claiming, Slots
<1>6. CASE ClaimNext(s)
  BY SMTT(30), <1>6, DirectoryAssumption DEF ClaimNext, MoveTo, InitsSound, ConnectionsAreReceived, IdsSound,
     DirectoryTypeOK, ClaimsSound, ClaimsExclusive, Claiming, Slots
<1>7. CASE ClaimFailed(s)
  BY SMTT(30), <1>7, DirectoryAssumption DEF ClaimFailed, Goto, InitsSound, ConnectionsAreReceived, IdsSound,
     DirectoryTypeOK, ClaimsSound, ClaimsExclusive, Claiming, Slots
<1>8. CASE NameSlot(s)
  BY SMTT(30), <1>8, DirectoryAssumption DEF NameSlot, Goto, InitsSound, ConnectionsAreReceived, IdsSound,
     DirectoryTypeOK, ClaimsSound, ClaimsExclusive, Claiming, Slots
<1>9. CASE InitFailed(s)
  BY SMTT(30), <1>9, DirectoryAssumption DEF InitFailed, Goto, InitsSound, ConnectionsAreReceived, IdsSound,
     DirectoryTypeOK, ClaimsSound, ClaimsExclusive, Claiming, Slots
<1>10. CASE Activate(s)
  BY SMTT(30), <1>10, DirectoryAssumption DEF Activate, Goto, InitsSound, ConnectionsAreReceived, IdsSound,
     DirectoryTypeOK, ClaimsSound, ClaimsExclusive, Claiming, Slots
<1>11. CASE Publish(s)
  BY SMTT(30), <1>11, DirectoryAssumption DEF Publish, Goto, InitsSound, ConnectionsAreReceived, IdsSound,
     DirectoryTypeOK, ClaimsSound, ClaimsExclusive, Claiming, Slots
<1>12. CASE Disconnect(s)
  BY SMTT(30), <1>12, DirectoryAssumption DEF Disconnect, InitsSound, ConnectionsAreReceived, IdsSound,
     DirectoryTypeOK, ClaimsSound, ClaimsExclusive, Claiming, Slots
<1>13. CASE Restart(s)
  BY SMTT(30), <1>13, DirectoryAssumption DEF Restart, Goto, InitsSound, ConnectionsAreReceived, IdsSound,
     DirectoryTypeOK, ClaimsSound, ClaimsExclusive, Claiming, Slots
<1> QED
  BY <1>1, <1>2, <1>3, <1>4, <1>5, <1>6, <1>7, <1>8, <1>9, <1>10, <1>11, <1>12, <1>13 DEF Action

\* A taken slot stays taken unless it is given back, and that is remembered.
LEMMA StepTaken ==
  ASSUME DirectoryTypeOK, ClaimsSound, PassedTaken, NEW s \in Senders
  PROVE  Action(s) => /\ PassedTaken'
                      /\ Taken \subseteq Taken' \cup givenBack' /\ givenBack \subseteq givenBack'
<1>1. CASE ConnectBegin(s)
  BY <1>1, DirectoryAssumption DEF ConnectBegin, MoveTo, Goto, PassedTaken, Taken, DirectoryTypeOK, ClaimsSound,
     Claiming, Slots
<1>2. CASE LookupFound(s)
  BY <1>2, DirectoryAssumption DEF LookupFound, Searched, Valid, Goto, PassedTaken, Taken, DirectoryTypeOK,
     ClaimsSound, Claiming, Slots
<1>3. CASE LookupNext(s)
  BY <1>3, DirectoryAssumption DEF LookupNext, Searched, MoveTo, PassedTaken, Taken, DirectoryTypeOK,
     ClaimsSound, Claiming, Slots
<1>4. CASE LookupFailed(s)
  BY SMTT(30), <1>4, DirectoryAssumption DEF LookupFailed, Searched, LimitReached, MoveTo, Goto, PassedTaken,
     Taken, DirectoryTypeOK, ClaimsSound, Claiming, Slots
<1>5. CASE ClaimSlot(s)
  BY SMTT(30), <1>5, DirectoryAssumption DEF ClaimSlot, Goto, PassedTaken, Taken, DirectoryTypeOK, ClaimsSound,
     Claiming, Slots
<1>6. CASE ClaimNext(s)
  BY SMTT(30), <1>6, DirectoryAssumption DEF ClaimNext, MoveTo, PassedTaken, Taken, DirectoryTypeOK,
     ClaimsSound, Claiming, Slots
<1>7. CASE ClaimFailed(s)
  BY <1>7, DirectoryAssumption DEF ClaimFailed, Goto, PassedTaken, Taken, DirectoryTypeOK, ClaimsSound,
     Claiming, Slots
<1>8. CASE NameSlot(s)
  BY <1>8, DirectoryAssumption DEF NameSlot, Goto, PassedTaken, Taken, DirectoryTypeOK, ClaimsSound, Claiming,
     Slots
<1>9. CASE InitFailed(s)
  BY SMTT(30), <1>9, DirectoryAssumption DEF InitFailed, Goto, PassedTaken, Taken, DirectoryTypeOK, ClaimsSound,
     Claiming, Slots
<1>10. CASE Activate(s)
  BY SMTT(30), <1>10, DirectoryAssumption DEF Activate, Goto, PassedTaken, Taken, DirectoryTypeOK, ClaimsSound,
     Claiming, Slots
<1>11. CASE Publish(s)
  BY <1>11, DirectoryAssumption DEF Publish, Goto, PassedTaken, Taken, DirectoryTypeOK, ClaimsSound, Claiming,
     Slots
<1>12. CASE Disconnect(s)
  BY <1>12, DirectoryAssumption DEF Disconnect, PassedTaken, Taken, DirectoryTypeOK, ClaimsSound, Claiming,
     Slots
<1>13. CASE Restart(s)
  BY <1>13, DirectoryAssumption DEF Restart, Goto, PassedTaken, Taken, DirectoryTypeOK, ClaimsSound, Claiming,
     Slots
<1> QED
  BY <1>1, <1>2, <1>3, <1>4, <1>5, <1>6, <1>7, <1>8, <1>9, <1>10, <1>11, <1>12, <1>13 DEF Action

\* A refusal is justified when it is made and stays so.
LEMMA StepRefused ==
  ASSUME DirectoryTypeOK, ClaimsSound, CountsPublished, PassedTaken, RefusedOnlyWhenFull,
         NEW s \in Senders, Action(s)
  PROVE  RefusedOnlyWhenFull'
<1> SUFFICES ASSUME givenBack' = {} PROVE RefusedOnlyWhenFull'
  BY DEF RefusedOnlyWhenFull
<1>1. Taken \subseteq Taken' /\ Taken' \subseteq Slots /\ givenBack = {}
  BY StepTaken DEF Taken
<1>2. /\ Cardinality(Taken) \in Nat /\ Cardinality(Taken') \in Nat
      /\ Cardinality(Taken) <= Cardinality(Taken')
  BY <1>1, SlotSets
<1>3. Published \subseteq Taken /\ Taken \subseteq Slots
  BY SMTT(30) DEF Published, Taken
<1>4. Cardinality(Published) \in Nat /\ Cardinality(Published) <= Cardinality(Taken)
  BY <1>3, SlotSets
<1>5. MaxQueues \in Nat /\ NumSlots \in Nat /\ MaxQueues <= NumSlots
  BY SMTT(30), DirectoryAssumption
<1>6. ASSUME pc'[s] = "refused"
      PROVE  Cardinality(Taken') >= MaxQueues
  <2>1. CASE LookupFailed(s)
    <3>1. loaded[s] >= MaxQueues
      BY <1>6, <2>1 DEF LookupFailed, Goto, LimitReached, DirectoryTypeOK
    <3> QED
      BY SMTT(30), <1>2, <1>4, <1>5, <3>1 DEF CountsPublished, DirectoryTypeOK
  <2>2. CASE ClaimFailed(s)
    <3>1. Taken = Slots
      BY SMTT(30), <1>1, <1>5, <2>2 DEF ClaimFailed, PassedTaken, Taken, Slots, DirectoryTypeOK
    <3> QED
      BY SMTT(30), <1>1, <1>2, <1>5, <3>1, SlotCount
  <2>3. CASE pc[s] = "refused" /\ pc' = pc
    BY SMTT(30), <1>1, <1>2, <1>5, <2>3 DEF RefusedOnlyWhenFull
  <2>4. ~InitFailed(s)
    BY DEF InitFailed
  <2> QED
    BY <1>6, <2>1, <2>2, <2>3, <2>4 DEF Action, ConnectBegin, LookupFound, LookupNext, ClaimSlot, ClaimNext,
       NameSlot, Activate, Publish, Disconnect, Restart, Goto, DirectoryTypeOK
<1>7. \A t \in Senders : t # s => pc'[t] = pc[t]
  BY DEF Action, ConnectBegin, LookupFound, LookupNext, LookupFailed, ClaimSlot, ClaimNext, ClaimFailed,
     NameSlot, InitFailed, Activate, Publish, Disconnect, Restart, Goto, DirectoryTypeOK
<1> QED
  BY SMTT(30), <1>1, <1>2, <1>5, <1>6, <1>7 DEF RefusedOnlyWhenFull

\* The invariant is inductive.
LEMMA DirectoryGoesOn == DirectoryIInv /\ [DirectoryNext]_directoryVars => DirectoryIInv'
<1> SUFFICES ASSUME DirectoryIInv, [DirectoryNext]_directoryVars PROVE DirectoryIInv'
  OBVIOUS
<1>0. /\ DirectoryTypeOK /\ ClaimsSound /\ ClaimsExclusive /\ CountsPublished
      /\ IdsSound /\ InitsSound /\ PassedTaken /\ RefusedOnlyWhenFull
  BY DEF DirectoryIInv
<1>1. CASE DirectoryNext
  <2>1. PICK s \in Senders : Action(s)
    BY <1>1 DEF DirectoryNext, Action
  <2>2. DirectoryTypeOK' /\ ClaimsSound' /\ ClaimsExclusive'
    BY <1>0, <2>1, StepType, StepClaims
  <2>3. CountsPublished'
    BY <1>0, <2>1, <2>2, StepCount
  <2>4. IdsSound' /\ InitsSound' /\ PassedTaken' /\ RefusedOnlyWhenFull'
    BY <1>0, <2>1, StepIds, StepInits, StepTaken, StepRefused
  <2> QED
    BY <2>2, <2>3, <2>4 DEF DirectoryIInv
<1>2. CASE UNCHANGED directoryVars
  <2>1. DirectoryTypeOK' /\ ClaimsSound' /\ ClaimsExclusive'
    BY <1>0, <1>2 DEF directoryVars, DirectoryTypeOK, ClaimsSound, ClaimsExclusive, Claiming
  <2>2. CountsPublished' /\ RefusedOnlyWhenFull'
    BY <1>0, <1>2 DEF directoryVars, CountsPublished, Published, RefusedOnlyWhenFull, Taken
  <2>3. IdsSound' /\ InitsSound' /\ PassedTaken'
    BY SMTT(30), <1>0, <1>2 DEF directoryVars, IdsSound, ConnectionsAreAttributed, InitsSound,
       ConnectionsAreReceived, PassedTaken
  <2> QED
    BY <2>1, <2>2, <2>3 DEF DirectoryIInv
<1> QED
  BY <1>1, <1>2

\* The invariant holds throughout.
THEOREM DirectoryInvariant == DirectorySpec => []DirectoryIInv
BY DirectoryStarts, DirectoryGoesOn, PTL DEF DirectorySpec

\* Type correctness of the table and of every search.
THEOREM TypeCorrect == DirectorySpec => []DirectoryTypeOK
<1>1. DirectoryIInv => DirectoryTypeOK
  BY DEF DirectoryIInv
<1> QED
  BY <1>1, DirectoryInvariant, PTL

\* Every ring has at most one producer: findOrCreateQueue never hands a slot to
\* two senders, for any number of senders, slots, crashes and restarts.  Only a
\* slot given back after a failed sem_init (semaphore mode) is excepted.
THEOREM SingleProducer == DirectorySpec => []OneProducerPerQueue
<1>1. DirectoryIInv => OneProducerPerQueue
  <2> SUFFICES ASSUME DirectoryIInv, NEW s \in Senders, NEW t \in Senders, s # t
               PROVE  Uses(s) \cap Uses(t) \subseteq givenBack
    BY DEF OneProducerPerQueue
  <2>1. ClaimsSound /\ ClaimsExclusive /\ IdsSound /\ ConnectionsAreAttributed /\ DirectoryTypeOK
    BY DEF DirectoryIInv, IdsSound
  <2>2. mine[s] # None /\ mine[t] # None /\ mine[s] = mine[t] => mine[s] \in givenBack
    BY <2>1 DEF ConnectionsAreAttributed
  <2>3. Claiming(s) /\ Claiming(t) => at[s] # at[t]
    BY <2>1 DEF ClaimsExclusive
  <2>4. ASSUME NEW u \in Senders, NEW v \in Senders, u # v, mine[u] # None, Claiming(v),
               mine[u] = at[v]
        PROVE  at[v] \in givenBack
    <3>1. sender[at[v]] \in {None, v} \/ at[v] \in givenBack
      BY <2>1, <2>4 DEF ClaimsSound, IdsSound, Claiming
    <3> QED
      BY <2>1, <2>4, <3>1, DirectoryAssumption DEF ConnectionsAreAttributed
  <2> QED
    BY <2>2, <2>3, <2>4 DEF Uses, Claiming
<1> QED
  BY <1>1, DirectoryInvariant, PTL

\* Under the same exception the receive loop attributes messages to the sender
\* that sent them.
THEOREM Attributed == DirectorySpec => []ConnectionsAreAttributed
<1>1. DirectoryIInv => ConnectionsAreAttributed
  BY DEF DirectoryIInv, IdsSound
<1> QED
  BY <1>1, DirectoryInvariant, PTL

\* A sender that is never killed sends into queues that the receive loop reads.
THEOREM Received == DirectorySpec => []ConnectionsAreReceived
<1>1. DirectoryIInv => ConnectionsAreReceived
  BY DEF DirectoryIInv, InitsSound
<1> QED
  BY <1>1, DirectoryInvariant, PTL

\* num_queues never runs ahead of the active queues, whoever dies between
\* activating a queue and counting it.
THEOREM CountNeverAhead == DirectorySpec => []CountBehindTable
<1>1. DirectoryIInv => CountBehindTable
  <2> SUFFICES ASSUME DirectoryIInv PROVE CountBehindTable
    OBVIOUS
  <2> DEFINE Active == {i \in Slots : flags[i] = 3}
  <2>1. Published \subseteq Active /\ Active \subseteq Slots
    BY DEF Published
  <2>2. /\ Cardinality(Published) \in Nat /\ Cardinality(Active) \in Nat
        /\ Cardinality(Published) <= Cardinality(Active)
    BY <2>1, SlotSets
  <2>3. numQueues \in Nat /\ numQueues <= Cardinality(Published)
    BY DEF DirectoryIInv, DirectoryTypeOK, CountsPublished
  <2>4. numQueues <= Cardinality(Active)
    BY SMTT(30), <2>2, <2>3
  <2> QED
    BY <2>4 DEF CountBehindTable
<1> QED
  BY <1>1, DirectoryInvariant, PTL

\* A sender is turned away only when max_queues slots, or all, are in use.
THEOREM RefusalJustified == DirectorySpec => []RefusedOnlyWhenFull
<1>1. DirectoryIInv => RefusedOnlyWhenFull
  BY DEF DirectoryIInv
<1> QED
  BY <1>1, DirectoryInvariant, PTL

\* An active queue stays active and keeps its sender.
THEOREM ActiveForEver == DirectorySpec => ActiveQueuesStay
<1> DEFINE Stays == \A i \in Slots : flags[i] = 3 => flags'[i] = 3 /\ sender'[i] = sender[i]
<1>1. DirectoryIInv /\ [DirectoryNext]_directoryVars => [Stays]_directoryVars
  <2> SUFFICES ASSUME DirectoryIInv, NEW s \in Senders, Action(s) PROVE Stays
    BY DEF DirectoryNext, Action
  <2>1. DirectoryTypeOK /\ ClaimsSound
    BY DEF DirectoryIInv
  <2>2. CASE flags' = flags /\ sender' = sender
    BY <2>2
  <2>3. CASE ClaimSlot(s)
    BY SMTT(30), <2>1, <2>3 DEF ClaimSlot, DirectoryTypeOK
  <2>4. CASE NameSlot(s)
    BY SMTT(30), <2>1, <2>4 DEF NameSlot, DirectoryTypeOK, ClaimsSound, Claiming
  <2>5. CASE InitFailed(s)
    BY SMTT(30), <2>1, <2>5 DEF InitFailed, DirectoryTypeOK, ClaimsSound, Claiming
  <2>6. CASE Activate(s)
    BY SMTT(30), <2>1, <2>6 DEF Activate, DirectoryTypeOK, ClaimsSound, Claiming
  <2> QED
    BY <2>2, <2>3, <2>4, <2>5, <2>6 DEF Action, ConnectBegin, LookupFound, LookupNext, LookupFailed, ClaimNext,
       ClaimFailed, Publish, Disconnect, Restart
<1> QED
  BY <1>1, DirectoryInvariant, PTL DEF DirectorySpec, ActiveQueuesStay
=============================================================================
