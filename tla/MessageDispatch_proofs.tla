------------------------ MODULE MessageDispatch_proofs ------------------------
(***************************************************************************)
(* The inductive invariant of MessageDispatch and its theorems, for any    *)
(* number of publishers, topics and processing threads, any queue and      *)
(* batch size, and whatever the user's code does.                          *)
(***************************************************************************)
EXTENDS MessageDispatch, TLAPS

\* Leaves go to Zenon unless they name another prover.
USE Zenon

(* Sequences *)

\* What remains of a sequence without its first element.
LEMMA TailFacts ==
  ASSUME NEW S, NEW q \in Seq(S), q # <<>>
  PROVE  /\ Len(q) \in Nat \ {0} /\ Head(q) = q[1] /\ Head(q) \in S
         /\ Tail(q) \in Seq(S) /\ Len(Tail(q)) = Len(q) - 1
         /\ \A i \in 1 .. Len(q) - 1 : Tail(q)[i] = q[i + 1]
  BY SMTT(30)

\* A sequence with an element appended.
LEMMA AppendFacts ==
  ASSUME NEW S, NEW q \in Seq(S), NEW m \in S
  PROVE  /\ Append(q, m) \in Seq(S) /\ Len(q) \in Nat /\ Len(Append(q, m)) = Len(q) + 1
         /\ \A i \in 1 .. Len(q) : Append(q, m)[i] = q[i]
         /\ Append(q, m)[Len(q) + 1] = m
  BY SMTT(30)

\* The queue after a push: Append(q, m) with at most one message taken from its
\* beginning, or, under DROP_NEWEST, from its end.
LEMMA PushedQueue ==
  ASSUME NEW q \in Seq(Message), NEW m \in Message, Len(q) <= MaxQueue, policy \in Policies
  PROVE  /\ Pushed(q, m) \in Seq(Message) /\ Len(Pushed(q, m)) <= MaxQueue
         /\ Len(Pushed(q, m)) = IF IsFull(q) THEN Len(q) ELSE Len(q) + 1
         /\ \E d \in {0, 1} : \A i \in 1 .. Len(Pushed(q, m)) :
              \/ i + d \in 1 .. Len(q) /\ Pushed(q, m)[i] = q[i + d]
              \/ i + d = Len(q) + 1 /\ Pushed(q, m)[i] = m
  <1>1. PICK r : r = Pushed(q, m) OBVIOUS
  <1>2. Len(q) \in Nat /\ MaxQueue \in Nat \ {0} BY SMTT(30), DispatchAssumption DEF DispatchAssumption
  <1> SUFFICES /\ r \in Seq(Message) /\ Len(r) <= MaxQueue
               /\ Len(r) = IF IsFull(q) THEN Len(q) ELSE Len(q) + 1
               /\ \E d \in {0, 1} : \A i \in 1 .. Len(r) :
                    \/ i + d \in 1 .. Len(q) /\ r[i] = q[i + d]
                    \/ i + d = Len(q) + 1 /\ r[i] = m
    BY <1>1
  <1>3. CASE ~IsFull(q)
    <2>1. r = Append(q, m) BY <1>1, <1>3 DEF Pushed
    <2>2. r \in Seq(Message) /\ Len(r) = Len(q) + 1 /\ r[Len(q) + 1] = m /\ \A i \in 1 .. Len(q) : r[i] = q[i]
      BY SMTT(30), <2>1, AppendFacts
    <2>3. \A i \in 1 .. Len(r) : \/ i + 0 \in 1 .. Len(q) /\ r[i] = q[i + 0]
                                 \/ i + 0 = Len(q) + 1 /\ r[i] = m
      BY SMTT(30), <1>2, <2>2
    <2>4. Len(r) <= MaxQueue BY SMTT(30), <1>2, <1>3, <2>2 DEF IsFull
    <2>5. QED BY <1>3, <2>2, <2>3, <2>4
  <1>4. CASE IsFull(q) /\ policy = "DROP_NEWEST"
    <2>1. r = q BY <1>1, <1>4 DEF Pushed, Overflow
    <2>2. \A i \in 1 .. Len(r) : i + 0 \in 1 .. Len(q) /\ r[i] = q[i + 0] BY SMTT(30), <1>2, <2>1
    <2>3. QED BY <1>4, <2>1, <2>2
  <1>5. CASE IsFull(q) /\ policy # "DROP_NEWEST"
    <2>1. r = Append(Tail(q), m) BY <1>1, <1>5 DEF Pushed, Overflow, Policies
    <2>2. q # <<>> BY SMTT(30), <1>2, <1>5 DEF IsFull
    <2>3. PICK u \in Seq(Message) : u = Tail(q) BY <2>2, TailFacts
    <2>4. Len(u) = Len(q) - 1 /\ \A i \in 1 .. Len(q) - 1 : u[i] = q[i + 1] BY <2>2, <2>3, TailFacts
    <2>5. /\ r \in Seq(Message) /\ Len(r) = Len(u) + 1
          /\ \A i \in 1 .. Len(u) : r[i] = u[i]
          /\ r[Len(u) + 1] = m
      BY SMTT(30), <2>1, <2>3, AppendFacts
    <2>6. \A i \in 1 .. Len(r) : \/ i + 1 \in 1 .. Len(q) /\ r[i] = q[i + 1]
                                 \/ i + 1 = Len(q) + 1 /\ r[i] = m
      BY SMTT(30), <1>2, <2>4, <2>5
    <2>7. Len(r) = Len(q) BY SMTT(30), <1>2, <2>4, <2>5
    <2>8. QED BY <1>5, <2>5, <2>6, <2>7
  <1>6. QED BY <1>3, <1>4, <1>5

\* The batch a thread takes and the queue it leaves are the queue in two pieces.
LEMMA TakenBatch ==
  ASSUME NEW q \in Seq(Message), NEW n \in 1 .. Len(q)
  PROVE  /\ SubSeq(q, 1, n) \in Seq(Message) /\ Len(SubSeq(q, 1, n)) = n
         /\ \A i \in 1 .. n : SubSeq(q, 1, n)[i] = q[i]
         /\ SubSeq(q, n + 1, Len(q)) \in Seq(Message) /\ Len(SubSeq(q, n + 1, Len(q))) = Len(q) - n
         /\ \A i \in 1 .. Len(q) - n : SubSeq(q, n + 1, Len(q))[i] = q[i + n]
  <1>1. Len(q) \in Nat /\ n \in Nat BY SMTT(30)
  <1>2. SubSeq(q, 1, n) \in Seq(Message) /\ Len(SubSeq(q, 1, n)) = n BY SMTT(30), <1>1
  <1>3. \A i \in 1 .. n : SubSeq(q, 1, n)[i] = q[i] BY SMTT(30), <1>1
  <1>4. SubSeq(q, n + 1, Len(q)) \in Seq(Message) /\ Len(SubSeq(q, n + 1, Len(q))) = Len(q) - n BY SMTT(30), <1>1
  <1>5. \A i \in 1 .. Len(q) - n : SubSeq(q, n + 1, Len(q))[i] = q[i + n] BY SMTT(30), <1>1
  <1>6. QED BY <1>2, <1>3, <1>4, <1>5
-----------------------------------------------------------------------------
(* Types *)

\* What the types say of the parts of the state, sequences apart.
LEMMA Parts ==
  ASSUME TypeOK
  PROVE  /\ setup \in UserCode
         /\ \A s \in Senders : packet[s] \in Message /\ sent[s] \in 0 .. MaxSends /\ Target(s) \in Workers
         /\ \A w \in Workers : queue[w] \in Seq(Message) /\ batch[w] \in Seq(Message)
         /\ MaxSends \in Nat \ {0} /\ MaxSubs \in Nat /\ NumThreads \in Nat \ {0}
  BY DispatchAssumption DEF DispatchAssumption, TypeOK, Target, Message

\* A message that no sender delivers has its type too.
LEMMA NoPacketType ==
  ASSUME NEW s \in Senders
  PROVE  NoPacket(s) \in Message /\ NoPacket(s).since = 0
  <1>1. (CHOOSE t \in Topics : TRUE) \in Topics BY DispatchAssumption DEF DispatchAssumption
  <1>2. QED BY SMTT(30), <1>1, DispatchAssumption DEF DispatchAssumption, NoPacket, Message

\* The application's steps keep the types.
LEMMA AppTypes ==
  ASSUME TypeOK, AppNext
  PROVE  TypeOK'
  <1> USE DEF subscription, sending, working, ending
  <1>0. setup.topics \subseteq Topics /\ setup.subscribes \in 0 .. MaxSubs /\ MaxSubs \in Nat
    BY Parts DEF UserCode
  <1>1. ASSUME NEW T \in SUBSET setup.topics, Subscribe(T) PROVE TypeOK'
    BY SMTT(30), <1>0, <1>1 DEF Subscribe, AppAt, TypeOK
  <1>2. ASSUME NEW T \in SUBSET setup.topics, Unsubscribe(T) PROVE TypeOK'
    BY SMTT(30), <1>0, <1>2 DEF Unsubscribe, AppAt, TypeOK
  <1>3. CASE Registered BY <1>3 DEF Registered, AppAt, TypeOK
  <1>4. CASE Greeted BY <1>4 DEF Greeted, AppAt, TypeOK
  <1>5. CASE LetGo BY <1>5 DEF LetGo, Release, AppAt, TypeOK, Holders
  <1>6. ASSUME NEW p \in Policies, SetQueueOverflowPolicy(p) PROVE TypeOK'
    BY <1>6 DEF SetQueueOverflowPolicy, TypeOK
  <1>7. QED BY <1>1, <1>2, <1>3, <1>4, <1>5, <1>6 DEF AppNext

\* What a step of the destructor leaves alone, and where it may be afterwards.
LEMMA DestructorTypes ==
  ASSUME TypeOK, DestructorSteps
  PROVE  TypeOK'
  <1> USE DEF subscription, sending, working, ending
  <1>1. CASE Stop BY <1>1 DEF Stop, TypeOK
  <1>2. CASE StopOthers
    <2>1. system' \in {"running", "publishing", "destroying", "missed", "gone"} BY <1>2 DEF StopOthers, TypeOK
    <2>2. QED BY <1>2, <2>1 DEF StopOthers, TypeOK
  <1>3. CASE Join \/ JoinSystem BY <1>3 DEF Join, JoinSystem, TypeOK
  <1>4. CASE JoinSelf BY <1>4 DEF JoinSelf, TypeOK
  <1>5. CASE DestroyTransport BY <1>5 DEF DestroyTransport, TypeOK
  <1>6. ASSUME NEW w \in Workers, NotifyAll(w) PROVE TypeOK'
    BY <1>6 DEF NotifyAll, TypeOK
  <1>7. QED BY <1>1, <1>2, <1>3, <1>4, <1>5, <1>6 DEF DestructorSteps

SystemNext == SystemSteps \/ SystemPublishes \/ SystemPrompted

\* The system thread's steps keep the types.
LEMMA SystemTypes ==
  ASSUME TypeOK, SystemNext
  PROVE  TypeOK'
  <1> USE DEF subscription, sending, working, ending
  <1>1. CASE SystemPublishes BY <1>1 DEF SystemPublishes, TypeOK, Holders
  <1>2. CASE SystemPublished
    <2>1. system' \in {"running", "destroying"} BY <1>2 DEF SystemPublished
    <2>2. holders' \subseteq Holders /\ destroyer' \in Holders \cup {Nobody} /\ dtor' \in {dtor, "flag"}
      BY <1>2 DEF SystemPublished, Release, TypeOK, Holders
    <2>3. UNCHANGED <<setup, subscription, sending, policy, queue, working, tally, notified, missed, touched>>
      BY <1>2 DEF SystemPublished, Release
    <2>4. QED BY <2>1, <2>2, <2>3 DEF TypeOK
  <1>3. CASE SystemPrompted \/ SystemEnds BY <1>3 DEF SystemPrompted, SystemEnds, TypeOK
  <1>4. QED BY <1>1, <1>2, <1>3 DEF SystemNext, SystemSteps

\* The counts of a thread are numbers, whatever is counted.
LEMMA CountType ==
  ASSUME TypeOK, NEW w \in Workers, NEW F \in SUBSET Fates, Count(w, F)
  PROVE  /\ tally' \in [Workers -> [Fates -> Nat]]
         /\ \A v \in Workers \ {w} : tally'[v] = tally[v]
         /\ \A f \in Fates : tally'[w][f] = IF f \in F THEN tally[w][f] + 1 ELSE tally[w][f]
  <1>1. tally \in [Workers -> [Fates -> Nat]] BY DEF TypeOK
  <1>2. QED BY SMTT(30), <1>1 DEF Count

\* The senders' steps keep the types.
LEMMA SenderTypes ==
  ASSUME TypeOK, NEW s \in Senders, SenderSteps(s) \/ \E t \in setup.topics : Deliver(s, t)
  PROVE  TypeOK'
  <1> USE DEF subscription, sending, working, ending
  <1>0. /\ setup.topics \subseteq Topics /\ setup.sends \in [Senders -> 0 .. MaxSends]
        /\ MaxSends \in Nat \ {0} /\ Target(s) \in Workers /\ packet[s] \in Message
    BY Parts DEF UserCode
  <1>1. ASSUME NEW t \in setup.topics, Deliver(s, t) PROVE TypeOK'
    <2>1. sent[s] + 1 \in 1 .. MaxSends /\ sent' = [sent EXCEPT ![s] = sent[s] + 1]
      BY SMTT(30), <1>0, <1>1 DEF Deliver, TypeOK
    <2>2. [from |-> s, topic |-> t, number |-> sent[s] + 1, since |-> 0] \in Message
      BY SMTT(30), <1>0, <2>1, Parts DEF Message
    <2>3. packet' \in [Senders -> Message]
      BY <1>1, <2>2 DEF Deliver, TypeOK
    <2>4. holders' \subseteq Holders BY SMTT(30), <1>1 DEF Deliver, TypeOK, Holders
    <2>5. QED BY SMTT(30), <1>1, <2>1, <2>3, <2>4 DEF Deliver, Goto, TypeOK
  <1>2. CASE Check(s)
    <2>1. packet' \in [Senders -> Message] BY <1>0, <1>2 DEF Check, TypeOK, Message
    <2>2. QED BY <1>2, <2>1 DEF Check, Goto, TypeOK
  <1>3. CASE Push(s)
    <2>1. /\ queue[Target(s)] \in Seq(Message) /\ Len(queue[Target(s)]) <= MaxQueue /\ policy \in Policies
          /\ queue' = [queue EXCEPT ![Target(s)] = Pushed(queue[Target(s)], packet[s])]
      BY <1>0, <1>3 DEF Push, TypeOK
    <2>2. Pushed(queue[Target(s)], packet[s]) \in Seq(Message) /\ Len(Pushed(queue[Target(s)], packet[s])) <= MaxQueue
      BY <1>0, <2>1, PushedQueue
    <2>3. queue' \in [Workers -> Seq(Message)] BY <1>0, <2>1, <2>2 DEF TypeOK
    <2>4. \A w \in Workers : Len(queue'[w]) <= MaxQueue BY <1>0, <2>1, <2>2 DEF TypeOK
    <2>5. tally' \in [Workers -> [Fates -> Nat]]
      <3>1. PICK F \in SUBSET Fates : Count(Target(s), F) BY <1>3 DEF Push, Fates
      <3>2. QED BY <1>0, <3>1, CountType
    <2>6. QED BY <1>3, <2>3, <2>4, <2>5 DEF Push, Goto, TypeOK
  <1>4. CASE Notify(s) BY ZenonT(40), <1>0, <1>4 DEF Notify, Goto, TypeOK
  <1>5. CASE Leave(s)
    <2>1. packet' \in [Senders -> Message] BY <1>5, NoPacketType DEF Leave, TypeOK
    <2>2. /\ holders' \subseteq Holders /\ destroyer' \in Holders \cup {Nobody}
          /\ dtor' \in {"none", "flag", "stop", "system", "notify", "transport", "done", "aborted"}
      BY <1>5 DEF Leave, Release, TypeOK, Holders
    <2>3. QED BY <1>5, <2>1, <2>2 DEF Leave, Release, Goto, TypeOK
  <1>6. CASE Touch(s) BY ZenonT(40), <1>6 DEF Touch, Goto, TypeOK
  <1>7. QED BY <1>1, <1>2, <1>3, <1>4, <1>5, <1>6 DEF SenderSteps
\* What a thread that finds messages takes.
LEMMA TestTakes ==
  ASSUME TypeOK, NEW w \in Workers, Test(w), queue' # queue \/ batch' # batch
  PROVE  \E n \in 1 .. Len(queue[w]) :
           /\ n <= MaxBatch /\ worker[w] = "test"
           /\ batch' = [batch EXCEPT ![w] = SubSeq(queue[w], 1, n)]
           /\ queue' = [queue EXCEPT ![w] = SubSeq(queue[w], n + 1, Len(queue[w]))]
           /\ worker' = [worker EXCEPT ![w] = "lookup"]
  <1>1. Len(queue[w]) \in Nat /\ MaxBatch \in Nat \ {0}
    BY SMTT(30), DispatchAssumption DEF DispatchAssumption, TypeOK
  <1>2. PICK n : n = IF Len(queue[w]) < MaxBatch THEN Len(queue[w]) ELSE MaxBatch OBVIOUS
  <1>3. n \in Nat /\ n <= Len(queue[w]) /\ n <= MaxBatch BY SMTT(30), <1>1, <1>2
  <1>4. /\ n # 0 /\ worker[w] = "test"
        /\ batch' = [batch EXCEPT ![w] = SubSeq(queue[w], 1, n)]
        /\ queue' = [queue EXCEPT ![w] = SubSeq(queue[w], n + 1, Len(queue[w]))]
        /\ worker' = [worker EXCEPT ![w] = "lookup"]
    BY <1>2 DEF Test, WorkerGoto
  <1>5. n \in 1 .. Len(queue[w]) BY SMTT(30), <1>1, <1>3, <1>4
  <1>6. QED BY <1>3, <1>4, <1>5

\* What is left of the batch, and where the thread goes, when a message is done.
LEMMA Advanced ==
  ASSUME TypeOK, NEW w \in Workers, NEW f \in Fates, Advance(w, f), batch[w] # <<>>
  PROVE  /\ batch' = [batch EXCEPT ![w] = Tail(batch[w])]
         /\ Tail(batch[w]) \in Seq(Message) /\ Len(Tail(batch[w])) = Len(batch[w]) - 1 /\ Len(batch[w]) \in Nat \ {0}
         /\ \A i \in 1 .. Len(batch[w]) - 1 : Tail(batch[w])[i] = batch[w][i + 1]
         /\ worker' = [worker EXCEPT ![w] = IF Len(batch[w]) = 1 THEN "test" ELSE "lookup"]
         /\ calling' = [calling EXCEPT ![w] = 0]
         /\ Count(w, {f}) /\ {f} \in SUBSET Fates
  <1>1. batch[w] \in Seq(Message) BY DEF TypeOK
  <1>2. QED BY <1>1, TailFacts DEF Advance, WorkerGoto

\* A thread that is done with a message keeps the types.
LEMMA AdvanceTypes ==
  ASSUME TypeOK, NEW w \in Workers, NEW f \in Fates, Advance(w, f), batch[w] # <<>>
  PROVE  /\ batch' \in [Workers -> Seq(Message)] /\ \A v \in Workers : Len(batch'[v]) <= MaxBatch
         /\ worker' \in [Workers -> Calling \cup {"test", "tested", "asleep", "lookup", "gone"}]
         /\ calling' \in [Workers -> 0 .. MaxSubs]
         /\ tally' \in [Workers -> [Fates -> Nat]]
  <1>1. Len(batch[w]) <= MaxBatch /\ MaxBatch \in Nat \ {0} /\ MaxSubs \in Nat
    BY DispatchAssumption DEF DispatchAssumption, TypeOK
  <1>2. batch' \in [Workers -> Seq(Message)] /\ \A v \in Workers : Len(batch'[v]) <= MaxBatch
    <2>1. PICK u \in Seq(Message) : u = Tail(batch[w]) /\ Len(u) = Len(batch[w]) - 1 BY Advanced
    <2>2. batch' = [batch EXCEPT ![w] = u] /\ Len(batch[w]) \in Nat BY <2>1, Advanced
    <2>3. batch \in [Workers -> Seq(Message)] /\ \A v \in Workers : Len(batch[v]) <= MaxBatch BY DEF TypeOK
    <2>4. Len(u) <= MaxBatch BY SMTT(30), <1>1, <2>1, <2>2
    <2>5. QED BY <2>2, <2>3, <2>4
  <1>3. worker' \in [Workers -> Calling \cup {"test", "tested", "asleep", "lookup", "gone"}]
    <2>1. worker' = [worker EXCEPT ![w] = IF Len(batch[w]) = 1 THEN "test" ELSE "lookup"] BY Advanced
    <2>2. QED BY <2>1 DEF TypeOK
  <1>4. calling' \in [Workers -> 0 .. MaxSubs]
    <2>1. calling' = [calling EXCEPT ![w] = 0] BY Advanced
    <2>2. QED BY SMTT(30), <1>1, <2>1 DEF TypeOK
  <1>5. tally' \in [Workers -> [Fates -> Nat]] BY Advanced, CountType
  <1>6. QED BY <1>2, <1>3, <1>4, <1>5

\* The processing threads' steps keep the types.
LEMMA WorkerTypes ==
  ASSUME TypeOK, NEW w \in Workers, WorkerSteps(w) \/ CallPublishes(w),
         worker[w] \in Calling \cup {"lookup"} => batch[w] # <<>>
  PROVE  TypeOK'
  <1> USE DEF subscription, sending, working, ending
  <1>1. CASE Test(w)
    <2>1. worker' \in [Workers -> Calling \cup {"test", "tested", "asleep", "lookup", "gone"}]
      <3>1. PICK l \in {"gone", "tested", "lookup"} : worker' = [worker EXCEPT ![w] = l]
        BY <1>1 DEF Test, WorkerGoto
      <3>2. QED BY <3>1 DEF TypeOK
    <2>2. /\ queue' \in [Workers -> Seq(Message)] /\ \A v \in Workers : Len(queue'[v]) <= MaxQueue
          /\ batch' \in [Workers -> Seq(Message)] /\ \A v \in Workers : Len(batch'[v]) <= MaxBatch
      <3>1. CASE queue' = queue /\ batch' = batch BY <3>1 DEF TypeOK
      <3>2. CASE queue' # queue \/ batch' # batch
        <4>1. PICK n \in 1 .. Len(queue[w]) :
                /\ n <= MaxBatch
                /\ batch' = [batch EXCEPT ![w] = SubSeq(queue[w], 1, n)]
                /\ queue' = [queue EXCEPT ![w] = SubSeq(queue[w], n + 1, Len(queue[w]))]
          BY <1>1, <3>2, TestTakes
        <4>2. queue[w] \in Seq(Message) /\ Len(queue[w]) \in Nat /\ Len(queue[w]) <= MaxQueue /\ MaxQueue \in Nat
          BY SMTT(30), DispatchAssumption DEF DispatchAssumption, TypeOK
        <4>3. PICK b \in Seq(Message) : b = SubSeq(queue[w], 1, n) /\ Len(b) = n
          BY <4>2, TakenBatch
        <4>4. PICK r \in Seq(Message) : r = SubSeq(queue[w], n + 1, Len(queue[w])) /\ Len(r) = Len(queue[w]) - n
          BY <4>2, TakenBatch
        <4>5. batch' = [batch EXCEPT ![w] = b] /\ queue' = [queue EXCEPT ![w] = r] BY <4>1, <4>3, <4>4
        <4>6. Len(b) <= MaxBatch /\ Len(r) <= MaxQueue BY SMTT(30), <4>1, <4>2, <4>3, <4>4
        <4>7. QED BY <4>5, <4>6 DEF TypeOK
      <3>3. QED BY <3>1, <3>2
    <2>3. QED BY <1>1, <2>1, <2>2 DEF Test, TypeOK
  <1>2. CASE Sleep(w) BY <1>2 DEF Sleep, WorkerGoto, TypeOK
  <1>3. CASE Lookup(w) /\ callback = 0
    <2>1. Advance(w, "unheard") /\ batch[w] # <<>> /\ "unheard" \in Fates BY <1>3 DEF Lookup, Fates
    <2>2. UNCHANGED <<setup, subscription, sending, policy, queue, last, system, holders, ending, touched>>
      BY <1>3 DEF Lookup
    <2>3. QED BY ZenonT(40), <2>1, <2>2, AdvanceTypes DEF TypeOK
  <1>4. CASE Lookup(w) /\ callback # 0
    <2>1. Head(batch[w]) \in Message BY <1>4, TailFacts DEF Lookup, TypeOK
    <2>2. last' \in [Senders -> [Topics -> 0 .. MaxSends]]
      <3>1. PICK m \in Message : m = Head(batch[w]) BY <2>1
      <3>2. last' = [last EXCEPT ![m.from][m.topic] = m.number] BY <1>4, <3>1 DEF Lookup
      <3>3. m.number \in 0 .. MaxSends /\ m.from \in Senders /\ m.topic \in Topics BY SMTT(30), Parts DEF Message
      <3>4. QED BY <3>2, <3>3 DEF TypeOK
    <2>3. calling' \in [Workers -> 0 .. MaxSubs] BY <1>4 DEF Lookup, TypeOK
    <2>4. worker' \in [Workers -> Calling \cup {"test", "tested", "asleep", "lookup", "gone"}]
      <3>1. worker' = [worker EXCEPT ![w] = "called"] BY <1>4 DEF Lookup, WorkerGoto
      <3>2. "called" \in Calling BY DEF Calling
      <3>3. QED BY <3>1, <3>2 DEF TypeOK
    <2>5. QED BY ZenonT(40), <1>4, <2>2, <2>3, <2>4 DEF Lookup, TypeOK
  <1>5. CASE CallPublished(w) BY <1>5 DEF CallPublished, Release, WorkerGoto, TypeOK, Calling, Holders
  <1>6. CASE Return(w)
    <2>1. Advance(w, "delivered") /\ batch[w] # <<>> /\ "delivered" \in Fates BY <1>6 DEF Return, Fates, Calling
    <2>2. UNCHANGED <<setup, subscription, sending, policy, queue, last, system, holders, ending, touched>>
      BY <1>6 DEF Return
    <2>3. QED BY ZenonT(40), <2>1, <2>2, AdvanceTypes DEF TypeOK
  <1>7. CASE CallPublishes(w)
    <2>1. worker' = [worker EXCEPT ![w] = "publishing"] /\ holders' = holders \cup {w}
      BY <1>7 DEF CallPublishes, WorkerGoto
    <2>2. worker' \in [Workers -> Calling \cup {"test", "tested", "asleep", "lookup", "gone"}]
      BY <2>1 DEF TypeOK, Calling
    <2>3. holders' \subseteq Holders BY <2>1 DEF TypeOK, Holders
    <2>4. QED BY <1>7, <2>2, <2>3 DEF CallPublishes, TypeOK
  <1>8. QED BY <1>1, <1>2, <1>3, <1>4, <1>5, <1>6, <1>7 DEF WorkerSteps
-----------------------------------------------------------------------------
(* Who holds the node, and the destructor *)

Kept == Held /\ TeardownOrder

\* Steps that move no sender, thread, holder or destructor.
LEMMA StillHeld ==
  ASSUME Kept, UNCHANGED <<setup, sender, worker, system, holders, destroyer, dtor, touched>>
  PROVE  Kept'
  BY DEF Kept, Held, TeardownOrder, QueuesExist

\* Once the destructor runs, nobody holds the node and no publisher delivers to it.
LEMMA Released ==
  ASSUME Kept, TypeOK, dtor # "none"
  PROVE  /\ holders = {} /\ system # "publishing"
         /\ (\A s \in Publishers : sender[s] = "idle") /\ \A w \in Workers : worker[w] # "publishing"
  BY DEF Kept, Held

\* The application's steps.
LEMMA AppHeld ==
  ASSUME Kept, TypeOK, AppNext
  PROVE  Kept'
  <1> USE DEF subscription, sending, working, ending
  <1>1. ASSUME NEW T \in SUBSET setup.topics, Subscribe(T) PROVE Kept' BY <1>1, StillHeld DEF Subscribe
  <1>2. ASSUME NEW T \in SUBSET setup.topics, Unsubscribe(T) PROVE Kept' BY <1>2, StillHeld DEF Unsubscribe
  <1>3. CASE Registered BY <1>3, StillHeld DEF Registered
  <1>4. CASE Greeted BY <1>4, StillHeld DEF Greeted
  <1>5. CASE LetGo
    <2>1. App \in holders /\ dtor = "none" BY <1>5, Released DEF LetGo, AppAt
    <2>2. App \notin Publishers /\ App \notin Workers /\ App # System BY DispatchAssumption DEF DispatchAssumption
    <2>3. Held' BY <1>5, <2>1, <2>2 DEF LetGo, Release, Kept, Held
    <2>4. TeardownOrder' BY <1>5, <2>1, <2>2 DEF LetGo, Release, Kept, TeardownOrder, QueuesExist
    <2>5. QED BY <2>3, <2>4 DEF Kept
  <1>6. ASSUME NEW p \in Policies, SetQueueOverflowPolicy(p) PROVE Kept' BY <1>6, StillHeld DEF SetQueueOverflowPolicy
  <1>7. QED BY <1>1, <1>2, <1>3, <1>4, <1>5, <1>6 DEF AppNext

\* The senders' steps: a publisher holds the node from its delivery to its end.
LEMMA SenderHeld ==
  ASSUME Kept, TypeOK, NEW s \in Senders, SenderSteps(s) \/ \E t \in setup.topics : Deliver(s, t)
  PROVE  Kept'
  <1> USE DEF subscription, sending, working, ending
  <1>0. /\ sender \in [Senders -> {"idle", "check", "push", "notify", "leave"}]
        /\ Publishers \subseteq Senders /\ (s \in Publishers \/ s = Receiver)
        /\ Receiver \notin Publishers
    BY DispatchAssumption DEF TypeOK, DispatchAssumption, Senders
  <1>1. ASSUME NEW t \in setup.topics, Deliver(s, t) PROVE Kept'
    <2>1. s \in Publishers => dtor = "none" BY <1>1, Released DEF Deliver
    <2>2. sender' = [sender EXCEPT ![s] = "check"] BY <1>1 DEF Deliver, Goto
    <2>3. UNCHANGED <<setup, worker, system, destroyer, dtor, touched>> BY <1>1 DEF Deliver
    <2>4. holders' = IF s \in Publishers THEN holders \cup {s} ELSE holders BY <1>1 DEF Deliver
    <2>5. Held' BY <1>0, <2>1, <2>2, <2>3, <2>4 DEF Kept, Held
    <2>6. TeardownOrder' BY <1>0, <2>1, <2>2, <2>3 DEF Kept, TeardownOrder, QueuesExist
    <2>7. QED BY <2>5, <2>6 DEF Kept
  <1>2. ASSUME NEW l \in {"push", "notify", "leave"}, sender[s] # "idle", sender' = [sender EXCEPT ![s] = l],
               UNCHANGED <<setup, worker, system, holders, destroyer, dtor>>,
               touched' = touched \/ (touched' = touched \cup {s} /\ ~QueuesExist)
        PROVE  Kept'
    <2>1. dtor # "none" => s = Receiver BY <1>0, <1>2, Released
    <2>2. Held' BY <1>0, <1>2 DEF Kept, Held
    <2>3. touched' \subseteq {Receiver} BY <1>2, <2>1 DEF Kept, TeardownOrder, QueuesExist
    <2>4. TeardownOrder' BY <1>0, <1>2, <2>1, <2>3 DEF Kept, TeardownOrder, QueuesExist
    <2>5. QED BY <2>2, <2>4 DEF Kept
  <1>3. CASE Check(s)
    <2>1. PICK l \in {"push", "leave"} : sender' = [sender EXCEPT ![s] = l] BY <1>3 DEF Check, Goto
    <2>2. sender[s] # "idle" /\ UNCHANGED <<setup, worker, system, holders, destroyer, dtor>> BY <1>3 DEF Check
    <2>3. touched' = touched BY <1>3 DEF Check
    <2>4. QED BY <1>2, <2>1, <2>2, <2>3
  <1>4. CASE Push(s)
    <2>1. sender' = [sender EXCEPT ![s] = "notify"] BY <1>4 DEF Push, Goto
    <2>2. sender[s] # "idle" /\ UNCHANGED <<setup, worker, system, holders, destroyer, dtor>> BY <1>4 DEF Push
    <2>3. touched' = touched BY <1>4 DEF Push
    <2>4. QED BY <1>2, <2>1, <2>2, <2>3
  <1>5. CASE Notify(s)
    <2>1. QueuesExist /\ sender[s] # "idle" /\ sender' = [sender EXCEPT ![s] = "leave"]
      BY <1>5 DEF Notify, Goto
    <2>2. UNCHANGED <<setup, system, holders, destroyer, dtor, touched>> BY <1>5 DEF Notify
    <2>3. \A w \in Workers : worker'[w] = "publishing" => worker[w] = "publishing"
      BY <1>5 DEF Notify, TypeOK
    <2>4. Held' BY <1>0, <2>1, <2>2, <2>3 DEF Kept, Held
    <2>5. TeardownOrder' BY <2>1, <2>2 DEF Kept, TeardownOrder, QueuesExist
    <2>6. QED BY <2>4, <2>5 DEF Kept
  <1>6. CASE Leave(s)
    <2>1. UNCHANGED <<setup, worker, system, touched>> /\ sender' = [sender EXCEPT ![s] = "idle"] BY <1>6 DEF Leave, Goto
    <2>2. CASE s \in Publishers
      <3>1. s \in holders /\ dtor = "none" /\ s \notin Workers /\ s # System
        BY <1>6, <2>2, Released, DispatchAssumption DEF DispatchAssumption, Leave, Kept, Held
      <3>2. holders' = holders \ {s} /\ dtor' = IF holders = {s} THEN "flag" ELSE dtor
        BY <1>6, <2>2 DEF Leave, Release
      <3>3. destroyer' = IF holders = {s} THEN s ELSE destroyer BY <1>6, <2>2 DEF Leave, Release
      <3>4. Held' BY <1>0, <2>1, <3>1, <3>2 DEF Kept, Held
      <3>5. TeardownOrder' BY <2>1, <3>1, <3>2, <3>3 DEF Kept, TeardownOrder, QueuesExist
      <3>6. QED BY <3>4, <3>5 DEF Kept
    <2>3. CASE s \notin Publishers
      <3>1. UNCHANGED <<holders, destroyer, dtor>> BY <1>6, <2>3 DEF Leave
      <3>2. QED BY <1>0, <2>1, <2>3, <3>1 DEF Kept, Held, TeardownOrder, QueuesExist
    <2>4. QED BY <2>2, <2>3
  <1>7. CASE Touch(s) BY <1>2, <1>7 DEF Touch, Goto
  <1>8. QED BY <1>1, <1>3, <1>4, <1>5, <1>6, <1>7 DEF SenderSteps

\* The processing threads' steps: none is left when the queues are destroyed.
LEMMA WorkerHeld ==
  ASSUME Kept, TypeOK, NEW w \in Workers, WorkerSteps(w) \/ CallPublishes(w)
  PROVE  Kept'
  <1> USE DEF subscription, sending, working, ending
  <1>0. worker[w] # "gone" /\ QueuesExist
    <2>1. worker[w] # "gone"
      BY DEF WorkerSteps, CallPublishes, Test, Sleep, Lookup, CallPublished, Return
    <2>2. QED BY <2>1 DEF Kept, TeardownOrder
  <1>1. ASSUME NEW l, l # "publishing", worker' = [worker EXCEPT ![w] = l],
               UNCHANGED <<setup, sender, system, holders, destroyer, dtor, touched>>
        PROVE  Kept'
    <2>1. \A v \in Workers : worker'[v] = "publishing" => worker[v] = "publishing" BY <1>1 DEF TypeOK
    <2>2. QED BY <1>0, <1>1, <2>1 DEF Kept, Held, TeardownOrder, QueuesExist
  <1>2. CASE Test(w)
    <2>1. PICK l \in {"gone", "tested", "lookup"} : worker' = [worker EXCEPT ![w] = l]
      BY <1>2 DEF Test, WorkerGoto
    <2>2. UNCHANGED <<setup, sender, system, holders, destroyer, dtor, touched>> BY <1>2 DEF Test
    <2>3. QED BY <1>1, <2>1, <2>2
  <1>3. CASE Sleep(w) BY <1>1, <1>3 DEF Sleep, WorkerGoto
  <1>4. CASE Lookup(w)
    <2>1. PICK l \in {"test", "lookup", "called"} : worker' = [worker EXCEPT ![w] = l]
      BY <1>4 DEF Lookup, Advance, WorkerGoto
    <2>2. UNCHANGED <<setup, sender, system, holders, destroyer, dtor, touched>> BY <1>4 DEF Lookup
    <2>3. QED BY <1>1, <2>1, <2>2
  <1>5. CASE CallPublished(w)
    <2>1. w \in holders /\ setup.publishes /\ dtor = "none" BY <1>5, Released DEF CallPublished, Kept, Held
    <2>2. /\ holders' = holders \ {w} /\ dtor' = IF holders = {w} THEN "flag" ELSE dtor
          /\ destroyer' = IF holders = {w} THEN w ELSE destroyer
      BY <1>5 DEF CallPublished, Release
    <2>3. UNCHANGED <<setup, sender, system, touched>> BY <1>5 DEF CallPublished
    <2>4. \A v \in Workers : worker'[v] = "publishing" => v # w /\ worker[v] = "publishing"
      BY <1>5 DEF CallPublished, WorkerGoto, TypeOK
    <2>5. w \notin Publishers /\ w # System BY DispatchAssumption DEF DispatchAssumption
    <2>6. Held' BY <2>1, <2>2, <2>3, <2>4, <2>5 DEF Kept, Held
    <2>7. TeardownOrder' BY <2>1, <2>2, <2>3 DEF Kept, TeardownOrder, QueuesExist
    <2>8. QED BY <2>6, <2>7 DEF Kept
  <1>6. CASE Return(w)
    <2>1. PICK l \in {"test", "lookup"} : worker' = [worker EXCEPT ![w] = l]
      BY <1>6 DEF Return, Advance, WorkerGoto
    <2>2. UNCHANGED <<setup, sender, system, holders, destroyer, dtor, touched>> BY <1>6 DEF Return
    <2>3. QED BY <1>1, <2>1, <2>2
  <1>7. CASE CallPublishes(w)
    <2>1. dtor = "none" /\ holders' = holders \cup {w} /\ setup.publishes BY <1>7, Released DEF CallPublishes
    <2>2. UNCHANGED <<setup, sender, system, destroyer, dtor, touched>> BY <1>7 DEF CallPublishes
    <2>3. \A v \in Workers : worker'[v] = "publishing" => v = w \/ worker[v] = "publishing"
      BY <1>7 DEF CallPublishes, WorkerGoto, TypeOK
    <2>4. Held' BY <2>1, <2>2, <2>3 DEF Kept, Held
    <2>5. TeardownOrder' BY <2>1, <2>2 DEF Kept, TeardownOrder, QueuesExist
    <2>6. QED BY <2>4, <2>5 DEF Kept
  <1>8. QED BY <1>2, <1>3, <1>4, <1>5, <1>6, <1>7 DEF WorkerSteps

\* The destructor's own steps.
LEMMA DestructorHeld ==
  ASSUME Kept, TypeOK, DestructorSteps
  PROVE  Kept'
  <1> USE DEF subscription, sending, working, ending
  <1>1. CASE Stop BY <1>1 DEF Stop, Kept, Held, TeardownOrder, QueuesExist
  <1>2. CASE StopOthers
    <2>1. dtor = "stop" /\ dtor' = "system" /\ UNCHANGED <<setup, sender, worker, holders, destroyer, touched>>
      BY <1>2 DEF StopOthers
    <2>2. system' # "publishing" BY <1>2, <2>1, Released DEF StopOthers
    <2>3. QED BY <2>1, <2>2 DEF Kept, Held, TeardownOrder, QueuesExist
  <1>3. CASE Join
    <2>1. \A s \in Publishers : sender[s] = "idle" BY <1>3, Released DEF Join
    <2>2. QED BY <1>3, <2>1 DEF Join, Kept, Held, TeardownOrder, QueuesExist
  <1>4. CASE JoinSelf BY <1>4 DEF JoinSelf, Kept, Held, TeardownOrder, QueuesExist
  <1>5. CASE DestroyTransport BY <1>5 DEF DestroyTransport, Kept, Held, TeardownOrder, QueuesExist
  <1>6. ASSUME NEW w \in Workers, NotifyAll(w) PROVE Kept'
    <2>1. \A v \in Workers : worker'[v] = "publishing" => worker[v] = "publishing" BY <1>6 DEF NotifyAll, TypeOK
    <2>2. dtor = "notify" /\ UNCHANGED <<setup, sender, system, holders, destroyer, dtor, touched>> BY <1>6 DEF NotifyAll
    <2>3. QED BY <2>1, <2>2 DEF Kept, Held, TeardownOrder, QueuesExist
  <1>7. CASE JoinSystem BY <1>7 DEF JoinSystem, Kept, Held, TeardownOrder, QueuesExist
  <1>8. QED BY <1>1, <1>2, <1>3, <1>4, <1>5, <1>6, <1>7 DEF DestructorSteps

\* The system thread's steps: it too holds the node while its callback publishes.
LEMMA SystemHeld ==
  ASSUME Kept, TypeOK, SystemNext
  PROVE  Kept'
  <1> USE DEF subscription, sending, working, ending
  <1>1. CASE SystemPublishes
    <2>1. dtor = "none" /\ setup.publishes /\ holders' = holders \cup {System}
      BY <1>1, Released DEF SystemPublishes
    <2>2. UNCHANGED <<setup, sender, worker, destroyer, dtor, touched>> BY <1>1 DEF SystemPublishes
    <2>3. QED BY <2>1, <2>2 DEF Kept, Held, TeardownOrder, QueuesExist
  <1>2. CASE SystemPublished
    <2>1. system = "publishing" /\ system' # "publishing" BY <1>2 DEF SystemPublished, SystemAt
    <2>2. System \in holders /\ setup.publishes /\ dtor = "none" BY <2>1, Released DEF Kept, Held
    <2>3. /\ holders' = holders \ {System} /\ dtor' = IF holders = {System} THEN "flag" ELSE dtor
          /\ destroyer' = IF holders = {System} THEN System ELSE destroyer
      BY <1>2 DEF SystemPublished, Release
    <2>4. UNCHANGED <<setup, sender, worker, touched>> BY <1>2 DEF SystemPublished
    <2>5. System \notin Publishers /\ System \notin Workers BY DispatchAssumption DEF DispatchAssumption
    <2>6. Held' BY <2>1, <2>2, <2>3, <2>4, <2>5 DEF Kept, Held
    <2>7. TeardownOrder' BY <2>2, <2>3, <2>4 DEF Kept, TeardownOrder, QueuesExist
    <2>8. QED BY <2>6, <2>7 DEF Kept
  <1>3. CASE SystemPrompted \/ SystemEnds
    <2>1. system # "gone" /\ system' \in {"running", "gone"} BY <1>3 DEF SystemPrompted, SystemEnds, SystemAt
    <2>2. UNCHANGED <<setup, sender, worker, holders, destroyer, dtor, touched>> BY <1>3 DEF SystemPrompted, SystemEnds
    <2>3. QED BY <2>1, <2>2 DEF Kept, Held, TeardownOrder, QueuesExist
  <1>4. QED BY <1>1, <1>2, <1>3 DEF SystemNext, SystemSteps
-----------------------------------------------------------------------------
(* The messages *)

Recent(w) == worker[w] \in Calling => calling[w] >= Head(batch[w]).since
Threads == \A w \in Workers : Lined(w) /\ Balanced(w) /\ Recent(w)
Packets == (\A s \in Senders : Packed(s)) /\ (callback # 0 => callback = subscribes)

\* The numbers of a sender and of the messages are numbers.
LEMMA Numbers ==
  ASSUME TypeOK
  PROVE  /\ subscribes \in Int /\ callback \in Int
         /\ \A s \in Senders : Issued(s) \in Int /\ sent[s] \in Int
         /\ \A s \in Senders : \A t \in Topics : last[s][t] \in Int
         /\ \A m \in Message : /\ m.from \in Senders /\ m.topic \in Topics /\ m.number \in Int /\ m.since \in Int
                               /\ Route[m.topic] \in Workers
         /\ \A w \in Workers : calling[w] \in Int
  <1>1. /\ subscribes \in Int /\ callback \in Int
        /\ \A s \in Senders : sent[s] \in Int
        /\ \A s \in Senders : \A t \in Topics : last[s][t] \in Int
        /\ \A w \in Workers : calling[w] \in Int
    BY SMTT(30), Parts DEF TypeOK
  <1>2. \A s \in Senders : Issued(s) \in Int BY SMTT(30), <1>1 DEF Issued
  <1>3. \A m \in Message : /\ m.from \in Senders /\ m.topic \in Topics /\ m.number \in Int /\ m.since \in Int
                           /\ Route[m.topic] \in Workers
    BY SMTT(30), Parts, DispatchAssumption DEF DispatchAssumption, Message
  <1>4. QED BY <1>1, <1>2, <1>3

\* A thread that is left alone, but for messages of other threads called back and
\* numbers that grow, keeps its messages in line.
LEMMA LinedStays ==
  ASSUME TypeOK, TypeOK', NEW w \in Workers, Lined(w), queue'[w] = queue[w], batch'[w] = batch[w],
         worker'[w] \in Calling <=> worker[w] \in Calling, worker'[w] = "lookup" <=> worker[w] = "lookup",
         \A m \in Message : Route[m.topic] = w => last'[m.from][m.topic] = last[m.from][m.topic],
         \A s \in Senders : Issued(s) <= Issued(s)', subscribes <= subscribes'
  PROVE  Lined(w)'
  <1>1. PICK q \in Seq(Message) : q = queue[w] /\ q = queue'[w] BY DEF TypeOK
  <1>2. PICK b \in Seq(Message) : b = batch[w] /\ b = batch'[w] BY DEF TypeOK
  <1>3. (\A i \in DOMAIN q : q[i] \in Message) /\ \A i \in DOMAIN b : b[i] \in Message BY SMTT(30)
  <1>4. ASSUME NEW c \in Seq(Message), Known(w, c), \A i \in DOMAIN c : c[i] \in Message
        PROVE  \A i \in DOMAIN c :
                 Route[c[i].topic] = w /\ c[i].number <= Issued(c[i].from)' /\ c[i].since <= subscribes'
    <2>1. subscribes \in Int /\ subscribes' \in Int BY SMTT(30) DEF TypeOK
    <2>2. \A s \in Senders : Issued(s) \in Int /\ Issued(s)' \in Int BY SMTT(30), Numbers DEF TypeOK, Issued
    <2>3. \A i \in DOMAIN c : c[i].from \in Senders /\ c[i].number \in Int /\ c[i].since \in Int BY <1>4, Numbers
    <2>4. QED BY SMTT(30), <1>4, <2>1, <2>2, <2>3 DEF Known
  <1>5. Known(w, queue[w])' /\ Known(w, batch[w])'
    BY <1>1, <1>2, <1>3, <1>4 DEF Lined, Known
  <1>6. Ordered(queue[w])' /\ Ordered(batch[w])' BY <1>1, <1>2 DEF Lined, Ordered, Before
  <1>7. \A m \in Message : Route[m.topic] = w => (New(m) <=> New(m)') BY DEF New
  <1>8. (\A i \in DOMAIN queue[w] : New(queue[w][i]))'
    <2>1. \A i \in DOMAIN q : New(q[i]) /\ Route[q[i].topic] = w BY <1>1 DEF Lined, Known
    <2>2. \A i \in DOMAIN q : New(q[i])' BY <1>3, <1>7, <2>1
    <2>3. QED BY <1>1, <2>2
  <1>9. (\A i \in DOMAIN batch[w] : i > 1 \/ worker[w] \notin Calling => New(batch[w][i]))'
    <2>1. \A i \in DOMAIN b : (i > 1 \/ worker[w] \notin Calling => New(b[i])) /\ Route[b[i].topic] = w
      BY <1>2 DEF Lined, Known
    <2>2. \A i \in DOMAIN b : i > 1 \/ worker'[w] \notin Calling => New(b[i])' BY <1>3, <1>7, <2>1
    <2>3. QED BY <1>2, <2>2
  <1>10. (\A i \in DOMAIN batch[w], j \in DOMAIN queue[w] : Before(batch[w][i], queue[w][j]))'
    BY <1>1, <1>2 DEF Lined, Before
  <1>11. (batch[w] # <<>> <=> worker[w] \in Calling \cup {"lookup"})' BY DEF Lined
  <1>12. QED BY <1>5, <1>6, <1>8, <1>9, <1>10, <1>11 DEF Lined

\* So do all threads in a step that takes, adds and calls back nothing.
LEMMA ThreadsStay ==
  ASSUME TypeOK, TypeOK', Threads, UNCHANGED <<queue, batch, calling, last, tally>>,
         \A w \in Workers : /\ worker'[w] \in Calling <=> worker[w] \in Calling
                            /\ worker'[w] = "lookup" <=> worker[w] = "lookup",
         \A s \in Senders : Issued(s) <= Issued(s)', subscribes <= subscribes'
  PROVE  Threads'
  <1> SUFFICES ASSUME NEW w \in Workers PROVE Lined(w)' /\ Balanced(w)' /\ Recent(w)' BY DEF Threads
  <1>1. Lined(w) /\ Balanced(w) /\ Recent(w) BY DEF Threads
  <1>2. Lined(w)' BY <1>1, LinedStays
  <1>3. Balanced(w)' BY <1>1 DEF Balanced
  <1>4. Recent(w)' BY <1>1 DEF Recent
  <1>5. QED BY <1>2, <1>3, <1>4

\* The packets of senders that are left alone.
LEMMA PacketsStay ==
  ASSUME TypeOK, TypeOK', Packets, UNCHANGED <<sender, packet, sent, last>>, subscribes <= subscribes'
  PROVE  (\A s \in Senders : Packed(s))' /\ \A s \in Senders : Issued(s)' = Issued(s) /\ Issued(s) <= Issued(s)'
  <1>1. \A s \in Senders : Issued(s)' = Issued(s) /\ Issued(s) <= Issued(s)' BY SMTT(30), Numbers DEF Issued
  <1>2. ASSUME NEW s \in Senders PROVE Packed(s)'
    <2>1. packet[s].since \in Int /\ subscribes \in Int /\ subscribes' \in Int BY SMTT(30), Parts, Numbers DEF TypeOK
    <2>2. QED BY SMTT(30), <1>1, <2>1 DEF Packets, Packed
  <1>3. QED BY <1>1, <1>2

\* The application's steps.
LEMMA AppMessages ==
  ASSUME TypeOK, TypeOK', Threads, Packets, AppNext
  PROVE  Threads' /\ Packets'
  <1> USE DEF subscription, sending, working, ending
  <1>1. ASSUME UNCHANGED <<queue, worker, batch, calling, last, tally, sender, packet, sent>>, subscribes <= subscribes',
               (callback # 0 => callback = subscribes)'
        PROVE  Threads' /\ Packets'
    <2>1. (\A s \in Senders : Packed(s))' /\ \A s \in Senders : Issued(s) <= Issued(s)' BY <1>1, PacketsStay
    <2>2. Threads' BY <1>1, <2>1, ThreadsStay
    <2>3. QED BY <1>1, <2>1, <2>2 DEF Packets
  <1>2. subscribes \in Int /\ subscribes <= subscribes BY SMTT(30), Numbers
  <1>3. ASSUME NEW T \in SUBSET setup.topics, Subscribe(T) PROVE Threads' /\ Packets'
    BY SMTT(30), <1>1, <1>2, <1>3 DEF Subscribe
  <1>4. ASSUME NEW T \in SUBSET setup.topics, Unsubscribe(T) PROVE Threads' /\ Packets'
    BY <1>1, <1>2, <1>4 DEF Unsubscribe, Packets
  <1>5. CASE Registered BY <1>1, <1>2, <1>5 DEF Registered, Packets
  <1>6. CASE Greeted BY <1>1, <1>2, <1>6 DEF Greeted, Packets
  <1>7. CASE LetGo BY <1>1, <1>2, <1>7 DEF LetGo, Packets
  <1>8. ASSUME NEW p \in Policies, SetQueueOverflowPolicy(p) PROVE Threads' /\ Packets'
    BY <1>1, <1>2, <1>8 DEF SetQueueOverflowPolicy, Packets
  <1>9. QED BY <1>3, <1>4, <1>5, <1>6, <1>7, <1>8 DEF AppNext

\* The destructor's steps.
LEMMA DestructorMessages ==
  ASSUME TypeOK, TypeOK', Threads, Packets, DestructorSteps
  PROVE  Threads' /\ Packets'
  <1> USE DEF subscription, sending, working, ending
  <1>1. subscribes \in Int /\ subscribes <= subscribes BY SMTT(30), Numbers
  <1>2. UNCHANGED <<queue, batch, calling, last, tally, sender, packet, sent, subscribes, callback>>
    BY DEF DestructorSteps, Stop, StopOthers, JoinSystem, Join, JoinSelf, DestroyTransport, NotifyAll
  <1>3. (\A s \in Senders : Packed(s))' /\ \A s \in Senders : Issued(s) <= Issued(s)'
    BY <1>1, <1>2, PacketsStay
  <1>4. \A w \in Workers : /\ worker'[w] \in Calling <=> worker[w] \in Calling
                           /\ worker'[w] = "lookup" <=> worker[w] = "lookup"
    BY SMTT(30) DEF DestructorSteps, Stop, StopOthers, JoinSystem, Join, JoinSelf, DestroyTransport, NotifyAll, Calling, TypeOK
  <1>5. Threads' BY <1>1, <1>2, <1>3, <1>4, ThreadsStay
  <1>6. QED BY <1>2, <1>3, <1>5 DEF Packets

\* The system thread's steps.
LEMMA SystemMessages ==
  ASSUME TypeOK, TypeOK', Threads, Packets, SystemNext
  PROVE  Threads' /\ Packets'
  <1> USE DEF subscription, sending, working, ending
  <1>1. subscribes \in Int /\ subscribes <= subscribes BY SMTT(30), Numbers
  <1>2. UNCHANGED <<queue, worker, batch, calling, last, tally, sender, packet, sent, subscribes, callback>>
    BY DEF SystemNext, SystemSteps, SystemPublishes, SystemPublished, SystemPrompted, SystemEnds
  <1>3. (\A s \in Senders : Packed(s))' /\ \A s \in Senders : Issued(s) <= Issued(s)'
    BY <1>1, <1>2, PacketsStay
  <1>4. Threads' BY <1>1, <1>2, <1>3, ThreadsStay
  <1>5. QED BY <1>2, <1>3, <1>4 DEF Packets

\* The steps of a sender that leave the queues alone.
LEMMA SenderMoves ==
  ASSUME TypeOK, TypeOK', Threads, Packets, NEW s \in Senders,
         UNCHANGED <<queue, batch, calling, last, tally, subscribes, callback>>,
         \A w \in Workers : /\ worker'[w] \in Calling <=> worker[w] \in Calling
                            /\ worker'[w] = "lookup" <=> worker[w] = "lookup",
         \A r \in Senders \ {s} : sender'[r] = sender[r] /\ packet'[r] = packet[r] /\ sent'[r] = sent[r],
         Issued(s) <= Issued(s)', packet'[s].since <= subscribes,
         sender'[s] \in {"check", "push"} => packet'[s].from = s /\ packet'[s].number = sent'[s]
  PROVE  Threads' /\ Packets'
  <1>1. \A r \in Senders \ {s} : Issued(r)' = Issued(r) BY DEF Issued
  <1>2. \A r \in Senders : Issued(r) <= Issued(r)' BY SMTT(30), <1>1, Numbers
  <1>3. subscribes \in Int /\ subscribes <= subscribes' BY SMTT(30), Numbers
  <1>4. Threads' BY <1>2, <1>3, ThreadsStay
  <1>5. ASSUME NEW r \in Senders PROVE Packed(r)'
    <2>1. \A t \in Topics : last'[r][t] <= Issued(r)'
      <3>1. \A t \in Topics : last[r][t] <= Issued(r) /\ last[r][t] \in Int BY Numbers DEF Packets, Packed
      <3>2. Issued(r) \in Int /\ Issued(r)' \in Int BY SMTT(30), Numbers DEF Issued, TypeOK
      <3>3. QED BY SMTT(30), <1>2, <3>1, <3>2
    <2>2. CASE r = s BY <2>1, <2>2 DEF Packed
    <2>3. CASE r # s BY ZenonT(40), <2>1, <2>3 DEF Packed, Packets
    <2>4. QED BY <2>2, <2>3
  <1>6. QED BY <1>4, <1>5 DEF Packets

\* What a push does to the queue of its thread.
LEMMA PushLined ==
  ASSUME TypeOK, TypeOK', Threads, Packets, NEW s \in Senders, Push(s), NEW w \in Workers, w = Target(s)
  PROVE  Lined(w)'
  <1> USE DEF subscription, sending, working, ending
  <1>0. PICK m \in Message : m = packet[s] BY Parts
  <1>1. /\ w \in Workers /\ m \in Message /\ Route[m.topic] = w /\ m.from = s /\ m.number = sent[s]
        /\ m.since <= subscribes /\ Issued(s) = sent[s] - 1 /\ Issued(s)' = sent[s] /\ sent[s] \in Int
    BY ZenonT(40), <1>0, Parts, Numbers DEF Push, Goto, Target, Packets, Packed, Issued, TypeOK
  <1>2. PICK q \in Seq(Message) : q = queue[w] BY <1>1 DEF TypeOK
  <1>3. PICK b \in Seq(Message) : b = batch[w] /\ b = batch'[w] BY <1>1 DEF TypeOK, Push
  <1>4. PICK r \in Seq(Message) : r = queue'[w] /\ r = Pushed(q, m)
    BY <1>0, <1>1, <1>2 DEF Push, TypeOK
  <1>5. PICK d \in {0, 1} : \A i \in 1 .. Len(r) :
              \/ i + d \in 1 .. Len(q) /\ r[i] = q[i + d]
              \/ i + d = Len(q) + 1 /\ r[i] = m
    <2>1. Len(q) <= MaxQueue /\ policy \in Policies BY <1>1, <1>2 DEF TypeOK
    <2>2. \E d \in {0, 1} : \A i \in 1 .. Len(Pushed(q, m)) :
              \/ i + d \in 1 .. Len(q) /\ Pushed(q, m)[i] = q[i + d]
              \/ i + d = Len(q) + 1 /\ Pushed(q, m)[i] = m
      BY <2>1, PushedQueue
    <2>3. QED BY <1>4, <2>2
  <1>6. Lined(w) /\ Len(q) \in Nat /\ Len(r) \in Nat /\ DOMAIN q = 1 .. Len(q) /\ DOMAIN r = 1 .. Len(r)
    BY SMTT(30), <1>1 DEF Threads
  <1>7. UNCHANGED <<batch, last, worker, subscribes, sent>> BY ZenonT(40) DEF Push
  <1>8. \A p \in Senders : Issued(p) \in Int /\ Issued(p)' \in Int /\ Issued(p) <= Issued(p)'
    <2>1. \A p \in Senders : sent'[p] = sent[p] /\ (p # s => sender'[p] = sender[p]) BY <1>7 DEF Push, Goto, TypeOK
    <2>2. sender'[s] = "notify" BY DEF Push, Goto, TypeOK
    <2>3. \A p \in Senders : sent[p] \in Int BY Numbers
    <2>4. QED BY SMTT(30), <2>1, <2>2, <2>3 DEF Issued
  <1>9. \A x \in Message : /\ x.from \in Senders /\ x.topic \in Topics /\ x.number \in Int /\ x.since \in Int
                           /\ last[x.from][x.topic] \in Int
    BY Numbers
  <1>10. \A x \in Message : x.from = s /\ x.number <= Issued(x.from) => Before(x, m)
    BY SMTT(30), <1>1, <1>9 DEF Before
  <1>11. /\ \A i \in 1 .. Len(q) : q[i] \in Message /\ Route[q[i].topic] = w /\ q[i].number <= Issued(q[i].from) /\ q[i].since <= subscribes
         /\ \A i \in DOMAIN b : b[i] \in Message /\ Route[b[i].topic] = w /\ b[i].number <= Issued(b[i].from) /\ b[i].since <= subscribes
    <2>1. Known(w, q) /\ Known(w, b) BY <1>2, <1>3, <1>6 DEF Lined
    <2>2. (\A i \in 1 .. Len(q) : q[i] \in Message) /\ \A i \in DOMAIN b : b[i] \in Message BY SMTT(30)
    <2>3. QED BY <1>6, <2>1, <2>2 DEF Known
  <1>12. (\A i \in 1 .. Len(q) : Before(q[i], m)) /\ \A i \in DOMAIN b : Before(b[i], m)
    <2>1. \A x \in Message : x.number <= Issued(x.from) => Before(x, m) BY <1>1, <1>9, <1>10 DEF Before
    <2>2. QED BY <1>11, <2>1
  <1>13. Known(w, queue[w])'
    <2>1. \A i \in 1 .. Len(q) : q[i].number <= Issued(q[i].from)' BY SMTT(30), <1>8, <1>9, <1>11
    <2>2. m.number <= Issued(m.from)' BY SMTT(30), <1>1
    <2>3. \A i \in DOMAIN r : Route[r[i].topic] = w /\ r[i].number <= Issued(r[i].from)' /\ r[i].since <= subscribes
      BY <1>1, <1>5, <1>6, <1>11, <2>1, <2>2
    <2>4. QED BY <1>4, <1>7, <2>3 DEF Known
  <1>14. Known(w, batch[w])'
    <2>1. \A i \in DOMAIN b : b[i].number <= Issued(b[i].from)' BY SMTT(30), <1>8, <1>9, <1>11
    <2>2. QED BY <1>3, <1>7, <1>11, <2>1 DEF Known
  <1>15. Ordered(queue[w])'
    <2>1. \A i, j \in 1 .. Len(q) : i < j => Before(q[i], q[j]) BY <1>2, <1>6 DEF Lined, Ordered
    <2>2. \A i, j \in 1 .. Len(r) : i < j => Before(r[i], r[j])
      <3> TAKE i, j \in 1 .. Len(r)
      <3> HAVE i < j
      <3>1. i + d \in 1 .. Len(q) /\ r[i] = q[i + d] BY SMTT(30), <1>5, <1>6
      <3>2. CASE j + d \in 1 .. Len(q) /\ r[j] = q[j + d] BY SMTT(30), <2>1, <3>1, <3>2
      <3>3. CASE j + d = Len(q) + 1 /\ r[j] = m BY <1>12, <3>1, <3>3
      <3>4. QED BY <1>5, <3>2, <3>3
    <2>3. QED BY SMTT(30), <1>4, <1>6, <2>2 DEF Ordered, Before
  <1>16. Ordered(batch[w])'
    <2>1. \A i, j \in DOMAIN b : i < j => Before(b[i], b[j]) BY <1>3, <1>6 DEF Lined, Ordered
    <2>2. QED BY SMTT(30), <1>3, <2>1 DEF Ordered, Before
  <1>17. (\A i \in DOMAIN batch[w], j \in DOMAIN queue[w] : Before(batch[w][i], queue[w][j]))'
    <2>1. \A i \in DOMAIN b, j \in 1 .. Len(q) : Before(b[i], q[j]) BY <1>2, <1>3, <1>6 DEF Lined
    <2>2. \A i \in DOMAIN b, j \in 1 .. Len(r) : Before(b[i], r[j]) BY <1>5, <1>12, <2>1
    <2>3. \A i \in DOMAIN batch'[w], j \in DOMAIN queue'[w] : Before(batch'[w][i], queue'[w][j])
      BY <1>3, <1>4, <1>6, <2>2
    <2>4. QED BY <2>3 DEF Before
  <1>18. (\A i \in DOMAIN queue[w] : New(queue[w][i]))'
    <2>1. \A i \in 1 .. Len(q) : New(q[i]) BY <1>2, <1>6 DEF Lined
    <2>2. New(m)
      <3>1. last[s][m.topic] <= Issued(s) BY <1>9, <1>1 DEF Packets, Packed
      <3>2. QED BY SMTT(30), <1>1, <1>9, <3>1 DEF New
    <2>3. \A i \in DOMAIN r : New(r[i]) BY <1>5, <1>6, <2>1, <2>2
    <2>4. QED BY <1>4, <1>7, <2>3 DEF New
  <1>19. (\A i \in DOMAIN batch[w] : i > 1 \/ worker[w] \notin Calling => New(batch[w][i]))'
    BY <1>6, <1>7 DEF Lined, New
  <1>20. (batch[w] # <<>> <=> worker[w] \in Calling \cup {"lookup"})' BY <1>6, <1>7 DEF Lined
  <1>21. QED BY <1>13, <1>14, <1>15, <1>16, <1>17, <1>18, <1>19, <1>20 DEF Lined

\* One more message, in the queue, dropped or displaced.
LEMMA OneMore ==
  ASSUME NEW a \in Nat, NEW q \in Nat, NEW b \in Nat, NEW e \in Nat, NEW u \in Nat, NEW x \in Nat, NEW y \in Nat,
         NEW k \in Nat, NEW g \in Nat, NEW h \in Nat, a = q + b + e + u + x + y, k + g + h = q + x + y + 1
  PROVE  a + 1 = k + b + e + u + g + h
  BY SMTT(30)

\* What a push does to all threads and packets.
LEMMA PushMessages ==
  ASSUME TypeOK, TypeOK', Threads, Packets, NEW s \in Senders, Push(s)
  PROVE  Threads' /\ Packets'
  <1> USE DEF subscription, sending, working, ending
  <1>1. PICK w \in Workers : w = Target(s) BY Parts
  <1>2. PICK m \in Message : m = packet[s] BY Parts
  <1>3. UNCHANGED <<batch, calling, last, worker, subscribes, callback, packet, sent>> BY DEF Push
  <1>4. sender[s] = "push" /\ sender' = [sender EXCEPT ![s] = "notify"] BY ZenonT(40) DEF Push, Goto
  <1>5. \A p \in Senders : Issued(p) \in Int /\ Issued(p)' \in Int /\ Issued(p) <= Issued(p)'
    <2>1. SUFFICES ASSUME NEW p \in Senders PROVE Issued(p) \in Int /\ Issued(p)' \in Int /\ Issued(p) <= Issued(p)'
      OBVIOUS
    <2>2. Issued(p) \in Int /\ sent[p] \in Int BY Numbers
    <2>3. CASE p = s
      <3>1. sender[p] = "push" /\ sender'[p] = "notify" BY <1>4, <2>3 DEF TypeOK
      <3>2. Issued(p) = sent[p] - 1 /\ Issued(p)' = sent[p] BY <1>3, <3>1 DEF Issued
      <3>3. QED BY SMTT(30), <2>2, <3>2
    <2>4. CASE p # s
      <3>1. sender'[p] = sender[p] BY <1>4, <2>4 DEF TypeOK
      <3>2. Issued(p)' = Issued(p) BY <1>3, <3>1 DEF Issued
      <3>3. QED BY SMTT(30), <2>2, <3>2
    <2>5. QED BY <2>3, <2>4
  <1>6. subscribes \in Int /\ subscribes <= subscribes' BY SMTT(30), <1>3, Numbers
  <1>7. PICK q \in Seq(Message) : q = queue[w] BY DEF TypeOK
  <1>8. queue' = [queue EXCEPT ![w] = Pushed(q, m)] BY <1>1, <1>2, <1>7 DEF Push
  <1>9. Len(q) <= MaxQueue /\ policy \in Policies /\ queue \in [Workers -> Seq(Message)]
    BY <1>7 DEF TypeOK
  <1>10. Len(Pushed(q, m)) = IF IsFull(q) THEN Len(q) ELSE Len(q) + 1 BY <1>9, PushedQueue
  <1>11. queue'[w] = Pushed(q, m) /\ \A v \in Workers \ {w} : queue'[v] = queue[v] BY <1>8, <1>9
  <1>12. PICK F \in SUBSET Fates :
           /\ Count(w, F) /\ "accepted" \in F /\ "delivered" \notin F /\ "unheard" \notin F
           /\ IF IsFull(q) THEN "dropped" \in F <=> "displaced" \notin F ELSE "dropped" \notin F /\ "displaced" \notin F
    <2>1. Count(w, {"accepted"} \cup (IF ~IsFull(q) THEN {} ELSE IF policy = "BLOCK" THEN {"displaced"} ELSE {"dropped"}))
      BY <1>1, <1>7 DEF Push
    <2>2. CASE ~IsFull(q)
      <3>1. Count(w, {"accepted"}) BY <2>1, <2>2
      <3>2. QED BY SMTT(30), <2>2, <3>1 DEF Fates
    <2>3. CASE IsFull(q) /\ policy = "BLOCK"
      <3>1. Count(w, {"accepted", "displaced"}) BY <2>1, <2>3
      <3>2. QED BY SMTT(30), <2>3, <3>1 DEF Fates
    <2>4. CASE IsFull(q) /\ policy # "BLOCK"
      <3>1. Count(w, {"accepted", "dropped"}) BY <2>1, <2>4
      <3>2. QED BY SMTT(30), <2>4, <3>1 DEF Fates
    <2>5. QED BY <2>2, <2>3, <2>4
  <1>13. ASSUME NEW v \in Workers PROVE Lined(v)' /\ Balanced(v)' /\ Recent(v)'
    <2>1. Lined(v) /\ Balanced(v) /\ Recent(v) BY DEF Threads
    <2>2. Recent(v)' BY <1>3, <2>1 DEF Recent
    <2>3. CASE v # w
      <3>1. Lined(v)' BY <1>3, <1>5, <1>6, <1>11, <2>1, <2>3, LinedStays
      <3>2. tally'[v] = tally[v] BY <1>12, <2>3, CountType
      <3>3. Balanced(v)' BY <1>3, <1>11, <2>1, <2>3, <3>2 DEF Balanced
      <3>4. QED BY <2>2, <3>1, <3>3
    <2>4. CASE v = w
      <3>1. Lined(w)' BY <1>1, PushLined
      <3>2. \A f \in Fates : tally'[w][f] = IF f \in F THEN tally[w][f] + 1 ELSE tally[w][f] BY <1>12, CountType
      <3>3. \A f \in Fates : tally[w][f] \in Nat BY DEF TypeOK
      <3>4. {"accepted", "dropped", "displaced", "unheard", "delivered"} \subseteq Fates BY DEF Fates
      <3>5. PICK b \in Seq(Message) : b = batch[w] BY DEF TypeOK
      <3>6. Len(q) \in Nat /\ Len(b) \in Nat BY SMTT(30)
      <3>7. Len(queue'[w]) = IF IsFull(q) THEN Len(q) ELSE Len(q) + 1 BY <1>10, <1>11
      <3>8. PICK a \in Nat, e \in Nat, u \in Nat, x \in Nat, y \in Nat :
              /\ a = tally[w]["accepted"] /\ e = tally[w]["delivered"] /\ u = tally[w]["unheard"]
              /\ x = tally[w]["dropped"] /\ y = tally[w]["displaced"]
        BY <3>3, <3>4
      <3>9. /\ tally'[w]["accepted"] = a + 1 /\ tally'[w]["delivered"] = e /\ tally'[w]["unheard"] = u
            /\ tally'[w]["dropped"] = IF "dropped" \in F THEN x + 1 ELSE x
            /\ tally'[w]["displaced"] = IF "displaced" \in F THEN y + 1 ELSE y
        BY <1>12, <3>2, <3>4, <3>8
      <3>10. a = Len(q) + Len(b) + e + u + x + y
        BY <1>7, <2>1, <2>4, <3>5, <3>8 DEF Balanced
      <3>11. PICK k \in Nat, g \in Nat, h \in Nat :
               /\ k = Len(queue'[w]) /\ g = tally'[w]["dropped"] /\ h = tally'[w]["displaced"]
               /\ k + g + h = Len(q) + x + y + 1
        <4>1. CASE IsFull(q) /\ "dropped" \in F BY SMTT(30), <1>12, <3>6, <3>7, <3>9, <4>1
        <4>2. CASE IsFull(q) /\ "dropped" \notin F BY SMTT(30), <1>12, <3>6, <3>7, <3>9, <4>2
        <4>3. CASE ~IsFull(q)
          <5>1. "dropped" \notin F /\ "displaced" \notin F BY <1>12, <4>3
          <5>2. Len(queue'[w]) = Len(q) + 1 /\ tally'[w]["dropped"] = x /\ tally'[w]["displaced"] = y
            BY <3>7, <3>9, <4>3, <5>1
          <5>3. QED BY SMTT(30), <3>6, <5>2
        <4>4. QED BY <4>1, <4>2, <4>3
      <3>12. a + 1 = k + Len(b) + e + u + g + h
        <4>1. k + g + h = Len(q) + x + y + 1 BY <3>11
        <4>2. QED BY SMTT(30), <3>6, <3>10, <4>1, OneMore
      <3>13. Balanced(w)' BY <1>3, <3>5, <3>9, <3>11, <3>12 DEF Balanced
      <3>14. QED BY <2>2, <2>4, <3>1, <3>13
    <2>5. QED BY <2>3, <2>4
  <1>14. ASSUME NEW r \in Senders PROVE Packed(r)'
    <2>1. \A t \in Topics : last'[r][t] <= Issued(r)'
      <3>1. \A t \in Topics : last[r][t] <= Issued(r) /\ last[r][t] \in Int BY Numbers DEF Packets, Packed
      <3>2. QED BY SMTT(30), <1>3, <1>5, <3>1
    <2>2. QED BY <1>3, <1>4, <2>1 DEF Packed, Packets, TypeOK
  <1>15. QED BY <1>3, <1>13, <1>14 DEF Packets, Threads

\* The senders' steps.
LEMMA SenderMessages ==
  ASSUME TypeOK, TypeOK', Threads, Packets, NEW s \in Senders,
         SenderSteps(s) \/ \E t \in setup.topics : Deliver(s, t)
  PROVE  Threads' /\ Packets'
  <1> USE DEF subscription, sending, working, ending
  <1>0. /\ sent[s] \in Int /\ subscribes \in Int /\ subscribes >= 0 /\ packet[s].since <= subscribes
        /\ sender[s] \in {"check", "push"} => packet[s].from = s /\ packet[s].number = sent[s]
    BY SMTT(30), Numbers DEF Packets, Packed, TypeOK
  <1>1. ASSUME NEW t \in setup.topics, Deliver(s, t) PROVE Threads' /\ Packets'
    <2>1. sender[s] = "idle" /\ sender' = [sender EXCEPT ![s] = "check"] /\ sent' = [sent EXCEPT ![s] = sent[s] + 1]
      BY <1>1 DEF Deliver, Goto
    <2>2. packet' = [packet EXCEPT ![s] = [from |-> s, topic |-> t, number |-> sent[s] + 1, since |-> 0]]
      BY <1>1 DEF Deliver
    <2>3. /\ \A r \in Senders \ {s} : sender'[r] = sender[r] /\ packet'[r] = packet[r] /\ sent'[r] = sent[r]
          /\ sender'[s] = "check" /\ sent'[s] = sent[s] + 1
          /\ packet'[s].since = 0 /\ packet'[s].from = s /\ packet'[s].number = sent[s] + 1
      BY <2>1, <2>2 DEF TypeOK
    <2>4. Issued(s) <= Issued(s)' BY SMTT(30), <1>0, <2>1, <2>3 DEF Issued
    <2>5. UNCHANGED <<queue, batch, calling, last, tally, subscribes, callback, worker>> BY <1>1 DEF Deliver
    <2>6. QED BY <1>0, <2>3, <2>4, <2>5, SenderMoves
  <1>2. CASE Check(s)
    <2>1. PICK l \in {"push", "leave"} : sender' = [sender EXCEPT ![s] = l] BY <1>2 DEF Check, Goto
    <2>2. /\ \A r \in Senders \ {s} : sender'[r] = sender[r] /\ packet'[r] = packet[r] /\ sent'[r] = sent[r]
          /\ sender'[s] = l /\ sent' = sent /\ sender[s] = "check"
          /\ packet'[s].since = subscribes /\ packet'[s].from = packet[s].from /\ packet'[s].number = packet[s].number
      BY SMTT(30), <1>2, <2>1 DEF Check, TypeOK, Message
    <2>3. Issued(s) <= Issued(s)' BY SMTT(30), <1>0, <2>1, <2>2 DEF Issued
    <2>4. UNCHANGED <<queue, batch, calling, last, tally, subscribes, callback, worker>> BY <1>2 DEF Check
    <2>5. QED BY SMTT(30), <1>0, <2>2, <2>3, <2>4, SenderMoves
  <1>3. CASE Push(s) BY <1>3, PushMessages
  <1>4. ASSUME NEW l \in {"leave", "idle"}, sender[s] \notin {"check"} \/ l = "leave",
               sender' = [sender EXCEPT ![s] = l], sent' = sent,
               packet' = packet \/ packet' = [packet EXCEPT ![s] = NoPacket(s)],
               UNCHANGED <<queue, batch, calling, last, tally, subscribes, callback>>,
               \A w \in Workers : /\ worker'[w] \in Calling <=> worker[w] \in Calling
                                  /\ worker'[w] = "lookup" <=> worker[w] = "lookup"
        PROVE  Threads' /\ Packets'
    <2>1. /\ \A r \in Senders \ {s} : sender'[r] = sender[r] /\ packet'[r] = packet[r] /\ sent'[r] = sent[r]
          /\ sender'[s] = l
      BY <1>4 DEF TypeOK
    <2>2. packet'[s].since <= subscribes BY ZenonT(40), <1>0, <1>4, NoPacketType DEF TypeOK
    <2>3. Issued(s) <= Issued(s)' BY SMTT(30), <1>0, <1>4, <2>1 DEF Issued
    <2>4. QED BY <1>4, <2>1, <2>2, <2>3, SenderMoves
  <1>5. CASE Notify(s)
    <2>1. sender' = [sender EXCEPT ![s] = "leave"] /\ sent' = sent /\ packet' = packet BY <1>5 DEF Notify, Goto
    <2>2. UNCHANGED <<queue, batch, calling, last, tally, subscribes, callback>> BY <1>5 DEF Notify
    <2>3. \A w \in Workers : /\ worker'[w] \in Calling <=> worker[w] \in Calling
                             /\ worker'[w] = "lookup" <=> worker[w] = "lookup"
      BY <1>5, Parts DEF Notify, Calling, TypeOK
    <2>4. QED BY <1>4, <2>1, <2>2, <2>3
  <1>6. CASE Leave(s)
    <2>1. sender[s] = "leave" /\ sender' = [sender EXCEPT ![s] = "idle"] /\ sent' = sent BY <1>6 DEF Leave, Goto
    <2>2. packet' = [packet EXCEPT ![s] = NoPacket(s)] BY <1>6 DEF Leave
    <2>3. UNCHANGED <<queue, batch, calling, last, tally, subscribes, callback, worker>> BY <1>6 DEF Leave
    <2>4. QED BY <1>4, <2>1, <2>2, <2>3
  <1>7. CASE Touch(s)
    <2>1. sender' = [sender EXCEPT ![s] = "leave"] /\ sent' = sent /\ packet' = packet BY <1>7 DEF Touch, Goto
    <2>2. UNCHANGED <<queue, batch, calling, last, tally, subscribes, callback, worker>> BY <1>7 DEF Touch
    <2>3. QED BY <1>4, <2>1, <2>2
  <1>8. QED BY ZenonT(40), <1>1, <1>2, <1>3, <1>5, <1>6, <1>7 DEF SenderSteps

\* A step of one processing thread touches only what is its own.
LEMMA WorkerFrame ==
  ASSUME TypeOK, TypeOK', Threads, Packets, NEW w \in Workers,
         UNCHANGED <<sender, packet, sent, subscribes, callback>>,
         \A v \in Workers \ {w} : /\ queue'[v] = queue[v] /\ batch'[v] = batch[v] /\ worker'[v] = worker[v]
                                  /\ calling'[v] = calling[v] /\ tally'[v] = tally[v],
         \A m \in Message : Route[m.topic] # w => last'[m.from][m.topic] = last[m.from][m.topic],
         \A s \in Senders : \A t \in Topics : last'[s][t] <= Issued(s),
         Lined(w)', Balanced(w)', Recent(w)'
  PROVE  Threads' /\ Packets'
  <1>1. \A s \in Senders : Issued(s)' = Issued(s) /\ Issued(s) <= Issued(s)' BY SMTT(30), Numbers DEF Issued
  <1>2. subscribes \in Int /\ subscribes <= subscribes' BY SMTT(30), Numbers
  <1>3. ASSUME NEW v \in Workers \ {w} PROVE Lined(v)' /\ Balanced(v)' /\ Recent(v)'
    <2>1. Lined(v) /\ Balanced(v) /\ Recent(v) BY DEF Threads
    <2>2. \A m \in Message : Route[m.topic] = v => last'[m.from][m.topic] = last[m.from][m.topic] OBVIOUS
    <2>3. Lined(v)' BY <1>1, <1>2, <2>1, <2>2, LinedStays
    <2>4. Balanced(v)' BY <2>1 DEF Balanced
    <2>5. Recent(v)' BY <2>1 DEF Recent
    <2>6. QED BY <2>3, <2>4, <2>5
  <1>4. Threads' BY <1>3 DEF Threads
  <1>5. \A s \in Senders : Packed(s)' BY <1>1 DEF Packets, Packed
  <1>6. QED BY ZenonT(40), <1>4, <1>5 DEF Packets

\* A thread that moves without taking, calling back or finishing a message.
LEMMA WorkerWalks ==
  ASSUME TypeOK, TypeOK', Threads, Packets, NEW w \in Workers,
         UNCHANGED <<sender, packet, sent, subscribes, callback, queue, batch, calling, last, tally>>,
         NEW l, worker' = [worker EXCEPT ![w] = l],
         l \in Calling <=> worker[w] \in Calling, l = "lookup" <=> worker[w] = "lookup"
  PROVE  Threads' /\ Packets'
  <1>1. subscribes \in Int /\ subscribes <= subscribes' BY SMTT(30), Numbers
  <1>2. (\A s \in Senders : Packed(s))' /\ \A s \in Senders : Issued(s) <= Issued(s)' BY <1>1, PacketsStay
  <1>3. \A v \in Workers : /\ worker'[v] \in Calling <=> worker[v] \in Calling
                           /\ worker'[v] = "lookup" <=> worker[v] = "lookup"
    BY DEF TypeOK
  <1>4. QED BY <1>1, <1>2, <1>3, ThreadsStay DEF Packets

\* The thread's messages when it has taken a batch: the old queue, in two pieces.
LEMMA TakenLined ==
  ASSUME TypeOK, NEW w \in Workers, Lined(w), worker[w] = "test", NEW n \in 1 .. Len(queue[w]),
         UNCHANGED <<sender, sent, subscribes, last>>,
         batch' = [batch EXCEPT ![w] = SubSeq(queue[w], 1, n)],
         queue' = [queue EXCEPT ![w] = SubSeq(queue[w], n + 1, Len(queue[w]))],
         worker' = [worker EXCEPT ![w] = "lookup"]
  PROVE  Lined(w)' /\ Len(batch'[w]) = n /\ Len(queue'[w]) = Len(queue[w]) - n /\ batch[w] = <<>>
  <1>1. PICK q \in Seq(Message) : q = queue[w] BY DEF TypeOK
  <1>2. PICK b \in Seq(Message) : b = batch'[w] /\ b = SubSeq(q, 1, n) BY <1>1, TakenBatch DEF TypeOK
  <1>3. PICK r \in Seq(Message) : r = queue'[w] /\ r = SubSeq(q, n + 1, Len(q)) BY <1>1, TakenBatch DEF TypeOK
  <1>4. /\ Len(q) \in Nat /\ n \in Nat /\ n <= Len(q) /\ n > 0 /\ Len(b) = n /\ Len(r) = Len(q) - n
        /\ DOMAIN b = 1 .. n /\ DOMAIN r = 1 .. Len(q) - n /\ DOMAIN q = 1 .. Len(q)
    <2>1. Len(q) \in Nat /\ n \in 1 .. Len(q) BY SMTT(30), <1>1
    <2>2. Len(b) = n BY SMTT(30), <1>2, <2>1, TakenBatch
    <2>3. Len(r) = Len(q) - n BY <1>3, <2>1, TakenBatch
    <2>4. QED BY SMTT(30), <2>1, <2>2, <2>3
  <1>5. /\ \A i \in 1 .. n : i \in 1 .. Len(q) /\ b[i] = q[i]
        /\ \A i \in 1 .. Len(q) - n : i + n \in 1 .. Len(q) /\ r[i] = q[i + n]
    <2>1. (\A i \in 1 .. n : b[i] = q[i]) /\ \A i \in 1 .. Len(q) - n : r[i] = q[i + n]
      BY SMTT(30), <1>1, <1>2, <1>3, TakenBatch
    <2>2. (\A i \in 1 .. n : i \in 1 .. Len(q)) /\ \A i \in 1 .. Len(q) - n : i + n \in 1 .. Len(q) BY SMTT(30), <1>4
    <2>3. QED BY <2>1, <2>2
  <1>6. /\ \A i \in 1 .. Len(q) : Route[q[i].topic] = w /\ q[i].number <= Issued(q[i].from) /\ q[i].since <= subscribes
        /\ \A i, j \in 1 .. Len(q) : i < j => Before(q[i], q[j])
        /\ \A i \in 1 .. Len(q) : New(q[i])
    BY <1>1, <1>4 DEF Lined, Known, Ordered
  <1>7. \A s \in Senders : Issued(s)' = Issued(s) BY DEF Issued
  <1>8. \A i \in 1 .. Len(q) : q[i] \in Message /\ q[i].from \in Senders BY SMTT(30), Numbers
  <1>9. \A i \in 1 .. Len(q) : Issued(q[i].from)' = Issued(q[i].from) BY <1>7, <1>8
  <1>10. Known(w, batch[w])'
    <2>1. \A i \in DOMAIN b : Route[b[i].topic] = w /\ b[i].number <= Issued(b[i].from)' /\ b[i].since <= subscribes
      BY SMTT(30), <1>4, <1>5, <1>6, <1>9
    <2>2. QED BY <1>2, <2>1 DEF Known
  <1>11. Known(w, queue[w])'
    <2>1. \A i \in DOMAIN r : Route[r[i].topic] = w /\ r[i].number <= Issued(r[i].from)' /\ r[i].since <= subscribes
      <3> TAKE i \in DOMAIN r
      <3>1. PICK k \in 1 .. Len(q) : r[i] = q[k] BY <1>4, <1>5
      <3>2. QED BY <1>6, <1>9, <3>1
    <2>2. QED BY <1>3, <2>1 DEF Known
  <1>12. Ordered(b) /\ Ordered(r) /\ \A i \in DOMAIN b, j \in DOMAIN r : Before(b[i], r[j])
    <2>1. \A i, j \in 1 .. n : i < j => Before(b[i], b[j]) BY <1>4, <1>5, <1>6
    <2>2. \A i, j \in 1 .. Len(q) - n : i < j => Before(r[i], r[j])
      <3> TAKE i, j \in 1 .. Len(q) - n
      <3> HAVE i < j
      <3>1. i + n \in 1 .. Len(q) /\ j + n \in 1 .. Len(q) /\ i + n < j + n BY SMTT(30), <1>4
      <3>2. Before(q[i + n], q[j + n]) BY <1>6, <3>1
      <3>3. QED BY <1>5, <3>2
    <2>3. \A i \in 1 .. n, j \in 1 .. Len(q) - n : Before(b[i], r[j])
      <3> TAKE i \in 1 .. n, j \in 1 .. Len(q) - n
      <3>1. i \in 1 .. Len(q) /\ j + n \in 1 .. Len(q) /\ i < j + n BY SMTT(30), <1>4
      <3>2. Before(q[i], q[j + n]) BY <1>6, <3>1
      <3>3. QED BY <1>5, <3>2
    <2>4. QED BY <1>4, <2>1, <2>2, <2>3 DEF Ordered
  <1>13. (Ordered(queue[w]) /\ Ordered(batch[w]) /\ \A i \in DOMAIN batch[w], j \in DOMAIN queue[w] : Before(batch[w][i], queue[w][j]))'
    <2>1. (Ordered(queue[w]) /\ Ordered(batch[w]))'
      <3>1. Ordered(b) /\ Ordered(r) /\ queue'[w] = r /\ batch'[w] = b BY <1>2, <1>3, <1>12
      <3>2. \A i, j \in DOMAIN queue'[w] : i < j => Before(queue'[w][i], queue'[w][j]) BY <3>1 DEF Ordered
      <3>3. \A i, j \in DOMAIN batch'[w] : i < j => Before(batch'[w][i], batch'[w][j]) BY <3>1 DEF Ordered
      <3>4. QED BY <3>2, <3>3 DEF Ordered, Before
    <2>2. \A i \in DOMAIN batch'[w], j \in DOMAIN queue'[w] : Before(batch'[w][i], queue'[w][j])
      BY <1>2, <1>3, <1>12
    <2>3. QED BY <2>1, <2>2 DEF Before
  <1>14. (\A i \in DOMAIN queue[w] : New(queue[w][i]))' /\ (\A i \in DOMAIN batch[w] : New(batch[w][i]))'
    <2>1. (\A i \in DOMAIN b : New(b[i])) /\ \A i \in DOMAIN r : New(r[i])
      <3>1. \A i \in DOMAIN b : New(b[i]) BY <1>4, <1>5, <1>6
      <3>2. ASSUME NEW i \in DOMAIN r PROVE New(r[i])
        <4>1. PICK k \in 1 .. Len(q) : r[i] = q[k] BY <1>4, <1>5
        <4>2. QED BY <1>6, <4>1
      <3>3. QED BY <3>1, <3>2
    <2>2. QED BY <1>2, <1>3, <2>1 DEF New
  <1>15. (batch[w] # <<>> <=> worker[w] \in Calling \cup {"lookup"})'
    <2>1. b # <<>> BY SMTT(30), <1>4
    <2>2. QED BY <1>2, <2>1 DEF TypeOK
  <1>16. Lined(w)' BY <1>10, <1>11, <1>13, <1>14, <1>15 DEF Lined
  <1>17. batch[w] = <<>> BY DEF Lined, Calling
  <1>18. QED BY <1>1, <1>2, <1>3, <1>4, <1>16, <1>17

\* The thread's messages when the one at work is done.
LEMMA AdvanceLined ==
  ASSUME TypeOK, NEW w \in Workers, Lined(w), batch[w] # <<>>, NEW f \in Fates, Advance(w, f),
         UNCHANGED <<sender, sent, subscribes, last, queue>>
  PROVE  Lined(w)' /\ worker'[w] \notin Calling /\ Len(batch'[w]) = Len(batch[w]) - 1 /\ Len(batch[w]) \in Nat
  <1>1. PICK b \in Seq(Message) : b = batch[w] BY DEF TypeOK
  <1>2. PICK u \in Seq(Message) : u = Tail(b) BY <1>1, Advanced
  <1>3. /\ Len(u) = Len(b) - 1 /\ Len(b) \in Nat \ {0}
        /\ \A i \in 1 .. Len(b) - 1 : i + 1 \in 1 .. Len(b) /\ u[i] = b[i + 1]
    <2>1. Len(u) = Len(b) - 1 /\ Len(b) \in Nat \ {0} /\ \A i \in 1 .. Len(b) - 1 : u[i] = b[i + 1]
      BY <1>1, <1>2, Advanced
    <2>2. \A i \in 1 .. Len(b) - 1 : i + 1 \in 1 .. Len(b) BY SMTT(30), <2>1
    <2>3. QED BY <2>1, <2>2
  <1>4. batch'[w] = u /\ worker'[w] = IF Len(b) = 1 THEN "test" ELSE "lookup"
    <2>1. batch' = [batch EXCEPT ![w] = u] BY <1>1, <1>2, Advanced
    <2>2. worker' = [worker EXCEPT ![w] = IF Len(b) = 1 THEN "test" ELSE "lookup"] BY <1>1, Advanced
    <2>3. QED BY <2>1, <2>2 DEF TypeOK
  <1>5. \A s \in Senders : Issued(s)' = Issued(s) BY DEF Issued
  <1>6. DOMAIN u = 1 .. Len(b) - 1 /\ DOMAIN b = 1 .. Len(b) BY SMTT(30), <1>3
  <1>7. /\ \A i \in 1 .. Len(b) : b[i] \in Message /\ b[i].from \in Senders
        /\ \A i \in DOMAIN queue[w] : queue[w][i] \in Message /\ queue[w][i].from \in Senders
    <2>1. queue[w] \in Seq(Message) BY DEF TypeOK
    <2>2. QED BY SMTT(30), <2>1, Numbers
  <1>8. Known(w, batch[w])'
    <2>1. \A i \in 1 .. Len(b) : Route[b[i].topic] = w /\ b[i].number <= Issued(b[i].from)' /\ b[i].since <= subscribes
      BY <1>1, <1>5, <1>6, <1>7 DEF Lined, Known
    <2>2. \A i \in DOMAIN u : Route[u[i].topic] = w /\ u[i].number <= Issued(u[i].from)' /\ u[i].since <= subscribes
      BY ZenonT(40), <1>3, <1>6, <2>1
    <2>3. QED BY <1>4, <2>2 DEF Known
  <1>9. Known(w, queue[w])' /\ Ordered(queue[w])' /\ (\A i \in DOMAIN queue[w] : New(queue[w][i]))'
    BY <1>5, <1>7 DEF Lined, Known, Ordered, Before, New
  <1>10. Ordered(batch[w])'
    <2>1. \A i, j \in 1 .. Len(b) : i < j => Before(b[i], b[j]) BY <1>1, <1>6 DEF Lined, Ordered
    <2>2. \A i, j \in DOMAIN u : i < j => Before(u[i], u[j])
      <3> TAKE i, j \in DOMAIN u
      <3> HAVE i < j
      <3>1. i + 1 \in 1 .. Len(b) /\ j + 1 \in 1 .. Len(b) /\ i + 1 < j + 1 BY SMTT(30), <1>3, <1>6
      <3>2. u[i] = b[i + 1] /\ u[j] = b[j + 1] BY <1>3, <1>6
      <3>3. QED BY <2>1, <3>1, <3>2
    <2>3. \A i, j \in DOMAIN batch'[w] : i < j => Before(batch'[w][i], batch'[w][j]) BY <1>4, <2>2
    <2>4. QED BY <2>3 DEF Ordered, Before
  <1>11. (\A i \in DOMAIN batch[w], j \in DOMAIN queue[w] : Before(batch[w][i], queue[w][j]))'
    <2>1. \A i \in 1 .. Len(b), j \in DOMAIN queue[w] : Before(b[i], queue[w][j]) BY <1>1, <1>6 DEF Lined
    <2>2. \A i \in DOMAIN u, j \in DOMAIN queue[w] : Before(u[i], queue[w][j]) BY <1>3, <1>6, <2>1
    <2>3. \A i \in DOMAIN batch'[w], j \in DOMAIN queue'[w] : Before(batch'[w][i], queue'[w][j]) BY <1>4, <2>2
    <2>4. QED BY <2>3 DEF Before
  <1>12. (\A i \in DOMAIN batch[w] : i > 1 \/ worker[w] \notin Calling => New(batch[w][i]))'
    <2>1. \A i \in 1 .. Len(b) : i > 1 => New(b[i]) BY <1>1, <1>6 DEF Lined
    <2>2. \A i \in DOMAIN u : New(u[i])
      <3> TAKE i \in DOMAIN u
      <3>1. i + 1 \in 1 .. Len(b) /\ i + 1 > 1 /\ u[i] = b[i + 1] BY SMTT(30), <1>3, <1>6
      <3>2. QED BY <2>1, <3>1
    <2>3. QED BY <1>4, <2>2 DEF New
  <1>13. (batch[w] # <<>> <=> worker[w] \in Calling \cup {"lookup"})'
    <2>1. u = <<>> <=> Len(b) = 1 BY SMTT(30), <1>3
    <2>2. QED BY <1>4, <2>1 DEF Calling
  <1>14. Lined(w)' BY <1>8, <1>9, <1>10, <1>11, <1>12, <1>13 DEF Lined
  <1>15. worker'[w] \notin Calling BY <1>4 DEF Calling
  <1>16. QED BY <1>1, <1>3, <1>4, <1>14, <1>15

\* The tallies are numbers.
LEMMA Tallies ==
  ASSUME TypeOK, NEW w \in Workers
  PROVE  /\ tally[w]["accepted"] \in Nat /\ tally[w]["delivered"] \in Nat /\ tally[w]["unheard"] \in Nat
         /\ tally[w]["dropped"] \in Nat /\ tally[w]["displaced"] \in Nat
  <1>1. \A f \in Fates : tally[w][f] \in Nat BY DEF TypeOK
  <1>2. QED BY <1>1 DEF Fates

\* One message less in the batch, called back or unheard.
LEMMA OneDone ==
  ASSUME NEW a \in Nat, NEW q \in Nat, NEW b \in Nat, NEW e \in Nat, NEW u \in Nat, NEW x \in Nat, NEW y \in Nat,
         a = q + b + e + u + x + y
  PROVE  a = q + (b - 1) + (e + 1) + u + x + y /\ a = q + (b - 1) + e + (u + 1) + x + y
  BY SMTT(30)

\* A thread that is done with a message counts it.
LEMMA AdvanceMessages ==
  ASSUME TypeOK, TypeOK', Threads, Packets, NEW w \in Workers, batch[w] # <<>>,
         NEW f \in {"unheard", "delivered"}, Advance(w, f),
         UNCHANGED <<sender, packet, sent, subscribes, callback, last, queue>>
  PROVE  Threads' /\ Packets'
  <1>1. f \in Fates /\ Lined(w) /\ Balanced(w) BY DEF Fates, Threads
  <1>2. Lined(w)' /\ worker'[w] \notin Calling /\ Len(batch'[w]) = Len(batch[w]) - 1 /\ Len(batch[w]) \in Nat
    BY <1>1, AdvanceLined
  <1>3. Recent(w)' BY <1>2 DEF Recent
  <1>4. Count(w, {f}) /\ {f} \in SUBSET Fates BY <1>1, Advanced
  <1>5. /\ \A v \in Workers \ {w} : tally'[v] = tally[v]
        /\ \A g \in Fates : tally'[w][g] = IF g \in {f} THEN tally[w][g] + 1 ELSE tally[w][g]
    BY <1>4, CountType
  <1>6. Balanced(w)'
    <2>1. PICK q \in Nat, b \in Nat : q = Len(queue[w]) /\ b = Len(batch[w]) /\ b - 1 \in Int BY SMTT(30), <1>2 DEF TypeOK
    <2>2. PICK a \in Nat, e \in Nat, u \in Nat, x \in Nat, y \in Nat :
              /\ a = tally[w]["accepted"] /\ e = tally[w]["delivered"] /\ u = tally[w]["unheard"]
              /\ x = tally[w]["dropped"] /\ y = tally[w]["displaced"]
      BY Tallies
    <2>3. a = q + b + e + u + x + y BY <1>1, <2>1, <2>2 DEF Balanced
    <2>4. /\ tally'[w]["accepted"] = a /\ tally'[w]["dropped"] = x /\ tally'[w]["displaced"] = y
          /\ tally'[w]["delivered"] = IF f = "delivered" THEN e + 1 ELSE e
          /\ tally'[w]["unheard"] = IF f = "unheard" THEN u + 1 ELSE u
      BY <1>5, <2>2 DEF Fates
    <2>5. Len(queue'[w]) = q /\ Len(batch'[w]) = b - 1 BY <1>2, <2>1
    <2>6. a = q + (b - 1) + (e + 1) + u + x + y /\ a = q + (b - 1) + e + (u + 1) + x + y
      BY SMTT(30), <2>3, OneDone
    <2>7. CASE f = "delivered" BY <2>4, <2>5, <2>6, <2>7 DEF Balanced
    <2>8. CASE f = "unheard" BY <2>4, <2>5, <2>6, <2>8 DEF Balanced
    <2>9. QED BY <2>7, <2>8
  <1>7. \A v \in Workers \ {w} : batch'[v] = batch[v] /\ worker'[v] = worker[v] /\ calling'[v] = calling[v]
    <2>1. /\ batch' = [batch EXCEPT ![w] = Tail(batch[w])] /\ calling' = [calling EXCEPT ![w] = 0]
          /\ worker' = [worker EXCEPT ![w] = IF Len(batch[w]) = 1 THEN "test" ELSE "lookup"]
      BY <1>1, Advanced
    <2>2. batch \in [Workers -> Seq(Message)] /\ calling \in [Workers -> 0 .. MaxSubs] /\ DOMAIN worker = Workers
      BY DEF TypeOK
    <2>3. QED BY <2>1, <2>2
  <1>8. \A s \in Senders : \A t \in Topics : last'[s][t] <= Issued(s) BY DEF Packets, Packed
  <1>9. QED BY <1>2, <1>3, <1>5, <1>6, <1>7, <1>8, WorkerFrame

\* A thread that finds a callback: the message is called back after all earlier
\* ones of its sender and topic, by a callback no older than its check.
LEMMA LookupCalls ==
  ASSUME TypeOK, TypeOK', Threads, Packets, NEW w \in Workers, Lookup(w), callback # 0
  PROVE  Threads' /\ Packets'
  <1> USE DEF subscription, sending, working, ending
  <1>1. /\ Lined(w) /\ Balanced(w) /\ worker[w] = "lookup" /\ batch[w] # <<>>
        /\ callback = subscribes
    BY DEF Threads, Lookup, Lined, Packets
  <1>2. PICK b \in Seq(Message) : b = batch[w] BY DEF TypeOK
  <1>3. Len(b) \in Nat \ {0} /\ DOMAIN b = 1 .. Len(b) /\ Head(b) = b[1] BY SMTT(30), <1>1, <1>2, TailFacts
  <1>4. PICK m \in Message : m = b[1] /\ m = Head(batch[w]) BY SMTT(30), <1>2, <1>3
  <1>5. m.from \in Senders /\ m.topic \in Topics /\ m.number \in Int /\ m.since \in Int BY Numbers
  <1>6. /\ UNCHANGED <<queue, batch, tally, sender, packet, sent, subscribes, callback>>
        /\ calling' = [calling EXCEPT ![w] = callback] /\ worker' = [worker EXCEPT ![w] = "called"]
        /\ last' = [last EXCEPT ![m.from][m.topic] = m.number]
    BY <1>4 DEF Lookup, WorkerGoto
  <1>7. /\ \A s \in Senders : \A t \in Topics : s # m.from \/ t # m.topic => last'[s][t] = last[s][t]
        /\ last'[m.from][m.topic] = m.number
    BY SMTT(30), <1>5, <1>6 DEF TypeOK
  <1>8. /\ Route[m.topic] = w /\ m.number <= Issued(m.from) /\ m.since <= subscribes
        /\ \A i \in 1 .. Len(b) : i > 1 => Before(m, b[i])
        /\ \A j \in DOMAIN queue[w] : Before(m, queue[w][j])
    <2>1. 1 \in DOMAIN b /\ b[1] = m BY SMTT(30), <1>3, <1>4
    <2>2. Route[m.topic] = w /\ m.number <= Issued(m.from) /\ m.since <= subscribes BY <1>1, <1>2, <2>1 DEF Lined, Known
    <2>3. \A i \in 1 .. Len(b) : i > 1 => Before(m, b[i])
      <3>1. \A i \in DOMAIN b : 1 < i => Before(b[1], b[i]) BY <1>1, <1>2, <2>1 DEF Lined, Ordered
      <3>2. \A i \in 1 .. Len(b) : i > 1 => i \in DOMAIN b /\ 1 < i BY SMTT(30), <1>3
      <3>3. QED BY <2>1, <3>1, <3>2
    <2>4. \A j \in DOMAIN queue[w] : Before(m, queue[w][j]) BY <1>1, <1>2, <2>1 DEF Lined
    <2>5. QED BY <2>2, <2>3, <2>4
  <1>9. \A x \in Message : New(x) /\ Before(m, x) => New(x)'
    <2>1. \A x \in Message : x.from \in Senders /\ x.topic \in Topics BY Numbers
    <2>2. QED BY <1>5, <1>7, <2>1 DEF New, Before
  <1>10. \A x \in Message : Route[x.topic] # w => last'[x.from][x.topic] = last[x.from][x.topic]
    BY <1>7, <1>8, Numbers
  <1>11. \A s \in Senders : \A t \in Topics : last'[s][t] <= Issued(s) BY ZenonT(40), <1>5, <1>7, <1>8 DEF Packets, Packed
  <1>12. \A s \in Senders : Issued(s)' = Issued(s) BY <1>6 DEF Issued
  <1>13. worker'[w] = "called" /\ "called" \in Calling BY <1>6 DEF TypeOK, Calling
  <1>14. Lined(w)'
    <2>1. PICK q \in Seq(Message) : q = queue[w] BY DEF TypeOK
    <2>2. queue'[w] = q /\ batch'[w] = b BY <1>2, <1>6, <2>1
    <2>3. (\A i \in DOMAIN q : q[i] \in Message) /\ (\A i \in DOMAIN b : b[i] \in Message) BY SMTT(30), <2>1
    <2>4. Known(w, queue[w])' /\ Known(w, batch[w])'
      <3>1. Known(w, q) /\ Known(w, b) BY <1>1, <1>2, <2>1 DEF Lined
      <3>2. \A i \in DOMAIN q : Issued(q[i].from)' = Issued(q[i].from) BY <1>12, <2>3, Numbers
      <3>3. \A i \in DOMAIN b : Issued(b[i].from)' = Issued(b[i].from) BY <1>12, <2>3, Numbers
      <3>4. QED BY <1>6, <2>2, <3>1, <3>2, <3>3 DEF Known
    <2>5. Ordered(queue[w])' /\ Ordered(batch[w])' BY <1>1, <1>6 DEF Lined, Ordered, Before
    <2>6. (\A i \in DOMAIN batch[w], j \in DOMAIN queue[w] : Before(batch[w][i], queue[w][j]))'
      BY <1>1, <1>6 DEF Lined, Before
    <2>7. \A i \in DOMAIN q : New(q[i])'
      <3>1. \A i \in DOMAIN q : New(q[i]) /\ Before(m, q[i]) BY <1>1, <1>8, <2>1 DEF Lined
      <3>2. QED BY <1>9, <2>3, <3>1
    <2>8. \A i \in DOMAIN b : i > 1 => New(b[i])'
      <3>1. \A i \in DOMAIN b : i > 1 => New(b[i]) /\ Before(m, b[i]) BY <1>1, <1>2, <1>3, <1>8 DEF Lined
      <3>2. QED BY <1>9, <2>3, <3>1
    <2>9. (\A i \in DOMAIN queue[w] : New(queue[w][i]))' BY <2>2, <2>7
    <2>10. (\A i \in DOMAIN batch[w] : i > 1 \/ worker[w] \notin Calling => New(batch[w][i]))'
      BY <1>13, <2>2, <2>8
    <2>11. (batch[w] # <<>> <=> worker[w] \in Calling \cup {"lookup"})' BY <1>1, <1>6, <1>13
    <2>12. QED BY <2>4, <2>5, <2>6, <2>9, <2>10, <2>11 DEF Lined
  <1>15. Balanced(w)' BY <1>1, <1>6 DEF Balanced
  <1>16. Recent(w)'
    <2>1. calling'[w] = subscribes /\ Head(batch'[w]) = m BY <1>1, <1>4, <1>6 DEF TypeOK
    <2>2. subscribes \in Int BY Numbers
    <2>3. QED BY <1>5, <1>8, <2>1, <2>2 DEF Recent
  <1>17. \A v \in Workers \ {w} : worker'[v] = worker[v] /\ calling'[v] = calling[v] BY <1>6 DEF TypeOK
  <1>18. QED BY <1>6, <1>10, <1>11, <1>14, <1>15, <1>16, <1>17, WorkerFrame

\* A batch taken from the queue.
LEMMA OneTaken ==
  ASSUME NEW a \in Nat, NEW q \in Nat, NEW n \in Nat, n <= q, NEW e \in Nat, NEW u \in Nat, NEW x \in Nat, NEW y \in Nat,
         a = q + 0 + e + u + x + y
  PROVE  a = (q - n) + n + e + u + x + y
  BY SMTT(30)

\* A thread that takes a batch.
LEMMA TakeMessages ==
  ASSUME TypeOK, TypeOK', Threads, Packets, NEW w \in Workers, Test(w), queue' # queue \/ batch' # batch
  PROVE  Threads' /\ Packets'
  <1> USE DEF subscription, sending, working, ending
  <1>1. PICK n \in 1 .. Len(queue[w]) :
           /\ n <= MaxBatch /\ worker[w] = "test"
           /\ batch' = [batch EXCEPT ![w] = SubSeq(queue[w], 1, n)]
           /\ queue' = [queue EXCEPT ![w] = SubSeq(queue[w], n + 1, Len(queue[w]))]
           /\ worker' = [worker EXCEPT ![w] = "lookup"]
    BY TestTakes
  <1>2. UNCHANGED <<sender, packet, sent, subscribes, callback, calling, last, tally>> BY DEF Test
  <1>3. Lined(w) /\ Balanced(w) BY DEF Threads
  <1>4. Lined(w)' /\ Len(batch'[w]) = n /\ Len(queue'[w]) = Len(queue[w]) - n /\ batch[w] = <<>>
    BY <1>1, <1>2, <1>3, TakenLined
  <1>5. Balanced(w)'
    <2>1. PICK a \in Nat, e \in Nat, u \in Nat, x \in Nat, y \in Nat :
            /\ a = tally[w]["accepted"] /\ e = tally[w]["delivered"] /\ u = tally[w]["unheard"]
            /\ x = tally[w]["dropped"] /\ y = tally[w]["displaced"]
      BY Tallies
    <2>2. PICK q \in Nat : q = Len(queue[w]) BY SMTT(30), Parts
    <2>3. n \in Nat /\ n <= q BY SMTT(30), <2>2
    <2>4. Len(batch[w]) = 0 BY SMTT(30), <1>4
    <2>5. a = q + 0 + e + u + x + y BY <1>3, <2>1, <2>2, <2>4 DEF Balanced
    <2>6. a = (q - n) + n + e + u + x + y BY SMTT(30), <2>3, <2>5, OneTaken
    <2>7. QED BY <1>2, <1>4, <2>1, <2>2, <2>6 DEF Balanced
  <1>6. \A v \in Workers \ {w} : queue'[v] = queue[v] /\ batch'[v] = batch[v] /\ worker'[v] = worker[v]
    BY <1>1 DEF TypeOK
  <1>7. worker'[w] = "lookup" BY <1>1 DEF TypeOK
  <1>8. Recent(w)' BY <1>7 DEF Recent, Calling
  <1>9. \A s \in Senders : \A t \in Topics : last'[s][t] <= Issued(s) BY <1>2 DEF Packets, Packed
  <1>10. QED BY <1>2, <1>4, <1>5, <1>6, <1>8, <1>9, WorkerFrame

\* Steps of a processing thread.
LEMMA WorkerMessages ==
  ASSUME TypeOK, TypeOK', Threads, Packets, NEW w \in Workers, WorkerSteps(w) \/ CallPublishes(w)
  PROVE  Threads' /\ Packets'
  <1> USE DEF subscription, sending, working, ending
  <1>1. CASE Test(w) /\ (queue' # queue \/ batch' # batch) BY <1>1, TakeMessages
  <1>2. CASE Test(w) /\ UNCHANGED <<queue, batch>>
    <2>1. UNCHANGED <<sender, packet, sent, subscribes, callback, queue, batch, calling, last, tally>>
      BY <1>2 DEF Test
    <2>2. PICK l \in {"gone", "tested"} : worker' = [worker EXCEPT ![w] = l] /\ worker[w] = "test"
      <3>1. /\ worker[w] = "test"
            /\ \/ WorkerGoto(w, "gone") \/ WorkerGoto(w, "tested")
               \/ batch' = [batch EXCEPT ![w] = SubSeq(queue[w], 1, IF Len(queue[w]) < MaxBatch THEN Len(queue[w]) ELSE MaxBatch)]
                  /\ (IF Len(queue[w]) < MaxBatch THEN Len(queue[w]) ELSE MaxBatch) # 0
        BY <1>2 DEF Test
      <3>2. batch'[w] = <<>> BY <1>2, <3>1 DEF Threads, Lined, Calling
      <3>3. WorkerGoto(w, "gone") \/ WorkerGoto(w, "tested")
        <4>1. ASSUME NEW n \in Nat \ {0}, n <= Len(queue[w]) PROVE SubSeq(queue[w], 1, n) # <<>>
          <5>1. queue[w] \in Seq(Message) /\ n \in 1 .. Len(queue[w]) BY SMTT(30), <4>1, Parts
          <5>2. Len(SubSeq(queue[w], 1, n)) = n BY <5>1, TakenBatch
          <5>3. QED BY <5>2
        <4>2. PICK n : n = IF Len(queue[w]) < MaxBatch THEN Len(queue[w]) ELSE MaxBatch OBVIOUS
        <4>3. n \in Nat /\ n <= Len(queue[w])
          <5>1. Len(queue[w]) \in Nat BY SMTT(30), Parts
          <5>2. QED BY SMTT(30), <4>2, <5>1, DispatchAssumption
        <4>4. CASE batch' = [batch EXCEPT ![w] = SubSeq(queue[w], 1, n)] /\ n # 0
          <5>1. batch'[w] = SubSeq(queue[w], 1, n) BY <4>4 DEF TypeOK
          <5>2. SubSeq(queue[w], 1, n) # <<>> BY <4>1, <4>3, <4>4
          <5>3. QED BY <3>2, <5>1, <5>2
        <4>5. QED BY <3>1, <4>2, <4>4
      <3>4. QED BY <3>1, <3>3 DEF WorkerGoto
    <2>3. (l \in Calling <=> worker[w] \in Calling) /\ (l = "lookup" <=> worker[w] = "lookup") BY <2>2 DEF Calling
    <2>4. QED BY <2>1, <2>2, <2>3, WorkerWalks
  <1>3. CASE Sleep(w)
    <2>1. /\ UNCHANGED <<sender, packet, sent, subscribes, callback, queue, batch, calling, last, tally>>
          /\ worker' = [worker EXCEPT ![w] = "asleep"] /\ worker[w] = "tested"
      BY <1>3 DEF Sleep, WorkerGoto
    <2>2. ("asleep" \in Calling <=> worker[w] \in Calling) /\ ("asleep" = "lookup" <=> worker[w] = "lookup")
      BY <2>1 DEF Calling
    <2>3. QED BY <2>1, <2>2, WorkerWalks
  <1>4. CASE Lookup(w) /\ callback # 0 BY <1>4, LookupCalls
  <1>5. CASE Lookup(w) /\ callback = 0
    <2>1. /\ UNCHANGED <<sender, packet, sent, subscribes, callback, last, queue>>
          /\ Advance(w, "unheard") /\ worker[w] = "lookup"
      BY <1>5 DEF Lookup
    <2>2. batch[w] # <<>> BY <2>1 DEF Threads, Lined
    <2>3. QED BY <2>1, <2>2, AdvanceMessages
  <1>6. CASE CallPublishes(w)
    <2>1. /\ UNCHANGED <<sender, packet, sent, subscribes, callback, queue, batch, calling, last, tally>>
          /\ worker' = [worker EXCEPT ![w] = "publishing"] /\ worker[w] = "called"
      BY <1>6 DEF CallPublishes, WorkerGoto
    <2>2. ("publishing" \in Calling <=> worker[w] \in Calling) /\ ("publishing" = "lookup" <=> worker[w] = "lookup")
      BY <2>1 DEF Calling
    <2>3. QED BY <2>1, <2>2, WorkerWalks
  <1>7. CASE CallPublished(w)
    <2>1. PICK l \in {"destroying", "answered"} : worker' = [worker EXCEPT ![w] = l]
      BY <1>7 DEF CallPublished, WorkerGoto
    <2>2. /\ UNCHANGED <<sender, packet, sent, subscribes, callback, queue, batch, calling, last, tally>>
          /\ worker[w] = "publishing"
      BY <1>7 DEF CallPublished
    <2>3. (l \in Calling <=> worker[w] \in Calling) /\ (l = "lookup" <=> worker[w] = "lookup")
      BY <2>1, <2>2 DEF Calling
    <2>4. QED BY <2>1, <2>2, <2>3, WorkerWalks
  <1>8. CASE Return(w)
    <2>1. /\ UNCHANGED <<sender, packet, sent, subscribes, callback, last, queue>>
          /\ Advance(w, "delivered") /\ worker[w] \in Calling
      BY <1>8 DEF Return, Calling
    <2>2. batch[w] # <<>> BY <2>1 DEF Threads, Lined
    <2>3. QED BY <2>1, <2>2, AdvanceMessages
  <1>9. QED BY <1>1, <1>2, <1>3, <1>4, <1>5, <1>6, <1>7, <1>8 DEF WorkerSteps
-----------------------------------------------------------------------------
(* The invariant and the theorems *)

\* The invariant in the parts the lemmas are about.
LEMMA InvariantParts == IInv <=> TypeOK /\ Threads /\ Packets /\ Kept
  BY DEF IInv, Accounted, NeverAnOldCallback, Threads, Recent, Packets, Kept

\* The node that was just built satisfies the invariant.
LEMMA InitIInv == Init => IInv
  <1> SUFFICES ASSUME Init PROVE IInv OBVIOUS
  <1> USE DEF Init
  <1>1. TypeOK
    <2>1. packet \in [Senders -> Message] BY NoPacketType
    <2>2. sent \in [Senders -> 0 .. MaxSends] /\ last \in [Senders -> [Topics -> 0 .. MaxSends]] BY SMTT(30), DispatchAssumption
    <2>3. calling \in [Workers -> 0 .. MaxSubs] /\ callback \in 0 .. MaxSubs /\ subscribes \in 0 .. MaxSubs BY SMTT(30), DispatchAssumption
    <2>4. <<>> \in Seq(Message) /\ Len(<<>>) = 0 /\ 0 <= MaxQueue /\ 0 <= MaxBatch BY SMTT(30), DispatchAssumption
    <2>5. /\ queue \in [Workers -> Seq(Message)] /\ \A w \in Workers : Len(queue[w]) <= MaxQueue
          /\ batch \in [Workers -> Seq(Message)] /\ \A w \in Workers : Len(batch[w]) <= MaxBatch
      BY <2>4
    <2>6. QED BY <2>1, <2>2, <2>3, <2>5 DEF TypeOK, Policies, Holders
  <1>2. \A w \in Workers : queue[w] = <<>> /\ batch[w] = <<>> /\ worker[w] = "test" OBVIOUS
  <1>3. \A w \in Workers : Lined(w) BY SMTT(30), <1>2 DEF Lined, Known, Ordered, Calling
  <1>4. \A w \in Workers : Balanced(w) BY SMTT(30), <1>2 DEF Balanced, Fates
  <1>5. \A w \in Workers : Recent(w) BY <1>2 DEF Recent, Calling
  <1>6. \A s \in Senders : Packed(s)
    <2> TAKE s \in Senders
    <2>1. packet[s].since = 0 BY NoPacketType
    <2>2. QED BY SMTT(30), <2>1 DEF Packed, Issued
  <1>7. Held BY <1>2 DEF Held, Senders
  <1>8. TeardownOrder
    <2>1. destroyer \notin Workers /\ destroyer # System BY DispatchAssumption
    <2>2. QED BY <2>1 DEF TeardownOrder, QueuesExist
  <1>9. QED BY <1>1, <1>3, <1>4, <1>5, <1>6, <1>7, <1>8, InvariantParts DEF Threads, Packets, Kept

\* Every step keeps it.
LEMMA NextIInv == IInv /\ [Next]_vars => IInv'
  <1> SUFFICES ASSUME TypeOK, Threads, Packets, Kept, [Next]_vars
               PROVE  TypeOK' /\ Threads' /\ Packets' /\ Kept'
    <2>1. IInv' <=> TypeOK' /\ Threads' /\ Packets' /\ Kept'
      BY DEF IInv, Accounted, NeverAnOldCallback, Threads, Recent, Packets, Kept
    <2>2. QED BY <2>1, InvariantParts
  <1>1. CASE AppNext BY <1>1, AppTypes, AppMessages, AppHeld
  <1>2. CASE \E s \in Senders : SenderSteps(s) \/ \E t \in setup.topics : Deliver(s, t)
    <2>1. PICK s \in Senders : SenderSteps(s) \/ \E t \in setup.topics : Deliver(s, t) BY <1>2
    <2>2. QED BY <2>1, SenderTypes, SenderMessages, SenderHeld
  <1>3. CASE \E w \in Workers : WorkerSteps(w) \/ CallPublishes(w)
    <2>1. PICK w \in Workers : WorkerSteps(w) \/ CallPublishes(w) BY <1>3
    <2>2. worker[w] \in Calling \cup {"lookup"} => batch[w] # <<>> BY DEF Threads, Lined
    <2>3. TypeOK' BY <2>1, <2>2, WorkerTypes
    <2>4. QED BY <2>1, <2>3, WorkerMessages, WorkerHeld
  <1>4. CASE DestructorSteps BY <1>4, DestructorTypes, DestructorMessages, DestructorHeld
  <1>5. CASE UNCHANGED vars
    <2> USE <1>5 DEF vars, subscription, sending, working, ending
    <2>1. TypeOK' BY DEF TypeOK
    <2>2. subscribes \in Int /\ subscribes <= subscribes' BY SMTT(30), Numbers
    <2>3. Packets' BY <2>1, <2>2, PacketsStay DEF Packets
    <2>4. Threads' BY <2>1, <2>2, PacketsStay, ThreadsStay
    <2>5. Kept' BY StillHeld
    <2>6. QED BY <2>1, <2>3, <2>4, <2>5
  <1>6. CASE SystemNext BY <1>6, SystemTypes, SystemMessages, SystemHeld
  <1>7. QED BY <1>1, <1>2, <1>3, <1>4, <1>5, <1>6 DEF Next, SystemNext

\* The invariant of the node, whatever the number of threads, publishers and
\* topics, the size of queues and batches, and the user's code.
THEOREM Invariant == Spec => []IInv
  BY InitIInv, NextIInv, PTL DEF Spec

\* enqueueMessage and the processing threads lose and repeat nothing: every
\* message given to a thread waits, was called back, found no callback, was
\* counted as dropped or was displaced; queues and batches keep their limits.
THEOREM NothingUnaccounted == Spec => []Accounted
  <1>1. IInv => Accounted BY DEF IInv
  <1>2. QED BY <1>1, Invariant, PTL

\* No callback that subscribe replaced, or unsubscribe removed, is called for a
\* message that passed the check of enqueueMessage afterwards.
THEOREM OnlyRecentCallbacks == Spec => []NeverAnOldCallback
  <1>1. IInv => NeverAnOldCallback BY DEF IInv
  <1>2. QED BY <1>1, Invariant, PTL

\* The destructor destroys the queues after the system thread and all processing
\* threads have ended and when no publisher delivers; it joins its own thread only if a callback publishes.
THEOREM DestructorOrder == Spec => []TeardownOrder
  <1>1. IInv => TeardownOrder BY DEF IInv
  <1>2. QED BY <1>1, Invariant, PTL
-----------------------------------------------------------------------------
(* The order of the messages *)

\* Two sequences in order, the second after the first, are in order together.
LEMMA Joined ==
  ASSUME NEW b \in Seq(Message), NEW q \in Seq(Message), Ordered(b), Ordered(q),
         \A i \in DOMAIN b, j \in DOMAIN q : Before(b[i], q[j])
  PROVE  Ordered(b \o q) /\ \A i \in DOMAIN (b \o q) : (\E k \in DOMAIN b : (b \o q)[i] = b[k]) \/ \E k \in DOMAIN q : (b \o q)[i] = q[k]
  <1>1. /\ Len(b) \in Nat /\ Len(q) \in Nat /\ Len(b \o q) = Len(b) + Len(q) /\ DOMAIN (b \o q) = 1 .. Len(b) + Len(q)
        /\ DOMAIN b = 1 .. Len(b) /\ DOMAIN q = 1 .. Len(q)
    BY SMTT(30)
  <1>2. \A i \in 1 .. Len(b) + Len(q) :
          \/ i \in 1 .. Len(b) /\ (b \o q)[i] = b[i]
          \/ i > Len(b) /\ i - Len(b) \in 1 .. Len(q) /\ (b \o q)[i] = q[i - Len(b)]
    BY SMTT(30), <1>1
  <1>3. ASSUME NEW i \in 1 .. Len(b) + Len(q), NEW j \in 1 .. Len(b) + Len(q), i < j
        PROVE  Before((b \o q)[i], (b \o q)[j])
    <2>1. CASE j \in 1 .. Len(b)
      <3>1. i \in 1 .. Len(b) BY SMTT(30), <1>1, <1>3, <2>1
      <3>2. Before(b[i], b[j]) BY <1>1, <1>3, <2>1, <3>1 DEF Ordered
      <3>3. (b \o q)[i] = b[i] /\ (b \o q)[j] = b[j] BY SMTT(30), <1>1, <2>1, <3>1
      <3>4. QED BY <3>2, <3>3
    <2>2. CASE j \notin 1 .. Len(b) /\ i \in 1 .. Len(b)
      <3>1. j - Len(b) \in 1 .. Len(q) /\ (b \o q)[j] = q[j - Len(b)] BY <1>2, <2>2
      <3>2. Before(b[i], q[j - Len(b)]) BY <1>1, <2>2, <3>1
      <3>3. (b \o q)[i] = b[i] BY SMTT(30), <1>1, <2>2
      <3>4. QED BY <3>1, <3>2, <3>3
    <2>3. CASE j \notin 1 .. Len(b) /\ i \notin 1 .. Len(b)
      <3>1. j - Len(b) \in 1 .. Len(q) /\ (b \o q)[j] = q[j - Len(b)] BY <1>2, <2>3
      <3>2. i - Len(b) \in 1 .. Len(q) /\ (b \o q)[i] = q[i - Len(b)] BY <1>2, <2>3
      <3>3. i - Len(b) < j - Len(b) BY SMTT(30), <1>1, <1>3
      <3>4. Before(q[i - Len(b)], q[j - Len(b)]) BY <1>1, <3>1, <3>2, <3>3 DEF Ordered
      <3>5. QED BY <3>1, <3>2, <3>4
    <2>4. QED BY <2>1, <2>2, <2>3
  <1>4. Ordered(b \o q) BY <1>1, <1>3 DEF Ordered
  <1>5. \A i \in DOMAIN (b \o q) : (\E k \in DOMAIN b : (b \o q)[i] = b[k]) \/ \E k \in DOMAIN q : (b \o q)[i] = q[k]
    BY <1>1, <1>2
  <1>6. QED BY <1>4, <1>5

\* What a thread has still to call back.
LEMMA LinedInOrder ==
  ASSUME TypeOK, NEW w \in Workers, Lined(w), NEW b \in Seq(Message),
         b = IF worker[w] \in Calling THEN Tail(batch[w]) ELSE batch[w]
  PROVE  /\ Ordered(b \o queue[w])
         /\ \A i \in DOMAIN (b \o queue[w]) : Route[(b \o queue[w])[i].topic] = w /\ New((b \o queue[w])[i])
  <1>1. PICK q \in Seq(Message) : q = queue[w] BY DEF TypeOK
  <1>2. PICK a \in Seq(Message) : a = batch[w] BY DEF TypeOK
  <1>3. /\ Ordered(q) /\ Ordered(a) /\ \A i \in DOMAIN a, j \in DOMAIN q : Before(a[i], q[j])
        /\ \A i \in DOMAIN q : Route[q[i].topic] = w /\ New(q[i])
        /\ \A i \in DOMAIN a : Route[a[i].topic] = w /\ (i > 1 \/ worker[w] \notin Calling => New(a[i]))
    BY <1>1, <1>2 DEF Lined, Known
  <1>4. /\ Ordered(b) /\ \A i \in DOMAIN b, j \in DOMAIN q : Before(b[i], q[j])
        /\ \A i \in DOMAIN b : Route[b[i].topic] = w /\ New(b[i])
    <2>1. CASE worker[w] \notin Calling
      <3>1. b = a BY <1>2, <2>1
      <3>2. QED BY <1>3, <2>1, <3>1
    <2>2. CASE worker[w] \in Calling
      <3>1. b = Tail(a) /\ a # <<>> BY <1>2, <2>2 DEF Lined
      <3>2. Len(a) \in Nat \ {0} /\ Len(Tail(a)) = Len(a) - 1 /\ \A i \in 1 .. Len(a) - 1 : Tail(a)[i] = a[i + 1]
        BY <3>1, TailFacts
      <3>3. DOMAIN b = 1 .. Len(a) - 1 /\ DOMAIN a = 1 .. Len(a) /\ \A i \in 1 .. Len(a) - 1 : b[i] = a[i + 1]
        <4>1. Len(b) = Len(a) - 1 /\ \A i \in 1 .. Len(a) - 1 : b[i] = a[i + 1] BY <3>1, <3>2
        <4>2. DOMAIN b = 1 .. Len(b) /\ DOMAIN a = 1 .. Len(a) BY SMTT(30)
        <4>3. QED BY <4>1, <4>2
      <3>4. \A i \in 1 .. Len(a) - 1 : i + 1 \in 1 .. Len(a) /\ i + 1 > 1 BY SMTT(30), <3>2
      <3>5. ASSUME NEW i \in DOMAIN b, NEW j \in DOMAIN b, i < j PROVE Before(b[i], b[j])
        <4>0. i \in Int /\ j \in Int BY SMTT(30), <3>2, <3>3
        <4>1. i + 1 \in DOMAIN a /\ j + 1 \in DOMAIN a /\ i + 1 < j + 1 BY SMTT(30), <3>3, <3>4, <3>5, <4>0
        <4>2. Before(a[i + 1], a[j + 1]) BY <1>3, <4>1 DEF Ordered
        <4>3. QED BY <3>3, <4>2
      <3>6. ASSUME NEW i \in DOMAIN b PROVE Route[b[i].topic] = w /\ New(b[i]) /\ \A j \in DOMAIN q : Before(b[i], q[j])
        <4>1. i + 1 \in DOMAIN a /\ i + 1 > 1 /\ b[i] = a[i + 1] BY <3>3, <3>4
        <4>2. QED BY <1>3, <4>1
      <3>7. QED BY <3>5, <3>6 DEF Ordered
    <2>3. QED BY <2>1, <2>2
  <1>5. Ordered(b \o q) BY <1>3, <1>4, Joined
  <1>6. ASSUME NEW i \in DOMAIN (b \o q) PROVE Route[(b \o q)[i].topic] = w /\ New((b \o q)[i])
    <2>1. (\E k \in DOMAIN b : (b \o q)[i] = b[k]) \/ \E k \in DOMAIN q : (b \o q)[i] = q[k] BY <1>3, <1>4, Joined
    <2>2. QED BY <1>3, <1>4, <2>1
  <1>7. QED BY <1>1, <1>5, <1>6

\* The messages of a sender on a topic are called back in the order in which they
\* were sent, none twice: the same topic always has the same thread, whose batch
\* comes before its queue, under all overflow policies.
THEOREM OrderKept == Spec => []InOrder
  <1>1. ASSUME IInv, NEW w \in Workers
        PROVE  Ordered(Todo(w)) /\ \A i \in DOMAIN Todo(w) : Route[Todo(w)[i].topic] = w /\ New(Todo(w)[i])
    <2>1. TypeOK /\ Lined(w) BY <1>1 DEF IInv, Accounted
    <2>2. batch[w] \in Seq(Message) /\ (worker[w] \in Calling => batch[w] # <<>>) BY <2>1 DEF TypeOK, Lined
    <2>3. PICK b : b = IF worker[w] \in Calling THEN Tail(batch[w]) ELSE batch[w] OBVIOUS
    <2>4. b \in Seq(Message) BY <2>2, <2>3, TailFacts
    <2>5. Todo(w) = b \o queue[w] BY <2>3 DEF Todo
    <2>6. /\ Ordered(b \o queue[w])
          /\ \A i \in DOMAIN (b \o queue[w]) : Route[(b \o queue[w])[i].topic] = w /\ New((b \o queue[w])[i])
      BY <2>1, <2>3, <2>4, LinedInOrder
    <2>7. QED BY <2>5, <2>6
  <1>2. IInv => InOrder BY <1>1 DEF InOrder
  <1>3. QED BY <1>2, Invariant, PTL
==============================================================================
