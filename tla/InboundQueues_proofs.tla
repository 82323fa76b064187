------------------------ MODULE InboundQueues_proofs ------------------------
(***************************************************************************)
(* The inductive invariant of InboundQueues and its theorems, for any      *)
(* number of senders and any bounds.                                       *)
(***************************************************************************)
EXTENDS InboundQueues, FiniteSetTheorems, WellFoundedInduction, TLAPS

\* Leaves go to Zenon unless they name another prover.
USE Zenon

(* Arithmetic *)

\* A non-empty set of numbers has a least element.
LEMMA LeastNumber ==
  ASSUME NEW M \in SUBSET Nat, M # {}
  PROVE  \E x \in M : \A y \in M : x <= y
<1>1. PICK x \in M : \A y \in M : ~(<<y, x>> \in OpToRel(<, Nat))
  BY NatLessThanWellFounded, WFMin
<1>2. OpToRel(<, Nat) = {ss \in Nat \X Nat : ss[1] < ss[2]}
  BY DEF OpToRel
<1>3. \A y \in M : x \in Nat /\ y \in Nat /\ ~(y < x)
  BY <1>1, <1>2
<1>4. \A a, b \in Nat : ~(b < a) => a <= b
  BY SMTT(30)
<1> QED
  BY <1>3, <1>4

\* A remainder is what is left of a multiple.
LEMMA Remainder ==
  ASSUME NEW m \in Nat \ {0}, NEW q \in Int, NEW r \in 0 .. m - 1
  PROVE  (m * q + r) % m = r
BY SMTT(30)

\* A wrapping counter adds up as an unbounded one would: fetch_add, fetch_sub.
LEMMA WrapAdd ==
  ASSUME NEW m \in Nat \ {0}, NEW a \in Int, NEW b \in Int
  PROVE  ((a % m) + b) % m = (a + b) % m
<1> DEFINE u == a \div m
           v == ((a % m) + b) \div m
           r == ((a % m) + b) % m
<1>1. a = m * u + (a % m) /\ u \in Int /\ a % m \in Int
  BY SMTT(30)
<1>2. (a % m) + b = m * v + r /\ v \in Int /\ r \in 0 .. m - 1
  BY SMTT(30), <1>1
<1> HIDE DEF u, v, r
<1>3. a + b = (m * u + m * v) + r
  BY SMTT(30), <1>1, <1>2
<1>4. m * u + m * v = m * (u + v) /\ u + v \in Int
  BY SMTT(30), <1>1, <1>2
<1>5. (m * (u + v) + r) % m = r
  BY <1>2, <1>4, Remainder
<1> QED
  BY <1>3, <1>4, <1>5 DEF r

\* The pending counters stay in their range.
LEMMA PendingRange == PendMod \in Nat \ {0} /\ \A n \in Int : n % PendMod \in 0 .. PendMod - 1
BY SMTT(30), InboundAssumption

\* The first queue of a pass is one of them.
LEMMA FirstIn ==
  ASSUME NEW Q \in SUBSET Senders, Q # {}
  PROVE  First(Q) \in Q
<1>1. {Slot[s] : s \in Q} \in SUBSET Nat /\ {Slot[s] : s \in Q} # {}
  BY SMTT(30), InboundAssumption
<1>2. PICK x \in {Slot[s] : s \in Q} : \A y \in {Slot[s] : s \in Q} : x <= y
  BY <1>1, LeastNumber
<1>3. \E s \in Q : \A t \in Q : Slot[s] <= Slot[t]
  BY <1>2
<1> QED
  BY <1>3 DEF First

\* A counter of one ring changes: the table of the counters keeps its type.
LEMMA Updated ==
  ASSUME NEW D, NEW f \in [Senders -> [Kinds -> D]], NEW s, NEW k \in Kinds, NEW v,
         s \in Senders => v \in D
  PROVE  [f EXCEPT ![s][k] = v] \in [Senders -> [Kinds -> D]]
<1>1. CASE s \in Senders
  <2>1. f[s] \in [Kinds -> D]
    BY <1>1
  <2>2. [f[s] EXCEPT ![k] = v] \in [Kinds -> D]
    BY <2>1, <1>1
  <2> QED
    BY <2>2
<1>2. CASE s \notin Senders
  BY <1>2
<1> QED
  BY <1>1, <1>2

\* There is a number of senders.
LEMMA SendersCounted == Cardinality(Senders) \in Nat
BY InboundAssumption, FS_CardinalityType

-----------------------------------------------------------------------------
(* The steps of a sender, with the two ways into tryWrite merged *)

Write(s) == /\ spc[s] \in {"idle", "retry"} /\ s \in conn
            /\ \E k \in Kinds, fast \in BOOLEAN : SendWrite(s, k, fast)
Refuse(s) == /\ spc[s] \in {"idle", "retry"} /\ s \in conn
             /\ \E k \in Kinds, fast \in BOOLEAN : SendFull(s, k, fast)
Slow(s) == \E k \in Kinds : SendSlow(s, k)

(* The types, in parts *)

RingType == /\ written \in [Senders -> [Kinds -> Nat]] /\ taken \in [Senders -> [Kinds -> Nat]]
            /\ pending \in [Senders -> [Kinds -> 0 .. PendMod - 1]]
SemType == sem \in [Senders -> [Kinds -> Nat]]
PlaceType == spc \in [Senders -> {"idle", "create", "lock", "signal_new", "unlock", "publish", "retry",
                                  "count", "signal", "dead", "died_uncounted"}]
KindType == skind \in [Senders -> Kinds]
PathType == sfast \in [Senders -> BOOLEAN] /\ congestion \in [Senders -> Nat]
SetType == /\ active \subseteq Senders /\ conn \subseteq Senders
           /\ mutex \in Senders \cup {None, Rcv} /\ setup \in Setups
LoopType == /\ rpc \in {"top", "scan", "idle", "visit", "drain", "lock", "locked", "waiting", "unlock",
                        "trywait", "semwait", "exit"}
            /\ todo \subseteq Senders /\ known \subseteq Senders /\ pass \in Kinds /\ processed \in Nat
FlagType == /\ receiving \in BOOLEAN /\ hasMessages \in BOOLEAN /\ woken \in BOOLEAN
            /\ heart \in {"loop", "blocked"} /\ stopper \in {"idle", "wake", "join", "heartbeat", "done"}
CountType == numQueues \in Nat /\ cached \in 0 .. Cardinality(Senders)

\* They make up TypeOK, but for the bound on num_queues.
LEMMA TypeParts ==
  TypeOK <=> /\ RingType /\ SemType /\ PlaceType /\ KindType /\ PathType /\ SetType /\ LoopType
             /\ FlagType /\ CountType /\ numQueues <= Cardinality(Senders)
<1>1. Cardinality(Senders) \in Nat
  BY InboundAssumption, FS_CardinalityType
<1>2. numQueues \in 0 .. Cardinality(Senders) <=> numQueues \in Nat /\ numQueues <= Cardinality(Senders)
  BY SMTT(30), <1>1
<1> QED
  BY <1>2 DEF TypeOK, RingType, SemType, PlaceType, KindType, PathType, SetType, LoopType,
     FlagType, CountType

\* Every step of a sender is one of these.
LEMMA SenderCases ==
  ASSUME KindType, NEW s \in Senders, Sender(s)
  PROVE  \/ Write(s) \/ Refuse(s) \/ Slow(s) \/ CreateQueue(s) \/ CreateLock(s) \/ CreateSignal(s)
         \/ CreateUnlock(s) \/ PublishQueue(s) \/ SendDropped(s) \/ SendCount(s) \/ SendSignal(s)
         \/ Disconnect(s) \/ Die(s)
<1>1. ASSUME NEW k \in Kinds, SendFast(s, k) PROVE Write(s) \/ Refuse(s)
  BY <1>1 DEF SendFast, Write, Refuse
<1>2. CASE SendRetry(s)
  <2>1. skind[s] \in Kinds
    BY DEF KindType
  <2> QED
    BY <1>2, <2>1 DEF SendRetry, Write, Refuse
<1> QED
  BY <1>1, <1>2 DEF Sender, SenderSteps, Slow

-----------------------------------------------------------------------------
(* What each step leaves of the types *)

\* The rings and the pending counters keep their types, whatever a sender does.
LEMMA RingSender ==
  ASSUME RingType, KindType, LoopType, NEW s \in Senders, Sender(s)
  PROVE  RingType'
<1>1. CASE Write(s)
  <2>1. PICK k \in Kinds : written' = [written EXCEPT ![s][k] = @ + 1]
    BY <1>1 DEF Write, SendWrite
  <2>2. written[s][k] + 1 \in Nat
    BY SMTT(30) DEF RingType
  <2>3. written' \in [Senders -> [Kinds -> Nat]]
    BY <2>1, <2>2, Updated DEF RingType
  <2> QED
    BY <1>1, <2>3 DEF Write, SendWrite, RingType
<1>2. CASE CreateQueue(s)
  BY SMTT(30), <1>2, PendingRange DEF CreateQueue, Goto, RingType, KindType, Kinds
<1>3. CASE SendCount(s)
  <2>1. skind[s] \in Kinds
    BY DEF KindType
  <2>2. (pending[s][skind[s]] + 1) % PendMod \in 0 .. PendMod - 1
    BY SMTT(30), <2>1, PendingRange DEF RingType
  <2>3. pending' = [pending EXCEPT ![s][skind[s]] = (pending[s][skind[s]] + 1) % PendMod]
    BY <1>3 DEF SendCount
  <2>4. pending' \in [Senders -> [Kinds -> 0 .. PendMod - 1]]
    BY <2>1, <2>2, <2>3, Updated DEF RingType
  <2> QED
    BY <1>3, <2>4 DEF SendCount, RingType
<1>4. CASE Refuse(s) \/ Slow(s) \/ CreateLock(s) \/ CreateSignal(s) \/ CreateUnlock(s)
         \/ PublishQueue(s) \/ SendDropped(s) \/ SendSignal(s) \/ Disconnect(s) \/ Die(s)
  BY <1>4 DEF Refuse, SendFull, Goto, Slow, SendSlow, CreateLock, CreateSignal, CreateUnlock,
     PublishQueue, SendDropped, SendSignal, Disconnect, Die, ringVars, RingType
<1> QED
  BY <1>1, <1>2, <1>3, <1>4, SenderCases

\* The rings and the pending counters keep their types, whatever the receive thread does.
LEMMA RingReceiver ==
  ASSUME RingType, KindType, LoopType, Receiver
  PROVE  RingType'
<1>1. CASE RcvRead
  <2> DEFINE q == First(todo)
  <2>1. taken' = [taken EXCEPT ![q][pass] = taken[q][pass] + 1] /\ pass \in Kinds
    BY <1>1 DEF RcvRead, LoopType
  <2> HIDE DEF q
  <2>2. q \in Senders => taken[q][pass] + 1 \in Nat
    BY SMTT(30), <2>1 DEF RingType
  <2>3. taken' \in [Senders -> [Kinds -> Nat]]
    BY <2>1, <2>2, Updated DEF RingType
  <2> QED
    BY <1>1, <2>3 DEF RcvRead, RingType
<1>2. CASE RcvDrained
  <2> DEFINE q == First(todo)
  <2>1. /\ pending' = [pending EXCEPT ![q][pass] = (pending[q][pass] - processed) % PendMod]
        /\ pass \in Kinds /\ processed \in Nat
    BY <1>2 DEF RcvDrained, LoopType
  <2> HIDE DEF q
  <2>2. q \in Senders => (pending[q][pass] - processed) % PendMod \in 0 .. PendMod - 1
    <3>1. ASSUME q \in Senders PROVE pending[q][pass] \in 0 .. PendMod - 1
      BY <2>1, <3>1 DEF RingType
    <3>2. ASSUME q \in Senders PROVE pending[q][pass] - processed \in Int
      BY SMTT(30), <2>1, <3>1, <3>2, PendingRange
    <3> QED
      BY <3>2, PendingRange
  <2>3. pending' \in [Senders -> [Kinds -> 0 .. PendMod - 1]]
    BY <2>1, <2>2, Updated DEF RingType
  <2> QED
    BY <1>2, <2>3 DEF RcvDrained, RingType
<1>3. CASE RcvStop \/ RcvLoadCount \/ RcvScan \/ RcvScanned \/ RcvIdle \/ RcvVisit \/ RcvDataPass
         \/ RcvPassesDone \/ RcvLock \/ RcvWait \/ RcvWoken \/ RcvTimeout \/ RcvUnlock \/ RcvTryWait
         \/ RcvSemWait
  BY <1>3 DEF RcvStop, RcvLoadCount, RcvScan, RcvScanned, RcvIdle, RcvVisit, RcvDataPass,
     RcvPassesDone, RcvLock, RcvWait, RcvWoken, RcvTimeout, RcvUnlock, RcvTryWait, RcvSemWait,
     ringVars, RingType
<1> QED
  BY <1>1, <1>2, <1>3 DEF Receiver

\* The rings and the pending counters keep their types, whatever stopReceiving does.
LEMMA RingStopper ==
  ASSUME RingType, KindType, LoopType, Stopper
  PROVE  RingType'
<1>1. CASE StopBegin \/ StopWake \/ StopJoined \/ StopHeartbeat
  BY <1>1 DEF StopBegin, StopWake, StopJoined, StopHeartbeat, ringVars, RingType
<1> QED
  BY <1>1 DEF Stopper, StopSteps

\* The semaphores keep their type, whatever a sender does.
LEMMA SemSender ==
  ASSUME SemType, KindType, LoopType, NEW s \in Senders, Sender(s)
  PROVE  SemType'
<1>1. CASE CreateQueue(s)
  BY <1>1 DEF CreateQueue, Goto, SemType, Kinds
<1>2. CASE SendSignal(s)
  <2>1. skind[s] \in Kinds
    BY DEF KindType
  <2>2. sem[s][skind[s]] + 1 \in Nat
    BY SMTT(30), <2>1 DEF SemType
  <2>3. [sem EXCEPT ![s][skind[s]] = sem[s][skind[s]] + 1] \in [Senders -> [Kinds -> Nat]]
    BY <2>1, <2>2, Updated DEF SemType
  <2> QED
    BY <1>2, <2>3 DEF SendSignal, SemType
<1>3. CASE Write(s) \/ Refuse(s) \/ Slow(s) \/ CreateLock(s) \/ CreateSignal(s) \/ CreateUnlock(s)
         \/ PublishQueue(s) \/ SendDropped(s) \/ SendCount(s) \/ Disconnect(s) \/ Die(s)
  BY <1>3 DEF Write, SendWrite, Goto, Refuse, SendFull, Slow, SendSlow, CreateLock, CreateSignal,
     CreateUnlock, PublishQueue, SendDropped, SendCount, Disconnect, Die, SemType
<1> QED
  BY <1>1, <1>2, <1>3, SenderCases

\* The semaphores keep their type, whatever the receive thread does.
LEMMA SemReceiver ==
  ASSUME SemType, KindType, LoopType, Receiver
  PROVE  SemType'
<1>1. CASE RcvTryWait
  <2> DEFINE k == IF Posted("control") # {} THEN "control" ELSE "data"
  <2>1. CASE Posted("control") \cup Posted("data") = {}
    BY <1>1, <2>1 DEF RcvTryWait, SemType
  <2>2. CASE Posted("control") \cup Posted("data") # {}
    <3>1. Posted(k) \in SUBSET Senders /\ Posted(k) # {} /\ k \in Kinds
      BY <2>2 DEF Posted, LoopType, Kinds
    <3>2. First(Posted(k)) \in Posted(k)
      BY <3>1, FirstIn
    <3>3. First(Posted(k)) \in Senders /\ sem[First(Posted(k))][k] > 0
      BY <3>1, <3>2 DEF Posted
    <3>4. sem' = [sem EXCEPT ![First(Posted(k))][k] = @ - 1]
      BY <1>1, <2>2 DEF RcvTryWait
    <3> QED
      BY SMTT(30), <3>1, <3>3, <3>4 DEF SemType
  <2> QED
    BY <2>1, <2>2
<1>2. CASE RcvSemWait
  <2> DEFINE q == First(known)
  <2>1. sem' = IF sem[q]["control"] > 0 THEN [sem EXCEPT ![q]["control"] = @ - 1] ELSE sem
    BY <1>2 DEF RcvSemWait
  <2> HIDE DEF q
  <2>2. "control" \in Kinds
    BY DEF Kinds
  <2>3. ASSUME sem[q]["control"] > 0 PROVE q \in Senders => sem[q]["control"] - 1 \in Nat
    BY SMTT(30), <2>2, <2>3 DEF SemType
  <2>4. ASSUME sem[q]["control"] > 0
        PROVE  [sem EXCEPT ![q]["control"] = sem[q]["control"] - 1] \in [Senders -> [Kinds -> Nat]]
    BY <2>2, <2>3, <2>4, Updated DEF SemType
  <2> QED
    BY <2>1, <2>4 DEF SemType
<1>3. CASE RcvStop \/ RcvLoadCount \/ RcvScan \/ RcvScanned \/ RcvIdle \/ RcvVisit \/ RcvRead
         \/ RcvDrained \/ RcvDataPass \/ RcvPassesDone \/ RcvLock \/ RcvWait \/ RcvWoken
         \/ RcvTimeout \/ RcvUnlock
  BY <1>3 DEF RcvStop, RcvLoadCount, RcvScan, RcvScanned, RcvIdle, RcvVisit, RcvRead, RcvDrained,
     RcvDataPass, RcvPassesDone, RcvLock, RcvWait, RcvWoken, RcvTimeout, RcvUnlock, SemType
<1> QED
  BY <1>1, <1>2, <1>3 DEF Receiver

\* The semaphores keep their type, whatever stopReceiving does.
LEMMA SemStopper ==
  ASSUME SemType, KindType, LoopType, Stopper
  PROVE  SemType'
<1>1. CASE StopBegin \/ StopWake \/ StopJoined \/ StopHeartbeat
  BY <1>1 DEF StopBegin, StopWake, StopJoined, StopHeartbeat, SemType
<1> QED
  BY <1>1 DEF Stopper, StopSteps

\* A sender is at a place of send(), whatever a sender does.
LEMMA PlaceSender ==
  ASSUME PlaceType, KindType, NEW s \in Senders, Sender(s)
  PROVE  PlaceType'
<1>1. CASE Write(s)
  BY <1>1 DEF Write, SendWrite, Goto, PlaceType
<1>2. CASE Refuse(s)
  BY <1>2 DEF Refuse, SendFull, Goto, PlaceType
<1>3. CASE Slow(s)
  BY <1>3 DEF Slow, SendSlow, Goto, PlaceType
<1>4. CASE CreateQueue(s)
  BY <1>4 DEF CreateQueue, Goto, PlaceType
<1>5. CASE CreateLock(s)
  BY <1>5 DEF CreateLock, Goto, PlaceType
<1>6. CASE CreateSignal(s)
  BY <1>6 DEF CreateSignal, Goto, PlaceType
<1>7. CASE CreateUnlock(s)
  BY <1>7 DEF CreateUnlock, Goto, PlaceType
<1>8. CASE PublishQueue(s)
  BY <1>8 DEF PublishQueue, Goto, PlaceType
<1>9. CASE SendDropped(s)
  BY <1>9 DEF SendDropped, Goto, PlaceType
<1>10. CASE SendCount(s)
  BY <1>10 DEF SendCount, Goto, PlaceType
<1>11. CASE SendSignal(s)
  BY <1>11 DEF SendSignal, Goto, PlaceType
<1>12. CASE Die(s)
  BY <1>12 DEF Die, Goto, PlaceType
<1>13. CASE Disconnect(s)
  BY <1>13 DEF Disconnect, PlaceType
<1> QED
  BY <1>1, <1>2, <1>3, <1>4, <1>5, <1>6, <1>7, <1>8, <1>9, <1>10, <1>11, <1>12, <1>13, SenderCases

\* A sender is at a place of send(), whatever the receive thread does.
LEMMA PlaceReceiver ==
  ASSUME PlaceType, KindType, Receiver
  PROVE  PlaceType'
<1>1. CASE RcvStop \/ RcvLoadCount \/ RcvScan \/ RcvScanned \/ RcvIdle \/ RcvVisit \/ RcvRead
         \/ RcvDrained \/ RcvDataPass \/ RcvPassesDone \/ RcvLock \/ RcvWait \/ RcvWoken
         \/ RcvTimeout \/ RcvUnlock \/ RcvTryWait \/ RcvSemWait
  BY <1>1 DEF RcvStop, RcvLoadCount, RcvScan, RcvScanned, RcvIdle, RcvVisit, RcvRead, RcvDrained,
     RcvDataPass, RcvPassesDone, RcvLock, RcvWait, RcvWoken, RcvTimeout, RcvUnlock, RcvTryWait,
     RcvSemWait, senderVars, PlaceType
<1> QED
  BY <1>1 DEF Receiver

\* A sender is at a place of send(), whatever stopReceiving does.
LEMMA PlaceStopper ==
  ASSUME PlaceType, KindType, Stopper
  PROVE  PlaceType'
<1>1. CASE StopBegin \/ StopWake \/ StopJoined \/ StopHeartbeat
  BY <1>1 DEF StopBegin, StopWake, StopJoined, StopHeartbeat, senderVars, PlaceType
<1> QED
  BY <1>1 DEF Stopper, StopSteps

\* A message is a control or a data message, whatever a sender does.
LEMMA KindSender ==
  ASSUME KindType, NEW s \in Senders, Sender(s)
  PROVE  KindType'
<1>1. CASE Write(s)
  BY <1>1 DEF Write, SendWrite, Goto, KindType
<1>2. CASE Slow(s)
  BY <1>2 DEF Slow, SendSlow, Goto, KindType
<1>3. CASE Refuse(s) \/ CreateQueue(s) \/ CreateLock(s) \/ CreateSignal(s) \/ CreateUnlock(s)
         \/ PublishQueue(s) \/ SendDropped(s) \/ SendCount(s) \/ SendSignal(s) \/ Disconnect(s)
         \/ Die(s)
  BY <1>3 DEF Refuse, SendFull, Goto, CreateQueue, CreateLock, CreateSignal, CreateUnlock,
     PublishQueue, SendDropped, SendCount, SendSignal, Disconnect, Die, KindType
<1> QED
  BY <1>1, <1>2, <1>3, SenderCases

\* A message is a control or a data message, whatever the receive thread does.
LEMMA KindReceiver ==
  ASSUME KindType, Receiver
  PROVE  KindType'
<1>1. CASE RcvStop \/ RcvLoadCount \/ RcvScan \/ RcvScanned \/ RcvIdle \/ RcvVisit \/ RcvRead
         \/ RcvDrained \/ RcvDataPass \/ RcvPassesDone \/ RcvLock \/ RcvWait \/ RcvWoken
         \/ RcvTimeout \/ RcvUnlock \/ RcvTryWait \/ RcvSemWait
  BY <1>1 DEF RcvStop, RcvLoadCount, RcvScan, RcvScanned, RcvIdle, RcvVisit, RcvRead, RcvDrained,
     RcvDataPass, RcvPassesDone, RcvLock, RcvWait, RcvWoken, RcvTimeout, RcvUnlock, RcvTryWait,
     RcvSemWait, senderVars, KindType
<1> QED
  BY <1>1 DEF Receiver

\* A message is a control or a data message, whatever stopReceiving does.
LEMMA KindStopper ==
  ASSUME KindType, Stopper
  PROVE  KindType'
<1>1. CASE StopBegin \/ StopWake \/ StopJoined \/ StopHeartbeat
  BY <1>1 DEF StopBegin, StopWake, StopJoined, StopHeartbeat, senderVars, KindType
<1> QED
  BY <1>1 DEF Stopper, StopSteps

\* congestion_level never wraps below zero, whatever a sender does.
LEMMA PathSender ==
  ASSUME PathType, KindType, NEW s \in Senders, Sender(s)
  PROVE  PathType'
<1>1. CASE Write(s)
  BY SMTT(30), <1>1, InboundAssumption DEF Write, SendWrite, Goto, PathType
<1>2. CASE Refuse(s)
  <2>1. PICK k \in Kinds, fast \in BOOLEAN : SendFull(s, k, fast)
    BY <1>2 DEF Refuse
  <2>2. CongestionUp(congestion[s], fast) \in Nat
    BY SMTT(30), InboundAssumption DEF CongestionUp, PathType
  <2> QED
    BY <2>1, <2>2 DEF SendFull, PathType
<1>3. CASE CreateQueue(s)
  BY <1>3, InboundAssumption DEF CreateQueue, Goto, PathType
<1>4. CASE SendCount(s)
  BY SMTT(30), <1>4, InboundAssumption DEF SendCount, Relax, Goto, PathType
<1>5. CASE SendSignal(s)
  BY SMTT(30), <1>5, InboundAssumption DEF SendSignal, Relax, Goto, PathType
<1>6. CASE Slow(s) \/ CreateLock(s) \/ CreateSignal(s) \/ CreateUnlock(s) \/ PublishQueue(s)
         \/ SendDropped(s) \/ Disconnect(s) \/ Die(s)
  BY <1>6 DEF Slow, SendSlow, Goto, CreateLock, CreateSignal, CreateUnlock, PublishQueue, SendDropped,
     Disconnect, Die, PathType
<1> QED
  BY <1>1, <1>2, <1>3, <1>4, <1>5, <1>6, SenderCases

\* congestion_level never wraps below zero, whatever the receive thread does.
LEMMA PathReceiver ==
  ASSUME PathType, KindType, Receiver
  PROVE  PathType'
<1>1. CASE RcvStop \/ RcvLoadCount \/ RcvScan \/ RcvScanned \/ RcvIdle \/ RcvVisit \/ RcvRead
         \/ RcvDrained \/ RcvDataPass \/ RcvPassesDone \/ RcvLock \/ RcvWait \/ RcvWoken
         \/ RcvTimeout \/ RcvUnlock \/ RcvTryWait \/ RcvSemWait
  BY <1>1 DEF RcvStop, RcvLoadCount, RcvScan, RcvScanned, RcvIdle, RcvVisit, RcvRead, RcvDrained,
     RcvDataPass, RcvPassesDone, RcvLock, RcvWait, RcvWoken, RcvTimeout, RcvUnlock, RcvTryWait,
     RcvSemWait, senderVars, PathType
<1> QED
  BY <1>1 DEF Receiver

\* congestion_level never wraps below zero, whatever stopReceiving does.
LEMMA PathStopper ==
  ASSUME PathType, KindType, Stopper
  PROVE  PathType'
<1>1. CASE StopBegin \/ StopWake \/ StopJoined \/ StopHeartbeat
  BY <1>1 DEF StopBegin, StopWake, StopJoined, StopHeartbeat, senderVars, PathType
<1> QED
  BY <1>1 DEF Stopper, StopSteps

\* Queues, connections and the owner of the mutex keep their types, whatever a sender does.
LEMMA SetsSender ==
  ASSUME SetType, KindType, NEW s \in Senders, Sender(s)
  PROVE  SetType'
<1>1. CASE Slow(s)
  BY <1>1 DEF Slow, SendSlow, Goto, queueVars, SetType
<1>2. CASE CreateQueue(s)
  BY <1>2 DEF CreateQueue, Goto, SetType
<1>3. CASE CreateLock(s)
  BY <1>3 DEF CreateLock, Goto, queueVars, SetType
<1>4. CASE CreateUnlock(s)
  BY <1>4 DEF CreateUnlock, Goto, queueVars, SetType
<1>5. CASE PublishQueue(s)
  BY <1>5 DEF PublishQueue, Goto, SetType
<1>6. CASE Disconnect(s)
  BY <1>6 DEF Disconnect, queueVars, SetType
<1>7. CASE Write(s) \/ Refuse(s) \/ CreateSignal(s) \/ SendDropped(s) \/ SendCount(s)
         \/ SendSignal(s) \/ Die(s)
  BY <1>7 DEF Write, SendWrite, Goto, Refuse, SendFull, CreateSignal, SendDropped, SendCount,
     SendSignal, Die, queueVars, SetType
<1> QED
  BY <1>1, <1>2, <1>3, <1>4, <1>5, <1>6, <1>7, SenderCases

\* Queues, connections and the owner of the mutex keep their types, whatever the receive thread does.
LEMMA SetsReceiver ==
  ASSUME SetType, KindType, Receiver
  PROVE  SetType'
<1>1. CASE RcvLock
  BY <1>1 DEF RcvLock, queueVars, senderVars, SetType
<1>2. CASE RcvWait
  BY <1>2 DEF RcvWait, queueVars, senderVars, SetType
<1>3. CASE RcvWoken
  BY <1>3 DEF RcvWoken, queueVars, senderVars, SetType
<1>4. CASE RcvTimeout
  BY <1>4 DEF RcvTimeout, queueVars, senderVars, SetType
<1>5. CASE RcvUnlock
  BY <1>5 DEF RcvUnlock, queueVars, senderVars, SetType
<1>6. CASE RcvStop \/ RcvLoadCount \/ RcvScan \/ RcvScanned \/ RcvIdle \/ RcvVisit \/ RcvRead
         \/ RcvDrained \/ RcvDataPass \/ RcvPassesDone \/ RcvTryWait \/ RcvSemWait
  BY <1>6 DEF RcvStop, RcvLoadCount, RcvScan, RcvScanned, RcvIdle, RcvVisit, RcvRead, RcvDrained,
     RcvDataPass, RcvPassesDone, RcvTryWait, RcvSemWait, queueVars, senderVars, SetType
<1> QED
  BY <1>1, <1>2, <1>3, <1>4, <1>5, <1>6 DEF Receiver

\* Queues, connections and the owner of the mutex keep their types, whatever stopReceiving does.
LEMMA SetsStopper ==
  ASSUME SetType, KindType, Stopper
  PROVE  SetType'
<1>1. CASE StopBegin \/ StopWake \/ StopJoined \/ StopHeartbeat
  BY <1>1 DEF StopBegin, StopWake, StopJoined, StopHeartbeat, queueVars, senderVars, SetType
<1> QED
  BY <1>1 DEF Stopper, StopSteps

\* The receive loop keeps its types, whatever a sender does.
LEMMA LoopSender ==
  ASSUME LoopType, SetType, KindType, NEW s \in Senders, Sender(s)
  PROVE  LoopType'
<1>1. CASE Write(s) \/ Refuse(s) \/ Slow(s) \/ CreateQueue(s) \/ CreateLock(s) \/ CreateSignal(s)
         \/ CreateUnlock(s) \/ PublishQueue(s) \/ SendDropped(s) \/ SendCount(s) \/ SendSignal(s)
         \/ Disconnect(s) \/ Die(s)
  BY <1>1 DEF Write, SendWrite, Goto, Refuse, SendFull, Slow, SendSlow, CreateQueue, CreateLock,
     CreateSignal, CreateUnlock, PublishQueue, SendDropped, SendCount, SendSignal, Disconnect, Die,
     loopVars, LoopType
<1> QED
  BY <1>1, SenderCases

\* The receive loop keeps its types, whatever the receive thread does.
LEMMA LoopReceiver ==
  ASSUME LoopType, SetType, KindType, Receiver
  PROVE  LoopType'
<1>1. CASE RcvStop
  BY <1>1 DEF RcvStop, queueVars, senderVars, loopVars, LoopType, SetType, Kinds
<1>2. CASE RcvLoadCount
  BY <1>2 DEF RcvLoadCount, queueVars, senderVars, LoopType, SetType, Kinds
<1>3. CASE RcvScan
  BY <1>3 DEF RcvScan, queueVars, senderVars, LoopType, SetType, Kinds
<1>4. CASE RcvScanned
  BY <1>4 DEF RcvScanned, queueVars, senderVars, LoopType, SetType, Kinds
<1>5. CASE RcvIdle
  BY <1>5 DEF RcvIdle, queueVars, senderVars, loopVars, LoopType, SetType, Kinds
<1>6. CASE RcvVisit
  BY SMTT(30), <1>6 DEF RcvVisit, queueVars, senderVars, LoopType, SetType, Kinds
<1>7. CASE RcvRead
  BY SMTT(30), <1>7 DEF RcvRead, queueVars, senderVars, LoopType, SetType, Kinds
<1>8. CASE RcvDrained
  BY <1>8 DEF RcvDrained, queueVars, senderVars, LoopType, SetType, Kinds
<1>9. CASE RcvDataPass
  BY <1>9 DEF RcvDataPass, queueVars, senderVars, LoopType, SetType, Kinds
<1>10. CASE RcvPassesDone
  BY <1>10 DEF RcvPassesDone, queueVars, senderVars, loopVars, LoopType, SetType, Kinds
<1>11. CASE RcvLock
  BY <1>11 DEF RcvLock, queueVars, senderVars, loopVars, LoopType, SetType, Kinds
<1>12. CASE RcvWait
  BY <1>12 DEF RcvWait, queueVars, senderVars, loopVars, LoopType, SetType, Kinds
<1>13. CASE RcvWoken
  BY <1>13 DEF RcvWoken, queueVars, senderVars, loopVars, LoopType, SetType, Kinds
<1>14. CASE RcvTimeout
  BY <1>14 DEF RcvTimeout, queueVars, senderVars, loopVars, LoopType, SetType, Kinds
<1>15. CASE RcvUnlock
  BY <1>15 DEF RcvUnlock, queueVars, senderVars, loopVars, LoopType, SetType, Kinds
<1>16. CASE RcvTryWait
  BY <1>16 DEF RcvTryWait, queueVars, senderVars, loopVars, LoopType, SetType, Kinds
<1>17. CASE RcvSemWait
  BY <1>17 DEF RcvSemWait, queueVars, senderVars, loopVars, LoopType, SetType, Kinds
<1> QED
  BY <1>1, <1>2, <1>3, <1>4, <1>5, <1>6, <1>7, <1>8, <1>9, <1>10, <1>11, <1>12, <1>13, <1>14, <1>15, <1>16, <1>17 DEF Receiver

\* The receive loop keeps its types, whatever stopReceiving does.
LEMMA LoopStopper ==
  ASSUME LoopType, SetType, KindType, Stopper
  PROVE  LoopType'
<1>1. CASE StopBegin \/ StopWake \/ StopJoined \/ StopHeartbeat
  BY <1>1 DEF StopBegin, StopWake, StopJoined, StopHeartbeat, loopVars, LoopType
<1> QED
  BY <1>1 DEF Stopper, StopSteps

\* The flags keep their types, whatever a sender does.
LEMMA FlagsSender ==
  ASSUME FlagType, KindType, NEW s \in Senders, Sender(s)
  PROVE  FlagType'
<1>1. CASE CreateSignal(s)
  BY <1>1 DEF CreateSignal, Wake, Goto, loopVars, stopVars, FlagType
<1>2. CASE SendSignal(s)
  BY <1>2 DEF SendSignal, Wake, Goto, loopVars, stopVars, FlagType
<1>3. CASE Write(s) \/ Refuse(s) \/ Slow(s) \/ CreateQueue(s) \/ CreateLock(s) \/ CreateUnlock(s)
         \/ PublishQueue(s) \/ SendDropped(s) \/ SendCount(s) \/ Disconnect(s) \/ Die(s)
  BY ZenonT(40), <1>3 DEF Write, SendWrite, Goto, Refuse, SendFull, Slow, SendSlow, CreateQueue, CreateLock,
     CreateUnlock, PublishQueue, SendDropped, SendCount, Disconnect, Die, loopVars, stopVars, FlagType
<1> QED
  BY <1>1, <1>2, <1>3, SenderCases

\* The flags keep their types, whatever the receive thread does.
LEMMA FlagsReceiver ==
  ASSUME FlagType, KindType, Receiver
  PROVE  FlagType'
<1>1. CASE RcvLoadCount
  BY <1>1 DEF RcvLoadCount, stopVars, FlagType
<1>2. CASE RcvRead
  BY <1>2 DEF RcvRead, stopVars, FlagType
<1>3. CASE RcvWait
  BY <1>3 DEF RcvWait, loopVars, stopVars, FlagType
<1>4. CASE RcvWoken
  BY <1>4 DEF RcvWoken, loopVars, stopVars, FlagType
<1>5. CASE RcvStop \/ RcvScan \/ RcvScanned \/ RcvIdle \/ RcvVisit \/ RcvDrained \/ RcvDataPass
         \/ RcvPassesDone \/ RcvLock \/ RcvTimeout \/ RcvUnlock \/ RcvTryWait \/ RcvSemWait
  BY <1>5 DEF RcvStop, RcvScan, RcvScanned, RcvIdle, RcvVisit, RcvDrained, RcvDataPass, RcvPassesDone,
     RcvLock, RcvTimeout, RcvUnlock, RcvTryWait, RcvSemWait, loopVars, stopVars, FlagType
<1> QED
  BY <1>1, <1>2, <1>3, <1>4, <1>5 DEF Receiver

\* The flags keep their types, whatever stopReceiving does.
LEMMA FlagsStopper ==
  ASSUME FlagType, KindType, Stopper
  PROVE  FlagType'
<1>1. CASE StopBegin
  BY <1>1 DEF StopBegin, loopVars, FlagType
<1>2. CASE StopWake
  BY <1>2 DEF StopWake, Wake, loopVars, FlagType
<1>3. CASE StopJoined \/ StopHeartbeat
  BY <1>3 DEF StopJoined, StopHeartbeat, loopVars, FlagType
<1> QED
  BY <1>1, <1>2, <1>3 DEF Stopper, StopSteps

\* The counts of queues keep their types, whatever a sender does.
LEMMA CountSender ==
  ASSUME CountType, KindType, numQueues <= Cardinality(Senders), NEW s \in Senders, Sender(s)
  PROVE  CountType'
<1>1. CASE PublishQueue(s)
  BY SMTT(30), <1>1 DEF PublishQueue, Goto, loopVars, CountType
<1>2. CASE Write(s) \/ Refuse(s) \/ Slow(s) \/ CreateQueue(s) \/ CreateLock(s) \/ CreateSignal(s)
         \/ CreateUnlock(s) \/ SendDropped(s) \/ SendCount(s) \/ SendSignal(s) \/ Disconnect(s)
         \/ Die(s)
  BY <1>2 DEF Write, SendWrite, Goto, Refuse, SendFull, Slow, SendSlow, CreateQueue, CreateLock,
     CreateSignal, CreateUnlock, SendDropped, SendCount, SendSignal, Disconnect, Die, queueVars,
     loopVars, CountType
<1> QED
  BY <1>1, <1>2, SenderCases

\* The counts of queues keep their types, whatever the receive thread does.
LEMMA CountReceiver ==
  ASSUME CountType, KindType, numQueues <= Cardinality(Senders), Receiver
  PROVE  CountType'
<1>1. CASE RcvLoadCount
  BY SMTT(30), <1>1, SendersCounted DEF RcvLoadCount, queueVars, CountType
<1>2. CASE RcvStop \/ RcvScan \/ RcvScanned \/ RcvIdle \/ RcvVisit \/ RcvRead \/ RcvDrained
         \/ RcvDataPass \/ RcvPassesDone \/ RcvLock \/ RcvWait \/ RcvWoken \/ RcvTimeout
         \/ RcvUnlock \/ RcvTryWait \/ RcvSemWait
  BY <1>2 DEF RcvStop, RcvScan, RcvScanned, RcvIdle, RcvVisit, RcvRead, RcvDrained, RcvDataPass,
     RcvPassesDone, RcvLock, RcvWait, RcvWoken, RcvTimeout, RcvUnlock, RcvTryWait, RcvSemWait,
     queueVars, loopVars, CountType
<1> QED
  BY <1>1, <1>2 DEF Receiver

\* The counts of queues keep their types, whatever stopReceiving does.
LEMMA CountStopper ==
  ASSUME CountType, KindType, numQueues <= Cardinality(Senders), Stopper
  PROVE  CountType'
<1>1. CASE StopBegin \/ StopWake \/ StopJoined \/ StopHeartbeat
  BY <1>1 DEF StopBegin, StopWake, StopJoined, StopHeartbeat, queueVars, loopVars, CountType
<1> QED
  BY <1>1 DEF Stopper, StopSteps

-----------------------------------------------------------------------------
(* The other parts of the invariant *)

\* A queue that was never activated stays empty, whatever a sender does.
LEMMA UntouchedSender ==
  ASSUME PlaceType, KindType, SetType, LoopType, RingType, Untouched, VisitsActive, NEW s \in Senders, Sender(s)
  PROVE  Untouched'
<1>1. CASE Write(s)
  <2>1. PICK k \in Kinds : written' = [written EXCEPT ![s][k] = @ + 1]
    BY <1>1 DEF Write, SendWrite
  <2>2. s \in active
    BY <1>1 DEF Write, Untouched
  <2>3. \A t \in Senders \ {s} : written'[t] = written[t] /\ spc'[t] = spc[t]
    BY <1>1, <2>1 DEF Write, SendWrite, Goto, RingType, PlaceType
  <2>4. spc'[s] = "count"
    BY <1>1 DEF Write, SendWrite, Goto, PlaceType
  <2> QED
    BY SMTT(30), <1>1, <2>2, <2>3, <2>4 DEF Write, SendWrite, queueVars, Untouched
<1>2. CASE Refuse(s)
  BY SMTT(30), <1>2 DEF Refuse, SendFull, Goto, ringVars, queueVars, Untouched, PlaceType, SetType
<1>3. CASE Slow(s)
  BY SMTT(30), <1>3 DEF Slow, SendSlow, Goto, ringVars, queueVars, Untouched, PlaceType, SetType
<1>4. CASE CreateQueue(s)
  BY <1>4 DEF CreateQueue, Goto, Untouched, PlaceType, SetType
<1>5. CASE CreateLock(s)
  BY <1>5 DEF CreateLock, Goto, ringVars, queueVars, Untouched, PlaceType, SetType
<1>6. CASE CreateSignal(s)
  BY <1>6 DEF CreateSignal, Goto, ringVars, queueVars, Untouched, PlaceType, SetType
<1>7. CASE CreateUnlock(s)
  BY <1>7 DEF CreateUnlock, Goto, ringVars, queueVars, Untouched, PlaceType, SetType
<1>8. CASE PublishQueue(s)
  BY <1>8 DEF PublishQueue, Goto, ringVars, Untouched, PlaceType, SetType
<1>9. CASE SendDropped(s)
  BY <1>9 DEF SendDropped, Goto, ringVars, queueVars, Untouched, PlaceType, SetType
<1>10. CASE SendCount(s)
  BY <1>10 DEF SendCount, Goto, queueVars, Untouched, PlaceType, SetType
<1>11. CASE SendSignal(s)
  BY <1>11 DEF SendSignal, Goto, ringVars, queueVars, Untouched, PlaceType, SetType
<1>12. CASE Disconnect(s)
  BY <1>12 DEF Disconnect, ringVars, queueVars, Untouched, PlaceType, SetType
<1>13. CASE Die(s)
  BY <1>13 DEF Die, Goto, ringVars, queueVars, Untouched, PlaceType, SetType
<1> QED
  BY <1>1, <1>2, <1>3, <1>4, <1>5, <1>6, <1>7, <1>8, <1>9, <1>10, <1>11, <1>12, <1>13, SenderCases

\* A queue that was never activated stays empty, whatever the receive thread does.
LEMMA UntouchedReceiver ==
  ASSUME PlaceType, KindType, SetType, LoopType, RingType, Untouched, VisitsActive, Receiver
  PROVE  Untouched'
<1>1. CASE RcvRead
  <2> DEFINE q == First(todo)
  <2>1. q \in active
    BY <1>1, FirstIn DEF RcvRead, VisitsActive, LoopType
  <2>2. taken' = [taken EXCEPT ![q][pass] = taken[q][pass] + 1]
    BY <1>1 DEF RcvRead
  <2> HIDE DEF q
  <2>3. \A t \in Senders : t \notin active => taken'[t] = taken[t]
    BY <2>1, <2>2 DEF RingType
  <2> QED
    BY <1>1, <2>3 DEF RcvRead, queueVars, senderVars, Untouched
<1>2. CASE RcvStop \/ RcvLoadCount \/ RcvScan \/ RcvScanned \/ RcvIdle \/ RcvVisit \/ RcvDrained
         \/ RcvDataPass \/ RcvPassesDone \/ RcvLock \/ RcvWait \/ RcvWoken \/ RcvTimeout
         \/ RcvUnlock \/ RcvTryWait \/ RcvSemWait
  BY <1>2 DEF RcvStop, RcvLoadCount, RcvScan, RcvScanned, RcvIdle, RcvVisit, RcvDrained, RcvDataPass,
     RcvPassesDone, RcvLock, RcvWait, RcvWoken, RcvTimeout, RcvUnlock, RcvTryWait, RcvSemWait,
     ringVars, queueVars, senderVars, Untouched
<1> QED
  BY <1>1, <1>2 DEF Receiver

\* A queue that was never activated stays empty, whatever stopReceiving does.
LEMMA UntouchedStopper ==
  ASSUME PlaceType, KindType, SetType, LoopType, RingType, Untouched, VisitsActive, Stopper
  PROVE  Untouched'
<1>1. CASE StopBegin \/ StopWake \/ StopJoined \/ StopHeartbeat
  BY <1>1 DEF StopBegin, StopWake, StopJoined, StopHeartbeat, ringVars, queueVars, senderVars, Untouched
<1> QED
  BY <1>1 DEF Stopper, StopSteps

\* The receive thread goes on visiting active queues only, whatever a sender does.
LEMMA VisitsSender ==
  ASSUME SetType, KindType, LoopType, VisitsActive, NEW s \in Senders, Sender(s)
  PROVE  VisitsActive'
<1>1. CASE CreateQueue(s)
  BY <1>1 DEF CreateQueue, Goto, loopVars, VisitsActive
<1>2. CASE Write(s) \/ Refuse(s) \/ Slow(s) \/ CreateLock(s) \/ CreateSignal(s) \/ CreateUnlock(s)
         \/ PublishQueue(s) \/ SendDropped(s) \/ SendCount(s) \/ SendSignal(s) \/ Disconnect(s)
         \/ Die(s)
  BY <1>2 DEF Write, SendWrite, Goto, Refuse, SendFull, Slow, SendSlow, CreateLock, CreateSignal,
     CreateUnlock, PublishQueue, SendDropped, SendCount, SendSignal, Disconnect, Die, queueVars,
     loopVars, VisitsActive
<1> QED
  BY <1>1, <1>2, SenderCases

\* The receive thread goes on visiting active queues only, whatever the receive thread does.
LEMMA VisitsReceiver ==
  ASSUME SetType, KindType, LoopType, VisitsActive, Receiver
  PROVE  VisitsActive'
<1>1. CASE RcvLoadCount
  BY <1>1 DEF RcvLoadCount, queueVars, VisitsActive, LoopType
<1>2. CASE RcvScan
  BY <1>2 DEF RcvScan, queueVars, VisitsActive, LoopType
<1>3. CASE RcvScanned
  BY <1>3 DEF RcvScanned, queueVars, VisitsActive, LoopType
<1>4. CASE RcvVisit
  BY <1>4 DEF RcvVisit, queueVars, VisitsActive, LoopType
<1>5. CASE RcvDrained
  BY <1>5 DEF RcvDrained, queueVars, VisitsActive, LoopType
<1>6. CASE RcvDataPass
  BY <1>6 DEF RcvDataPass, queueVars, VisitsActive, LoopType
<1>7. CASE RcvStop \/ RcvIdle \/ RcvRead \/ RcvPassesDone \/ RcvLock \/ RcvWait \/ RcvWoken
         \/ RcvTimeout \/ RcvUnlock \/ RcvTryWait \/ RcvSemWait
  BY <1>7 DEF RcvStop, RcvIdle, RcvRead, RcvPassesDone, RcvLock, RcvWait, RcvWoken, RcvTimeout,
     RcvUnlock, RcvTryWait, RcvSemWait, queueVars, loopVars, VisitsActive
<1> QED
  BY <1>1, <1>2, <1>3, <1>4, <1>5, <1>6, <1>7 DEF Receiver

\* The receive thread goes on visiting active queues only, whatever stopReceiving does.
LEMMA VisitsStopper ==
  ASSUME SetType, KindType, LoopType, VisitsActive, Stopper
  PROVE  VisitsActive'
<1>1. CASE StopBegin \/ StopWake \/ StopJoined \/ StopHeartbeat
  BY <1>1 DEF StopBegin, StopWake, StopJoined, StopHeartbeat, queueVars, loopVars, VisitsActive
<1> QED
  BY <1>1 DEF Stopper, StopSteps

\* global_mutex keeps to its owner, whatever a sender does.
LEMMA MutexSender ==
  ASSUME SetType, PlaceType, KindType, LoopType, MutexOwner, NEW s \in Senders, Sender(s)
  PROVE  MutexOwner'
<1>1. CASE Write(s)
  BY SMTT(30), <1>1, InboundAssumption DEF Write, SendWrite, Goto, MutexOwner, PlaceType
<1>2. CASE Refuse(s)
  BY <1>2, InboundAssumption DEF Refuse, SendFull, Goto, MutexOwner, PlaceType
<1>3. CASE Slow(s)
  BY SMTT(30), <1>3, InboundAssumption DEF Slow, SendSlow, Goto, MutexOwner, PlaceType
<1>4. CASE CreateQueue(s)
  BY <1>4, InboundAssumption DEF CreateQueue, Goto, MutexOwner, PlaceType
<1>5. CASE CreateLock(s)
  BY <1>5, InboundAssumption DEF CreateLock, Goto, MutexOwner, PlaceType
<1>6. CASE CreateSignal(s)
  BY <1>6, InboundAssumption DEF CreateSignal, Goto, MutexOwner, PlaceType
<1>7. CASE CreateUnlock(s)
  BY <1>7, InboundAssumption DEF CreateUnlock, Goto, MutexOwner, PlaceType
<1>8. CASE PublishQueue(s)
  BY <1>8, InboundAssumption DEF PublishQueue, Goto, MutexOwner, PlaceType
<1>9. CASE SendDropped(s)
  BY <1>9, InboundAssumption DEF SendDropped, Goto, MutexOwner, PlaceType
<1>10. CASE SendCount(s)
  BY <1>10, InboundAssumption DEF SendCount, Goto, MutexOwner, PlaceType
<1>11. CASE SendSignal(s)
  BY <1>11, InboundAssumption DEF SendSignal, Goto, MutexOwner, PlaceType
<1>12. CASE Disconnect(s)
  BY <1>12, InboundAssumption DEF Disconnect, MutexOwner, PlaceType
<1>13. CASE Die(s)
  BY <1>13, InboundAssumption DEF Die, Goto, MutexOwner, PlaceType
<1> QED
  BY <1>1, <1>2, <1>3, <1>4, <1>5, <1>6, <1>7, <1>8, <1>9, <1>10, <1>11, <1>12, <1>13, SenderCases

\* global_mutex keeps to its owner, whatever the receive thread does.
LEMMA MutexReceiver ==
  ASSUME SetType, PlaceType, KindType, LoopType, MutexOwner, Receiver
  PROVE  MutexOwner'
<1>1. CASE RcvStop
  BY <1>1, InboundAssumption DEF RcvStop, senderVars, loopVars, MutexOwner, PlaceType, LoopType
<1>2. CASE RcvLoadCount
  BY <1>2, InboundAssumption DEF RcvLoadCount, senderVars, MutexOwner, PlaceType, LoopType
<1>3. CASE RcvScan
  BY <1>3, InboundAssumption DEF RcvScan, senderVars, MutexOwner, PlaceType, LoopType
<1>4. CASE RcvScanned
  BY <1>4, InboundAssumption DEF RcvScanned, senderVars, MutexOwner, PlaceType, LoopType
<1>5. CASE RcvIdle
  BY <1>5, InboundAssumption DEF RcvIdle, senderVars, loopVars, MutexOwner, PlaceType, LoopType
<1>6. CASE RcvVisit
  BY <1>6, InboundAssumption DEF RcvVisit, senderVars, MutexOwner, PlaceType, LoopType
<1>7. CASE RcvRead
  BY <1>7, InboundAssumption DEF RcvRead, senderVars, MutexOwner, PlaceType, LoopType
<1>8. CASE RcvDrained
  BY <1>8, InboundAssumption DEF RcvDrained, senderVars, MutexOwner, PlaceType, LoopType
<1>9. CASE RcvDataPass
  BY <1>9, InboundAssumption DEF RcvDataPass, senderVars, MutexOwner, PlaceType, LoopType
<1>10. CASE RcvPassesDone
  BY <1>10, InboundAssumption DEF RcvPassesDone, senderVars, loopVars, MutexOwner, PlaceType, LoopType
<1>11. CASE RcvLock
  BY <1>11, InboundAssumption DEF RcvLock, senderVars, loopVars, MutexOwner, PlaceType, LoopType
<1>12. CASE RcvWait
  BY <1>12, InboundAssumption DEF RcvWait, senderVars, loopVars, MutexOwner, PlaceType, LoopType
<1>13. CASE RcvWoken
  BY <1>13, InboundAssumption DEF RcvWoken, senderVars, loopVars, MutexOwner, PlaceType, LoopType
<1>14. CASE RcvTimeout
  BY <1>14, InboundAssumption DEF RcvTimeout, senderVars, loopVars, MutexOwner, PlaceType, LoopType
<1>15. CASE RcvUnlock
  BY <1>15, InboundAssumption DEF RcvUnlock, senderVars, loopVars, MutexOwner, PlaceType, LoopType
<1>16. CASE RcvTryWait
  BY <1>16, InboundAssumption DEF RcvTryWait, senderVars, loopVars, MutexOwner, PlaceType, LoopType
<1>17. CASE RcvSemWait
  BY <1>17, InboundAssumption DEF RcvSemWait, senderVars, loopVars, MutexOwner, PlaceType, LoopType
<1> QED
  BY <1>1, <1>2, <1>3, <1>4, <1>5, <1>6, <1>7, <1>8, <1>9, <1>10, <1>11, <1>12, <1>13, <1>14, <1>15, <1>16, <1>17 DEF Receiver

\* global_mutex keeps to its owner, whatever stopReceiving does.
LEMMA MutexStopper ==
  ASSUME SetType, PlaceType, KindType, LoopType, MutexOwner, Stopper
  PROVE  MutexOwner'
<1>1. CASE StopBegin \/ StopWake \/ StopJoined \/ StopHeartbeat
  BY <1>1 DEF StopBegin, StopWake, StopJoined, StopHeartbeat, senderVars, MutexOwner
<1> QED
  BY <1>1 DEF Stopper, StopSteps

\* The queues counted so far stay counted.
LEMMA CountGrows ==
  ASSUME SetType, SetType', CountType, QueuesCounted, Published \subseteq Published', numQueues' = numQueues
  PROVE  QueuesCounted'
<1>1. IsFiniteSet(Published')
  BY InboundAssumption, FS_Subset DEF SetType, Published
<1>2. Cardinality(Published) <= Cardinality(Published') /\ IsFiniteSet(Published)
  BY <1>1, FS_Subset
<1>3. Cardinality(Published) \in Nat /\ Cardinality(Published') \in Nat
  BY <1>1, <1>2, FS_CardinalityType
<1> QED
  BY SMTT(30), <1>2, <1>3 DEF QueuesCounted, CountType

\* num_queues counts published queues only, whatever a sender does.
LEMMA CountedSender ==
  ASSUME PlaceType, KindType, SetType, SetType', CountType, Untouched, QueuesCounted, NEW s \in Senders, Sender(s)
  PROVE  QueuesCounted'
<1>1. CASE Write(s)
  <2>1. Published \subseteq Published' /\ numQueues' = numQueues
    BY SMTT(30), <1>1 DEF Write, SendWrite, Goto, queueVars, Published, PlaceType, Untouched
  <2> QED
    BY <2>1, CountGrows
<1>2. CASE Refuse(s)
  <2>1. Published \subseteq Published' /\ numQueues' = numQueues
    BY SMTT(30), <1>2 DEF Refuse, SendFull, Goto, queueVars, Published, PlaceType, Untouched
  <2> QED
    BY <2>1, CountGrows
<1>3. CASE Slow(s)
  <2>1. /\ spc'[s] \in {"retry", "create"} /\ \A t \in Senders \ {s} : spc'[t] = spc[t]
        /\ active' = active /\ numQueues' = numQueues
    BY <1>3 DEF Slow, SendSlow, Goto, queueVars, PlaceType
  <2>2. Published \subseteq Published'
    BY <2>1 DEF Published, SetType
  <2> QED
    BY <2>1, <2>2, CountGrows
<1>4. CASE CreateQueue(s)
  <2>1. Published \subseteq Published' /\ numQueues' = numQueues
    BY SMTT(30), <1>4 DEF CreateQueue, Goto, Published, PlaceType, Untouched
  <2> QED
    BY <2>1, CountGrows
<1>5. CASE CreateLock(s)
  <2>1. Published \subseteq Published' /\ numQueues' = numQueues
    BY SMTT(30), <1>5 DEF CreateLock, Goto, queueVars, Published, PlaceType, Untouched
  <2> QED
    BY <2>1, CountGrows
<1>6. CASE CreateSignal(s)
  <2>1. Published \subseteq Published' /\ numQueues' = numQueues
    BY SMTT(30), <1>6 DEF CreateSignal, Goto, queueVars, Published, PlaceType, Untouched
  <2> QED
    BY <2>1, CountGrows
<1>7. CASE CreateUnlock(s)
  <2>1. Published \subseteq Published' /\ numQueues' = numQueues
    BY SMTT(30), <1>7 DEF CreateUnlock, Goto, queueVars, Published, PlaceType, Untouched
  <2> QED
    BY <2>1, CountGrows
<1>8. CASE PublishQueue(s)
  <2>1. s \in active /\ s \notin Published /\ numQueues' = numQueues + 1
    BY <1>8 DEF PublishQueue, Untouched, Published
  <2>2. Published' = Published \cup {s}
    BY <1>8, <2>1 DEF PublishQueue, Goto, Published, PlaceType, SetType
  <2>3. IsFiniteSet(Published)
    BY InboundAssumption, FS_Subset DEF SetType, Published
  <2>4. Cardinality(Published') = Cardinality(Published) + 1
    BY <2>1, <2>2, <2>3, FS_AddElement
  <2>5. Cardinality(Published) \in Nat
    BY <2>3, FS_CardinalityType
  <2> QED
    BY SMTT(30), <2>1, <2>4, <2>5 DEF QueuesCounted, CountType
<1>9. CASE SendDropped(s)
  <2>1. Published \subseteq Published' /\ numQueues' = numQueues
    BY SMTT(30), <1>9 DEF SendDropped, Goto, queueVars, Published, PlaceType, Untouched
  <2> QED
    BY <2>1, CountGrows
<1>10. CASE SendCount(s)
  <2>1. /\ spc'[s] \in {"signal", "idle"} /\ \A t \in Senders \ {s} : spc'[t] = spc[t]
        /\ active' = active /\ numQueues' = numQueues
    BY <1>10 DEF SendCount, Goto, queueVars, PlaceType
  <2>2. Published \subseteq Published'
    BY <2>1 DEF Published, SetType
  <2> QED
    BY <2>1, <2>2, CountGrows
<1>11. CASE SendSignal(s)
  <2>1. Published \subseteq Published' /\ numQueues' = numQueues
    BY SMTT(30), <1>11 DEF SendSignal, Goto, queueVars, Published, PlaceType, Untouched
  <2> QED
    BY <2>1, CountGrows
<1>12. CASE Disconnect(s)
  <2>1. Published \subseteq Published' /\ numQueues' = numQueues
    BY <1>12 DEF Disconnect, queueVars, Published, PlaceType, Untouched
  <2> QED
    BY <2>1, CountGrows
<1>13. CASE Die(s)
  <2>1. Published \subseteq Published' /\ numQueues' = numQueues
    BY SMTT(30), <1>13 DEF Die, Goto, queueVars, Published, PlaceType, Untouched
  <2> QED
    BY <2>1, CountGrows
<1> QED
  BY <1>1, <1>2, <1>3, <1>4, <1>5, <1>6, <1>7, <1>8, <1>9, <1>10, <1>11, <1>12, <1>13, SenderCases

\* num_queues counts published queues only, whatever the receive thread does.
LEMMA CountedReceiver ==
  ASSUME PlaceType, KindType, SetType, SetType', CountType, Untouched, QueuesCounted, Receiver
  PROVE  QueuesCounted'
<1>1. CASE RcvStop \/ RcvLoadCount \/ RcvScan \/ RcvScanned \/ RcvIdle \/ RcvVisit \/ RcvRead
         \/ RcvDrained \/ RcvDataPass \/ RcvPassesDone \/ RcvLock \/ RcvWait \/ RcvWoken
         \/ RcvTimeout \/ RcvUnlock \/ RcvTryWait \/ RcvSemWait
  <2>1. Published \subseteq Published' /\ numQueues' = numQueues
    BY <1>1 DEF RcvStop, RcvLoadCount, RcvScan, RcvScanned, RcvIdle, RcvVisit, RcvRead, RcvDrained,
       RcvDataPass, RcvPassesDone, RcvLock, RcvWait, RcvWoken, RcvTimeout, RcvUnlock, RcvTryWait,
       RcvSemWait, queueVars, senderVars, Published, PlaceType
  <2> QED
    BY <2>1, CountGrows
<1> QED
  BY <1>1 DEF Receiver

\* num_queues counts published queues only, whatever stopReceiving does.
LEMMA CountedStopper ==
  ASSUME PlaceType, KindType, SetType, SetType', CountType, Untouched, QueuesCounted, Stopper
  PROVE  QueuesCounted'
<1>1. CASE StopBegin \/ StopWake \/ StopJoined \/ StopHeartbeat
  <2>1. Published \subseteq Published' /\ numQueues' = numQueues
    BY <1>1 DEF StopBegin, StopWake, StopJoined, StopHeartbeat, queueVars, senderVars, Published, PlaceType
  <2> QED
    BY <2>1, CountGrows
<1> QED
  BY <1>1 DEF Stopper, StopSteps

-----------------------------------------------------------------------------
(* The pending counters *)

\* What the counter of a ring stands for.
Expected(s, k) == InRing(s, k) + Unsubtracted(s, k) - Uncounted(s, k)

\* What is in a ring and what was read and not yet subtracted are numbers.
LEMMA RingNumbers ==
  ASSUME RingType, LoopType, NEW s \in Senders, NEW k \in Kinds
  PROVE  InRing(s, k) \in Int /\ Unsubtracted(s, k) \in Int
<1>1. PICK a \in Nat, b \in Nat : a = written[s][k] /\ b = taken[s][k]
  BY DEF RingType
<1>2. InRing(s, k) \in Int
  BY SMTT(30), <1>1 DEF InRing
<1>3. Unsubtracted(s, k) \in Int
  BY SMTT(30) DEF Unsubtracted, LoopType
<1> QED
  BY <1>2, <1>3

\* It is a number.
LEMMA ExpectedType ==
  ASSUME RingType, LoopType, NEW s \in Senders, NEW k \in Kinds
  PROVE  Expected(s, k) \in Int
BY SMTT(30) DEF RingType, LoopType, Expected, InRing, Unsubtracted, Uncounted

\* No counter changes, and nothing that it counts.
LEMMA PendingKept ==
  ASSUME PendingCountsRing, pending' = pending,
         \A s \in Senders, k \in Kinds : Expected(s, k)' = Expected(s, k)
  PROVE  PendingCountsRing'
BY DEF PendingCountsRing, Expected

\* One counter changes by as much as what it counts.
LEMMA PendingMoves ==
  ASSUME RingType, LoopType, PendingCountsRing, NEW q \in Senders, NEW j \in Kinds, NEW d \in Int,
         pending' = [pending EXCEPT ![q][j] = (pending[q][j] + d) % PendMod],
         Expected(q, j)' = Expected(q, j) + d,
         \A s \in Senders, k \in Kinds : ~(s = q /\ k = j) => Expected(s, k)' = Expected(s, k)
  PROVE  PendingCountsRing'
<1> SUFFICES ASSUME NEW s \in Senders, NEW k \in Kinds
             PROVE  pending'[s][k] = Expected(s, k)' % PendMod
  BY DEF PendingCountsRing, Expected
<1>1. pending[s][k] = Expected(s, k) % PendMod
  BY DEF PendingCountsRing, Expected
<1>2. CASE s = q /\ k = j
  <2>1. pending'[s][k] = (pending[q][j] + d) % PendMod
    BY <1>2 DEF RingType
  <2>2. Expected(q, j) \in Int
    BY ExpectedType
  <2>3. ((Expected(q, j) % PendMod) + d) % PendMod = (Expected(q, j) + d) % PendMod
    BY <2>2, WrapAdd, PendingRange
  <2> QED
    BY <1>1, <1>2, <2>1, <2>3
<1>3. CASE ~(s = q /\ k = j)
  <2>1. pending'[s][k] = pending[s][k]
    BY <1>3 DEF RingType
  <2> QED
    BY <1>1, <1>3, <2>1
<1> QED
  BY <1>2, <1>3

\* A pending counter never drifts, whatever a sender does.
LEMMA PendingSender ==
  ASSUME RingType, PlaceType, KindType, LoopType, SetType, Untouched, VisitsActive, PendingCountsRing, NEW s \in Senders, Sender(s)
  PROVE  PendingCountsRing'
<1>1. CASE Write(s)
  <2>1. PICK k \in Kinds : SendWrite(s, k, TRUE) \/ SendWrite(s, k, FALSE)
    BY <1>1 DEF Write
  <2>2. /\ written' = [written EXCEPT ![s][k] = written[s][k] + 1] /\ skind' = [skind EXCEPT ![s] = k]
        /\ spc' = [spc EXCEPT ![s] = "count"] /\ UNCHANGED <<taken, pending, rpc, todo, pass, processed>>
    BY <2>1 DEF SendWrite, Goto, loopVars
  <2>3. \A t \in Senders, j \in Kinds : Unsubtracted(t, j)' = Unsubtracted(t, j)
    BY <2>2 DEF Unsubtracted
  <2>4. \A t \in Senders, j \in Kinds :
          InRing(t, j)' = IF t = s /\ j = k THEN InRing(t, j) + 1 ELSE InRing(t, j)
    BY SMTT(30), <2>2 DEF InRing, RingType
  <2>5. \A t \in Senders, j \in Kinds :
          Uncounted(t, j)' = IF t = s /\ j = k THEN 1 ELSE Uncounted(t, j)
    BY <1>1, <2>2 DEF Write, Uncounted, PlaceType, KindType
  <2>6. Uncounted(s, k) = 0
    BY <1>1 DEF Write, Uncounted
  <2>7. \A t \in Senders, j \in Kinds : InRing(t, j) \in Int /\ Unsubtracted(t, j) \in Int
    BY RingNumbers
  <2>8. \A t \in Senders, j \in Kinds : Expected(t, j)' = Expected(t, j)
    BY SMTT(30), <2>3, <2>4, <2>5, <2>6, <2>7 DEF Expected
  <2> QED
    BY <2>2, <2>8, PendingKept
<1>2. CASE Refuse(s)
  <2>1. \A t \in Senders, k \in Kinds : Expected(t, k)' = Expected(t, k)
    <3>1. UNCHANGED <<written, taken, rpc, todo, pass, processed>>
      BY <1>2 DEF Refuse, SendFull, Goto, ringVars, loopVars
    <3>2. \A t \in Senders, k \in Kinds : Uncounted(t, k)' = Uncounted(t, k)
      BY <1>2 DEF Refuse, SendFull, Goto, ringVars, loopVars, Uncounted, PlaceType, KindType
    <3> QED
      BY <3>1, <3>2 DEF Expected, InRing, Unsubtracted
  <2>2. pending' = pending
    BY <1>2 DEF Refuse, SendFull, Goto, ringVars, loopVars
  <2> QED
    BY <2>1, <2>2, PendingKept
<1>3. CASE Slow(s)
  <2>1. \A t \in Senders, k \in Kinds : Expected(t, k)' = Expected(t, k)
    <3>1. UNCHANGED <<written, taken, rpc, todo, pass, processed>>
      BY <1>3 DEF Slow, SendSlow, Goto, ringVars, loopVars
    <3>2. \A t \in Senders, k \in Kinds : Uncounted(t, k)' = Uncounted(t, k)
      BY SMTT(30), <1>3 DEF Slow, SendSlow, Goto, ringVars, loopVars, Uncounted, PlaceType, KindType
    <3> QED
      BY <3>1, <3>2 DEF Expected, InRing, Unsubtracted
  <2>2. pending' = pending
    BY <1>3 DEF Slow, SendSlow, Goto, ringVars, loopVars
  <2> QED
    BY <2>1, <2>2, PendingKept
<1>4. CASE CreateQueue(s)
  <2>1. s \notin active /\ spc[s] = "create"
    BY <1>4 DEF CreateQueue, Untouched
  <2>2. rpc = "drain" => s # First(todo)
    BY <2>1, FirstIn DEF VisitsActive, LoopType
  <2>3. ASSUME NEW k \in Kinds PROVE Expected(s, k) = 0
    BY SMTT(30), <2>1, <2>2 DEF Untouched, Expected, InRing, Unsubtracted, Uncounted
  <2>4. \A k \in Kinds : pending[s][k] = 0
    BY SMTT(30), <2>3, PendingRange DEF PendingCountsRing, Expected
  <2>5. pending[s] = [k \in Kinds |-> 0]
    BY <2>4 DEF RingType
  <2>6. pending' = pending
    BY <1>4, <2>5 DEF CreateQueue, RingType
  <2>7. \A t \in Senders, k \in Kinds : Expected(t, k)' = Expected(t, k)
    BY ZenonT(40), <1>4 DEF CreateQueue, Goto, loopVars, Expected, InRing, Unsubtracted, Uncounted, PlaceType
  <2> QED
    BY <2>6, <2>7, PendingKept
<1>5. CASE CreateLock(s)
  <2>1. \A t \in Senders, k \in Kinds : Expected(t, k)' = Expected(t, k)
    <3>1. UNCHANGED <<written, taken, rpc, todo, pass, processed>>
      BY <1>5 DEF CreateLock, Goto, ringVars, loopVars
    <3>2. \A t \in Senders, k \in Kinds : Uncounted(t, k)' = Uncounted(t, k)
      BY <1>5 DEF CreateLock, Goto, ringVars, loopVars, Uncounted, PlaceType, KindType
    <3> QED
      BY <3>1, <3>2 DEF Expected, InRing, Unsubtracted
  <2>2. pending' = pending
    BY <1>5 DEF CreateLock, Goto, ringVars, loopVars
  <2> QED
    BY <2>1, <2>2, PendingKept
<1>6. CASE CreateSignal(s)
  <2>1. \A t \in Senders, k \in Kinds : Expected(t, k)' = Expected(t, k)
    BY ZenonT(40), <1>6 DEF CreateSignal, Goto, ringVars, loopVars, Expected, InRing, Unsubtracted, Uncounted,
       PlaceType, KindType
  <2>2. pending' = pending
    BY <1>6 DEF CreateSignal, Goto, ringVars, loopVars
  <2> QED
    BY <2>1, <2>2, PendingKept
<1>7. CASE CreateUnlock(s)
  <2>1. \A t \in Senders, k \in Kinds : Expected(t, k)' = Expected(t, k)
    BY <1>7 DEF CreateUnlock, Goto, ringVars, loopVars, Expected, InRing, Unsubtracted, Uncounted,
       PlaceType, KindType
  <2>2. pending' = pending
    BY <1>7 DEF CreateUnlock, Goto, ringVars, loopVars
  <2> QED
    BY <2>1, <2>2, PendingKept
<1>8. CASE PublishQueue(s)
  <2>1. \A t \in Senders, k \in Kinds : Expected(t, k)' = Expected(t, k)
    BY <1>8 DEF PublishQueue, Goto, ringVars, loopVars, Expected, InRing, Unsubtracted, Uncounted,
       PlaceType, KindType
  <2>2. pending' = pending
    BY <1>8 DEF PublishQueue, Goto, ringVars, loopVars
  <2> QED
    BY <2>1, <2>2, PendingKept
<1>9. CASE SendDropped(s)
  <2>1. \A t \in Senders, k \in Kinds : Expected(t, k)' = Expected(t, k)
    BY <1>9 DEF SendDropped, Goto, ringVars, loopVars, Expected, InRing, Unsubtracted, Uncounted,
       PlaceType, KindType
  <2>2. pending' = pending
    BY <1>9 DEF SendDropped, Goto, ringVars, loopVars
  <2> QED
    BY <2>1, <2>2, PendingKept
<1>10. CASE SendCount(s)
  <2> PICK j \in Kinds : j = skind[s]
    BY DEF KindType
  <2> PICK d \in Int : d = 1
    BY SMTT(30)
  <2>1. spc[s] = "count" /\ pending' = [pending EXCEPT ![s][j] = (pending[s][j] + d) % PendMod]
    BY <1>10 DEF SendCount
  <2>2. spc'[s] \in {"signal", "idle"} /\ \A t \in Senders \ {s} : spc'[t] = spc[t]
    BY <1>10 DEF SendCount, Goto, PlaceType
  <2>3. UNCHANGED <<written, taken, skind, rpc, todo, pass, processed>>
    BY <1>10 DEF SendCount, loopVars
  <2>4. \A t \in Senders, k \in Kinds :
          Uncounted(t, k)' = IF t = s /\ k = j THEN 0 ELSE Uncounted(t, k)
    BY <2>1, <2>2, <2>3 DEF Uncounted
  <2>5. Uncounted(s, j) = 1
    BY <2>1 DEF Uncounted
  <2>6. \A t \in Senders, k \in Kinds : InRing(t, k)' = InRing(t, k) /\ Unsubtracted(t, k)' = Unsubtracted(t, k)
    BY <2>3 DEF InRing, Unsubtracted
  <2>7. InRing(s, j) \in Int /\ Unsubtracted(s, j) \in Int
    BY RingNumbers
  <2>8. Uncounted(s, j)' = 0
    BY <2>1, <2>4
  <2>9. Expected(s, j)' = Expected(s, j) + d
    BY SMTT(30), <2>1, <2>5, <2>6, <2>7, <2>8 DEF Expected
  <2>10. \A t \in Senders, k \in Kinds : ~(t = s /\ k = j) => Expected(t, k)' = Expected(t, k)
    BY <2>4, <2>6 DEF Expected
  <2> QED
    BY <2>1, <2>9, <2>10, PendingMoves
<1>11. CASE SendSignal(s)
  <2>1. \A t \in Senders, k \in Kinds : Expected(t, k)' = Expected(t, k)
    BY <1>11 DEF SendSignal, Goto, ringVars, loopVars, Expected, InRing, Unsubtracted, Uncounted,
       PlaceType, KindType
  <2>2. pending' = pending
    BY <1>11 DEF SendSignal, Goto, ringVars, loopVars
  <2> QED
    BY <2>1, <2>2, PendingKept
<1>12. CASE Die(s)
  <2>1. \A t \in Senders, k \in Kinds : Expected(t, k)' = Expected(t, k)
    <3>1. UNCHANGED <<written, taken, rpc, todo, pass, processed>>
      BY <1>12 DEF Die, Goto, ringVars, loopVars
    <3>2. \A t \in Senders, k \in Kinds : Uncounted(t, k)' = Uncounted(t, k)
      BY <1>12 DEF Die, Goto, ringVars, loopVars, Uncounted, PlaceType, KindType
    <3> QED
      BY <3>1, <3>2 DEF Expected, InRing, Unsubtracted
  <2>2. pending' = pending
    BY <1>12 DEF Die, Goto, ringVars, loopVars
  <2> QED
    BY <2>1, <2>2, PendingKept
<1>13. CASE Disconnect(s)
  <2>1. UNCHANGED <<written, taken, pending, rpc, todo, pass, processed, spc, skind>>
    BY <1>13 DEF Disconnect, ringVars, loopVars
  <2>2. \A t \in Senders, k \in Kinds : Expected(t, k)' = Expected(t, k)
    BY <2>1 DEF Expected, InRing, Unsubtracted, Uncounted
  <2> QED
    BY <2>1, <2>2, PendingKept
<1> QED
  BY <1>1, <1>2, <1>3, <1>4, <1>5, <1>6, <1>7, <1>8, <1>9, <1>10, <1>11, <1>12, <1>13, SenderCases

\* A pending counter never drifts, whatever the receive thread does.
LEMMA PendingReceiver ==
  ASSUME RingType, PlaceType, KindType, LoopType, SetType, Untouched, VisitsActive, PendingCountsRing, Receiver
  PROVE  PendingCountsRing'
<1>1. CASE RcvStop
  <2>1. \A t \in Senders, k \in Kinds : Expected(t, k)' = Expected(t, k)
    BY <1>1 DEF RcvStop, ringVars, senderVars, loopVars, Expected, InRing, Unsubtracted, Uncounted,
       LoopType
  <2>2. pending' = pending
    BY <1>1 DEF RcvStop, ringVars, senderVars, loopVars
  <2> QED
    BY <2>1, <2>2, PendingKept
<1>2. CASE RcvLoadCount
  <2>1. \A t \in Senders, k \in Kinds : Expected(t, k)' = Expected(t, k)
    BY <1>2 DEF RcvLoadCount, ringVars, senderVars, Expected, InRing, Unsubtracted, Uncounted, LoopType
  <2>2. pending' = pending
    BY <1>2 DEF RcvLoadCount, ringVars, senderVars
  <2> QED
    BY <2>1, <2>2, PendingKept
<1>3. CASE RcvScan
  <2>1. \A t \in Senders, k \in Kinds : Expected(t, k)' = Expected(t, k)
    BY <1>3 DEF RcvScan, ringVars, senderVars, Expected, InRing, Unsubtracted, Uncounted, LoopType
  <2>2. pending' = pending
    BY <1>3 DEF RcvScan, ringVars, senderVars
  <2> QED
    BY <2>1, <2>2, PendingKept
<1>4. CASE RcvScanned
  <2>1. \A t \in Senders, k \in Kinds : Expected(t, k)' = Expected(t, k)
    BY <1>4 DEF RcvScanned, ringVars, senderVars, Expected, InRing, Unsubtracted, Uncounted, LoopType
  <2>2. pending' = pending
    BY <1>4 DEF RcvScanned, ringVars, senderVars
  <2> QED
    BY <2>1, <2>2, PendingKept
<1>5. CASE RcvIdle
  <2>1. \A t \in Senders, k \in Kinds : Expected(t, k)' = Expected(t, k)
    BY <1>5 DEF RcvIdle, ringVars, senderVars, loopVars, Expected, InRing, Unsubtracted, Uncounted,
       LoopType
  <2>2. pending' = pending
    BY <1>5 DEF RcvIdle, ringVars, senderVars, loopVars
  <2> QED
    BY <2>1, <2>2, PendingKept
<1>6. CASE RcvVisit
  <2>1. \A t \in Senders, k \in Kinds : Expected(t, k)' = Expected(t, k)
    BY <1>6 DEF RcvVisit, ringVars, senderVars, Expected, InRing, Unsubtracted, Uncounted, LoopType
  <2>2. pending' = pending
    BY <1>6 DEF RcvVisit, ringVars, senderVars
  <2> QED
    BY <2>1, <2>2, PendingKept
<1>7. CASE RcvRead
  <2>0. First(todo) \in Senders /\ processed \in Nat
    BY <1>7, FirstIn DEF RcvRead, LoopType, VisitsActive
  <2> PICK q \in Senders : q = First(todo)
    BY <2>0
  <2> PICK j \in Kinds : j = pass
    BY DEF LoopType
  <2>1. /\ rpc = "drain" /\ taken' = [taken EXCEPT ![q][j] = taken[q][j] + 1] /\ processed' = processed + 1
        /\ UNCHANGED <<written, pending, rpc, todo, pass, spc, skind>>
    BY <1>7 DEF RcvRead, senderVars
  <2>3. \A t \in Senders, k \in Kinds : Uncounted(t, k)' = Uncounted(t, k)
    BY <2>1 DEF Uncounted
  <2>4. \A t \in Senders, k \in Kinds :
          Unsubtracted(t, k)' = IF t = q /\ k = j THEN Unsubtracted(t, k) + 1 ELSE Unsubtracted(t, k)
    BY <2>1 DEF Unsubtracted
  <2>5. \A t \in Senders, k \in Kinds :
          InRing(t, k)' = IF t = q /\ k = j THEN InRing(t, k) - 1 ELSE InRing(t, k)
    BY SMTT(30), <2>1 DEF InRing, RingType
  <2>6. \A t \in Senders, k \in Kinds :
          InRing(t, k) \in Int /\ Unsubtracted(t, k) \in Int /\ Uncounted(t, k) \in Int
    BY SMTT(30), <2>0 DEF InRing, Unsubtracted, Uncounted, RingType
  <2>7. \A t \in Senders, k \in Kinds : Expected(t, k)' = Expected(t, k)
    BY SMTT(30), <2>3, <2>4, <2>5, <2>6 DEF Expected
  <2> QED
    BY <2>1, <2>7, PendingKept
<1>8. CASE RcvDrained
  <2>2. First(todo) \in Senders /\ processed \in Nat
    BY <1>8, FirstIn DEF RcvDrained, LoopType, VisitsActive
  <2> PICK q \in Senders : q = First(todo)
    BY <2>2
  <2> PICK j \in Kinds : j = pass
    BY DEF LoopType
  <2> PICK d \in Int : d = -processed
    BY SMTT(30), <2>2
  <2>1. /\ rpc = "drain" /\ pending' = [pending EXCEPT ![q][j] = (pending[q][j] - processed) % PendMod]
        /\ rpc' = "visit" /\ UNCHANGED <<written, taken, pass, spc, skind>>
    BY <1>8 DEF RcvDrained, senderVars
  <2>3. \A t \in Senders, k \in Kinds : InRing(t, k)' = InRing(t, k) /\ Uncounted(t, k)' = Uncounted(t, k)
    BY <2>1 DEF InRing, Uncounted
  <2>4. \A t \in Senders, k \in Kinds :
          Unsubtracted(t, k)' = 0 /\ Unsubtracted(t, k) = IF t = q /\ k = j THEN processed ELSE 0
    BY <2>1 DEF Unsubtracted
  <2>5. InRing(q, j) \in Int /\ Uncounted(q, j) \in Int
    BY SMTT(30), <2>2 DEF InRing, Uncounted, RingType
  <2>6. Unsubtracted(q, j) = processed /\ Unsubtracted(q, j)' = 0
    BY <2>1, <2>2, <2>4
  <2>7. InRing(q, j)' = InRing(q, j) /\ Uncounted(q, j)' = Uncounted(q, j)
    BY <2>1, <2>2, <2>3
  <2>8. Expected(q, j)' = Expected(q, j) + d
    BY SMTT(30), <2>2, <2>5, <2>6, <2>7 DEF Expected
  <2>9. \A t \in Senders, k \in Kinds : ~(t = q /\ k = j) => Expected(t, k)' = Expected(t, k)
    BY <2>3, <2>4 DEF Expected
  <2>10. pending[q][j] - processed = pending[q][j] + d
    BY <2>2, PendingRange DEF RingType
  <2> QED
    BY <2>1, <2>2, <2>8, <2>9, <2>10, PendingMoves
<1>9. CASE RcvDataPass
  <2>1. \A t \in Senders, k \in Kinds : Expected(t, k)' = Expected(t, k)
    BY <1>9 DEF RcvDataPass, ringVars, senderVars, Expected, InRing, Unsubtracted, Uncounted, LoopType
  <2>2. pending' = pending
    BY <1>9 DEF RcvDataPass, ringVars, senderVars
  <2> QED
    BY <2>1, <2>2, PendingKept
<1>10. CASE RcvPassesDone
  <2>1. \A t \in Senders, k \in Kinds : Expected(t, k)' = Expected(t, k)
    BY <1>10 DEF RcvPassesDone, ringVars, senderVars, loopVars, Expected, InRing, Unsubtracted,
       Uncounted, LoopType
  <2>2. pending' = pending
    BY <1>10 DEF RcvPassesDone, ringVars, senderVars, loopVars
  <2> QED
    BY <2>1, <2>2, PendingKept
<1>11. CASE RcvLock
  <2>1. \A t \in Senders, k \in Kinds : Expected(t, k)' = Expected(t, k)
    BY <1>11 DEF RcvLock, ringVars, senderVars, loopVars, Expected, InRing, Unsubtracted, Uncounted,
       LoopType
  <2>2. pending' = pending
    BY <1>11 DEF RcvLock, ringVars, senderVars, loopVars
  <2> QED
    BY <2>1, <2>2, PendingKept
<1>12. CASE RcvWait
  <2>1. \A t \in Senders, k \in Kinds : Expected(t, k)' = Expected(t, k)
    BY <1>12 DEF RcvWait, ringVars, senderVars, loopVars, Expected, InRing, Unsubtracted, Uncounted,
       LoopType
  <2>2. pending' = pending
    BY <1>12 DEF RcvWait, ringVars, senderVars, loopVars
  <2> QED
    BY <2>1, <2>2, PendingKept
<1>13. CASE RcvWoken
  <2>1. \A t \in Senders, k \in Kinds : Expected(t, k)' = Expected(t, k)
    BY <1>13 DEF RcvWoken, ringVars, senderVars, loopVars, Expected, InRing, Unsubtracted, Uncounted,
       LoopType
  <2>2. pending' = pending
    BY <1>13 DEF RcvWoken, ringVars, senderVars, loopVars
  <2> QED
    BY <2>1, <2>2, PendingKept
<1>14. CASE RcvTimeout
  <2>1. \A t \in Senders, k \in Kinds : Expected(t, k)' = Expected(t, k)
    BY <1>14 DEF RcvTimeout, ringVars, senderVars, loopVars, Expected, InRing, Unsubtracted, Uncounted,
       LoopType
  <2>2. pending' = pending
    BY <1>14 DEF RcvTimeout, ringVars, senderVars, loopVars
  <2> QED
    BY <2>1, <2>2, PendingKept
<1>15. CASE RcvUnlock
  <2>1. \A t \in Senders, k \in Kinds : Expected(t, k)' = Expected(t, k)
    BY <1>15 DEF RcvUnlock, ringVars, senderVars, loopVars, Expected, InRing, Unsubtracted, Uncounted,
       LoopType
  <2>2. pending' = pending
    BY <1>15 DEF RcvUnlock, ringVars, senderVars, loopVars
  <2> QED
    BY <2>1, <2>2, PendingKept
<1>16. CASE RcvTryWait
  <2>1. \A t \in Senders, k \in Kinds : Expected(t, k)' = Expected(t, k)
    BY <1>16 DEF RcvTryWait, ringVars, senderVars, loopVars, Expected, InRing, Unsubtracted, Uncounted,
       LoopType
  <2>2. pending' = pending
    BY <1>16 DEF RcvTryWait, ringVars, senderVars, loopVars
  <2> QED
    BY <2>1, <2>2, PendingKept
<1>17. CASE RcvSemWait
  <2>1. \A t \in Senders, k \in Kinds : Expected(t, k)' = Expected(t, k)
    BY <1>17 DEF RcvSemWait, ringVars, senderVars, loopVars, Expected, InRing, Unsubtracted, Uncounted,
       LoopType
  <2>2. pending' = pending
    BY <1>17 DEF RcvSemWait, ringVars, senderVars, loopVars
  <2> QED
    BY <2>1, <2>2, PendingKept
<1> QED
  BY <1>1, <1>2, <1>3, <1>4, <1>5, <1>6, <1>7, <1>8, <1>9, <1>10, <1>11, <1>12, <1>13, <1>14, <1>15, <1>16, <1>17 DEF Receiver

\* A pending counter never drifts, whatever stopReceiving does.
LEMMA PendingStopper ==
  ASSUME RingType, PlaceType, KindType, LoopType, SetType, Untouched, VisitsActive, PendingCountsRing, Stopper
  PROVE  PendingCountsRing'
<1>1. CASE StopBegin \/ StopWake \/ StopJoined \/ StopHeartbeat
  <2>1. UNCHANGED <<written, taken, pending, rpc, todo, pass, processed, spc, skind>>
    BY <1>1 DEF StopBegin, StopWake, StopJoined, StopHeartbeat, ringVars, senderVars, loopVars
  <2>2. \A t \in Senders, k \in Kinds : Expected(t, k)' = Expected(t, k)
    BY <2>1 DEF Expected, InRing, Unsubtracted, Uncounted
  <2> QED
    BY <2>1, <2>2, PendingKept
<1> QED
  BY <1>1 DEF Stopper, StopSteps

-----------------------------------------------------------------------------
(* The invariant and the theorems *)

\* At the start the rings are empty and no queue exists.
LEMMA InitIInv == Init => IInv
<1> SUFFICES ASSUME Init PROVE IInv
  OBVIOUS
<1>1. RingType /\ SemType
  BY SMTT(30), PendingRange DEF Init, RingType, SemType, Kinds
<1>2. PlaceType /\ KindType /\ PathType
  BY DEF Init, PlaceType, KindType, PathType, Kinds
<1>3. SetType /\ LoopType
  BY DEF Init, SetType, LoopType, Kinds
<1>4. FlagType
  BY DEF Init, FlagType
<1>5. CountType /\ numQueues <= Cardinality(Senders)
  BY SMTT(30), SendersCounted DEF Init, CountType
<1>6. TypeOK
  BY <1>1, <1>2, <1>3, <1>4, <1>5, TypeParts
<1>7. Untouched /\ VisitsActive /\ MutexOwner
  BY InboundAssumption DEF Init, Untouched, VisitsActive, MutexOwner
<1>8. Published = {}
  BY DEF Init, Published
<1>9. QueuesCounted
  BY SMTT(30), <1>8, FS_EmptySet DEF Init, QueuesCounted
<1>10. \A s \in Senders, k \in Kinds : Expected(s, k) = 0 /\ pending[s][k] = 0
  BY SMTT(30) DEF Init, Expected, InRing, Unsubtracted, Uncounted
<1>11. 0 % PendMod = 0
  BY SMTT(30), PendingRange
<1>12. \A s \in Senders, k \in Kinds : pending[s][k] = Expected(s, k) % PendMod
  BY <1>10, <1>11
<1>13. PendingCountsRing
  BY <1>12 DEF PendingCountsRing, Expected
<1> QED
  BY <1>6, <1>7, <1>9, <1>13 DEF IInv

\* Published queues are queues, so num_queues never exceeds their number.
LEMMA CountBounded ==
  ASSUME SetType, CountType, QueuesCounted
  PROVE  numQueues <= Cardinality(Senders)
<1>1. Published \subseteq Senders
  BY DEF Published, SetType
<1>2. Cardinality(Published) <= Cardinality(Senders) /\ IsFiniteSet(Published)
  BY <1>1, InboundAssumption, FS_Subset
<1>3. Cardinality(Published) \in Nat
  BY <1>2, FS_CardinalityType
<1> QED
  BY SMTT(30), <1>2, <1>3, SendersCounted DEF QueuesCounted, CountType

\* Where the heartbeat thread is, and what stopReceiving waits for, is no matter of
\* the queues.
LEMMA ApartIInv ==
  ASSUME IInv, heart' \in {"loop", "blocked"}, stopper' = stopper,
         UNCHANGED <<setup, ringVars, sem, queueVars, mutex, senderVars, receiving, rpc, loopVars, woken>>
  PROVE  IInv'
<1> USE DEF IInv, ringVars, queueVars, senderVars, loopVars
<1>1. TypeOK'
  BY ZenonT(90) DEF TypeOK
<1>2. Untouched' /\ VisitsActive' /\ MutexOwner'
  BY DEF Untouched, VisitsActive, MutexOwner
<1>3. QueuesCounted'
  BY DEF QueuesCounted, Published
<1>4. PendingCountsRing'
  BY SMTT(30) DEF PendingCountsRing, InRing, Unsubtracted, Uncounted
<1> QED
  BY <1>1, <1>2, <1>3, <1>4

\* No step of a sender, of the receive thread or of stopReceiving breaks it.
LEMMA ThreadsIInv ==
  ASSUME IInv, (\E s \in Senders : Sender(s)) \/ Receiver \/ Stopper
  PROVE  IInv'
<1>1. /\ RingType /\ SemType /\ PlaceType /\ KindType /\ PathType /\ SetType /\ LoopType
      /\ FlagType /\ CountType /\ numQueues <= Cardinality(Senders)
  BY TypeParts DEF IInv
<1>2. Untouched /\ VisitsActive /\ QueuesCounted /\ PendingCountsRing /\ MutexOwner
  BY DEF IInv
<1>3. ASSUME NEW s \in Senders, Sender(s)
      PROVE  /\ RingType' /\ SemType' /\ PlaceType' /\ KindType' /\ PathType' /\ SetType' /\ LoopType'
             /\ FlagType' /\ CountType' /\ Untouched' /\ VisitsActive' /\ QueuesCounted'
             /\ PendingCountsRing' /\ MutexOwner'
  BY <1>1, <1>2, <1>3, RingSender, SemSender, PlaceSender, KindSender, PathSender, SetsSender, LoopSender,
     FlagsSender, CountSender, UntouchedSender, VisitsSender, CountedSender, PendingSender, MutexSender
<1>4. ASSUME Receiver
      PROVE  /\ RingType' /\ SemType' /\ PlaceType' /\ KindType' /\ PathType' /\ SetType' /\ LoopType'
             /\ FlagType' /\ CountType' /\ Untouched' /\ VisitsActive' /\ QueuesCounted'
             /\ PendingCountsRing' /\ MutexOwner'
  BY <1>1, <1>2, <1>4, RingReceiver, SemReceiver, PlaceReceiver, KindReceiver, PathReceiver, SetsReceiver,
     LoopReceiver, FlagsReceiver, CountReceiver, UntouchedReceiver, VisitsReceiver, CountedReceiver,
     PendingReceiver, MutexReceiver
<1>5. ASSUME Stopper
      PROVE  /\ RingType' /\ SemType' /\ PlaceType' /\ KindType' /\ PathType' /\ SetType' /\ LoopType'
             /\ FlagType' /\ CountType' /\ Untouched' /\ VisitsActive' /\ QueuesCounted'
             /\ PendingCountsRing' /\ MutexOwner'
  BY <1>1, <1>2, <1>5, RingStopper, SemStopper, PlaceStopper, KindStopper, PathStopper, SetsStopper,
     LoopStopper, FlagsStopper, CountStopper, UntouchedStopper, VisitsStopper, CountedStopper,
     PendingStopper, MutexStopper
<1>6. /\ RingType' /\ SemType' /\ PlaceType' /\ KindType' /\ PathType' /\ SetType' /\ LoopType'
      /\ FlagType' /\ CountType' /\ Untouched' /\ VisitsActive' /\ QueuesCounted'
      /\ PendingCountsRing' /\ MutexOwner'
  BY <1>3, <1>4, <1>5
<1>7. numQueues' <= Cardinality(Senders)
  <2>1. (SetType /\ CountType /\ QueuesCounted => numQueues <= Cardinality(Senders))'
    BY CountBounded, PTL
  <2> QED
    BY <1>6, <2>1
<1>8. TypeOK'
  <2>1. numQueues' \in 0 .. Cardinality(Senders)
    BY SMTT(30), <1>6, <1>7, SendersCounted DEF CountType
  <2> QED
    BY <1>6, <2>1 DEF TypeOK, RingType, SemType, PlaceType, KindType, PathType, SetType, LoopType,
       FlagType, CountType
<1> QED
  BY <1>6, <1>8 DEF IInv

\* Nor does the heartbeat thread, or a step that changes nothing.
LEMMA NextIInv ==
  ASSUME IInv, [Next]_vars
  PROVE  IInv'
<1>1. CASE HeartBlocks
  BY <1>1, ApartIInv DEF HeartBlocks
<1>2. CASE UNCHANGED vars
  <2>1. heart \in {"loop", "blocked"}
    BY DEF IInv, TypeOK
  <2>2. heart' = heart /\ stopper' = stopper
    BY <1>2 DEF vars, stopVars
  <2>3. UNCHANGED <<setup, ringVars, sem, queueVars, mutex, senderVars, receiving, rpc, loopVars, woken>>
    BY <1>2 DEF vars
  <2> QED
    BY <2>1, <2>2, <2>3, ApartIInv
<1> QED
  BY <1>1, <1>2, ThreadsIInv DEF Next

\* The inductive invariant of send(), the receive loops and stopReceiving holds.
THEOREM InboundInvariant == Spec => []IInv
<1>1. Init => IInv
  BY InitIInv
<1>2. IInv /\ [Next]_vars => IInv'
  BY NextIInv
<1> QED
  BY <1>1, <1>2, PTL DEF Spec

\* Every variable keeps its type: congestion_level never wraps below zero, and
\* num_queues and cached_num_queues never exceed the number of queues.
THEOREM TypeCorrect == Spec => []TypeOK
<1>1. IInv => TypeOK
  BY DEF IInv
<1> QED
  BY <1>1, InboundInvariant, PTL

\* control_pending and data_pending never drift from the contents of their
\* rings, whatever senders write, die or create while the thread drains.
THEOREM CountersNeverDrift == Spec => []PendingCountsRing
<1>1. IInv => PendingCountsRing
  BY DEF IInv
<1> QED
  BY <1>1, InboundInvariant, PTL

\* global_mutex is held only where the code holds it.
THEOREM MutexHeldWhereLocked == Spec => []MutexOwner
<1>1. IInv => MutexOwner
  BY DEF IInv
<1> QED
  BY <1>1, InboundInvariant, PTL
=============================================================================
