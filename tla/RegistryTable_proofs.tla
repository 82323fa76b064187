------------------------ MODULE RegistryTable_proofs ------------------------
(***************************************************************************)
(* Theorems about RegistryTable, for any number of nodes and restarts: the *)
(* published entries are complete and unique, registered nodes in time are *)
(* listed, and the count.  Lemmas on the operations come first: how they   *)
(* begin, what each of their stores does, that the types are kept and that *)
(* every step keeps what an operation has done so far.                     *)
(***************************************************************************)
EXTENDS RegistryTable, FiniteSetTheorems, WellFoundedInduction, TLAPS

\* Leaves go to Zenon unless they name another prover.
USE Zenon

(* The least entry of a set *)

\* A non-empty set of numbers has a least element.
LEMMA LeastNumber ==
  ASSUME NEW M \in SUBSET Nat, M # {}
  PROVE  \E x \in M : \A y \in M : x <= y
<1>1. PICK x \in M : \A y \in M : ~(<<y, x>> \in OpToRel(<, Nat))
  BY NatLessThanWellFounded, WFMin
<1>2. OpToRel(<, Nat) = {ss \in Nat \X Nat : ss[1] < ss[2]}
  BY DEF OpToRel
<1>3. \A y \in M : x \in Nat /\ y \in Nat /\ ~(y < x)
  BY <1>1, <1>2
<1>4. \A a, b \in Nat : ~(b < a) => a <= b
  BY SMTT(30)
<1> QED
  BY <1>3, <1>4

\* The first entry of a non-empty set of entries is one of them.
LEMMA MinIn ==
  ASSUME NEW Q \in SUBSET Slots, Q # {}
  PROVE  Min(Q) \in Q
<1>1. Q \in SUBSET Nat
  BY SMTT(30), RegistryAssumption DEF Slots
<1> QED
  BY <1>1, LeastNumber DEF Min

-----------------------------------------------------------------------------
(* The types, in parts *)

EntryType == entry \in [Slots -> Entries]
CountType == numEntries \in 0 .. CountMod - 1
LockType == /\ mutex \in Nodes \cup {None, OwnerDead} /\ op \in [Nodes -> Ops] /\ step \in [Nodes -> Nat]
            /\ \A n \in Nodes : (op[n] # "none" <=> mutex = n) /\ step[n] <= Len(Stores(op[n]))
PlaceType == at \in [Nodes -> 1 .. NumEntries + 1]
NodeType == /\ setup \in Setups /\ up \subseteq Nodes /\ start \in [Nodes -> 0 .. setup.starts]
            /\ registered \subseteq up /\ late \subseteq Nodes /\ ghosts \subseteq Nodes
FlagType == interrupted \in BOOLEAN

\* They make up TypeOK.
LEMMA TypeParts ==
  TypeOK <=> EntryType /\ CountType /\ LockType /\ PlaceType /\ NodeType /\ FlagType
BY DEF TypeOK, EntryType, CountType, LockType, PlaceType, NodeType, FlagType

\* How many stores each operation makes.
LEMMA Lengths ==
  /\ Len(Stores("none")) = 0 /\ Len(Stores("unlisted")) = 0 /\ Len(Stores("scan")) = 0
  /\ Len(Stores("claim")) = 7 /\ Len(Stores("update")) = 4 /\ Len(Stores("unregister")) = 5
  /\ Len(Stores("heartbeat")) = 1 /\ Len(Stores("remove")) = 5
BY DEF Stores, NewStores, UpdateStores, RemoveStores, BeatStores, CleanStores

\* Under the mutex there is one operation.
LEMMA Solo ==
  ASSUME LockType, NEW n \in Nodes, NEW m \in Nodes, op[n] # "none", op[m] # "none"
  PROVE  m = n
BY DEF LockType

\* While the mutex is free there is none.
LEMMA QuietOps ==
  ASSUME LockType, Quiet
  PROVE  \A n \in Nodes : op[n] = "none" /\ step[n] = 0
<1>1. \A n \in Nodes : op[n] = "none"
  BY RegistryAssumption DEF LockType, Quiet
<1>2. \A n \in Nodes : step[n] \in Nat /\ step[n] <= Len(Stores("none"))
  BY <1>1 DEF LockType
<1> QED
  BY SMTT(30), <1>1, <1>2, Lengths

-----------------------------------------------------------------------------
(* What the stores do to an entry *)

\* An entry stays an entry.
LEMMA StoredType ==
  ASSUME NEW e \in Entries, NEW n \in Nodes, NEW s, start[n] \in Nat
  PROVE  Stored(e, n, s) \in Entries
<1>1. Process(n) \in (Nodes \cup {None}) \X Nat /\ Nobody \in (Nodes \cup {None}) \X Nat
  BY DEF Process, Nobody
<1> HIDE DEF Process, Nobody
<1> QED
  BY <1>1 DEF Entries, Stored

\* Only these operations store.
LEMMA StoreOps ==
  ASSUME LockType, NEW n \in Nodes, Store(n)
  PROVE  op[n] \in {"claim", "update", "unregister", "heartbeat", "remove"} /\ op[n] # "none"
<1>1. step[n] \in Nat /\ step[n] < Len(Stores(op[n])) /\ op[n] \in Ops
  BY DEF Store, Storing, LockType
<1>2. op[n] \notin {"none", "unlisted", "scan"}
  BY SMTT(30), <1>1, Lengths
<1> QED
  BY <1>1, <1>2 DEF Ops

\* A store goes to one entry, and leaves it an entry.
LEMMA StoreEntry ==
  ASSUME EntryType, LockType, NodeType, OpsSound, NEW n \in Nodes, Store(n)
  PROVE  /\ at[n] \in Slots
         /\ entry' = [entry EXCEPT ![at[n]] = Stored(entry[at[n]], n, NextStore(n))]
         /\ entry'[at[n]] = Stored(entry[at[n]], n, NextStore(n))
         /\ \A j \in Slots \ {at[n]} : entry'[j] = entry[j]
         /\ EntryType'
<1>1. at[n] \in Slots
  BY StoreOps DEF OpsSound
<1>2. entry' = [entry EXCEPT ![at[n]] = Stored(entry[at[n]], n, NextStore(n))]
  BY DEF Store
<1>3. start[n] \in Nat /\ entry[at[n]] \in Entries
  BY SMTT(30), <1>1, RegistryAssumption DEF NodeType, EntryType, Scenario
<1>4. Stored(entry[at[n]], n, NextStore(n)) \in Entries
  BY <1>3, StoredType
<1> QED
  BY <1>1, <1>2, <1>4 DEF EntryType

\* The count after each store.
LEMMA CountedBy ==
  ASSUME NEW c, NEW s
  PROVE  /\ s = "count+1" => Counted(c, s) = (c + 1) % CountMod
         /\ s = "count-1" => Counted(c, s) = (c - 1) % CountMod
         /\ s \notin {"count+1", "count-1"} => Counted(c, s) = c
BY ZenonT(40) DEF Counted

\* registerNode in a free entry: the claim, the fields, the publication, the count.
LEMMA ClaimStores ==
  ASSUME EntryType, LockType, NodeType, OpsSound, NEW n \in Nodes, Store(n), op[n] = "claim"
  PROVE  LET e == entry[at[n]]
         IN /\ step[n] \in 0 .. 6
            /\ entry'[at[n]].flags = IF step[n] = 0 THEN 1 ELSE IF step[n] = 5 THEN 3 ELSE e.flags
            /\ entry'[at[n]].id = IF step[n] = 1 THEN n ELSE e.id
            /\ entry'[at[n]].shm = IF step[n] = 2 THEN Process(n) ELSE e.shm
            /\ entry'[at[n]].pid = IF step[n] = 3 THEN Process(n) ELSE e.pid
            /\ entry'[at[n]].hb = IF step[n] = 4 THEN "fresh" ELSE e.hb
            /\ numEntries' = IF step[n] = 6 THEN (numEntries + 1) % CountMod ELSE numEntries
<1>1. step[n] \in Nat /\ step[n] < 7
  <2>1. step[n] \in Nat /\ step[n] < Len(Stores("claim"))
    BY DEF Store, Storing, LockType
  <2>2. Len(Stores("claim")) = 7
    BY Lengths
  <2> QED
    BY <2>1, <2>2
<1>2. step[n] \in 0 .. 6
  BY SMTT(30), <1>1
<1>3. NextStore(n) = NewStores[step[n] + 1]
  BY DEF NextStore, Stores
<1>4. /\ NewStores[1] = "flags=1"
      /\ NewStores[2] = "id"
      /\ NewStores[3] = "shm"
      /\ NewStores[4] = "pid"
      /\ NewStores[5] = "hb"
      /\ NewStores[6] = "flags=3"
      /\ NewStores[7] = "count+1"
  BY DEF NewStores
<1>5. PICK e \in Entries : e = entry[at[n]]
  BY StoreEntry DEF EntryType
<1>6. PICK s : s = NextStore(n)
  OBVIOUS
<1>7. PICK f : f = entry'[at[n]] /\ f = Stored(e, n, s)
  BY <1>5, <1>6, StoreEntry
<1>8. numEntries' = Counted(numEntries, s)
  BY <1>6 DEF Store
<1> HIDE DEF Process, Nobody
<1> QED
  <2>1. CASE step[n] = 0
    <3>1. step[n] + 1 = 1
      BY SMTT(30), <2>1
    <3>2. s = "flags=1"
      BY <3>1, <1>3, <1>4, <1>6
    <3>3. f.flags = 1 /\ f.id = e.id /\ f.shm = e.shm /\ f.pid = e.pid /\ f.hb = e.hb
      BY <3>2, <1>7 DEF Stored, Entries
    <3>4. numEntries' = numEntries
      BY <3>2, <1>8, CountedBy
    <3> QED
      BY SMTT(30), <2>1, <3>3, <3>4, <1>5, <1>7
  <2>2. CASE step[n] = 1
    <3>1. step[n] + 1 = 2
      BY SMTT(30), <2>2
    <3>2. s = "id"
      BY <3>1, <1>3, <1>4, <1>6
    <3>3. f.id = n /\ f.flags = e.flags /\ f.shm = e.shm /\ f.pid = e.pid /\ f.hb = e.hb
      BY <3>2, <1>7 DEF Stored, Entries
    <3>4. numEntries' = numEntries
      BY <3>2, <1>8, CountedBy
    <3> QED
      BY SMTT(30), <2>2, <3>3, <3>4, <1>5, <1>7
  <2>3. CASE step[n] = 2
    <3>1. step[n] + 1 = 3
      BY SMTT(30), <2>3
    <3>2. s = "shm"
      BY <3>1, <1>3, <1>4, <1>6
    <3>3. f.shm = Process(n) /\ f.flags = e.flags /\ f.id = e.id /\ f.pid = e.pid /\ f.hb = e.hb
      BY <3>2, <1>7 DEF Stored, Entries
    <3>4. numEntries' = numEntries
      BY <3>2, <1>8, CountedBy
    <3> QED
      BY SMTT(30), <2>3, <3>3, <3>4, <1>5, <1>7
  <2>4. CASE step[n] = 3
    <3>1. step[n] + 1 = 4
      BY SMTT(30), <2>4
    <3>2. s = "pid"
      BY <3>1, <1>3, <1>4, <1>6
    <3>3. f.pid = Process(n) /\ f.flags = e.flags /\ f.id = e.id /\ f.shm = e.shm /\ f.hb = e.hb
      BY <3>2, <1>7 DEF Stored, Entries
    <3>4. numEntries' = numEntries
      BY <3>2, <1>8, CountedBy
    <3> QED
      BY SMTT(30), <2>4, <3>3, <3>4, <1>5, <1>7
  <2>5. CASE step[n] = 4
    <3>1. step[n] + 1 = 5
      BY SMTT(30), <2>5
    <3>2. s = "hb"
      BY <3>1, <1>3, <1>4, <1>6
    <3>3. f.hb = "fresh" /\ f.flags = e.flags /\ f.id = e.id /\ f.shm = e.shm /\ f.pid = e.pid
      BY <3>2, <1>7 DEF Stored, Entries
    <3>4. numEntries' = numEntries
      BY <3>2, <1>8, CountedBy
    <3> QED
      BY SMTT(30), <2>5, <3>3, <3>4, <1>5, <1>7
  <2>6. CASE step[n] = 5
    <3>1. step[n] + 1 = 6
      BY SMTT(30), <2>6
    <3>2. s = "flags=3"
      BY <3>1, <1>3, <1>4, <1>6
    <3>3. f.flags = 3 /\ f.id = e.id /\ f.shm = e.shm /\ f.pid = e.pid /\ f.hb = e.hb
      BY <3>2, <1>7 DEF Stored, Entries
    <3>4. numEntries' = numEntries
      BY <3>2, <1>8, CountedBy
    <3> QED
      BY SMTT(30), <2>6, <3>3, <3>4, <1>5, <1>7
  <2>7. CASE step[n] = 6
    <3>1. step[n] + 1 = 7
      BY SMTT(30), <2>7
    <3>2. s = "count+1"
      BY <3>1, <1>3, <1>4, <1>6
    <3>3. f.flags = e.flags /\ f.id = e.id /\ f.shm = e.shm /\ f.pid = e.pid /\ f.hb = e.hb
      BY <3>2, <1>7 DEF Stored, Entries
    <3>4. numEntries' = (numEntries + 1) % CountMod
      BY <3>2, <1>8, CountedBy
    <3> QED
      BY SMTT(30), <2>7, <3>3, <3>4, <1>5, <1>7
  <2> QED
    BY SMTT(30), <1>2, <2>1, <2>2, <2>3, <2>4, <2>5, <2>6, <2>7

\* registerNode in the node's own entry.
LEMMA UpdateWrites ==
  ASSUME EntryType, LockType, NodeType, OpsSound, NEW n \in Nodes, Store(n), op[n] = "update"
  PROVE  LET e == entry[at[n]]
         IN /\ step[n] \in 0 .. 3 /\ numEntries' = numEntries
            /\ entry'[at[n]].flags = IF step[n] = 3 THEN 3 ELSE e.flags
            /\ entry'[at[n]].id = e.id
            /\ entry'[at[n]].shm = IF step[n] = 0 THEN Process(n) ELSE e.shm
            /\ entry'[at[n]].pid = IF step[n] = 1 THEN Process(n) ELSE e.pid
            /\ entry'[at[n]].hb = IF step[n] = 2 THEN "fresh" ELSE e.hb
<1>1. step[n] \in Nat /\ step[n] < 4
  <2>1. step[n] \in Nat /\ step[n] < Len(Stores("update"))
    BY DEF Store, Storing, LockType
  <2>2. Len(Stores("update")) = 4
    BY Lengths
  <2> QED
    BY <2>1, <2>2
<1>2. step[n] \in 0 .. 3
  BY SMTT(30), <1>1
<1>3. NextStore(n) = UpdateStores[step[n] + 1]
  BY DEF NextStore, Stores
<1>4. /\ UpdateStores[1] = "shm"
      /\ UpdateStores[2] = "pid"
      /\ UpdateStores[3] = "hb"
      /\ UpdateStores[4] = "flags=3"
  BY DEF UpdateStores
<1>5. PICK e \in Entries : e = entry[at[n]]
  BY StoreEntry DEF EntryType
<1>6. PICK s : s = NextStore(n)
  OBVIOUS
<1>7. PICK f : f = entry'[at[n]] /\ f = Stored(e, n, s)
  BY <1>5, <1>6, StoreEntry
<1>8. numEntries' = Counted(numEntries, s)
  BY <1>6 DEF Store
<1> HIDE DEF Process, Nobody
<1> QED
  <2>1. CASE step[n] = 0
    <3>1. step[n] + 1 = 1
      BY SMTT(30), <2>1
    <3>2. s = "shm"
      BY <3>1, <1>3, <1>4, <1>6
    <3>3. f.shm = Process(n) /\ f.flags = e.flags /\ f.id = e.id /\ f.pid = e.pid /\ f.hb = e.hb
      BY <3>2, <1>7 DEF Stored, Entries
    <3>4. numEntries' = numEntries
      BY <3>2, <1>8, CountedBy
    <3> QED
      BY SMTT(30), <2>1, <3>3, <3>4, <1>5, <1>7
  <2>2. CASE step[n] = 1
    <3>1. step[n] + 1 = 2
      BY SMTT(30), <2>2
    <3>2. s = "pid"
      BY <3>1, <1>3, <1>4, <1>6
    <3>3. f.pid = Process(n) /\ f.flags = e.flags /\ f.id = e.id /\ f.shm = e.shm /\ f.hb = e.hb
      BY <3>2, <1>7 DEF Stored, Entries
    <3>4. numEntries' = numEntries
      BY <3>2, <1>8, CountedBy
    <3> QED
      BY SMTT(30), <2>2, <3>3, <3>4, <1>5, <1>7
  <2>3. CASE step[n] = 2
    <3>1. step[n] + 1 = 3
      BY SMTT(30), <2>3
    <3>2. s = "hb"
      BY <3>1, <1>3, <1>4, <1>6
    <3>3. f.hb = "fresh" /\ f.flags = e.flags /\ f.id = e.id /\ f.shm = e.shm /\ f.pid = e.pid
      BY <3>2, <1>7 DEF Stored, Entries
    <3>4. numEntries' = numEntries
      BY <3>2, <1>8, CountedBy
    <3> QED
      BY SMTT(30), <2>3, <3>3, <3>4, <1>5, <1>7
  <2>4. CASE step[n] = 3
    <3>1. step[n] + 1 = 4
      BY SMTT(30), <2>4
    <3>2. s = "flags=3"
      BY <3>1, <1>3, <1>4, <1>6
    <3>3. f.flags = 3 /\ f.id = e.id /\ f.shm = e.shm /\ f.pid = e.pid /\ f.hb = e.hb
      BY <3>2, <1>7 DEF Stored, Entries
    <3>4. numEntries' = numEntries
      BY <3>2, <1>8, CountedBy
    <3> QED
      BY SMTT(30), <2>4, <3>3, <3>4, <1>5, <1>7
  <2> QED
    BY SMTT(30), <1>2, <2>1, <2>2, <2>3, <2>4

\* unregisterNode: the count, the flags, then the fields.
LEMMA UnregisterWrites ==
  ASSUME EntryType, LockType, NodeType, OpsSound, NEW n \in Nodes, Store(n), op[n] = "unregister"
  PROVE  LET e == entry[at[n]]
         IN /\ step[n] \in 0 .. 4
            /\ entry'[at[n]].flags = IF step[n] = 1 THEN 0 ELSE e.flags
            /\ step[n] < 2 => /\ entry'[at[n]].id = e.id /\ entry'[at[n]].shm = e.shm
                              /\ entry'[at[n]].pid = e.pid /\ entry'[at[n]].hb = e.hb
            /\ entry'[at[n]].pid \in {e.pid, Nobody} /\ entry'[at[n]].hb \in {e.hb, "zero"}
            /\ numEntries' = IF step[n] = 0 THEN (numEntries - 1) % CountMod ELSE numEntries
<1>1. step[n] \in Nat /\ step[n] < 5
  <2>1. step[n] \in Nat /\ step[n] < Len(Stores("unregister"))
    BY DEF Store, Storing, LockType
  <2>2. Len(Stores("unregister")) = 5
    BY Lengths
  <2> QED
    BY <2>1, <2>2
<1>2. step[n] \in 0 .. 4
  BY SMTT(30), <1>1
<1>3. NextStore(n) = RemoveStores[step[n] + 1]
  BY DEF NextStore, Stores
<1>4. /\ RemoveStores[1] = "count-1"
      /\ RemoveStores[2] = "flags=0"
      /\ RemoveStores[3] = "clear names"
      /\ RemoveStores[4] = "clear pid"
      /\ RemoveStores[5] = "clear hb"
  BY DEF RemoveStores
<1>5. PICK e \in Entries : e = entry[at[n]]
  BY StoreEntry DEF EntryType
<1>6. PICK s : s = NextStore(n)
  OBVIOUS
<1>7. PICK f : f = entry'[at[n]] /\ f = Stored(e, n, s)
  BY <1>5, <1>6, StoreEntry
<1>8. numEntries' = Counted(numEntries, s)
  BY <1>6 DEF Store
<1> HIDE DEF Process, Nobody
<1> QED
  <2>1. CASE step[n] = 0
    <3>1. step[n] + 1 = 1
      BY SMTT(30), <2>1
    <3>2. s = "count-1"
      BY <3>1, <1>3, <1>4, <1>6
    <3>3. f.flags = e.flags /\ f.id = e.id /\ f.shm = e.shm /\ f.pid = e.pid /\ f.hb = e.hb
      BY <3>2, <1>7 DEF Stored, Entries
    <3>4. numEntries' = (numEntries - 1) % CountMod
      BY <3>2, <1>8, CountedBy
    <3> QED
      BY SMTT(30), <2>1, <3>3, <3>4, <1>5, <1>7
  <2>2. CASE step[n] = 1
    <3>1. step[n] + 1 = 2
      BY SMTT(30), <2>2
    <3>2. s = "flags=0"
      BY <3>1, <1>3, <1>4, <1>6
    <3>3. f.flags = 0 /\ f.id = e.id /\ f.shm = e.shm /\ f.pid = e.pid /\ f.hb = e.hb
      BY <3>2, <1>7 DEF Stored, Entries
    <3>4. numEntries' = numEntries
      BY <3>2, <1>8, CountedBy
    <3> QED
      BY SMTT(30), <2>2, <3>3, <3>4, <1>5, <1>7
  <2>3. CASE step[n] = 2
    <3>1. step[n] + 1 = 3
      BY SMTT(30), <2>3
    <3>2. s = "clear names"
      BY <3>1, <1>3, <1>4, <1>6
    <3>3. f.id = None /\ f.shm = Nobody /\ f.flags = e.flags /\ f.pid = e.pid /\ f.hb = e.hb
      BY <3>2, <1>7 DEF Stored, Entries
    <3>4. numEntries' = numEntries
      BY <3>2, <1>8, CountedBy
    <3> QED
      BY SMTT(30), <2>3, <3>3, <3>4, <1>5, <1>7
  <2>4. CASE step[n] = 3
    <3>1. step[n] + 1 = 4
      BY SMTT(30), <2>4
    <3>2. s = "clear pid"
      BY <3>1, <1>3, <1>4, <1>6
    <3>3. f.pid = Nobody /\ f.flags = e.flags /\ f.id = e.id /\ f.shm = e.shm /\ f.hb = e.hb
      BY <3>2, <1>7 DEF Stored, Entries
    <3>4. numEntries' = numEntries
      BY <3>2, <1>8, CountedBy
    <3> QED
      BY SMTT(30), <2>4, <3>3, <3>4, <1>5, <1>7
  <2>5. CASE step[n] = 4
    <3>1. step[n] + 1 = 5
      BY SMTT(30), <2>5
    <3>2. s = "clear hb"
      BY <3>1, <1>3, <1>4, <1>6
    <3>3. f.hb = "zero" /\ f.flags = e.flags /\ f.id = e.id /\ f.shm = e.shm /\ f.pid = e.pid
      BY <3>2, <1>7 DEF Stored, Entries
    <3>4. numEntries' = numEntries
      BY <3>2, <1>8, CountedBy
    <3> QED
      BY SMTT(30), <2>5, <3>3, <3>4, <1>5, <1>7
  <2>6. step[n] = 0 \/ step[n] = 1 \/ step[n] = 2 \/ step[n] = 3 \/ step[n] = 4
    BY SMTT(30), <1>1
  <2> QED
    BY <2>1, <2>2, <2>3, <2>4, <2>5, <2>6

\* updateHeartbeat.
LEMMA BeatWrites ==
  ASSUME EntryType, LockType, NodeType, OpsSound, NEW n \in Nodes, Store(n), op[n] = "heartbeat"
  PROVE  LET e == entry[at[n]]
         IN /\ step[n] = 0 /\ numEntries' = numEntries
            /\ entry'[at[n]].flags = e.flags /\ entry'[at[n]].id = e.id /\ entry'[at[n]].shm = e.shm
            /\ entry'[at[n]].pid = e.pid /\ entry'[at[n]].hb = "fresh"
<1>1. step[n] \in Nat /\ step[n] < 1
  <2>1. step[n] \in Nat /\ step[n] < Len(Stores("heartbeat"))
    BY DEF Store, Storing, LockType
  <2>2. Len(Stores("heartbeat")) = 1
    BY Lengths
  <2> QED
    BY <2>1, <2>2
<1>2. step[n] \in 0 .. 0
  BY SMTT(30), <1>1
<1>3. NextStore(n) = BeatStores[step[n] + 1]
  BY DEF NextStore, Stores
<1>4. /\ BeatStores[1] = "hb"
  BY DEF BeatStores
<1>5. PICK e \in Entries : e = entry[at[n]]
  BY StoreEntry DEF EntryType
<1>6. PICK s : s = NextStore(n)
  OBVIOUS
<1>7. PICK f : f = entry'[at[n]] /\ f = Stored(e, n, s)
  BY <1>5, <1>6, StoreEntry
<1>8. numEntries' = Counted(numEntries, s)
  BY ZenonT(40), <1>6 DEF Store
<1> HIDE DEF Process, Nobody
<1> QED
  <2>1. CASE step[n] = 0
    <3>1. step[n] + 1 = 1
      BY SMTT(30), <2>1
    <3>2. s = "hb"
      BY <3>1, <1>3, <1>4, <1>6
    <3>3. f.hb = "fresh" /\ f.flags = e.flags /\ f.id = e.id /\ f.shm = e.shm /\ f.pid = e.pid
      BY <3>2, <1>7 DEF Stored, Entries
    <3>4. numEntries' = numEntries
      BY <3>2, <1>8, CountedBy
    <3> QED
      BY <2>1, <3>3, <3>4, <1>5, <1>7
  <2> QED
    BY SMTT(30), <1>2, <2>1

\* cleanupStaleNodes on a stale entry: the flags, the fields, then the count.
LEMMA RemoveWrites ==
  ASSUME EntryType, LockType, NodeType, OpsSound, NEW n \in Nodes, Store(n), op[n] = "remove"
  PROVE  LET e == entry[at[n]]
         IN /\ step[n] \in 0 .. 4
            /\ entry'[at[n]].flags = IF step[n] = 0 THEN 0 ELSE e.flags
            /\ entry'[at[n]].pid \in {e.pid, Nobody} /\ entry'[at[n]].hb \in {e.hb, "zero"}
            /\ numEntries' = IF step[n] = 4 THEN (numEntries - 1) % CountMod ELSE numEntries
<1>1. step[n] \in Nat /\ step[n] < 5
  <2>1. step[n] \in Nat /\ step[n] < Len(Stores("remove"))
    BY DEF Store, Storing, LockType
  <2>2. Len(Stores("remove")) = 5
    BY Lengths
  <2> QED
    BY <2>1, <2>2
<1>2. step[n] \in 0 .. 4
  BY SMTT(30), <1>1
<1>3. NextStore(n) = CleanStores[step[n] + 1]
  BY DEF NextStore, Stores
<1>4. /\ CleanStores[1] = "flags=0"
      /\ CleanStores[2] = "clear pid"
      /\ CleanStores[3] = "clear hb"
      /\ CleanStores[4] = "clear names"
      /\ CleanStores[5] = "count-1"
  BY DEF CleanStores
<1>5. PICK e \in Entries : e = entry[at[n]]
  BY StoreEntry DEF EntryType
<1>6. PICK s : s = NextStore(n)
  OBVIOUS
<1>7. PICK f : f = entry'[at[n]] /\ f = Stored(e, n, s)
  BY <1>5, <1>6, StoreEntry
<1>8. numEntries' = Counted(numEntries, s)
  BY <1>6 DEF Store
<1> HIDE DEF Process, Nobody
<1> QED
  <2>1. CASE step[n] = 0
    <3>1. step[n] + 1 = 1
      BY SMTT(30), <2>1
    <3>2. s = "flags=0"
      BY <3>1, <1>3, <1>4, <1>6
    <3>3. f.flags = 0 /\ f.id = e.id /\ f.shm = e.shm /\ f.pid = e.pid /\ f.hb = e.hb
      BY <3>2, <1>7 DEF Stored, Entries
    <3>4. numEntries' = numEntries
      BY <3>2, <1>8, CountedBy
    <3> QED
      BY SMTT(30), <2>1, <3>3, <3>4, <1>5, <1>7
  <2>2. CASE step[n] = 1
    <3>1. step[n] + 1 = 2
      BY SMTT(30), <2>2
    <3>2. s = "clear pid"
      BY <3>1, <1>3, <1>4, <1>6
    <3>3. f.pid = Nobody /\ f.flags = e.flags /\ f.id = e.id /\ f.shm = e.shm /\ f.hb = e.hb
      BY <3>2, <1>7 DEF Stored, Entries
    <3>4. numEntries' = numEntries
      BY <3>2, <1>8, CountedBy
    <3> QED
      BY SMTT(30), <2>2, <3>3, <3>4, <1>5, <1>7
  <2>3. CASE step[n] = 2
    <3>1. step[n] + 1 = 3
      BY SMTT(30), <2>3
    <3>2. s = "clear hb"
      BY <3>1, <1>3, <1>4, <1>6
    <3>3. f.hb = "zero" /\ f.flags = e.flags /\ f.id = e.id /\ f.shm = e.shm /\ f.pid = e.pid
      BY <3>2, <1>7 DEF Stored, Entries
    <3>4. numEntries' = numEntries
      BY <3>2, <1>8, CountedBy
    <3> QED
      BY SMTT(30), <2>3, <3>3, <3>4, <1>5, <1>7
  <2>4. CASE step[n] = 3
    <3>1. step[n] + 1 = 4
      BY SMTT(30), <2>4
    <3>2. s = "clear names"
      BY <3>1, <1>3, <1>4, <1>6
    <3>3. f.id = None /\ f.shm = Nobody /\ f.flags = e.flags /\ f.pid = e.pid /\ f.hb = e.hb
      BY <3>2, <1>7 DEF Stored, Entries
    <3>4. numEntries' = numEntries
      BY <3>2, <1>8, CountedBy
    <3> QED
      BY SMTT(30), <2>4, <3>3, <3>4, <1>5, <1>7
  <2>5. CASE step[n] = 4
    <3>1. step[n] + 1 = 5
      BY SMTT(30), <2>5
    <3>2. s = "count-1"
      BY <3>1, <1>3, <1>4, <1>6
    <3>3. f.flags = e.flags /\ f.id = e.id /\ f.shm = e.shm /\ f.pid = e.pid /\ f.hb = e.hb
      BY <3>2, <1>7 DEF Stored, Entries
    <3>4. numEntries' = (numEntries - 1) % CountMod
      BY <3>2, <1>8, CountedBy
    <3> QED
      BY SMTT(30), <2>5, <3>3, <3>4, <1>5, <1>7
  <2> QED
    BY SMTT(30), <1>2, <2>1, <2>2, <2>3, <2>4, <2>5

-----------------------------------------------------------------------------
(* The operations and their beginnings *)

\* While one node is in an operation, no other is.
LEMMA Others ==
  ASSUME LockType, NEW n \in Nodes, op[n] # "none"
  PROVE  \A m \in Nodes \ {n} : op[m] = "none"
BY Solo

\* A node in no operation, or scanning, has made no store.
LEMMA NoStores ==
  ASSUME LockType, NEW n \in Nodes, op[n] \in {"none", "scan", "unlisted"}
  PROVE  step[n] = 0
<1>1. step[n] \in Nat /\ step[n] <= Len(Stores(op[n]))
  BY DEF LockType
<1>2. Len(Stores(op[n])) = 0
  BY Lengths
<1>3. step[n] <= 0
  BY <1>1, <1>2
<1> QED
  BY SMTT(30), <1>1, <1>3

\* What holds of operation o as node n begins it on entry i.
BeginOK(n, o, i) ==
  /\ o \in Ops \ {"none", "remove"} /\ i \in Slots
  /\ o \in {"claim", "update"} => n \notin registered
  /\ o \in {"unregister", "unlisted", "heartbeat", "scan"} => n \in registered
  /\ o = "claim" => Matches(n) = {} /\ entry[i].flags = 0
  /\ o \in {"update", "unregister", "heartbeat"} => Valid(i) /\ entry[i].id = n

\* The operations of the API begin like that.
LEMMA Beginnings ==
  ASSUME NEW n \in Nodes, Register(n) \/ Unregister(n) \/ Heartbeat(n) \/ Cleanup(n)
  PROVE  \E o \in Ops, i \in Slots : Begin(n, o, i) /\ BeginOK(n, o, i)
<1>1. 1 \in Slots /\ Matches(n) \in SUBSET Slots /\ Unused \in SUBSET Slots
  BY SMTT(30), RegistryAssumption DEF Slots, Matches, Unused
<1>2. Matches(n) # {} => /\ Min(Matches(n)) \in Slots /\ Valid(Min(Matches(n)))
                         /\ entry[Min(Matches(n))].id = n
  <2>1. Matches(n) # {} => Min(Matches(n)) \in Matches(n)
    BY <1>1, MinIn
  <2> QED
    BY <2>1 DEF Matches
<1>3. Unused # {} => Min(Unused) \in Slots /\ entry[Min(Unused)].flags = 0
  <2>1. Unused # {} => Min(Unused) \in Unused
    BY <1>1, MinIn
  <2> QED
    BY <2>1 DEF Unused
<1>4. CASE Register(n)
  <2>1. CASE Matches(n) # {} /\ Begin(n, "update", Min(Matches(n)))
    BY <1>2, <1>4, <2>1 DEF BeginOK, Ops, Register
  <2>2. CASE Matches(n) = {} /\ Unused # {} /\ Begin(n, "claim", Min(Unused))
    BY <1>3, <1>4, <2>2 DEF BeginOK, Ops, Register
  <2> QED
    BY <1>4, <2>1, <2>2 DEF Register
<1>5. CASE Unregister(n)
  <2>1. CASE Matches(n) # {} /\ Begin(n, "unregister", Min(Matches(n)))
    BY <1>2, <1>5, <2>1 DEF BeginOK, Ops, Unregister
  <2>2. CASE Matches(n) = {} /\ Begin(n, "unlisted", 1)
    BY <1>1, <1>5, <2>2 DEF BeginOK, Ops, Unregister
  <2> QED
    BY <1>5, <2>1, <2>2 DEF Unregister
<1>6. CASE Heartbeat(n)
  BY <1>2, <1>6 DEF BeginOK, Ops, Heartbeat
<1>7. CASE Cleanup(n)
  BY <1>1, <1>7 DEF BeginOK, Ops, Cleanup
<1> QED
  BY <1>4, <1>5, <1>6, <1>7

\* An operation begins when no other is under way.
LEMMA BeginQuiet ==
  ASSUME LockType, NEW n \in Nodes, NEW o, NEW i, Begin(n, o, i)
  PROVE  \A m \in Nodes : op[m] = "none" /\ step[m] = 0
BY QuietOps DEF Begin, CanLock, Quiet

\* The steps of Next.
LEMMA Actions ==
  ASSUME Next
  PROVE  \/ \E n \in Nodes : \/ Start(n) \/ Die(n) \/ RegisterFull(n) \/ Store(n)
                             \/ CleanSlot(n) \/ CleanNext(n) \/ Finish(n)
         \/ \E n \in Nodes, o \in Ops, i \in Slots : Begin(n, o, i) /\ BeginOK(n, o, i)
         \/ \E i \in Slots : TimePasses(i)
<1>1. CASE \E n \in Nodes : Register(n) \/ Unregister(n) \/ Heartbeat(n) \/ Cleanup(n)
  BY <1>1, Beginnings
<1> QED
  BY <1>1 DEF Next, Steps

-----------------------------------------------------------------------------
(* The types are kept *)

\* The entries.
LEMMA EntryTypeKept ==
  ASSUME EntryType, LockType, NodeType, OpsSound, Next
  PROVE  EntryType'
<1>1. ASSUME NEW n \in Nodes, Store(n) PROVE EntryType'
  BY <1>1, StoreEntry
<1>2. ASSUME NEW i \in Slots, TimePasses(i) PROVE EntryType'
  <2>1. entry' = [entry EXCEPT ![i] = [entry[i] EXCEPT !.hb = "old"]]
    BY <1>2 DEF TimePasses
  <2>2. [entry[i] EXCEPT !.hb = "old"] \in Entries
    BY SMTT(30) DEF EntryType, Entries
  <2> QED
    BY <2>1, <2>2 DEF EntryType
<1>3. CASE UNCHANGED entry
  BY <1>3 DEF EntryType
<1> QED
  BY <1>1, <1>2, <1>3, Actions DEF Start, Die, RegisterFull, CleanSlot, CleanNext, Finish, Begin

\* The count.
LEMMA CountTypeKept ==
  ASSUME CountType, Next
  PROVE  CountType'
<1>1. ASSUME NEW n \in Nodes, Store(n) PROVE CountType'
  <2>1. PICK s : s = NextStore(n)
    OBVIOUS
  <2>2. numEntries' = Counted(numEntries, s)
    BY <1>1, <2>1 DEF Store
  <2>3. numEntries' = (numEntries + 1) % CountMod \/ numEntries' = (numEntries - 1) % CountMod
          \/ numEntries' = numEntries
    BY <2>2, CountedBy
  <2> QED
    BY SMTT(30), <2>3, RegistryAssumption DEF CountType
<1>2. CASE UNCHANGED numEntries
  BY <1>2 DEF CountType
<1> QED
  BY <1>1, <1>2, Actions DEF Start, Die, RegisterFull, CleanSlot, CleanNext, Finish, Begin, TimePasses

\* The places.
LEMMA PlaceTypeKept ==
  ASSUME PlaceType, OpsSound, Next
  PROVE  PlaceType'
<1>1. ASSUME NEW n \in Nodes, NEW o \in Ops, NEW i \in Slots, Begin(n, o, i) PROVE PlaceType'
  BY SMTT(30), <1>1, RegistryAssumption DEF Begin, PlaceType, Slots
<1>2. ASSUME NEW n \in Nodes, CleanSlot(n) PROVE PlaceType'
  BY SMTT(30), <1>2, RegistryAssumption DEF CleanSlot, PlaceType, Slots
<1>3. ASSUME NEW n \in Nodes, CleanNext(n) PROVE PlaceType'
  BY SMTT(30), <1>3, RegistryAssumption DEF CleanNext, PlaceType, Slots, OpsSound
<1>4. CASE UNCHANGED at
  BY <1>4 DEF PlaceType
<1> QED
  BY <1>1, <1>2, <1>3, <1>4, Actions DEF Start, Die, RegisterFull, Store, Finish, TimePasses

\* The interruption flag.
LEMMA FlagTypeKept ==
  ASSUME FlagType, Next
  PROVE  FlagType'
<1>1. CASE UNCHANGED interrupted
  BY <1>1 DEF FlagType
<1>2. ASSUME NEW n \in Nodes, Die(n) PROVE FlagType'
  BY <1>2 DEF Die, FlagType
<1> QED
  BY <1>1, <1>2, Actions
  DEF Start, RegisterFull, Store, CleanSlot, CleanNext, Finish, Begin, TimePasses, history

\* The processes.
LEMMA NodeTypeKept ==
  ASSUME EntryType, NodeType, LockType, PlaceType, OpsSound, Next
  PROVE  NodeType'
<1>0. setup.starts \in Nat
  BY RegistryAssumption DEF NodeType, Scenario
<1>1. ASSUME NEW n \in Nodes, Start(n) PROVE NodeType'
  <2>1. start' \in [Nodes -> 0 .. setup.starts]
    BY SMTT(30), <1>0, <1>1 DEF Start, NodeType
  <2> QED
    BY <1>1, <2>1 DEF Start, NodeType
<1>2. ASSUME NEW n \in Nodes, Die(n) PROVE NodeType'
  <2>1. Exposed(n) \subseteq Nodes
    <3>1. CASE op[n] = "claim" /\ step[n] = 1
      <4>1. entry[at[n]].id \in Nodes \cup {None}
        BY <3>1 DEF OpsSound, EntryType, Entries
      <4> QED
        BY <3>1, <4>1 DEF Exposed
    <3> QED
      BY <3>1 DEF Exposed
  <2>2. /\ setup' = setup /\ up' = up \ {n} /\ start' = start /\ registered' = registered \ {n}
        /\ late' = late /\ ghosts' = ghosts \cup Exposed(n)
    BY <1>2 DEF Die
  <2> QED
    BY <2>1, <2>2 DEF NodeType
<1>3. ASSUME NEW n \in Nodes, RegisterFull(n) PROVE NodeType'
  BY <1>3 DEF RegisterFull, NodeType, history
<1>4. ASSUME NEW n \in Nodes, Finish(n) PROVE NodeType'
  <2>1. /\ setup' = setup /\ start' = start /\ late' = late /\ ghosts' = ghosts /\ n \in up
        /\ \/ registered' \in {registered \cup {n}, registered} /\ up' = up
           \/ registered' = registered \ {n} /\ up' = up \ {n}
    BY <1>4 DEF Finish, history
  <2> QED
    BY <2>1 DEF NodeType
<1>5. ASSUME NEW i \in Slots, TimePasses(i) PROVE NodeType'
  <2>1. /\ setup' = setup /\ start' = start /\ up' = up /\ registered' = registered /\ ghosts' = ghosts
        /\ late' = late \/ (Alive(entry[i].pid) /\ late' = late \cup {entry[i].pid[1]})
    BY <1>5 DEF TimePasses
  <2> QED
    BY <2>1 DEF NodeType, Alive
<1>6. CASE UNCHANGED <<setup, up, start, registered, history>>
  BY <1>6 DEF NodeType, history
<1> QED
  BY <1>1, <1>2, <1>3, <1>4, <1>5, <1>6, Actions DEF Store, CleanSlot, CleanNext, Begin

\* The mutex and the operations.
LEMMA LockTypeKept ==
  ASSUME LockType, Next
  PROVE  LockType'
<1>0. \A n \in Nodes : /\ op[n] \in Ops /\ step[n] \in Nat
                       /\ op[n] # "none" <=> mutex = n
                       /\ step[n] <= Len(Stores(op[n]))
  BY DEF LockType
<1>a. \A o \in Ops : Len(Stores(o)) \in Nat
  BY SMTT(30), Lengths DEF Ops
<1>1. ASSUME NEW n \in Nodes, NEW o \in Ops, NEW i \in Slots, Begin(n, o, i), BeginOK(n, o, i) PROVE LockType'
  <2>1. \A m \in Nodes : op[m] = "none" /\ step[m] = 0
    BY <1>1, BeginQuiet
  <2>2. mutex' = n /\ op' = [op EXCEPT ![n] = o] /\ step' = step /\ o # "none"
    BY <1>1 DEF Begin, BeginOK
  <2>3. \A m \in Nodes : /\ op'[m] \in Ops /\ step'[m] = 0
                         /\ op'[m] # "none" <=> mutex' = m
    BY <2>1, <2>2 DEF LockType, Ops
  <2>4. \A m \in Nodes : step'[m] <= Len(Stores(op'[m]))
    <3> SUFFICES ASSUME NEW m \in Nodes PROVE step'[m] <= Len(Stores(op'[m]))
      OBVIOUS
    <3>1. Len(Stores(op'[m])) \in Nat
      BY <1>a, <2>3
    <3> QED
      BY SMTT(30), <2>3, <3>1
  <2> QED
    BY <2>2, <2>3, <2>4 DEF LockType
<1>2. ASSUME NEW n \in Nodes, Store(n) PROVE LockType'
  <2>1. /\ mutex' = mutex /\ op' = op /\ step' = [step EXCEPT ![n] = step[n] + 1]
        /\ step[n] < Len(Stores(op[n]))
    BY <1>2 DEF Store, Storing
  <2>2. Len(Stores(op[n])) \in Nat
    BY <1>0, <1>a
  <2>3. step[n] + 1 <= Len(Stores(op[n]))
    BY SMTT(30), <1>0, <2>1, <2>2
  <2> QED
    BY SMTT(30), <1>0, <2>1, <2>3 DEF LockType
<1>3. ASSUME NEW n \in Nodes, CleanSlot(n) PROVE LockType'
  <2>1. /\ mutex' = mutex /\ step' = step /\ op[n] = "scan" /\ n \in up
        /\ op' = op \/ op' = [op EXCEPT ![n] = "remove"]
    BY <1>3 DEF CleanSlot
  <2>2. CASE op' = op
    BY <2>1, <2>2 DEF LockType
  <2>3. CASE op' = [op EXCEPT ![n] = "remove"]
    <3>1. step[n] = 0 /\ Len(Stores("remove")) = 5
      BY <2>1, NoStores, Lengths
    <3> QED
      BY SMTT(30), <2>1, <2>3, <3>1 DEF LockType, Ops
  <2> QED
    BY <2>1, <2>2, <2>3
<1>4. ASSUME NEW n \in Nodes, CleanNext(n) PROVE LockType'
  <2>1. /\ mutex' = mutex /\ step' = [step EXCEPT ![n] = 0] /\ op[n] = "remove"
        /\ op' = [op EXCEPT ![n] = "scan"]
    BY <1>4 DEF CleanNext
  <2>2. Len(Stores("scan")) = 0
    BY Lengths
  <2> QED
    BY SMTT(30), <2>1, <2>2 DEF LockType, Ops
<1>5. ASSUME NEW n \in Nodes, Finish(n) PROVE LockType'
  <2>1. /\ mutex' = None /\ step' = [step EXCEPT ![n] = 0] /\ op[n] # "none"
        /\ op' = [op EXCEPT ![n] = "none"]
    BY <1>5 DEF Finish
  <2>2. Len(Stores("none")) = 0
    BY Lengths
  <2>3. \A m \in Nodes : op'[m] = "none"
    BY <2>1, Others DEF LockType
  <2>4. \A m \in Nodes : step'[m] \in Nat /\ step'[m] <= Len(Stores(op'[m]))
    BY SMTT(30), <2>1, <2>2 DEF LockType
  <2> QED
    BY <2>1, <2>3, <2>4, RegistryAssumption DEF LockType, Ops
<1>6. ASSUME NEW n \in Nodes, Die(n) PROVE LockType'
  <2>1. /\ mutex' = (IF mutex = n THEN OwnerDead ELSE mutex)
        /\ step' = [step EXCEPT ![n] = 0] /\ op' = [op EXCEPT ![n] = "none"]
    BY <1>6 DEF Die
  <2>2. Len(Stores("none")) = 0
    BY Lengths
  <2>3. \A m \in Nodes : step'[m] \in Nat /\ step'[m] <= Len(Stores(op'[m])) /\ op'[m] \in Ops
    BY SMTT(30), <2>1, <2>2 DEF LockType, Ops
  <2>4. \A m \in Nodes : op'[m] # "none" <=> mutex' = m
    BY <2>1, RegistryAssumption DEF LockType
  <2> QED
    BY <2>1, <2>3, <2>4, RegistryAssumption DEF LockType
<1>7. ASSUME NEW n \in Nodes, RegisterFull(n) PROVE LockType'
  <2>1. mutex' = None /\ step' = step /\ op' = op /\ Quiet
    BY <1>7 DEF RegisterFull, CanLock, Quiet
  <2>2. \A m \in Nodes : op[m] = "none"
    BY <2>1, QuietOps
  <2> QED
    BY <2>1, <2>2, RegistryAssumption DEF LockType
<1>8. CASE UNCHANGED <<mutex, op, step>>
  BY <1>8 DEF LockType
<1> QED
  BY <1>1, <1>2, <1>3, <1>4, <1>5, <1>6, <1>7, <1>8, Actions DEF Start, TimePasses

\* The type invariant is kept.
LEMMA TypesKept ==
  ASSUME TypeOK, OpsSound, Next
  PROVE  TypeOK'
<1>1. EntryType /\ CountType /\ LockType /\ PlaceType /\ NodeType /\ FlagType
  BY TypeParts
<1>2. EntryType' /\ CountType' /\ LockType' /\ PlaceType' /\ NodeType' /\ FlagType'
  BY <1>1, EntryTypeKept, CountTypeKept, LockTypeKept, PlaceTypeKept, NodeTypeKept, FlagTypeKept
<1> QED
  BY <1>2 DEF TypeOK, EntryType, CountType, LockType, PlaceType, NodeType, FlagType

-----------------------------------------------------------------------------
(* The operations do what they are at *)

\* The part of OpsSound about one node.
OpSound(n) ==
  /\ op[n] # "none" => n \in up
  /\ op[n] \in {"claim", "update", "unregister", "heartbeat", "remove"} => at[n] \in Slots
  /\ op[n] \in {"claim", "update"} => n \notin registered
  /\ op[n] = "claim" => ClaimSound(n)
  /\ op[n] = "update" => UpdateSound(n)
  /\ op[n] = "unregister" => UnregisterSound(n)
  /\ op[n] = "remove" => RemoveSound(n)

\* A node in no operation is sound.
LEMMA Idle ==
  ASSUME NEW n \in Nodes, op[n] = "none"
  PROVE  OpSound(n)
BY DEF OpSound

\* An operation that begins is sound.
LEMMA BeginSound ==
  ASSUME EntryType, LockType, PlaceType, NEW n \in Nodes, NEW o \in Ops, NEW i \in Slots,
         Begin(n, o, i), BeginOK(n, o, i)
  PROVE  OpSound(n)'
<1>1. /\ op'[n] = o /\ at'[n] = i /\ step'[n] = 0 /\ entry' = entry /\ up' = up /\ n \in up
      /\ registered' = registered /\ start' = start
  <2>1. step[n] = 0
    BY BeginQuiet
  <2> QED
    BY <2>1 DEF Begin, LockType, PlaceType
<1>2. o = "claim" => ClaimSound(n)'
  <2> HAVE o = "claim"
  <2>1. \A j \in Slots : ~(Valid(j) /\ entry[j].id = n)
    BY DEF BeginOK, Matches
  <2>2. entry[i].flags = 0
    BY DEF BeginOK
  <2> QED
    BY SMTT(30), <1>1, <2>1, <2>2 DEF ClaimSound, Valid
<1>3. o = "update" => UpdateSound(n)'
  BY SMTT(30), <1>1 DEF BeginOK, UpdateSound, Valid
<1>4. o = "unregister" => UnregisterSound(n)'
  BY SMTT(30), <1>1 DEF BeginOK, UnregisterSound, Valid
<1> QED
  BY <1>1, <1>2, <1>3, <1>4 DEF OpSound, BeginOK

\* A store of registerNode in a free entry.
LEMMA ClaimKept ==
  ASSUME EntryType, LockType, NodeType, OpsSound, NEW n \in Nodes, Store(n), op[n] = "claim"
  PROVE  ClaimSound(n)'
<1>1. /\ at'[n] = at[n] /\ step'[n] = step[n] + 1 /\ start' = start
  BY DEF Store, LockType
<1>2. ClaimSound(n)
  BY DEF OpsSound
<1>3. PICK p : p = Process(n) /\ p = Process(n)'
  BY <1>1 DEF Process
<1>4. PICK k \in 0 .. 6 : k = step[n]
  BY ClaimStores
<1>5. PICK e : e = entry[at[n]]
  OBVIOUS
<1>6. PICK f : f = entry'[at[n]]
  OBVIOUS
<1>7. /\ f.flags = IF k = 0 THEN 1 ELSE IF k = 5 THEN 3 ELSE e.flags
      /\ f.id = IF k = 1 THEN n ELSE e.id
      /\ f.shm = IF k = 2 THEN p ELSE e.shm
      /\ f.pid = IF k = 3 THEN p ELSE e.pid
      /\ f.hb = IF k = 4 THEN "fresh" ELSE e.hb
  BY ZenonT(40), <1>3, <1>4, <1>5, <1>6, ClaimStores
<1>8. /\ e.flags = IF k = 0 THEN 0 ELSE IF k < 6 THEN 1 ELSE 3
      /\ k > 1 => e.id = n
      /\ k > 2 => e.shm = p
      /\ k > 3 => e.pid = p
      /\ k > 4 => e.hb # "zero"
  BY <1>2, <1>3, <1>4, <1>5 DEF ClaimSound
<1>9. \A j \in Slots \ {at[n]} : ~(Valid(j)' /\ entry'[j].id = n)
  BY <1>2, StoreEntry DEF ClaimSound, Valid
<1>10. /\ f.flags = IF k + 1 = 0 THEN 0 ELSE IF k + 1 < 6 THEN 1 ELSE 3
       /\ k + 1 > 1 => f.id = n
       /\ k + 1 > 2 => f.shm = p
       /\ k + 1 > 3 => f.pid = p
       /\ k + 1 > 4 => f.hb # "zero"
  BY SMTT(30), <1>7, <1>8
<1> QED
  BY <1>1, <1>3, <1>4, <1>6, <1>9, <1>10 DEF ClaimSound

\* A store of registerNode in the node's own entry.
LEMMA UpdateKept ==
  ASSUME EntryType, LockType, NodeType, OpsSound, NEW n \in Nodes, Store(n), op[n] = "update"
  PROVE  UpdateSound(n)'
<1>1. /\ at'[n] = at[n] /\ step'[n] = step[n] + 1 /\ start' = start
  BY DEF Store, LockType
<1>2. UpdateSound(n)
  BY DEF OpsSound
<1>3. PICK p : p = Process(n) /\ p = Process(n)'
  BY <1>1 DEF Process
<1>4. PICK k \in 0 .. 3 : k = step[n]
  BY UpdateWrites
<1>5. PICK e : e = entry[at[n]]
  OBVIOUS
<1>6. PICK f : f = entry'[at[n]]
  OBVIOUS
<1>7. /\ f.flags = IF k = 3 THEN 3 ELSE e.flags
      /\ f.id = e.id
      /\ f.shm = IF k = 0 THEN p ELSE e.shm
      /\ f.pid = IF k = 1 THEN p ELSE e.pid
      /\ f.hb = IF k = 2 THEN "fresh" ELSE e.hb
  BY <1>3, <1>4, <1>5, <1>6, UpdateWrites
<1>8. /\ e.flags \in {1, 3} /\ e.id = n
      /\ k > 0 => e.shm = p
      /\ k > 1 => e.pid = p
      /\ k > 2 => e.hb # "zero"
      /\ k > 3 => e.flags = 3
  BY <1>2, <1>3, <1>4, <1>5 DEF UpdateSound, Valid
<1>9. /\ f.flags \in {1, 3} /\ f.id = n
      /\ k + 1 > 0 => f.shm = p
      /\ k + 1 > 1 => f.pid = p
      /\ k + 1 > 2 => f.hb # "zero"
      /\ k + 1 > 3 => f.flags = 3
  BY SMTT(30), <1>7, <1>8
<1> QED
  BY <1>1, <1>3, <1>4, <1>6, <1>9 DEF UpdateSound, Valid

\* A store of unregisterNode.
LEMMA UnregisterKept ==
  ASSUME EntryType, LockType, NodeType, OpsSound, NEW n \in Nodes, Store(n), op[n] = "unregister"
  PROVE  UnregisterSound(n)'
<1>1. /\ at'[n] = at[n] /\ step'[n] = step[n] + 1
  BY DEF Store, LockType
<1>2. UnregisterSound(n)
  BY DEF OpsSound
<1>3. PICK k \in 0 .. 4 : k = step[n]
  BY UnregisterWrites
<1>4. CASE k = 0
  <2>1. step[n] = 0 /\ step[n] < 2 /\ step[n] # 1 /\ step'[n] < 2
    BY SMTT(30), <1>1, <1>3, <1>4
  <2>2. entry[at[n]].flags \in {1, 3} /\ entry[at[n]].id = n
    BY <1>2, <2>1 DEF UnregisterSound, Valid
  <2>3. entry'[at[n]].flags = entry[at[n]].flags /\ entry'[at[n]].id = entry[at[n]].id
    BY <2>1, UnregisterWrites
  <2> QED
    BY <1>1, <2>1, <2>2, <2>3 DEF UnregisterSound, Valid
<1>5. CASE k > 0
  <2>1. entry'[at[n]].flags = 0
    BY SMTT(30), <1>2, <1>3, <1>5, UnregisterWrites DEF UnregisterSound
  <2>2. ~(step'[n] < 2)
    BY SMTT(30), <1>1, <1>3, <1>5
  <2> QED
    BY <1>1, <2>1, <2>2 DEF UnregisterSound
<1> QED
  BY SMTT(30), <1>4, <1>5

\* A store of cleanupStaleNodes.
LEMMA RemoveKept ==
  ASSUME EntryType, LockType, NodeType, OpsSound, NEW n \in Nodes, Store(n), op[n] = "remove"
  PROVE  RemoveSound(n)'
<1>1. /\ at'[n] = at[n] /\ step'[n] = step[n] + 1
  BY DEF Store, LockType
<1>2. RemoveSound(n)
  BY DEF OpsSound
<1>3. PICK k \in 0 .. 4 : k = step[n]
  BY RemoveWrites
<1>4. entry'[at[n]].flags = 0
  BY <1>2, <1>3, RemoveWrites DEF RemoveSound
<1>5. step'[n] # 0
  BY SMTT(30), <1>1, <1>3
<1> QED
  BY <1>1, <1>4, <1>5 DEF RemoveSound

\* Stores keep the operation of the node that makes them sound.
LEMMA StoreSound ==
  ASSUME EntryType, LockType, NodeType, OpsSound, NEW n \in Nodes, Store(n)
  PROVE  OpSound(n)'
<1>1. /\ op' = op /\ at' = at /\ up' = up /\ registered' = registered
  BY DEF Store
<1>2. OpSound(n)
  BY DEF OpsSound, OpSound
<1> QED
  BY <1>1, <1>2, ClaimKept, UpdateKept, UnregisterKept, RemoveKept DEF OpSound

\* A dead process stays dead: its id is not given to another.
LEMMA DeadStays ==
  ASSUME EntryType, NodeType, PidsKnown, NEW i \in Slots, ~Alive(entry[i].pid), Next, entry'[i].pid = entry[i].pid
  PROVE  ~Alive(entry[i].pid)'
<1>1. PICK a \in Nodes \cup {None}, b \in Nat : entry[i].pid = <<a, b>>
  BY SMTT(30) DEF EntryType, Entries
<1>2. (a \in Nodes => b <= start[a]) /\ ~(a \in up /\ start[a] = b)
  BY SMTT(30), <1>1 DEF PidsKnown, Alive
<1>3. ASSUME NEW n \in Nodes, Start(n) PROVE ~(a \in up' /\ start'[a] = b)
  <2>1. up' = up \cup {n} /\ start' = [start EXCEPT ![n] = start[n] + 1] /\ start[n] \in Nat /\ n \notin up
    BY SMTT(30), <1>3, RegistryAssumption DEF Start, NodeType, Scenario
  <2>2. CASE a = n
    BY SMTT(30), <1>2, <2>1, <2>2 DEF NodeType
  <2>3. CASE a # n
    BY <1>2, <2>1, <2>3 DEF NodeType
  <2> QED
    BY <2>2, <2>3
<1>4. ASSUME up' \subseteq up, start' = start PROVE ~(a \in up' /\ start'[a] = b)
  BY <1>2, <1>4
<1>5. ASSUME \A n \in Nodes : ~Start(n) PROVE ~(a \in up' /\ start'[a] = b)
  BY <1>4, <1>5, Actions DEF Die, RegisterFull, Store, CleanSlot, CleanNext, Finish, Begin, TimePasses
<1>6. ~(a \in up' /\ start'[a] = b)
  BY <1>3, <1>5
<1> QED
  BY SMTT(30), <1>1, <1>6 DEF Alive

\* A node whose operation is not touched stays sound in it.
LEMMA StaysSound ==
  ASSUME EntryType, NodeType, OpsSound, PidsKnown, Next, NEW m \in Nodes,
         op'[m] = op[m], at'[m] = at[m], step'[m] = step[m], start'[m] = start[m],
         m \in up => m \in up', m \notin registered => m \notin registered',
         \A i \in Slots : /\ entry'[i].flags = entry[i].flags /\ entry'[i].id = entry[i].id
                          /\ entry'[i].shm = entry[i].shm /\ entry'[i].pid = entry[i].pid
                          /\ entry'[i].hb \in {entry[i].hb, "old"}
                          /\ entry[i].hb = "zero" => entry'[i].hb = "zero"
  PROVE  OpSound(m)'
<1>1. OpSound(m)
  BY DEF OpsSound, OpSound
<1>2. \A i \in Slots : Valid(i)' <=> Valid(i)
  BY DEF Valid
<1>3. PICK p : p = Process(m) /\ p = Process(m)'
  BY DEF Process
<1>4. op[m] = "claim" => ClaimSound(m)'
  <2> HAVE op[m] = "claim"
  <2>1. ClaimSound(m) /\ at[m] \in Slots
    BY <1>1 DEF OpSound
  <2> QED
    BY SMTT(30), <1>2, <1>3, <2>1 DEF ClaimSound
<1>5. op[m] = "update" => UpdateSound(m)'
  <2> HAVE op[m] = "update"
  <2>1. UpdateSound(m) /\ at[m] \in Slots
    BY <1>1 DEF OpSound
  <2> QED
    BY SMTT(30), <1>2, <1>3, <2>1 DEF UpdateSound
<1>6. op[m] = "unregister" => UnregisterSound(m)'
  <2> HAVE op[m] = "unregister"
  <2>1. UnregisterSound(m) /\ at[m] \in Slots
    BY <1>1 DEF OpSound
  <2> QED
    BY <1>2, <2>1 DEF UnregisterSound
<1>7. op[m] = "remove" => RemoveSound(m)'
  <2> HAVE op[m] = "remove"
  <2>1. RemoveSound(m) /\ at[m] \in Slots
    BY <1>1 DEF OpSound
  <2>2. CASE step[m] = 0
    <3>1. Stale(at[m])
      BY <2>1, <2>2 DEF RemoveSound
    <3>2. ~Alive(entry[at[m]].pid) => ~Alive(entry[at[m]].pid)'
      BY <2>1, DeadStays
    <3>3. Valid(at[m])' /\ entry'[at[m]].hb # "zero"
      BY <1>2, <2>1, <3>1 DEF Stale
    <3>4. entry'[at[m]].hb = "old" \/ ~Alive(entry[at[m]].pid)'
      BY <2>1, <3>1, <3>2 DEF Stale
    <3> QED
      BY <2>2, <3>3, <3>4 DEF RemoveSound, Stale
  <2>3. CASE step[m] # 0
    BY <2>1, <2>3 DEF RemoveSound
  <2> QED
    BY <2>2, <2>3
<1> QED
  BY <1>1, <1>4, <1>5, <1>6, <1>7 DEF OpSound

\* OpsSound is kept.
LEMMA OpsKept ==
  ASSUME EntryType, LockType, PlaceType, NodeType, OpsSound, PidsKnown, Next
  PROVE  OpsSound'
<1> SUFFICES ASSUME NEW m \in Nodes PROVE OpSound(m)'
  BY DEF OpsSound, OpSound
<1>0. ASSUME op'[m] = "none" PROVE OpSound(m)'
  BY <1>0 DEF OpSound
<1>1. ASSUME NEW n \in Nodes, NEW o \in Ops, NEW i \in Slots, Begin(n, o, i), BeginOK(n, o, i) PROVE OpSound(m)'
  <2>1. CASE m = n
    BY <1>1, <2>1, BeginSound
  <2>2. CASE m # n
    <3>1. op'[m] = "none"
      BY <1>1, <2>2, BeginQuiet DEF Begin, LockType
    <3> QED
      BY <3>1, <1>0
  <2> QED
    BY <2>1, <2>2
<1>2. ASSUME NEW n \in Nodes, Store(n) PROVE OpSound(m)'
  <2>1. CASE m = n
    BY <1>2, <2>1, StoreSound
  <2>2. CASE m # n
    <3>1. op'[m] = "none"
      BY <1>2, <2>2, StoreOps, Others DEF Store
    <3> QED
      BY <3>1, <1>0
  <2> QED
    BY <2>1, <2>2
<1>3. ASSUME NEW n \in Nodes, CleanSlot(n) PROVE OpSound(m)'
  <2>1. op[n] = "scan" /\ at[n] \in Slots /\ step[n] = 0 /\ n \in up
    BY <1>3, NoStores DEF CleanSlot
  <2>2. CASE m # n
    <3>1. op'[m] = "none"
      BY <1>3, <2>1, <2>2, Others DEF CleanSlot, LockType
    <3> QED
      BY <3>1, <1>0
  <2>3. CASE m = n /\ op' = op
    BY <1>3, <2>1, <2>3 DEF OpSound, CleanSlot
  <2>4. CASE m = n /\ Stale(at[n]) /\ op' = [op EXCEPT ![n] = "remove"] /\ at' = at
    <3>1. Stale(at[n])' /\ step'[n] = 0 /\ op'[n] = "remove" /\ up' = up
      BY <1>3, <2>1, <2>4 DEF CleanSlot, Stale, Valid, Alive, LockType
    <3> QED
      BY <2>1, <2>4, <3>1 DEF OpSound, RemoveSound
  <2> QED
    BY <1>3, <2>2, <2>3, <2>4 DEF CleanSlot
<1>4. ASSUME NEW n \in Nodes, CleanNext(n) PROVE OpSound(m)'
  <2>1. op[n] = "remove" /\ op' = [op EXCEPT ![n] = "scan"] /\ up' = up /\ n \in up
    BY <1>4 DEF CleanNext
  <2>2. CASE m # n
    <3>1. op'[m] = "none"
      BY <2>1, <2>2, Others DEF LockType
    <3> QED
      BY <3>1, <1>0
  <2>3. CASE m = n
    <3>1. op'[m] = "scan"
      BY <2>1, <2>3 DEF LockType
    <3> QED
      BY <2>1, <2>3, <3>1 DEF OpSound
  <2> QED
    BY <2>2, <2>3
<1>5. ASSUME NEW n \in Nodes, Finish(n) PROVE OpSound(m)'
  <2>1. op[n] # "none" /\ op' = [op EXCEPT ![n] = "none"]
    BY <1>5 DEF Finish
  <2>2. op'[m] = "none"
    BY <2>1, Others DEF LockType
  <2> QED
    BY <2>2, <1>0
<1>6. ASSUME NEW n \in Nodes, Die(n) PROVE OpSound(m)'
  <2>1. CASE m = n
    <3>1. op'[m] = "none"
      BY <1>6, <2>1 DEF Die, LockType
    <3> QED
      BY <3>1, <1>0
  <2>2. CASE m # n
    <3>1. /\ op'[m] = op[m] /\ at'[m] = at[m] /\ step'[m] = step[m] /\ start'[m] = start[m]
          /\ entry' = entry /\ (m \in up => m \in up') /\ (m \notin registered => m \notin registered')
      BY <1>6, <2>2 DEF Die, LockType
    <3> QED
      BY <3>1, StaysSound
  <2> QED
    BY <2>1, <2>2
<1>7. ASSUME NEW n \in Nodes, Start(n) PROVE OpSound(m)'
  <2>1. CASE m = n
    <3>1. op'[m] = "none"
      BY <1>7, <2>1 DEF Start, OpsSound
    <3> QED
      BY <3>1, <1>0
  <2>2. CASE m # n
    <3>1. /\ op'[m] = op[m] /\ at'[m] = at[m] /\ step'[m] = step[m] /\ start'[m] = start[m]
          /\ entry' = entry /\ (m \in up => m \in up') /\ (m \notin registered => m \notin registered')
      BY <1>7, <2>2 DEF Start, NodeType
    <3> QED
      BY <3>1, StaysSound
  <2> QED
    BY <2>1, <2>2
<1>8. ASSUME NEW n \in Nodes, RegisterFull(n) PROVE OpSound(m)'
  <2>1. op'[m] = "none"
    BY <1>8, QuietOps DEF RegisterFull, CanLock, Quiet
  <2> QED
    BY <2>1, <1>0
<1>9. ASSUME NEW i \in Slots, TimePasses(i) PROVE OpSound(m)'
  <2>1. /\ op' = op /\ at' = at /\ step' = step /\ start' = start /\ up' = up /\ registered' = registered
        /\ entry[i].hb = "fresh" /\ entry' = [entry EXCEPT ![i] = [entry[i] EXCEPT !.hb = "old"]]
    BY <1>9 DEF TimePasses
  <2>2. \A j \in Slots : /\ entry'[j].flags = entry[j].flags /\ entry'[j].id = entry[j].id
                         /\ entry'[j].shm = entry[j].shm /\ entry'[j].pid = entry[j].pid
                         /\ entry'[j].hb \in {entry[j].hb, "old"}
                         /\ entry[j].hb = "zero" => entry'[j].hb = "zero"
    BY <2>1 DEF EntryType, Entries
  <2> QED
    BY <2>1, <2>2, StaysSound
<1> QED
  BY <1>1, <1>2, <1>3, <1>4, <1>5, <1>6, <1>7, <1>8, <1>9, Actions
-----------------------------------------------------------------------------
(* The other parts of the invariant *)

\* A store may change an entry's process to the storing node's own, or to none.
LEMMA StorePid ==
  ASSUME EntryType, LockType, NodeType, OpsSound, NEW n \in Nodes, Store(n), NEW i \in Slots
  PROVE  entry'[i].pid \in {entry[i].pid, Process(n), Nobody}
<1>1. CASE i # at[n]
  BY <1>1, StoreEntry
<1>2. CASE i = at[n]
  <2> HIDE DEF Process, Nobody
  <2>1. CASE op[n] = "claim"
    BY <1>2, <2>1, ClaimStores
  <2>2. CASE op[n] = "update"
    BY <1>2, <2>2, UpdateWrites
  <2>3. CASE op[n] = "unregister"
    BY <1>2, <2>3, UnregisterWrites
  <2>4. CASE op[n] = "heartbeat"
    BY <1>2, <2>4, BeatWrites
  <2>5. CASE op[n] = "remove"
    BY <1>2, <2>5, RemoveWrites
  <2> QED
    BY <2>1, <2>2, <2>3, <2>4, <2>5, StoreOps
<1> QED
  BY <1>1, <1>2

\* PidsKnown is kept.
LEMMA PidsKept ==
  ASSUME EntryType, LockType, NodeType, OpsSound, PidsKnown, Next
  PROVE  PidsKnown'
<1> SUFFICES ASSUME NEW i \in Slots, entry'[i].pid[1] \in Nodes
             PROVE  entry'[i].pid[2] <= start'[entry'[i].pid[1]]
  BY DEF PidsKnown
<1>0. \A m \in Nodes : start[m] \in Nat
  BY SMTT(30), RegistryAssumption DEF NodeType, Scenario
<1>a. entry[i].pid \in (Nodes \cup {None}) \X Nat
  BY DEF EntryType, Entries
<1>1. ASSUME NEW n \in Nodes, Store(n) PROVE entry'[i].pid[2] <= start'[entry'[i].pid[1]]
  <2>1. start' = start
    BY <1>1 DEF Store
  <2>2. CASE entry'[i].pid = entry[i].pid
    BY <2>1, <2>2 DEF PidsKnown
  <2>3. CASE entry'[i].pid = Process(n)
    BY SMTT(30), <1>0, <2>1, <2>3 DEF Process
  <2>4. CASE entry'[i].pid = Nobody
    BY SMTT(30), <2>4, RegistryAssumption DEF Nobody
  <2> QED
    BY <1>1, <2>2, <2>3, <2>4, StorePid
<1>2. ASSUME entry'[i].pid = entry[i].pid, start' = start PROVE entry'[i].pid[2] <= start'[entry'[i].pid[1]]
  BY <1>2 DEF PidsKnown
<1>3. ASSUME NEW n \in Nodes, Start(n) PROVE entry'[i].pid[2] <= start'[entry'[i].pid[1]]
  <2>1. entry' = entry /\ start' = [start EXCEPT ![n] = start[n] + 1]
    BY <1>3 DEF Start
  <2>2. PICK a \in Nodes, b \in Nat : entry[i].pid = <<a, b>>
    BY SMTT(30), <1>a, <2>1
  <2>3. b <= start[a] /\ start'[a] >= start[a] /\ start'[a] \in Nat
    BY SMTT(30), <1>0, <2>1, <2>2 DEF PidsKnown, NodeType
  <2> QED
    BY SMTT(30), <1>0, <2>1, <2>2, <2>3
<1>4. ASSUME NEW j \in Slots, TimePasses(j) PROVE entry'[i].pid = entry[i].pid /\ start' = start
  BY <1>4 DEF TimePasses, EntryType, Entries
<1> QED
  BY <1>1, <1>2, <1>3, <1>4, Actions DEF Die, RegisterFull, CleanSlot, CleanNext, Finish, Begin

\* PublishedEntriesComplete is kept: the fields are stored before the flags.
LEMMA CompleteKept ==
  ASSUME EntryType, LockType, NodeType, OpsSound, PublishedEntriesComplete, Next
  PROVE  PublishedEntriesComplete'
<1> DEFINE Full(e) == e.id # None /\ e.shm # Nobody /\ e.pid # Nobody /\ e.hb # "zero"
<1> SUFFICES ASSUME NEW i \in Slots, entry'[i].flags = 3 PROVE Full(entry'[i])
  BY DEF PublishedEntriesComplete, Nobody
<1>0. entry[i].flags = 3 => Full(entry[i])
  BY DEF PublishedEntriesComplete
<1>1. ASSUME NEW n \in Nodes, Store(n) PROVE Full(entry'[i])
  <2>0. Process(n) # Nobody /\ n # None
    BY RegistryAssumption DEF Process, Nobody
  <2> HIDE DEF Process, Nobody
  <2>1. CASE i # at[n]
    BY <1>0, <1>1, <2>1, StoreEntry
  <2>2. CASE i = at[n] /\ op[n] = "claim"
    <3>1. ClaimSound(n)
      BY <2>2 DEF OpsSound
    <3>2. PICK k \in 0 .. 6 : k = step[n]
      BY <1>1, <2>2, ClaimStores
    <3>3. k \in {5, 6}
      BY SMTT(30), <1>1, <2>2, <3>1, <3>2, ClaimStores DEF ClaimSound
    <3>4. k > 1 /\ k > 2 /\ k > 3 /\ k > 4
      BY SMTT(30), <3>3
    <3>5. entry[i].id = n /\ entry[i].shm = Process(n) /\ entry[i].pid = Process(n) /\ entry[i].hb # "zero"
      BY <2>2, <3>1, <3>2, <3>4 DEF ClaimSound
    <3>6. entry'[i].id = entry[i].id /\ entry'[i].shm = entry[i].shm /\ entry'[i].pid = entry[i].pid
            /\ entry'[i].hb = entry[i].hb
      BY SMTT(30), <1>1, <2>2, <3>2, <3>3, ClaimStores
    <3> QED
      BY <2>0, <3>5, <3>6
  <2>3. CASE i = at[n] /\ op[n] = "update"
    <3>1. UpdateSound(n)
      BY <2>3 DEF OpsSound
    <3>2. PICK k \in 0 .. 3 : k = step[n]
      BY <1>1, <2>3, UpdateWrites
    <3>3. entry'[i].id = n
      BY <1>1, <2>3, <3>1, UpdateWrites DEF UpdateSound
    <3>4. /\ entry'[i].shm = IF k = 0 THEN Process(n) ELSE entry[i].shm
          /\ entry'[i].pid = IF k = 1 THEN Process(n) ELSE entry[i].pid
          /\ entry'[i].hb = IF k = 2 THEN "fresh" ELSE entry[i].hb
          /\ entry'[i].flags = IF k = 3 THEN 3 ELSE entry[i].flags
      BY <1>1, <2>3, <3>2, UpdateWrites
    <3>5. CASE k = 3
      <4>1. k > 0 /\ k > 1 /\ k > 2
        BY SMTT(30), <3>5
      <4>2. entry[i].shm = Process(n) /\ entry[i].pid = Process(n) /\ entry[i].hb # "zero"
        BY <2>3, <3>1, <3>2, <4>1 DEF UpdateSound
      <4> QED
        BY <2>0, <3>3, <3>4, <3>5, <4>2
    <3>6. CASE k # 3
      BY <1>0, <2>0, <3>3, <3>4, <3>6
    <3> QED
      BY <3>5, <3>6
  <2>4. CASE i = at[n] /\ op[n] = "unregister"
    <3>1. UnregisterSound(n)
      BY <2>4 DEF OpsSound
    <3>2. PICK k \in 0 .. 4 : k = step[n]
      BY <1>1, <2>4, UnregisterWrites
    <3>3. entry'[i].flags = IF k = 1 THEN 0 ELSE entry[i].flags
      BY <1>1, <2>4, <3>2, UnregisterWrites
    <3>4. k < 2
      BY SMTT(30), <2>4, <3>1, <3>2, <3>3 DEF UnregisterSound
    <3>5. entry'[i].id = entry[i].id /\ entry'[i].shm = entry[i].shm
            /\ entry'[i].pid = entry[i].pid /\ entry'[i].hb = entry[i].hb
      BY <1>1, <2>4, <3>2, <3>4, UnregisterWrites
    <3> QED
      BY SMTT(30), <1>0, <3>3, <3>5
  <2>5. CASE i = at[n] /\ op[n] = "heartbeat"
    BY <1>0, <1>1, <2>5, BeatWrites
  <2>6. CASE i = at[n] /\ op[n] = "remove"
    <3>1. RemoveSound(n)
      BY <2>6 DEF OpsSound
    <3>2. entry'[i].flags = 0
      BY <1>1, <2>6, <3>1, RemoveWrites DEF RemoveSound
    <3> QED
      BY SMTT(30), <3>2
  <2> QED
    BY <1>1, <2>1, <2>2, <2>3, <2>4, <2>5, <2>6, StoreOps
<1>2. ASSUME entry' = entry PROVE Full(entry'[i])
  BY <1>0, <1>2
<1>3. ASSUME NEW j \in Slots, TimePasses(j) PROVE Full(entry'[i])
  <2>1. /\ entry'[i].flags = entry[i].flags /\ entry'[i].id = entry[i].id /\ entry'[i].shm = entry[i].shm
        /\ entry'[i].pid = entry[i].pid /\ entry'[i].hb \in {entry[i].hb, "old"}
    BY <1>3 DEF TimePasses, EntryType, Entries
  <2> QED
    BY <1>0, <2>1
<1> QED
  BY <1>1, <1>2, <1>3, Actions DEF Start, Die, RegisterFull, CleanSlot, CleanNext, Finish, Begin

\* OldMeansLate is kept.
LEMMA OldKept ==
  ASSUME EntryType, LockType, NodeType, OpsSound, PidsKnown, OldMeansLate, Next
  PROVE  OldMeansLate'
<1> DEFINE Excused(i, m) == \/ m \in late
                            \/ op[m] = "claim" /\ at[m] = i /\ step[m] < 5
                            \/ op[m] = "update" /\ at[m] = i /\ step[m] < 3
<1> SUFFICES ASSUME NEW i \in Slots, NEW m \in Nodes, entry'[i].hb = "old",
                    entry'[i].pid = Process(m)', m \in up'
             PROVE  Excused(i, m)'
  BY DEF OldMeansLate
<1>0. ASSUME entry[i].hb = "old", entry[i].pid = Process(m), m \in up PROVE Excused(i, m)
  BY <1>0 DEF OldMeansLate
<1> HIDE DEF Excused
<1>1. ASSUME NEW n \in Nodes, Store(n) PROVE Excused(i, m)'
  <2>1. /\ op' = op /\ at' = at /\ up' = up /\ start' = start /\ late' = late
        /\ step' = [step EXCEPT ![n] = step[n] + 1] /\ step[n] \in Nat
    BY <1>1 DEF Store, history, LockType
  <2>2. \A q \in Nodes \ {n} : op[q] = "none"
    BY <1>1, StoreOps, Others
  <2>3. PICK p : p = Process(m) /\ p = Process(m)'
    BY <2>1 DEF Process
  <2>4. entry'[i].pid = p /\ Process(n) = p => m = n
    BY SMTT(30), <2>3 DEF Process
  <2>5. p # Nobody
    BY SMTT(30), <2>3, RegistryAssumption DEF Process, Nobody
  <2> HIDE DEF Process, Nobody
  <2>6. CASE i # at[n]
    <3>1. Excused(i, m)
      BY <1>0, <1>1, <2>1, <2>3, <2>6, StoreEntry
    <3> QED
      BY <2>1, <2>2, <2>6, <3>1 DEF Excused
  <2>7. CASE i = at[n] /\ op[n] = "claim"
    <3>1. PICK k \in 0 .. 6 : k = step[n]
      BY <1>1, <2>7, ClaimStores
    <3>2. /\ entry'[i].pid = IF k = 3 THEN Process(n) ELSE entry[i].pid
          /\ entry'[i].hb = IF k = 4 THEN "fresh" ELSE entry[i].hb
      BY ZenonT(40), <1>1, <2>7, <3>1, ClaimStores
    <3>3. CASE m = n /\ k < 4
      <4>1. step'[n] < 5
        BY SMTT(30), <2>1, <3>1, <3>3 DEF LockType
      <4> QED
        BY <2>1, <2>7, <3>3, <4>1 DEF Excused
    <3>4. CASE m = n /\ k > 4
      <4>1. Excused(i, m) /\ ~(step[m] < 5)
        BY SMTT(30), <1>0, <2>1, <2>3, <3>1, <3>2, <3>4
      <4> QED
        BY <2>1, <2>7, <3>4, <4>1 DEF Excused
    <3>5. CASE m # n
      <4>1. k # 3
        BY <2>3, <2>4, <3>2, <3>5
      <4>2. Excused(i, m) /\ op[m] = "none"
        BY <1>0, <2>1, <2>2, <2>3, <3>2, <3>5, <4>1
      <4> QED
        BY <2>1, <4>2 DEF Excused
    <3> QED
      BY SMTT(30), <3>1, <3>2, <3>3, <3>4, <3>5
  <2>8. CASE i = at[n] /\ op[n] = "update"
    <3>1. PICK k \in 0 .. 3 : k = step[n]
      BY <1>1, <2>8, UpdateWrites
    <3>2. /\ entry'[i].pid = IF k = 1 THEN Process(n) ELSE entry[i].pid
          /\ entry'[i].hb = IF k = 2 THEN "fresh" ELSE entry[i].hb
      BY <1>1, <2>8, <3>1, UpdateWrites
    <3>3. CASE m = n /\ k < 2
      <4>1. step'[n] < 3
        BY SMTT(30), <2>1, <3>1, <3>3 DEF LockType
      <4> QED
        BY <2>1, <2>8, <3>3, <4>1 DEF Excused
    <3>4. CASE m = n /\ k > 2
      <4>1. Excused(i, m) /\ ~(step[m] < 3)
        BY SMTT(30), <1>0, <2>1, <2>3, <3>1, <3>2, <3>4
      <4> QED
        BY <2>1, <2>8, <3>4, <4>1 DEF Excused
    <3>5. CASE m # n
      <4>1. k # 1
        BY <2>3, <2>4, <3>2, <3>5
      <4>2. Excused(i, m) /\ op[m] = "none"
        BY <1>0, <2>1, <2>2, <2>3, <3>2, <3>5, <4>1
      <4> QED
        BY <2>1, <4>2 DEF Excused
    <3> QED
      BY SMTT(30), <3>1, <3>2, <3>3, <3>4, <3>5
  <2>9. CASE i = at[n] /\ op[n] \in {"unregister", "remove", "heartbeat"}
    <3>1. entry'[i].pid \in {entry[i].pid, Nobody} /\ entry'[i].hb \in {entry[i].hb, "zero", "fresh"}
      BY <1>1, <2>9, UnregisterWrites, RemoveWrites, BeatWrites
    <3>2. Excused(i, m) /\ op[m] \notin {"claim", "update"}
      BY <1>0, <2>1, <2>2, <2>3, <2>5, <2>9, <3>1
    <3> QED
      BY <2>1, <3>2 DEF Excused
  <2> QED
    BY <1>1, <2>6, <2>7, <2>8, <2>9, StoreOps
<1>2. ASSUME NEW n \in Nodes, NEW o \in Ops, NEW j \in Slots, Begin(n, o, j) PROVE Excused(i, m)'
  <2>1. entry' = entry /\ up' = up /\ start' = start /\ late' = late
    BY <1>2 DEF Begin, history
  <2>2. Excused(i, m) /\ op[m] = "none"
    BY <1>0, <1>2, <2>1, BeginQuiet DEF Process
  <2> QED
    BY <2>1, <2>2 DEF Excused
<1>3. ASSUME NEW n \in Nodes, CleanSlot(n) \/ CleanNext(n) PROVE Excused(i, m)'
  <2>1. /\ entry' = entry /\ up' = up /\ start' = start /\ late' = late
        /\ op[n] \in {"scan", "remove"} /\ op[n] # "none"
    BY <1>3 DEF CleanSlot, CleanNext, history
  <2>2. Excused(i, m) /\ op[m] \in {"none", "scan", "remove"}
    BY <1>0, <2>1, Others DEF Process
  <2> QED
    BY <2>1, <2>2 DEF Excused
<1>4. ASSUME NEW n \in Nodes, Finish(n) PROVE Excused(i, m)'
  <2>1. /\ entry' = entry /\ up' \subseteq up /\ start' = start /\ late' = late
        /\ op[n] # "none" /\ ~(step[n] < Len(Stores(op[n]))) /\ step[n] \in Nat
    BY <1>4 DEF Finish, history, Storing, LockType
  <2>2. Excused(i, m)
    BY <1>0, <2>1 DEF Process
  <2>3. ~(op[m] = "claim" /\ step[m] < 5) /\ ~(op[m] = "update" /\ step[m] < 3)
    <3>1. op[n] = "claim" => ~(step[n] < 7)
      BY <2>1, Lengths
    <3>2. op[n] = "update" => ~(step[n] < 4)
      BY <2>1, Lengths
    <3> QED
      BY SMTT(30), <2>1, <3>1, <3>2, Others
  <2> QED
    BY <2>1, <2>2, <2>3 DEF Excused
<1>5. ASSUME NEW n \in Nodes, Die(n) PROVE Excused(i, m)'
  <2>1. /\ entry' = entry /\ up' = up \ {n} /\ start' = start /\ late' = late /\ at' = at
        /\ op' = [op EXCEPT ![n] = "none"] /\ step' = [step EXCEPT ![n] = 0]
    BY <1>5 DEF Die
  <2>2. Excused(i, m) /\ m # n
    BY <1>0, <2>1 DEF Process
  <2>3. op'[m] = op[m] /\ step'[m] = step[m]
    BY <2>1, <2>2 DEF LockType
  <2> QED
    BY <2>1, <2>2, <2>3 DEF Excused
<1>6. ASSUME NEW n \in Nodes, Start(n) PROVE Excused(i, m)'
  <2>1. /\ entry' = entry /\ up' = up \cup {n} /\ start' = [start EXCEPT ![n] = start[n] + 1]
        /\ late' = late \ {n} /\ UNCHANGED <<op, at, step>> /\ start[n] \in Nat
    BY SMTT(30), <1>6, RegistryAssumption DEF Start, NodeType, Scenario
  <2>2. m # n
    <3>1. entry[i].pid[1] \in Nodes => entry[i].pid[2] <= start[entry[i].pid[1]]
      BY DEF PidsKnown
    <3>2. CASE m = n
      <4>1. entry[i].pid = <<n, start[n] + 1>>
        BY <2>1, <3>2 DEF Process, NodeType
      <4> QED
        BY SMTT(30), <2>1, <3>1, <4>1
    <3> QED
      BY <3>2
  <2>3. Excused(i, m)
    BY <1>0, <2>1, <2>2 DEF Process, NodeType
  <2> QED
    BY <2>1, <2>2, <2>3 DEF Excused
<1>7. ASSUME NEW n \in Nodes, RegisterFull(n) PROVE Excused(i, m)'
  <2>1. entry' = entry /\ up' \subseteq up /\ start' = start /\ late' = late /\ UNCHANGED <<op, at, step>>
    BY <1>7 DEF RegisterFull, history
  <2>2. Excused(i, m)
    BY <1>0, <2>1 DEF Process
  <2> QED
    BY <2>1, <2>2 DEF Excused
<1>8. ASSUME NEW j \in Slots, TimePasses(j) PROVE Excused(i, m)'
  <2>1. /\ up' = up /\ start' = start /\ UNCHANGED <<op, at, step>> /\ entry'[i].pid = entry[i].pid
        /\ i # j => entry'[i].hb = entry[i].hb
        /\ late' = IF Alive(entry[j].pid) THEN late \cup {entry[j].pid[1]} ELSE late
    BY <1>8 DEF TimePasses, EntryType, Entries
  <2>2. CASE i # j
    <3>1. Excused(i, m)
      BY <1>0, <2>1, <2>2 DEF Process
    <3> QED
      BY <2>1, <3>1 DEF Excused
  <2>3. CASE i = j
    <3>1. entry[j].pid = <<m, start[m]>> /\ m \in up
      BY <2>1, <2>3 DEF Process
    <3>2. Alive(entry[j].pid) /\ entry[j].pid[1] = m
      BY SMTT(30), <3>1 DEF Alive
    <3> QED
      BY <2>1, <3>2 DEF Excused
  <2> QED
    BY <2>2, <2>3
<1> QED
  BY <1>1, <1>2, <1>3, <1>4, <1>5, <1>6, <1>7, <1>8, Actions

\* Only the node that is claiming an entry may have it half claimed.
LEMMA ClaimedBy ==
  ASSUME LockType, NEW n \in Nodes, op[n] # "none", NEW i \in Slots, BeingClaimed(i)
  PROVE  op[n] = "claim" /\ at[n] = i /\ step[n] = 1
BY Others DEF BeingClaimed

\* ValidIdsUnique is kept.
LEMMA UniqueKept ==
  ASSUME EntryType, LockType, PlaceType, NodeType, OpsSound, ValidIdsUnique, Next
  PROVE  ValidIdsUnique'
<1> DEFINE Plain(i) == Valid(i) /\ ~BeingClaimed(i)
<1> SUFFICES ASSUME NEW i \in Slots, NEW j \in Slots, Plain(i)', Plain(j)', i # j,
                    entry'[i].id = entry'[j].id, entry'[i].id \notin ghosts' \cup {None}
             PROVE  FALSE
  BY DEF ValidIdsUnique
<1>0. ~(Plain(i) /\ Plain(j) /\ entry[i].id = entry[j].id /\ entry[i].id \notin ghosts \cup {None})
  BY DEF ValidIdsUnique
<1> HIDE DEF Plain
<1>a. ASSUME \A k \in Slots : entry'[k].flags = entry[k].flags /\ entry'[k].id = entry[k].id,
             \A k \in Slots : BeingClaimed(k) => BeingClaimed(k)', ghosts \subseteq ghosts'
      PROVE  FALSE
  <2>1. Plain(i) /\ Plain(j)
    BY <1>a DEF Plain, Valid
  <2> QED
    BY <1>0, <1>a, <2>1
<1>1. ASSUME NEW n \in Nodes, Store(n) PROVE FALSE
  <2>1. /\ op' = op /\ at' = at /\ ghosts' = ghosts /\ step' = [step EXCEPT ![n] = step[n] + 1]
        /\ step[n] \in Nat /\ at[n] \in Slots /\ op[n] # "none"
    BY <1>1, StoreOps, StoreEntry DEF Store, history, LockType
  <2>2. \A k \in Slots \ {at[n]} : (Plain(k)' => Plain(k)) /\ entry'[k].id = entry[k].id
    BY <1>1, <2>1, StoreEntry, ClaimedBy DEF Plain, Valid
  <2>3. i # at[n] /\ j # at[n] => FALSE
    BY <1>0, <2>1, <2>2
  <2>4. ASSUME Plain(at[n]), entry'[at[n]].id = entry[at[n]].id PROVE FALSE
    BY <1>0, <2>1, <2>2, <2>4
  <2>a. PICK s \in Slots : s = at[n] /\ s = at'[n]
    BY <2>1
  <2>5. CASE op[n] = "claim"
    <3>1. ClaimSound(n)
      BY <2>5 DEF OpsSound
    <3>2. PICK k \in 0 .. 6 : k = step[n]
      BY <1>1, <2>5, ClaimStores
    <3>3. entry'[at[n]].id = IF k = 1 THEN n ELSE entry[at[n]].id
      BY <1>1, <2>5, <3>2, ClaimStores
    <3>4. CASE k = 0
      <4>1. BeingClaimed(s)'
        BY SMTT(30), <2>1, <2>5, <2>a, <3>2, <3>4 DEF BeingClaimed, LockType
      <4> QED
        BY <2>3, <2>a, <4>1 DEF Plain
    <3>5. CASE k > 0
      <4>1. entry'[at[n]].id = n
        BY SMTT(30), <3>1, <3>2, <3>3, <3>5 DEF ClaimSound
      <4>2. \A q \in Slots \ {at[n]} : ~(Valid(q)' /\ entry'[q].id = n)
        BY <1>1, <3>1, StoreEntry DEF ClaimSound, Valid
      <4> QED
        BY <2>3, <4>1, <4>2 DEF Plain
    <3> QED
      BY SMTT(30), <3>4, <3>5
  <2>6. CASE op[n] = "update"
    <3>1. Plain(at[n])
      BY <2>1, <2>6, ClaimedBy DEF Plain, OpsSound, UpdateSound
    <3>2. entry'[at[n]].id = entry[at[n]].id
      BY <1>1, <2>6, UpdateWrites
    <3> QED
      BY <2>4, <3>1, <3>2
  <2>7. CASE op[n] = "unregister"
    <3>1. UnregisterSound(n)
      BY <2>7 DEF OpsSound
    <3>2. PICK k \in 0 .. 4 : k = step[n]
      BY <1>1, <2>7, UnregisterWrites
    <3>3. CASE k < 2
      <4>1. Plain(at[n])
        BY <2>1, <2>7, <3>1, <3>2, <3>3, ClaimedBy DEF Plain, UnregisterSound
      <4>2. entry'[at[n]].id = entry[at[n]].id
        BY <1>1, <2>7, <3>2, <3>3, UnregisterWrites
      <4> QED
        BY <2>4, <4>1, <4>2
    <3>4. CASE ~(k < 2)
      <4>1. entry[at[n]].flags = 0 /\ k # 1
        BY SMTT(30), <3>1, <3>2, <3>4 DEF UnregisterSound
      <4>2. entry'[at[n]].flags = 0
        BY <1>1, <2>7, <3>2, <4>1, UnregisterWrites
      <4> QED
        BY SMTT(30), <2>3, <4>2 DEF Plain, Valid
    <3> QED
      BY <3>3, <3>4
  <2>8. CASE op[n] = "heartbeat"
    <3>1. entry'[at[n]].flags = entry[at[n]].flags /\ entry'[at[n]].id = entry[at[n]].id
      BY <1>1, <2>8, BeatWrites
    <3>2. Plain(s)' => Plain(at[n])
      BY <2>1, <2>8, <2>a, <3>1, ClaimedBy DEF Plain, Valid
    <3> QED
      BY <2>3, <2>4, <2>a, <3>1, <3>2
  <2>9. CASE op[n] = "remove"
    <3>1. entry'[at[n]].flags = 0
      BY <1>1, <2>9, RemoveWrites DEF OpsSound, RemoveSound
    <3> QED
      BY SMTT(30), <2>3, <3>1 DEF Plain, Valid
  <2> QED
    BY <1>1, <2>5, <2>6, <2>7, <2>8, <2>9, StoreOps
<1>2. ASSUME NEW n \in Nodes, NEW o \in Ops, NEW k \in Slots, Begin(n, o, k) PROVE FALSE
  <2>1. entry' = entry /\ ghosts' = ghosts
    BY <1>2 DEF Begin, history
  <2>2. \A q \in Slots : ~BeingClaimed(q)
    BY <1>2, BeginQuiet DEF BeingClaimed
  <2> QED
    BY <1>a, <2>1, <2>2
<1>3. ASSUME NEW n \in Nodes, CleanSlot(n) \/ CleanNext(n) \/ Finish(n) PROVE FALSE
  <2>1. entry' = entry /\ ghosts' = ghosts /\ op[n] # "none"
    BY <1>3 DEF CleanSlot, CleanNext, Finish, history
  <2>2. ~(op[n] = "claim" /\ step[n] = 1)
    <3>1. Finish(n) /\ op[n] = "claim" => ~(step[n] < 7)
      BY Lengths DEF Finish, Storing
    <3> QED
      BY SMTT(30), <1>3, <3>1 DEF CleanSlot, CleanNext
  <2>3. \A q \in Slots : ~BeingClaimed(q)
    BY <2>1, <2>2, ClaimedBy
  <2> QED
    BY <1>a, <2>1, <2>3
<1>4. ASSUME NEW n \in Nodes, Die(n) PROVE FALSE
  <2>1. /\ entry' = entry /\ at' = at /\ ghosts' = ghosts \cup Exposed(n)
        /\ op' = [op EXCEPT ![n] = "none"] /\ step' = [step EXCEPT ![n] = 0]
    BY <1>4 DEF Die
  <2>2. CASE op[n] = "claim" /\ step[n] = 1
    <3>1. ClaimSound(n) /\ at[n] \in Slots
      BY <2>2 DEF OpsSound
    <3>2. Exposed(n) = {entry[at[n]].id} \ {None, n}
      BY <2>2 DEF Exposed
    <3>3. \A q \in Slots \ {at[n]} : ~(Valid(q) /\ entry[q].id = n)
      BY <3>1 DEF ClaimSound
    <3>4. \A q \in Slots \ {at[n]} : ~BeingClaimed(q)
      BY <2>2, ClaimedBy
    <3>5. \A q \in Slots : Valid(q)' <=> Valid(q)
      BY <2>1 DEF Valid
    <3>6. CASE i = at[n] \/ j = at[n]
      BY <2>1, <3>2, <3>3, <3>5, <3>6 DEF Plain
    <3>7. CASE i # at[n] /\ j # at[n]
      BY <1>0, <2>1, <3>4, <3>5, <3>7 DEF Plain
    <3> QED
      BY <3>6, <3>7
  <2>3. CASE ~(op[n] = "claim" /\ step[n] = 1)
    <3>1. \A q \in Slots : BeingClaimed(q) => BeingClaimed(q)'
      BY <2>1, <2>3 DEF BeingClaimed, LockType
    <3> QED
      BY <1>a, <2>1, <3>1
  <2> QED
    BY <2>2, <2>3
<1>5. ASSUME NEW n \in Nodes, Start(n) \/ RegisterFull(n) PROVE FALSE
  <2>1. entry' = entry /\ ghosts' = ghosts /\ UNCHANGED <<op, at, step>>
    BY <1>5 DEF Start, RegisterFull, history
  <2>2. \A q \in Slots : BeingClaimed(q) => BeingClaimed(q)'
    BY <2>1 DEF BeingClaimed
  <2> QED
    BY <1>a, <2>1, <2>2
<1>6. ASSUME NEW k \in Slots, TimePasses(k) PROVE FALSE
  <2>1. ghosts' = ghosts /\ UNCHANGED <<op, at, step>>
    BY <1>6 DEF TimePasses
  <2>2. \A q \in Slots : BeingClaimed(q) => BeingClaimed(q)'
    BY <2>1 DEF BeingClaimed
  <2>3. \A q \in Slots : entry'[q].flags = entry[q].flags /\ entry'[q].id = entry[q].id
    BY ZenonT(40), <1>6 DEF TimePasses, EntryType, Entries
  <2> QED
    BY <1>a, <2>1, <2>2, <2>3
<1> QED
  BY <1>1, <1>2, <1>3, <1>4, <1>5, <1>6, Actions

\* A store of another operation than its own unregistration leaves the entry of a
\* registered node that was never late in place.
LEMMA StoreKeepsListed ==
  ASSUME EntryType, LockType, NodeType, OpsSound, OldMeansLate, NEW n \in Nodes, Store(n),
         NEW m \in registered \ late, op[m] \notin {"unregister", "unlisted"}, NEW i \in Slots, Listed(m, i)
  PROVE  Listed(m, i)'
<1>0. start' = start /\ m \in Nodes /\ m \in up
  BY DEF Store, NodeType
<1>1. PICK p : p = Process(m) /\ p = Process(m)'
  BY <1>0 DEF Process
<1>2. entry[i].flags = 3 /\ entry[i].id = m /\ entry[i].shm = p /\ entry[i].pid = p
  BY <1>1 DEF Listed
<1>3. SUFFICES entry'[i].flags = 3 /\ entry'[i].id = m /\ entry'[i].shm = p /\ entry'[i].pid = p
  BY <1>1 DEF Listed
<1>a. op[n] \in {"claim", "update"} => n # m
  BY DEF OpsSound
<1>4. CASE i # at[n]
  BY <1>2, <1>4, StoreEntry
<1>5. CASE i = at[n] /\ op[n] = "claim"
  <2>1. ClaimSound(n)
    BY <1>5 DEF OpsSound
  <2>2. PICK k \in 0 .. 6 : k = step[n]
    BY <1>5, ClaimStores
  <2>3. k = 6
    BY SMTT(30), <1>2, <1>5, <2>1, <2>2 DEF ClaimSound
  <2>4. entry[i].id = n
    BY SMTT(30), <1>5, <2>1, <2>2, <2>3 DEF ClaimSound
  <2> QED
    BY <1>2, <1>5, <1>a, <2>4
<1>6. CASE i = at[n] /\ op[n] = "update"
  BY <1>2, <1>6, <1>a DEF OpsSound, UpdateSound
<1>7. CASE i = at[n] /\ op[n] = "unregister"
  <2>1. UnregisterSound(n) /\ n # m
    BY <1>7 DEF OpsSound
  <2> QED
    BY SMTT(30), <1>2, <1>7, <2>1 DEF UnregisterSound
<1>8. CASE i = at[n] /\ op[n] = "heartbeat"
  BY <1>2, <1>8, BeatWrites
<1>9. CASE i = at[n] /\ op[n] = "remove"
  <2>1. Stale(i)
    BY SMTT(30), <1>2, <1>9 DEF OpsSound, RemoveSound
  <2>2. Alive(entry[i].pid)
    BY SMTT(30), <1>0, <1>1, <1>2 DEF Alive, Process
  <2>3. op[m] \in {"none", "remove"}
    BY <1>0, <1>9, Others
  <2>4. entry[i].hb = "old" => m \in late
    BY <1>0, <1>1, <1>2, <2>3 DEF OldMeansLate
  <2> QED
    BY <2>1, <2>2, <2>4 DEF Stale
<1> QED
  BY <1>4, <1>5, <1>6, <1>7, <1>8, <1>9, StoreOps

\* RegisteredListed is kept.
LEMMA ListedKept ==
  ASSUME EntryType, LockType, PlaceType, NodeType, OpsSound, OldMeansLate, RegisteredListed, Next
  PROVE  RegisteredListed'
<1> SUFFICES ASSUME NEW m \in registered', m \notin late', m \notin ghosts', op'[m] \notin {"unregister", "unlisted"}
             PROVE  \E i \in Slots : Listed(m, i)'
  BY DEF RegisteredListed
<1>0. ASSUME m \in registered, m \notin late \cup ghosts, op[m] \notin {"unregister", "unlisted"}
      PROVE  \E i \in Slots : Listed(m, i)
  BY <1>0 DEF RegisteredListed
<1>a. ASSUME m \in registered, m \notin late \cup ghosts, op[m] \notin {"unregister", "unlisted"},
             start'[m] = start[m],
             \A k \in Slots : /\ entry'[k].flags = entry[k].flags /\ entry'[k].id = entry[k].id
                              /\ entry'[k].shm = entry[k].shm /\ entry'[k].pid = entry[k].pid
      PROVE  \E i \in Slots : Listed(m, i)'
  <2>1. PICK i \in Slots : Listed(m, i)
    BY <1>0, <1>a
  <2>2. Process(m)' = Process(m)
    BY <1>a DEF Process
  <2>3. Listed(m, i)'
    BY <1>a, <2>1, <2>2 DEF Listed
  <2> QED
    BY <2>3
<1>1. ASSUME NEW n \in Nodes, Store(n) PROVE \E i \in Slots : Listed(m, i)'
  <2>1. registered' = registered /\ late' = late /\ ghosts' = ghosts /\ op' = op
    BY <1>1 DEF Store, history
  <2>2. PICK i \in Slots : Listed(m, i)
    BY <1>0, <2>1
  <2> QED
    BY <1>1, <2>1, <2>2, StoreKeepsListed
<1>2. ASSUME NEW n \in Nodes, NEW o \in Ops, NEW j \in Slots, Begin(n, o, j) PROVE \E i \in Slots : Listed(m, i)'
  <2>1. registered' = registered /\ late' = late /\ ghosts' = ghosts /\ entry' = entry /\ start' = start
    BY <1>2 DEF Begin, history
  <2>2. op[m] = "none"
    BY <1>2, <2>1, BeginQuiet DEF NodeType
  <2> QED
    BY <1>a, <2>1, <2>2
<1>3. ASSUME NEW n \in Nodes, CleanSlot(n) \/ CleanNext(n) PROVE \E i \in Slots : Listed(m, i)'
  <2>1. /\ registered' = registered /\ late' = late /\ ghosts' = ghosts /\ entry' = entry /\ start' = start
        /\ op[n] \in {"scan", "remove"} /\ op[n] # "none"
    BY <1>3 DEF CleanSlot, CleanNext, history
  <2>2. op[m] \in {"none", "scan", "remove"}
    BY <2>1, Others DEF NodeType
  <2> QED
    BY <1>a, <2>1, <2>2
<1>4. ASSUME NEW n \in Nodes, Finish(n) PROVE \E i \in Slots : Listed(m, i)'
  <2>1. /\ late' = late /\ ghosts' = ghosts /\ entry' = entry /\ start' = start /\ n \in up
        /\ op[n] # "none" /\ ~(step[n] < Len(Stores(op[n]))) /\ step[n] \in Nat
        /\ registered' = IF op[n] \in {"claim", "update"} THEN registered \cup {n}
                         ELSE IF op[n] \in {"unregister", "unlisted"} THEN registered \ {n} ELSE registered
    BY <1>4 DEF Finish, history, Storing, LockType
  <2>2. CASE op[n] \in {"claim", "update"} /\ m = n
    <3>1. /\ op[n] = "claim" => ~(step[n] < 7)
          /\ op[n] = "update" => ~(step[n] < 4)
      BY <2>1, Lengths
    <3>2. at[n] \in Slots
      BY <2>2 DEF OpsSound
    <3>3. op[n] = "claim" => Listed(n, at[n])
      <4> HAVE op[n] = "claim"
      <4>1. ClaimSound(n)
        BY DEF OpsSound
      <4>2. step[n] # 0 /\ ~(step[n] < 6) /\ step[n] > 1 /\ step[n] > 2 /\ step[n] > 3
        BY SMTT(30), <2>1, <3>1
      <4> QED
        BY <4>1, <4>2 DEF ClaimSound, Listed
    <3>4. op[n] = "update" => Listed(n, at[n])
      <4> HAVE op[n] = "update"
      <4>1. UpdateSound(n)
        BY DEF OpsSound
      <4>2. step[n] > 0 /\ step[n] > 1 /\ step[n] > 3
        BY SMTT(30), <2>1, <3>1
      <4> QED
        BY <4>1, <4>2 DEF UpdateSound, Listed
    <3>5. Listed(m, at[n])'
      <4>1. Listed(n, at[n])
        BY <2>2, <3>3, <3>4
      <4>2. at' = at /\ Process(n)' = Process(n)
        BY <1>4, <2>1 DEF Finish, Process
      <4> QED
        BY <2>1, <2>2, <4>1, <4>2 DEF Listed
    <3>6. PICK i \in Slots : i = at[n] /\ i = at'[n]
      BY <1>4, <3>2 DEF Finish
    <3> QED
      BY <3>5, <3>6
  <2>3. CASE ~(op[n] \in {"claim", "update"} /\ m = n)
    <3>1. m \in registered /\ op[m] \notin {"unregister", "unlisted"}
      BY <2>1, <2>3, Others DEF NodeType
    <3> QED
      BY <1>a, <2>1, <3>1
  <2> QED
    BY <2>2, <2>3
<1>5. ASSUME NEW n \in Nodes, Die(n) PROVE \E i \in Slots : Listed(m, i)'
  <2>1. /\ registered' = registered \ {n} /\ late' = late /\ ghosts \subseteq ghosts' /\ entry' = entry
        /\ start' = start /\ op' = [op EXCEPT ![n] = "none"]
    BY <1>5 DEF Die
  <2>2. op'[m] = op[m] /\ m \in registered
    BY <2>1 DEF LockType, NodeType
  <2> QED
    BY <1>a, <2>1, <2>2
<1>6. ASSUME NEW n \in Nodes, Start(n) PROVE \E i \in Slots : Listed(m, i)'
  <2>1. /\ registered' = registered /\ late' = late \ {n} /\ ghosts' = ghosts /\ entry' = entry
        /\ start' = [start EXCEPT ![n] = start[n] + 1] /\ op' = op /\ n \notin up
    BY <1>6 DEF Start
  <2>2. m # n /\ start'[m] = start[m]
    BY <2>1 DEF NodeType
  <2> QED
    BY <1>a, <2>1, <2>2
<1>7. ASSUME NEW n \in Nodes, RegisterFull(n) PROVE \E i \in Slots : Listed(m, i)'
  BY <1>7, <1>a DEF RegisterFull, history
<1>8. ASSUME NEW j \in Slots, TimePasses(j) PROVE \E i \in Slots : Listed(m, i)'
  <2>1. registered' = registered /\ late \subseteq late' /\ ghosts' = ghosts /\ start' = start /\ op' = op
    BY <1>8 DEF TimePasses
  <2>2. \A k \in Slots : /\ entry'[k].flags = entry[k].flags /\ entry'[k].id = entry[k].id
                         /\ entry'[k].shm = entry[k].shm /\ entry'[k].pid = entry[k].pid
    BY SMTT(30), <1>8 DEF TimePasses, EntryType, Entries
  <2> QED
    BY <1>a, <2>1, <2>2
<1> QED
  BY <1>1, <1>2, <1>3, <1>4, <1>5, <1>6, <1>7, <1>8, Actions

-----------------------------------------------------------------------------
(* The count *)

\* A set of entries is finite, and no larger than the table.
LEMMA SlotSets ==
  ASSUME NEW A \in SUBSET Slots
  PROVE  IsFiniteSet(A) /\ Cardinality(A) \in Nat /\ Cardinality(A) <= NumEntries
<1>1. IsFiniteSet(Slots) /\ Cardinality(Slots) = NumEntries
  <2>1. NumEntries \in Nat /\ NumEntries # 0
    BY RegistryAssumption
  <2> QED
    BY SMTT(30), <2>1, FS_Interval DEF Slots
<1> QED
  BY <1>1, FS_Subset, FS_CardinalityType

\* One entry more, or one less.
LEMMA OneMore ==
  ASSUME NEW A \in SUBSET Slots, NEW s \in Slots, s \notin A
  PROVE  Cardinality(A \cup {s}) = Cardinality(A) + 1
BY SlotSets, FS_AddElement

\* One less.
LEMMA OneLess ==
  ASSUME NEW A \in SUBSET Slots, NEW s \in A
  PROVE  Cardinality(A \ {s}) = Cardinality(A) - 1 /\ Cardinality(A) > 0
<1>1. Cardinality(A \ {s}) = Cardinality(A) - 1
  BY SlotSets, FS_RemoveElement
<1>2. A \ {s} \in SUBSET Slots
  OBVIOUS
<1>3. Cardinality(A \ {s}) \in Nat /\ Cardinality(A) \in Nat
  BY <1>2, SlotSets
<1> QED
  BY SMTT(30), <1>1, <1>3

\* Without an interrupted operation, the entry of an update, an unregistration or a
\* removal that has not begun its stores is published.
LEMMA NotMarked ==
  ASSUME EntryType, LockType, CountSound, ~interrupted, NEW n \in Nodes, op[n] \notin {"none", "claim"}
  PROVE  \A i \in Slots : entry[i].flags # 1
BY SMTT(30), Others DEF CountSound

\* Nobody has the count ahead or behind.
Even == Ahead = {} /\ Behind = {}

\* Then it is the number of active entries.
LEMMA EvenCount ==
  ASSUME Even, CountSound, ~interrupted
  PROVE  numEntries = Cardinality(Active)
<1>1. Active \in SUBSET Slots
  BY DEF Active
<1>2. Cardinality(Active) \in Nat
  BY <1>1, SlotSets
<1>3. PICK c \in Nat : c = Cardinality(Active)
  BY <1>2
<1>4. numEntries = c + 0 - 0
  BY <1>3 DEF CountSound, Even
<1> QED
  BY SMTT(30), <1>3, <1>4

\* The stores of registerNode in a free entry keep CountSound.
LEMMA ClaimCount ==
  ASSUME EntryType, CountType, LockType, NodeType, OpsSound, CountSound, ~interrupted,
         NEW n \in Nodes, Store(n), op[n] = "claim"
  PROVE  numEntries' = Cardinality(Active') + (IF Ahead' # {} THEN 1 ELSE 0) - (IF Behind' # {} THEN 1 ELSE 0)
<1>1. PICK k \in 0 .. 6 : k = step[n]
  BY ClaimStores
<1>2. /\ op' = op /\ step'[n] = k + 1 /\ \A m \in Nodes \ {n} : op[m] = "none"
  BY <1>1, Others DEF Store, LockType
<1>3. PICK s \in Slots : s = at[n]
  BY StoreEntry
<1>4. \A j \in Slots \ {s} : entry'[j] = entry[j]
  BY <1>3, StoreEntry
<1>5. entry[s].flags = IF k = 0 THEN 0 ELSE IF k < 6 THEN 1 ELSE 3
  BY <1>1, <1>3 DEF OpsSound, ClaimSound
<1>6. /\ entry'[s].flags = IF k = 0 THEN 1 ELSE IF k = 5 THEN 3 ELSE entry[s].flags
      /\ numEntries' = IF k = 6 THEN (numEntries + 1) % CountMod ELSE numEntries
  BY <1>1, <1>3, ClaimStores
<1>7. Ahead = {} /\ Ahead' = {} /\ (Behind # {} <=> k = 6) /\ (Behind' # {} <=> k = 5)
  BY SMTT(30), <1>1, <1>2 DEF Ahead, Behind
<1>8. PICK A \in SUBSET Slots : A = Active
  BY DEF Active
<1>9. PICK c \in Nat : c = Cardinality(A) /\ c <= NumEntries
  BY SlotSets
<1>10. numEntries = c + 0 - (IF k = 6 THEN 1 ELSE 0)
  BY <1>7, <1>8, <1>9 DEF CountSound
<1>11. CASE k = 5
  <2>1. Active' = A \cup {s} /\ s \notin A
    BY SMTT(30), <1>4, <1>5, <1>6, <1>8, <1>11 DEF Active
  <2>2. Cardinality(Active') = c + 1
    BY <1>9, <2>1, OneMore
  <2> QED
    BY SMTT(30), <1>6, <1>7, <1>9, <1>10, <1>11, <2>2
<1>12. CASE k # 5
  <2>1. Active' = A
    BY SMTT(30), <1>4, <1>5, <1>6, <1>8, <1>12 DEF Active
  <2>2. numEntries' = c
    <3>1. CASE k = 6
      <4>1. numEntries + 1 = c /\ c \in 0 .. CountMod - 1
        BY SMTT(30), <1>9, <1>10, <3>1, RegistryAssumption DEF CountType
      <4>2. \A x \in 0 .. CountMod - 1 : x % CountMod = x
        BY SMTT(30), RegistryAssumption
      <4> QED
        BY <1>6, <3>1, <4>1, <4>2
    <3>2. CASE k # 6
      BY SMTT(30), <1>6, <1>9, <1>10, <3>2
    <3> QED
      BY <3>1, <3>2
  <2> QED
    BY SMTT(30), <1>7, <1>9, <1>12, <2>1, <2>2
<1> QED
  BY <1>11, <1>12

\* The stores of unregisterNode keep it.
LEMMA UnregisterCount ==
  ASSUME EntryType, CountType, LockType, NodeType, OpsSound, CountSound, ~interrupted,
         NEW n \in Nodes, Store(n), op[n] = "unregister"
  PROVE  numEntries' = Cardinality(Active') + (IF Ahead' # {} THEN 1 ELSE 0) - (IF Behind' # {} THEN 1 ELSE 0)
<1>1. PICK k \in 0 .. 4 : k = step[n]
  BY UnregisterWrites
<1>2. /\ op' = op /\ step'[n] = k + 1 /\ \A m \in Nodes \ {n} : op[m] = "none"
  BY <1>1, Others DEF Store, LockType
<1>3. PICK s \in Slots : s = at[n]
  BY StoreEntry
<1>4. \A j \in Slots \ {s} : entry'[j] = entry[j]
  BY <1>3, StoreEntry
<1>5. entry[s].flags = IF k < 2 THEN 3 ELSE 0
  <2>1. entry[s].flags # 1
    BY NotMarked
  <2> QED
    BY <1>1, <1>3, <2>1 DEF OpsSound, UnregisterSound, Valid
<1>6. /\ entry'[s].flags = IF k = 1 THEN 0 ELSE entry[s].flags
      /\ numEntries' = IF k = 0 THEN (numEntries - 1) % CountMod ELSE numEntries
  BY <1>1, <1>3, UnregisterWrites
<1>7. Ahead = {} /\ Ahead' = {} /\ (Behind # {} <=> k = 1) /\ (Behind' # {} <=> k = 0)
  BY SMTT(30), <1>1, <1>2 DEF Ahead, Behind
<1>8. PICK A \in SUBSET Slots : A = Active
  BY DEF Active
<1>9. PICK c \in Nat : c = Cardinality(A) /\ c <= NumEntries
  BY SlotSets
<1>10. numEntries = c + 0 - (IF k = 1 THEN 1 ELSE 0)
  BY <1>7, <1>8, <1>9 DEF CountSound
<1>11. CASE k = 1
  <2>1. Active' = A \ {s} /\ s \in A
    BY SMTT(30), <1>4, <1>5, <1>6, <1>8, <1>11 DEF Active
  <2>2. Cardinality(Active') = c - 1
    BY <1>9, <2>1, OneLess
  <2> QED
    BY SMTT(30), <1>6, <1>7, <1>9, <1>10, <1>11, <2>2
<1>12. CASE k = 0
  <2>1. Active' = A /\ s \in A
    BY SMTT(30), <1>4, <1>5, <1>6, <1>8, <1>12 DEF Active
  <2>2. c > 0
    BY <1>9, <2>1, OneLess
  <2>3. numEntries - 1 = c - 1 /\ c - 1 \in 0 .. CountMod - 1
    BY SMTT(30), <1>9, <1>10, <1>12, <2>2, RegistryAssumption
  <2>4. \A x \in 0 .. CountMod - 1 : x % CountMod = x
    BY SMTT(30), RegistryAssumption
  <2>5. numEntries' = c - 1
    BY <1>6, <1>12, <2>3, <2>4
  <2> QED
    BY SMTT(30), <1>7, <1>9, <1>12, <2>1, <2>5
<1>13. CASE k > 1
  <2>1. Active' = A
    BY SMTT(30), <1>4, <1>5, <1>6, <1>8, <1>13 DEF Active
  <2> QED
    BY SMTT(30), <1>6, <1>7, <1>9, <1>10, <1>13, <2>1
<1> QED
  BY SMTT(30), <1>11, <1>12, <1>13

\* The stores of cleanupStaleNodes keep it.
LEMMA RemoveCount ==
  ASSUME EntryType, CountType, LockType, NodeType, OpsSound, CountSound, ~interrupted,
         NEW n \in Nodes, Store(n), op[n] = "remove"
  PROVE  numEntries' = Cardinality(Active') + (IF Ahead' # {} THEN 1 ELSE 0) - (IF Behind' # {} THEN 1 ELSE 0)
<1>1. PICK k \in 0 .. 4 : k = step[n]
  BY RemoveWrites
<1>2. /\ op' = op /\ step'[n] = k + 1 /\ \A m \in Nodes \ {n} : op[m] = "none"
  BY <1>1, Others DEF Store, LockType
<1>3. PICK s \in Slots : s = at[n]
  BY StoreEntry
<1>4. \A j \in Slots \ {s} : entry'[j] = entry[j]
  BY <1>3, StoreEntry
<1>5. entry[s].flags = IF k = 0 THEN 3 ELSE 0
  <2>1. entry[s].flags # 1
    BY NotMarked
  <2> QED
    BY <1>1, <1>3, <2>1 DEF OpsSound, RemoveSound, Stale, Valid
<1>6. /\ entry'[s].flags = IF k = 0 THEN 0 ELSE entry[s].flags
      /\ numEntries' = IF k = 4 THEN (numEntries - 1) % CountMod ELSE numEntries
  BY <1>1, <1>3, RemoveWrites
<1>7. Behind = {} /\ Behind' = {} /\ (Ahead # {} <=> k > 0) /\ (Ahead' # {} <=> k < 4)
  <2>1. Behind = {} /\ Behind' = {}
    BY <1>2 DEF Behind
  <2>2. Ahead # {} <=> n \in Ahead
    BY <1>2 DEF Ahead
  <2>3. Ahead' # {} <=> n \in Ahead'
    BY <1>2 DEF Ahead
  <2>4. (n \in Ahead <=> k > 0) /\ (n \in Ahead' <=> k < 4)
    BY SMTT(30), <1>1, <1>2 DEF Ahead
  <2> QED
    BY <2>1, <2>2, <2>3, <2>4
<1>8. PICK A \in SUBSET Slots : A = Active
  BY DEF Active
<1>9. PICK c \in Nat : c = Cardinality(A) /\ c <= NumEntries
  BY SlotSets
<1>10. numEntries = c + (IF k > 0 THEN 1 ELSE 0) - 0
  BY <1>7, <1>8, <1>9 DEF CountSound
<1>11. CASE k = 0
  <2>1. Active' = A \ {s} /\ s \in A
    BY SMTT(30), <1>4, <1>5, <1>6, <1>8, <1>11 DEF Active
  <2>2. Cardinality(Active') = c - 1
    BY <1>9, <2>1, OneLess
  <2> QED
    BY SMTT(30), <1>6, <1>7, <1>9, <1>10, <1>11, <2>2
<1>12. CASE k = 4
  <2>1. Active' = A
    BY SMTT(30), <1>4, <1>5, <1>6, <1>8, <1>12 DEF Active
  <2>2. numEntries - 1 = c /\ c \in 0 .. CountMod - 1
    BY SMTT(30), <1>9, <1>10, <1>12, RegistryAssumption
  <2>3. \A x \in 0 .. CountMod - 1 : x % CountMod = x
    BY SMTT(30), RegistryAssumption
  <2>4. numEntries' = c
    BY <1>6, <1>12, <2>2, <2>3
  <2> QED
    BY SMTT(30), <1>7, <1>9, <1>12, <2>1, <2>4
<1>13. CASE k > 0 /\ k < 4
  <2>1. Active' = A
    BY SMTT(30), <1>4, <1>5, <1>6, <1>8, <1>13 DEF Active
  <2>2. numEntries' = numEntries
    BY SMTT(30), <1>6, <1>13
  <2>3. numEntries = c + 1
    BY SMTT(30), <1>9, <1>10, <1>13
  <2>4. Ahead' # {} /\ Behind' = {}
    BY <1>7, <1>13
  <2> QED
    BY SMTT(30), <1>9, <2>1, <2>2, <2>3, <2>4
<1> QED
  BY SMTT(30), <1>11, <1>12, <1>13

\* CountSound is kept.
LEMMA CountKept ==
  ASSUME EntryType, CountType, LockType, NodeType, OpsSound, CountSound, Next
  PROVE  CountSound'
<1> DEFINE Marked(i) == \E n \in Nodes : op[n] = "claim" /\ at[n] = i
           Sum == Cardinality(Active) + (IF Ahead # {} THEN 1 ELSE 0) - (IF Behind # {} THEN 1 ELSE 0)
<1> SUFFICES ASSUME ~interrupted'
             PROVE  (\A i \in Slots : entry'[i].flags = 1 => Marked(i)') /\ numEntries' = Sum'
  BY DEF CountSound
<1>0. ~interrupted
  BY Actions DEF Start, Die, RegisterFull, Store, CleanSlot, CleanNext, Finish, Begin, TimePasses, history
<1>a. (\A i \in Slots : entry[i].flags = 1 => Marked(i)) /\ numEntries = Sum
  BY <1>0 DEF CountSound
<1> HIDE DEF Marked, Sum
<1>b. ASSUME \A i \in Slots : entry'[i].flags = entry[i].flags, numEntries' = numEntries,
             Ahead' = Ahead, Behind' = Behind,
             \A i \in Slots : entry[i].flags = 1 /\ Marked(i) => Marked(i)'
      PROVE  (\A i \in Slots : entry'[i].flags = 1 => Marked(i)') /\ numEntries' = Sum'
  <2>1. Active' = Active
    BY <1>b DEF Active
  <2>2. Sum' = Sum
    BY <1>b, <2>1 DEF Sum
  <2> QED
    BY <1>a, <1>b, <2>2
<1>1. ASSUME NEW n \in Nodes, Store(n)
      PROVE  (\A i \in Slots : entry'[i].flags = 1 => Marked(i)') /\ numEntries' = Sum'
  <2>1. op' = op /\ at' = at /\ step' = [step EXCEPT ![n] = step[n] + 1] /\ op[n] # "none"
    BY <1>1, StoreOps DEF Store
  <2>2. \A i \in Slots : Marked(i)' <=> Marked(i)
    BY <2>1 DEF Marked
  <2>3. PICK s \in Slots : s = at[n]
    BY <1>1, StoreEntry
  <2>4. \A i \in Slots \ {s} : entry'[i].flags = 1 => Marked(i)'
    BY <1>1, <1>a, <2>2, <2>3, StoreEntry
  <2>5. CASE op[n] = "claim"
    <3>1. Marked(s)'
      BY <2>1, <2>3, <2>5 DEF Marked
    <3>2. numEntries' = Sum'
      BY <1>0, <1>1, <2>5, ClaimCount DEF Sum
    <3> QED
      BY <2>4, <3>1, <3>2
  <2>6. CASE op[n] \in {"update", "heartbeat"}
    <3>1. entry[s].flags # 1
      BY <1>0, <2>6, NotMarked
    <3>2. entry'[s].flags = entry[s].flags
      <4>1. CASE op[n] = "update"
        <5>1. entry[s].flags \in {1, 3}
          BY <2>3, <4>1 DEF OpsSound, UpdateSound, Valid
        <5>2. entry'[s].flags \in {3, entry[s].flags}
          BY <1>1, <2>3, <4>1, UpdateWrites
        <5> QED
          BY <3>1, <5>1, <5>2
      <4>2. CASE op[n] = "heartbeat"
        BY <1>1, <2>3, <4>2, BeatWrites
      <4> QED
        BY <2>6, <4>1, <4>2
    <3>3. numEntries' = numEntries
      BY <1>1, <2>6, UpdateWrites, BeatWrites
    <3>4. \A i \in Slots : entry'[i].flags = entry[i].flags
      BY <1>1, <2>3, <3>2, StoreEntry
    <3>5. \A m \in Nodes \ {n} : step'[m] = step[m]
      BY <2>1 DEF LockType
    <3>6. Ahead' = Ahead /\ Behind' = Behind
      BY <2>1, <2>6, <3>5 DEF Ahead, Behind
    <3> QED
      BY <1>b, <2>2, <3>3, <3>4, <3>6
  <2>7. CASE op[n] = "unregister"
    <3>1. entry'[s].flags # 1
      <4>1. entry[s].flags # 1
        BY <1>0, <2>7, NotMarked
      <4> QED
        BY SMTT(30), <1>1, <2>3, <2>7, <4>1, UnregisterWrites
    <3>2. numEntries' = Sum'
      BY <1>0, <1>1, <2>7, UnregisterCount DEF Sum
    <3> QED
      BY <2>4, <3>1, <3>2
  <2>8. CASE op[n] = "remove"
    <3>1. entry'[s].flags # 1
      <4>1. entry[s].flags # 1
        BY <1>0, <2>8, NotMarked
      <4> QED
        BY SMTT(30), <1>1, <2>3, <2>8, <4>1, RemoveWrites
    <3>2. numEntries' = Sum'
      BY <1>0, <1>1, <2>8, RemoveCount DEF Sum
    <3> QED
      BY <2>4, <3>1, <3>2
  <2> QED
    BY <1>1, <2>5, <2>6, <2>7, <2>8, StoreOps
<1>2. ASSUME NEW n \in Nodes, NEW o \in Ops, NEW j \in Slots, Begin(n, o, j)
      PROVE  (\A i \in Slots : entry'[i].flags = 1 => Marked(i)') /\ numEntries' = Sum'
  <2>1. /\ entry' = entry /\ numEntries' = numEntries /\ op' = [op EXCEPT ![n] = o] /\ step' = step
        /\ \A m \in Nodes : op[m] = "none" /\ step[m] = 0
    BY <1>2, BeginQuiet DEF Begin
  <2>2. Ahead = {} /\ Behind = {} /\ Ahead' = {} /\ Behind' = {}
    BY SMTT(30), <2>1 DEF Ahead, Behind
  <2>3. \A i \in Slots : ~Marked(i)
    BY <2>1 DEF Marked
  <2> QED
    BY <1>b, <2>1, <2>2, <2>3
<1>3. ASSUME NEW n \in Nodes, CleanSlot(n) \/ CleanNext(n) \/ Finish(n)
      PROVE  (\A i \in Slots : entry'[i].flags = 1 => Marked(i)') /\ numEntries' = Sum'
  <2>1. /\ entry' = entry /\ numEntries' = numEntries /\ op[n] # "none" /\ step[n] \in Nat
        /\ \A m \in Nodes \ {n} : op[m] = "none" /\ op'[m] = "none"
    BY <1>3, Others DEF CleanSlot, CleanNext, Finish, LockType
  <2>2. CleanSlot(n) => op[n] = "scan" /\ step'[n] = 0
    BY NoStores DEF CleanSlot
  <2>3. CleanNext(n) => op'[n] = "scan" /\ op[n] = "remove" /\ ~(step[n] < 5)
    <3>1. CleanNext(n) => op'[n] = "scan" /\ op[n] = "remove"
      BY DEF CleanNext, LockType
    <3>2. CleanNext(n) => ~(step[n] < 5)
      BY Lengths DEF CleanNext, Storing
    <3> QED
      BY <3>1, <3>2
  <2>4. Finish(n) => /\ op'[n] = "none" /\ op[n] # "remove"
                     /\ op[n] = "claim" => ~(step[n] < 7)
                     /\ op[n] = "unregister" => ~(step[n] < 5)
    <3>1. Finish(n) => op'[n] = "none" /\ op[n] # "remove"
      BY DEF Finish, LockType
    <3>2. Finish(n) => /\ op[n] = "claim" => ~(step[n] < 7)
                       /\ op[n] = "unregister" => ~(step[n] < 5)
      BY Lengths DEF Finish, Storing
    <3> QED
      BY <3>1, <3>2
  <2>5. n \notin Ahead /\ n \notin Behind
    BY SMTT(30), <1>3, <2>1, <2>2, <2>3, <2>4 DEF Ahead, Behind
  <2>6. n \notin Ahead' /\ n \notin Behind'
    <3>1. op'[n] \in {"none", "scan"} \/ (op'[n] \in {"scan", "remove"} /\ step'[n] = 0)
      BY <1>3, <2>2, <2>3, <2>4 DEF CleanSlot, LockType
    <3> QED
      BY SMTT(30), <3>1 DEF Ahead, Behind
  <2>7. Ahead = {} /\ Behind = {} /\ Ahead' = {} /\ Behind' = {}
    BY <2>1, <2>5, <2>6 DEF Ahead, Behind
  <2>8. \A i \in Slots : entry[i].flags # 1
    <3>1. CASE op[n] # "claim"
      BY <1>0, <2>1, <3>1, NotMarked
    <3>2. CASE op[n] = "claim"
      <4>1. Finish(n) /\ step[n] # 0 /\ ~(step[n] < 6)
        BY SMTT(30), <1>3, <2>1, <2>2, <2>3, <2>4, <3>2
      <4>2. entry[at[n]].flags = 3
        BY <3>2, <4>1 DEF OpsSound, ClaimSound
      <4>3. \A i \in Slots : Marked(i) => i = at[n]
        BY <2>1 DEF Marked
      <4> QED
        BY SMTT(30), <1>a, <4>2, <4>3
    <3> QED
      BY <3>1, <3>2
  <2> QED
    BY <1>b, <2>1, <2>7, <2>8
<1>4. ASSUME NEW n \in Nodes, Die(n)
      PROVE  (\A i \in Slots : entry'[i].flags = 1 => Marked(i)') /\ numEntries' = Sum'
  <2>1. op[n] = "none" /\ step[n] = 0
    BY <1>4, NoStores DEF Die, LockType
  <2>2. entry' = entry /\ numEntries' = numEntries /\ op' = op /\ step' = step /\ at' = at
    BY <1>4, <2>1 DEF Die, LockType
  <2> QED
    BY <1>b, <2>2 DEF Ahead, Behind, Marked
<1>5. ASSUME NEW n \in Nodes, Start(n) \/ RegisterFull(n)
      PROVE  (\A i \in Slots : entry'[i].flags = 1 => Marked(i)') /\ numEntries' = Sum'
  <2>1. entry' = entry /\ numEntries' = numEntries /\ op' = op /\ step' = step /\ at' = at
    BY <1>5 DEF Start, RegisterFull
  <2> QED
    BY <1>b, <2>1 DEF Ahead, Behind, Marked
<1>6. ASSUME NEW j \in Slots, TimePasses(j)
      PROVE  (\A i \in Slots : entry'[i].flags = 1 => Marked(i)') /\ numEntries' = Sum'
  <2>1. numEntries' = numEntries /\ op' = op /\ step' = step /\ at' = at
    BY <1>6 DEF TimePasses
  <2>2. \A i \in Slots : entry'[i].flags = entry[i].flags
    BY <1>6 DEF TimePasses, EntryType, Entries
  <2> QED
    BY <1>b, <2>1, <2>2 DEF Ahead, Behind, Marked
<1> QED
  BY <1>1, <1>2, <1>3, <1>4, <1>5, <1>6, Actions

-----------------------------------------------------------------------------
(* The invariant *)

\* It holds of an empty registry.
LEMMA InitInv ==
  ASSUME Init
  PROVE  IInv
<1>1. Free \in Entries /\ Free.flags = 0 /\ Free.hb = "zero" /\ Free.pid = Nobody
  BY DEF Free, Entries, Nobody
<1>2. TypeOK
  <2>1. EntryType
    BY <1>1 DEF Init, EntryType
  <2>2. LockType
    <3>1. Len(Stores("none")) = 0 /\ \A n \in Nodes : op[n] = "none" /\ step[n] = 0 /\ mutex # n
      BY Lengths, RegistryAssumption DEF Init
    <3>2. \A n \in Nodes : Len(Stores(op[n])) = 0
      BY <3>1
    <3>3. \A n \in Nodes : step[n] <= Len(Stores(op[n]))
      BY SMTT(30), <3>1, <3>2
    <3> QED
      BY <3>1, <3>3 DEF Init, LockType, Ops
  <2>3. CountType /\ PlaceType /\ FlagType
    <3>1. NumEntries \in Nat /\ CountMod \in Nat /\ CountMod > 0
      BY SMTT(30), RegistryAssumption
    <3>2. 0 \in 0 .. CountMod - 1 /\ 1 \in 1 .. NumEntries + 1
      BY SMTT(30), <3>1
    <3> QED
      BY <3>2 DEF Init, CountType, PlaceType, FlagType
  <2>4. NodeType
    BY SMTT(30), RegistryAssumption DEF Init, NodeType, Scenario
  <2> QED
    BY <2>1, <2>2, <2>3, <2>4, TypeParts
<1>3. \A i \in Slots : entry[i] = Free
  BY DEF Init
<1>4. OpsSound
  BY DEF Init, OpsSound
<1>5. PidsKnown
  BY SMTT(30), <1>1, <1>3, RegistryAssumption DEF PidsKnown, Nobody
<1>6. OldMeansLate /\ PublishedEntriesComplete /\ ValidIdsUnique
  BY SMTT(30), <1>1, <1>3 DEF OldMeansLate, PublishedEntriesComplete, ValidIdsUnique, Valid
<1>7. RegisteredListed
  BY DEF Init, RegisteredListed
<1>8. CountSound
  <2>1. Active = {} /\ Ahead = {} /\ Behind = {}
    BY SMTT(30), <1>1, <1>3 DEF Active, Ahead, Behind, Init
  <2>2. numEntries = 0 + 0 - 0 /\ Cardinality(Active) = 0
    BY SMTT(30), <2>1, FS_EmptySet DEF Init
  <2> QED
    BY SMTT(30), <1>1, <1>3, <2>1, <2>2 DEF CountSound
<1> QED
  BY <1>2, <1>4, <1>5, <1>6, <1>7, <1>8 DEF IInv

\* Every step keeps it.
LEMMA NextInv ==
  ASSUME IInv, Next
  PROVE  IInv'
<1>1. /\ TypeOK /\ OpsSound /\ PidsKnown /\ OldMeansLate /\ PublishedEntriesComplete
      /\ ValidIdsUnique /\ RegisteredListed /\ CountSound
  BY DEF IInv
<1>2. EntryType /\ CountType /\ LockType /\ PlaceType /\ NodeType /\ FlagType
  BY <1>1, TypeParts
<1>3. TypeOK'
  BY <1>1, TypesKept
<1>4. OpsSound' /\ PidsKnown'
  BY <1>1, <1>2, OpsKept, PidsKept
<1>5. OldMeansLate' /\ PublishedEntriesComplete'
  BY <1>1, <1>2, OldKept, CompleteKept
<1>6. ValidIdsUnique' /\ RegisteredListed' /\ CountSound'
  BY <1>1, <1>2, UniqueKept, ListedKept, CountKept
<1> QED
  BY <1>3, <1>4, <1>5, <1>6 DEF IInv

\* A stuttering step keeps it.
LEMMA StutterInv ==
  ASSUME IInv, UNCHANGED vars
  PROVE  IInv'
<1>1. /\ setup' = setup /\ entry' = entry /\ numEntries' = numEntries /\ mutex' = mutex /\ up' = up
      /\ start' = start /\ op' = op /\ step' = step /\ at' = at /\ registered' = registered
      /\ late' = late /\ interrupted' = interrupted /\ ghosts' = ghosts
  BY DEF vars, history
<1>2. TypeOK'
  <2>1. EntryType /\ CountType /\ LockType /\ PlaceType /\ NodeType /\ FlagType
    BY TypeParts DEF IInv
  <2>2. EntryType' /\ CountType' /\ LockType' /\ PlaceType' /\ NodeType' /\ FlagType'
    BY <1>1, <2>1 DEF EntryType, CountType, LockType, PlaceType, NodeType, FlagType
  <2> QED
    BY <2>2 DEF TypeOK, EntryType, CountType, LockType, PlaceType, NodeType, FlagType
<1>3. OpsSound'
  <2>1. \A n \in Nodes : OpSound(n)
    BY DEF IInv, OpsSound, OpSound
  <2>2. ASSUME NEW n \in Nodes PROVE OpSound(n)'
    <3>1. (ClaimSound(n)' <=> ClaimSound(n)) /\ (UpdateSound(n)' <=> UpdateSound(n))
      BY <1>1 DEF ClaimSound, UpdateSound, Stale, Valid, Alive, Process
    <3>2. (UnregisterSound(n)' <=> UnregisterSound(n)) /\ (RemoveSound(n)' <=> RemoveSound(n))
      BY <1>1 DEF UnregisterSound, RemoveSound, Stale, Valid, Alive, Process
    <3>3. OpSound(n)
      BY <2>1
    <3> QED
      BY <1>1, <3>1, <3>2, <3>3 DEF OpSound
  <2> QED
    BY <2>2 DEF OpsSound, OpSound
<1>4. PidsKnown' /\ OldMeansLate' /\ PublishedEntriesComplete'
  BY <1>1 DEF IInv, PidsKnown, OldMeansLate, PublishedEntriesComplete, Process
<1>5. ValidIdsUnique' /\ RegisteredListed'
  <2>1. \A i \in Slots : (Valid(i)' <=> Valid(i)) /\ (BeingClaimed(i)' <=> BeingClaimed(i))
    BY <1>1 DEF Valid, BeingClaimed
  <2>2. ValidIdsUnique'
    BY <1>1, <2>1 DEF IInv, ValidIdsUnique
  <2>3. RegisteredListed'
    BY <1>1 DEF IInv, RegisteredListed, Listed, Process
  <2> QED
    BY <2>2, <2>3
<1>6. CountSound'
  BY <1>1 DEF IInv, CountSound, Active, Ahead, Behind
<1> QED
  BY <1>2, <1>3, <1>4, <1>5, <1>6 DEF IInv

\* The registry keeps its invariant, however many nodes, entries and restarts there
\* are and wherever processes are killed.
THEOREM TableInvariant == Spec => []IInv
<1>1. Init => IInv
  BY InitInv
<1>2. IInv /\ [Next]_vars => IInv'
  BY NextInv, StutterInv
<1> QED
  BY <1>1, <1>2, PTL DEF Spec

\* Every variable keeps its type.
THEOREM TypeCorrect == Spec => []TypeOK
<1>1. IInv => TypeOK
  BY DEF IInv
<1> QED
  BY <1>1, TableInvariant, PTL

\* findNode: a registered node whose heartbeats are in time is found under its own
\* memory name, unless two kills left a ghost of its id.
THEOREM RegisteredFound == Spec => []RegisteredNodesFound
<1>1. IInv => RegisteredNodesFound
  <2> SUFFICES ASSUME IInv, Quiet, NEW n \in registered \ (late \cup ghosts)
               PROVE  Matches(n) # {} /\ Found(n).shm = Process(n) /\ Found(n).pid = Process(n)
    BY DEF RegisteredNodesFound
  <2>1. LockType /\ NodeType
    BY TypeParts DEF IInv
  <2>2. n \in Nodes /\ \A m \in Nodes : op[m] = "none"
    BY <2>1, QuietOps DEF NodeType
  <2>3. PICK i \in Slots : Listed(n, i)
    BY <2>2 DEF IInv, RegisteredListed
  <2>4. i \in Matches(n)
    BY <2>3 DEF Listed, Matches, Valid
  <2>5. \A j \in Matches(n) : j = i
    <3>1. \A j \in Slots : ~BeingClaimed(j)
      BY <2>2 DEF BeingClaimed
    <3>2. n \notin ghosts \cup {None}
      BY <2>2, RegistryAssumption
    <3> QED
      BY <2>4, <3>1, <3>2 DEF IInv, ValidIdsUnique, Matches
  <2>6. Min(Matches(n)) = i
    <3>1. Matches(n) \in SUBSET Slots /\ Matches(n) # {}
      BY <2>4 DEF Matches
    <3>2. Min(Matches(n)) \in Matches(n)
      BY <3>1, MinIn
    <3> QED
      BY <2>5, <3>2
  <2> QED
    BY <2>3, <2>4, <2>6 DEF Found, Listed
<1> QED
  BY <1>1, TableInvariant, PTL

\* A published entry is complete at any moment.
THEOREM PublishedComplete == Spec => []PublishedEntriesComplete
<1>1. IInv => PublishedEntriesComplete
  BY DEF IInv
<1> QED
  BY <1>1, TableInvariant, PTL

\* Two published entries never carry the same id, ghosts apart.
THEOREM UniqueIds == Spec => []IdsUnique
<1>1. IInv => IdsUnique
  <2> SUFFICES ASSUME IInv, NEW i \in Slots, NEW j \in Slots, entry[i].flags = 3, entry[j].flags = 3,
                      entry[i].id = entry[j].id, entry[i].id \notin ghosts
               PROVE  i = j
    BY DEF IdsUnique
  <2>1. Valid(i) /\ Valid(j) /\ entry[i].id # None
    BY DEF IInv, PublishedEntriesComplete, Valid
  <2>2. \A k \in Slots : BeingClaimed(k) => entry[k].flags = 1
    <3> SUFFICES ASSUME NEW k \in Slots, NEW n \in Nodes, op[n] = "claim", at[n] = k, step[n] = 1
                 PROVE  entry[k].flags = 1
      BY DEF BeingClaimed
    <3>1. ClaimSound(n)
      BY DEF IInv, OpsSound
    <3> QED
      BY SMTT(30), <3>1 DEF ClaimSound
  <2>3. ~BeingClaimed(i) /\ ~BeingClaimed(j)
    BY SMTT(30), <2>2
  <2> QED
    BY <2>1, <2>3 DEF IInv, ValidIdsUnique
<1> QED
  BY <1>1, TableInvariant, PTL

\* num_entries is the number of active entries until an operation is interrupted.
THEOREM CountExact == Spec => []CountIsActive
<1>1. IInv => CountIsActive
  <2> SUFFICES ASSUME IInv, Quiet, ~interrupted PROVE numEntries = Cardinality(Active)
    BY DEF CountIsActive, Active
  <2>1. LockType
    BY TypeParts DEF IInv
  <2>2. \A n \in Nodes : op[n] = "none"
    BY <2>1, QuietOps
  <2>3. Even
    BY <2>2 DEF Even, Ahead, Behind
  <2> QED
    BY <2>3, EvenCount DEF IInv
<1> QED
  BY <1>1, TableInvariant, PTL
=============================================================================
