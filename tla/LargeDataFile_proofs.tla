------------------------ MODULE LargeDataFile_proofs ------------------------
(***************************************************************************)
(* The inductive invariant of LargeDataFile and its theorems, for any      *)
(* number of processes, objects and reader slots.                          *)
(***************************************************************************)
EXTENDS LargeDataFile, FiniteSetTheorems, TLAPS

\* Leaves go to Zenon unless they name another prover.
USE Zenon

\* Who has something open has an object.
LEMMA Opened ==
  ASSUME TypeOK, Placed, NEW p \in Processes, pc[p] \in Early \cup Attached
  PROVE  held[p] \in Objects /\ held[p] < next /\ held[p] # None /\ file[held[p]] \in File
  <1>1. held[p] \in Objects /\ held[p] < next /\ held[p] # None BY DEF TypeOK, Placed
  <1>2. QED BY <1>1 DEF TypeOK

\* A change of the object that p has open.
LEMMA Changed ==
  ASSUME TypeOK, NEW p \in Processes, held[p] \in Objects, NEW v \in File, Change(p, v)
  PROVE  /\ file' \in [Objects -> File] /\ file'[held[p]] = v
         /\ \A o \in Objects : o # held[p] => file'[o] = file[o]
  BY DEF Change, TypeOK

\* An object's record.
LEMMA FileParts ==
  ASSUME NEW f \in File
  PROVE  /\ f.size \in BOOLEAN /\ f.ref \in Int /\ f.writer \in Processes \cup {None} /\ f.count \in Int
         /\ f.beat \in BOOLEAN /\ f.slot \in [Slots -> Slot]
         /\ \A i \in Slots : f.slot[i] \in Slot
  BY DEF File

\* The stores of the code into it.
LEMMA ChangedFiles ==
  ASSUME NEW f \in File
  PROVE  /\ [f EXCEPT !.size = TRUE] \in File
         /\ \A n \in Int : [f EXCEPT !.ref = n] \in File
         /\ \A p \in Processes : [f EXCEPT !.writer = p] \in File
         /\ \A s \in [Slots -> Slot] : [f EXCEPT !.slot = s] \in File
         /\ \A s \in [Slots -> Slot], n \in Int :
              /\ [f EXCEPT !.count = n, !.slot = s] \in File /\ [f EXCEPT !.slot = s, !.count = n] \in File
              /\ [f EXCEPT !.beat = TRUE, !.count = n, !.slot = s] \in File
  <1>1. [f EXCEPT !.size = TRUE] \in File BY DEF File
  <1>2. \A n \in Int : [f EXCEPT !.ref = n] \in File BY DEF File
  <1>3. \A p \in Processes : [f EXCEPT !.writer = p] \in File BY DEF File
  <1>4. \A s \in [Slots -> Slot] : [f EXCEPT !.slot = s] \in File BY DEF File
  <1>5. ASSUME NEW s \in [Slots -> Slot], NEW n \in Int
        PROVE  /\ [f EXCEPT !.count = n, !.slot = s] \in File /\ [f EXCEPT !.slot = s, !.count = n] \in File
               /\ [f EXCEPT !.beat = TRUE, !.count = n, !.slot = s] \in File
    <2>1. [f EXCEPT !.count = n, !.slot = s] \in File BY DEF File
    <2>2. [f EXCEPT !.slot = s, !.count = n] \in File BY DEF File
    <2>3. [f EXCEPT !.beat = TRUE, !.count = n, !.slot = s] \in File BY DEF File
    <2>4. QED BY <2>1, <2>2, <2>3
  <1>6. QED BY <1>1, <1>2, <1>3, <1>4, <1>5

\* The slots too.
LEMMA ChangedSlots ==
  ASSUME NEW s \in [Slots -> Slot], NEW i \in Slots, NEW e \in Slot
  PROVE  /\ [s EXCEPT ![i] = e] \in [Slots -> Slot] /\ [s EXCEPT ![i] = e][i] = e
         /\ \A j \in Slots \ {i} : [s EXCEPT ![i] = e][j] = s[j]
  OBVIOUS

\* A blank object.
LEMMA Blank == NewFile \in File /\ ~NewFile.size /\ NewFile.ref = 0 /\ \A i \in Slots : ~NewFile.slot[i].active
  BY SMTT(30) DEF NewFile, File, Slot

\* The object that p has open gets a new size, ref_count and slots.
Becomes(p, size, ref, slot) ==
  /\ held[p] \in Objects /\ held[p] < next /\ file[held[p]] \in File /\ file' \in [Objects -> File]
  /\ file'[held[p]].size = size /\ file'[held[p]].ref = ref /\ file'[held[p]].slot = slot
  /\ \A o \in Objects : o # held[p] => file'[o] = file[o]

\* A store to one field of the mapped object leaves the other objects and fields as they were.
LEMMA BecomesBy ==
  ASSUME TypeOK, Placed, NEW p \in Processes, pc[p] \in Early \cup Attached, NEW v \in File, Change(p, v)
  PROVE  Becomes(p, v.size, v.ref, v.slot)
  <1>1. held[p] \in Objects /\ held[p] < next /\ file[held[p]] \in File BY Opened
  <1>2. QED BY <1>1, Changed DEF Becomes

\* What a store to one field of an object leaves in the three fields the invariant reads.
LEMMA Fields ==
  ASSUME NEW f \in File, NEW x, NEW y, NEW z
  PROVE  /\ [f EXCEPT !.size = x].size = x /\ [f EXCEPT !.size = x].ref = f.ref /\ [f EXCEPT !.size = x].slot = f.slot
         /\ [f EXCEPT !.ref = x].size = f.size /\ [f EXCEPT !.ref = x].ref = x /\ [f EXCEPT !.ref = x].slot = f.slot
         /\ [f EXCEPT !.writer = x].size = f.size /\ [f EXCEPT !.writer = x].ref = f.ref /\ [f EXCEPT !.writer = x].slot = f.slot
         /\ [f EXCEPT !.slot = x].size = f.size /\ [f EXCEPT !.slot = x].ref = f.ref /\ [f EXCEPT !.slot = x].slot = x
         /\ [f EXCEPT !.count = y, !.slot = x].size = f.size /\ [f EXCEPT !.count = y, !.slot = x].ref = f.ref
         /\ [f EXCEPT !.count = y, !.slot = x].slot = x
         /\ [f EXCEPT !.slot = x, !.count = y].size = f.size /\ [f EXCEPT !.slot = x, !.count = y].ref = f.ref
         /\ [f EXCEPT !.slot = x, !.count = y].slot = x
         /\ [f EXCEPT !.beat = z, !.count = y, !.slot = x].size = f.size /\ [f EXCEPT !.beat = z, !.count = y, !.slot = x].ref = f.ref
         /\ [f EXCEPT !.beat = z, !.count = y, !.slot = x].slot = x
  BY DEF File

\* What initialize and the destructor store.
LEMMA InitializeEffects ==
  ASSUME TypeOK, Placed, NEW p \in Processes
  PROVE  LET f == file[held[p]]
         IN /\ Size(p) => Becomes(p, TRUE, f.ref, f.slot)
            /\ Store(p) => Becomes(p, f.size, 1, f.slot)
            /\ Record(p) => Becomes(p, f.size, f.ref, f.slot)
            /\ Clear(p) => Becomes(p, f.size, f.ref, NewFile.slot)
            /\ Count(p) => Becomes(p, f.size, f.ref + 1, f.slot)
            /\ Drop(p) => Becomes(p, f.size, f.ref - 1, f.slot)
  <1> DEFINE f == file[held[p]]
  <1>1. ASSUME Size(p) PROVE Becomes(p, TRUE, f.ref, f.slot)
    <2>1. pc[p] \in Early \cup Attached /\ Change(p, [f EXCEPT !.size = TRUE]) BY <1>1 DEF Size, At, Early
    <2>2. PICK g \in File : g = f BY <2>1, Opened
    <2>3. PICK v \in File : v = [g EXCEPT !.size = TRUE] BY ChangedFiles
    <2>4. v.size = TRUE /\ v.ref = g.ref /\ v.slot = g.slot BY SMTT(30), <2>3, Fields
    <2>5. Becomes(p, v.size, v.ref, v.slot) BY <2>1, <2>2, <2>3, BecomesBy
    <2>6. QED BY <2>2, <2>4, <2>5
  <1>2. ASSUME Store(p) PROVE Becomes(p, f.size, 1, f.slot)
    <2>1. pc[p] \in Early \cup Attached /\ Change(p, [f EXCEPT !.ref = 1]) BY <1>2 DEF Store, At, Early
    <2>2. PICK g \in File : g = f BY <2>1, Opened
    <2>3. PICK v \in File : v = [g EXCEPT !.ref = 1]
      <3>1. PICK n \in Int : n = 1 BY SMTT(30)
      <3>2. PICK v \in File : v = [g EXCEPT !.ref = n] BY ChangedFiles
      <3>3. QED BY <3>1, <3>2
    <2>4. v.size = g.size /\ v.ref = 1 /\ v.slot = g.slot BY SMTT(30), <2>3, Fields
    <2>5. Becomes(p, v.size, v.ref, v.slot) BY <2>1, <2>2, <2>3, BecomesBy
    <2>6. QED BY <2>2, <2>4, <2>5
  <1>3. ASSUME Record(p) PROVE Becomes(p, f.size, f.ref, f.slot)
    <2>1. pc[p] \in Early \cup Attached /\ Change(p, [f EXCEPT !.writer = p]) BY <1>3 DEF Record, At, Attached
    <2>2. PICK g \in File : g = f BY <2>1, Opened
    <2>3. PICK v \in File : v = [g EXCEPT !.writer = p] BY ChangedFiles
    <2>4. v.size = g.size /\ v.ref = g.ref /\ v.slot = g.slot BY SMTT(30), <2>3, Fields
    <2>5. Becomes(p, v.size, v.ref, v.slot) BY <2>1, <2>2, <2>3, BecomesBy
    <2>6. QED BY <2>2, <2>4, <2>5
  <1>4. ASSUME Clear(p) PROVE Becomes(p, f.size, f.ref, NewFile.slot)
    <2>1. pc[p] \in Early \cup Attached /\ Change(p, [f EXCEPT !.count = 0, !.slot = NewFile.slot])
      BY <1>4 DEF Clear, At, Attached
    <2>2. PICK g \in File : g = f BY <2>1, Opened
    <2>3. PICK s \in [Slots -> Slot] : s = NewFile.slot BY Blank, FileParts
    <2>4. PICK v \in File : v = [g EXCEPT !.count = 0, !.slot = s]
      <3>1. PICK n \in Int : n = 0 BY SMTT(30)
      <3>2. PICK v \in File : v = [g EXCEPT !.count = n, !.slot = s] BY ChangedFiles
      <3>3. QED BY <3>1, <3>2
    <2>5. v.size = g.size /\ v.ref = g.ref /\ v.slot = s BY SMTT(30), <2>4, Fields
    <2>6. Becomes(p, v.size, v.ref, v.slot) BY <2>1, <2>2, <2>3, <2>4, BecomesBy
    <2>7. QED BY <2>2, <2>3, <2>5, <2>6
  <1>5. ASSUME Count(p) PROVE Becomes(p, f.size, f.ref + 1, f.slot)
    <2>1. pc[p] \in Early \cup Attached /\ Change(p, [f EXCEPT !.ref = @ + 1]) BY <1>5 DEF Count, At, Early
    <2>2. PICK g \in File : g = f BY <2>1, Opened
    <2>3. PICK n \in Int : n = g.ref + 1 BY SMTT(30), FileParts
    <2>4. PICK v \in File : v = [g EXCEPT !.ref = n] BY ChangedFiles
    <2>5. v.size = g.size /\ v.ref = n /\ v.slot = g.slot BY SMTT(30), <2>4, Fields
    <2>6. Becomes(p, v.size, v.ref, v.slot) BY <2>1, <2>2, <2>3, <2>4, BecomesBy
    <2>7. QED BY <2>2, <2>3, <2>5, <2>6
  <1>6. ASSUME Drop(p) PROVE Becomes(p, f.size, f.ref - 1, f.slot)
    <2>1. pc[p] \in Early \cup Attached /\ Change(p, [f EXCEPT !.ref = @ - 1]) BY <1>6 DEF Drop, At, Attached
    <2>2. PICK g \in File : g = f BY <2>1, Opened
    <2>3. PICK n \in Int : n = g.ref - 1 BY SMTT(30), FileParts
    <2>4. PICK v \in File : v = [g EXCEPT !.ref = n] BY ChangedFiles
    <2>5. v.size = g.size /\ v.ref = n /\ v.slot = g.slot BY SMTT(30), <2>4, Fields
    <2>6. Becomes(p, v.size, v.ref, v.slot) BY <2>1, <2>2, <2>3, <2>4, BecomesBy
    <2>7. QED BY <2>2, <2>3, <2>5, <2>6
  <1>7. QED BY <1>1, <1>2, <1>3, <1>4, <1>5, <1>6

\* What the readers and their clean-up store.
LEMMA ReaderEffects ==
  ASSUME TypeOK, Placed, NEW p \in Processes
  PROVE  LET f == file[held[p]]
             s == f.slot
         IN /\ RegisterReader(p) => \E i \in Slots : /\ ~s[i].active /\ reading' = [reading EXCEPT ![p] = i]
                                                     /\ Becomes(p, f.size, f.ref, [s EXCEPT ![i] = [s[i] EXCEPT !.active = TRUE]])
            /\ NameReader(p) =>
                 LET i == reading[p]
                 IN i \in Slots /\ Becomes(p, f.size, f.ref, [s EXCEPT ![i] = [s[i] EXCEPT !.pid = p, !.beat = TRUE]])
            /\ Close(p) /\ reading[p] # None =>
                 LET i == reading[p]
                 IN i \in Slots /\ Becomes(p, f.size, f.ref, [s EXCEPT ![i] = [s[i] EXCEPT !.active = FALSE]])
            /\ Leave(p) =>
                 LET i == reading[p]
                 IN i \in Slots /\ Becomes(p, f.size, f.ref, [s EXCEPT ![i] = [s[i] EXCEPT !.pid = None]])
  <1> SUFFICES ASSUME pc[p] \in {"use", "name", "leave"}
               PROVE  LET f == file[held[p]]
                          s == f.slot
                      IN /\ RegisterReader(p) => \E i \in Slots : /\ ~s[i].active /\ reading' = [reading EXCEPT ![p] = i]
                                                                  /\ Becomes(p, f.size, f.ref, [s EXCEPT ![i] = [s[i] EXCEPT !.active = TRUE]])
                         /\ NameReader(p) =>
                              LET i == reading[p]
                              IN i \in Slots /\ Becomes(p, f.size, f.ref, [s EXCEPT ![i] = [s[i] EXCEPT !.pid = p, !.beat = TRUE]])
                         /\ Close(p) /\ reading[p] # None =>
                              LET i == reading[p]
                              IN i \in Slots /\ Becomes(p, f.size, f.ref, [s EXCEPT ![i] = [s[i] EXCEPT !.active = FALSE]])
                         /\ Leave(p) =>
                              LET i == reading[p]
                              IN i \in Slots /\ Becomes(p, f.size, f.ref, [s EXCEPT ![i] = [s[i] EXCEPT !.pid = None]])
    BY DEF RegisterReader, NameReader, Close, Leave, At
  <1>1. pc[p] \in Early \cup Attached BY DEF Attached
  <1>2. PICK f \in File : f = file[held[p]] BY <1>1, Opened
  <1>3. PICK s \in [Slots -> Slot] : s = f.slot BY FileParts
  <1>4. reading[p] # None => reading[p] \in Slots BY DEF TypeOK
  <1>5. \A e \in Slot : /\ [e EXCEPT !.active = TRUE] \in Slot /\ [e EXCEPT !.active = FALSE] \in Slot
                        /\ [e EXCEPT !.pid = None] \in Slot /\ [e EXCEPT !.pid = p, !.beat = TRUE] \in Slot
    BY DEF Slot
  <1>6. ASSUME NEW r \in [Slots -> Slot], Change(p, [f EXCEPT !.slot = r]) PROVE Becomes(p, f.size, f.ref, r)
    <2>1. PICK v \in File : v = [f EXCEPT !.slot = r] BY ChangedFiles
    <2>2. Becomes(p, v.size, v.ref, v.slot) BY <1>1, <1>6, <2>1, BecomesBy
    <2>3. v.size = f.size /\ v.ref = f.ref /\ v.slot = r BY SMTT(30), <2>1, Fields
    <2>4. QED BY <2>2, <2>3
  <1>7. ASSUME NEW r \in [Slots -> Slot], NEW n \in Int, Change(p, [f EXCEPT !.slot = r, !.count = n])
        PROVE  Becomes(p, f.size, f.ref, r)
    <2>1. PICK v \in File : v = [f EXCEPT !.slot = r, !.count = n] BY ChangedFiles
    <2>2. Becomes(p, v.size, v.ref, v.slot) BY <1>1, <1>7, <2>1, BecomesBy
    <2>3. v.size = f.size /\ v.ref = f.ref /\ v.slot = r BY SMTT(30), <2>1, Fields
    <2>4. QED BY <2>2, <2>3
  <1>8. ASSUME RegisterReader(p)
        PROVE  \E i \in Slots : /\ ~s[i].active /\ reading' = [reading EXCEPT ![p] = i]
                                /\ Becomes(p, f.size, f.ref, [s EXCEPT ![i] = [s[i] EXCEPT !.active = TRUE]])
    <2>1. PICK i \in Free(held[p]) : /\ Change(p, [file[held[p]] EXCEPT !.slot[i].active = TRUE])
                                     /\ reading' = [reading EXCEPT ![p] = i]
      BY <1>8 DEF RegisterReader
    <2>2. i \in Slots /\ ~s[i].active BY <1>2, <1>3 DEF Free
    <2>3. PICK r \in [Slots -> Slot] : r = [s EXCEPT ![i] = [s[i] EXCEPT !.active = TRUE]] BY <1>5, <2>2
    <2>4. [file[held[p]] EXCEPT !.slot[i].active = TRUE] = [f EXCEPT !.slot = r] BY <1>2, <1>3, <2>3
    <2>5. Becomes(p, f.size, f.ref, r) BY <1>6, <2>1, <2>4
    <2>6. QED BY <2>1, <2>2, <2>3, <2>5
  <1>9. ASSUME NameReader(p)
        PROVE  reading[p] \in Slots /\ Becomes(p, f.size, f.ref, [s EXCEPT ![reading[p]] = [s[reading[p]] EXCEPT !.pid = p, !.beat = TRUE]])
    <2>1. PICK i \in Slots : i = reading[p] BY <1>4, <1>9 DEF NameReader, At, Placed
    <2>2. Change(p, [file[held[p]] EXCEPT !.slot[i].pid = p, !.slot[i].beat = TRUE, !.count = @ + 1])
      BY <1>9, <2>1 DEF NameReader
    <2>3. PICK r \in [Slots -> Slot] : r = [s EXCEPT ![i] = [s[i] EXCEPT !.pid = p, !.beat = TRUE]] BY <1>5
    <2>4. PICK n \in Int : n = f.count + 1 BY SMTT(30), FileParts
    <2>5. [file[held[p]] EXCEPT !.slot[i].pid = p, !.slot[i].beat = TRUE, !.count = @ + 1] = [f EXCEPT !.slot = r, !.count = n]
      BY ZenonT(40), <1>2, <1>3, <2>3, <2>4 DEF File
    <2>6. Becomes(p, f.size, f.ref, r) BY <1>7, <2>2, <2>5
    <2>7. QED BY <2>1, <2>3, <2>6
  <1>10. ASSUME Close(p), reading[p] # None
         PROVE  reading[p] \in Slots /\ Becomes(p, f.size, f.ref, [s EXCEPT ![reading[p]] = [s[reading[p]] EXCEPT !.active = FALSE]])
    <2>1. PICK i \in Slots : i = reading[p] BY <1>4, <1>10
    <2>2. Change(p, [file[held[p]] EXCEPT !.slot[i].active = FALSE]) BY <1>10, <2>1 DEF Close
    <2>3. PICK r \in [Slots -> Slot] : r = [s EXCEPT ![i] = [s[i] EXCEPT !.active = FALSE]] BY <1>5
    <2>4. [file[held[p]] EXCEPT !.slot[i].active = FALSE] = [f EXCEPT !.slot = r] BY <1>2, <1>3, <2>3
    <2>5. Becomes(p, f.size, f.ref, r) BY <1>6, <2>2, <2>4
    <2>6. QED BY <2>1, <2>3, <2>5
  <1>11. ASSUME Leave(p)
         PROVE  reading[p] \in Slots /\ Becomes(p, f.size, f.ref, [s EXCEPT ![reading[p]] = [s[reading[p]] EXCEPT !.pid = None]])
    <2>1. PICK i \in Slots : i = reading[p] BY <1>4, <1>11 DEF Leave, At, Placed
    <2>2. Change(p, [file[held[p]] EXCEPT !.slot[i].pid = None, !.count = @ - 1]) BY <1>11, <2>1 DEF Leave
    <2>3. PICK r \in [Slots -> Slot] : r = [s EXCEPT ![i] = [s[i] EXCEPT !.pid = None]] BY <1>5
    <2>4. PICK n \in Int : n = f.count - 1 BY SMTT(30), FileParts
    <2>5. [file[held[p]] EXCEPT !.slot[i].pid = None, !.count = @ - 1] = [f EXCEPT !.slot = r, !.count = n]
      BY <1>2, <1>3, <2>3, <2>4 DEF File
    <2>6. Becomes(p, f.size, f.ref, r) BY <1>7, <2>2, <2>5
    <2>7. QED BY <2>1, <2>3, <2>6
  <1>12. QED BY <1>2, <1>3, <1>8, <1>9, <1>10, <1>11

\* write() changes slots only: it keeps every pid and clears no flag but those of the dead readers,
\* and a clean-up while a reader has no pid yet is recorded in upset.
LEMMA WriteEffects ==
  ASSUME TypeOK, Placed, NEW p \in Processes, Write(p)
  PROVE  \E gone \in SUBSET Slots, r \in [Slots -> Slot] :
           /\ Becomes(p, file[held[p]].size, file[held[p]].ref, r)
           /\ \A i \in Slots : /\ r[i].pid = file[held[p]].slot[i].pid
                               /\ i \notin gone => r[i].active = file[held[p]].slot[i].active
           /\ gone \subseteq DeadReaders(held[p]) /\ Blame(gone # {} /\ Naming(held[p]), "unnamed")
  <1>1. pc[p] = "use" /\ pc[p] \in Early \cup Attached BY DEF Write, At, Attached
  <1>2. PICK f \in File : f = file[held[p]] BY <1>1, Opened
  <1>3. PICK s \in [Slots -> Slot] : s = f.slot BY FileParts
  <1>4. PICK gone \in {{}, DeadReaders(held[p])} :
          /\ Change(p, [file[held[p]] EXCEPT !.beat = TRUE, !.count = @ - Cardinality(gone),
                           !.slot = [i \in Slots |-> [file[held[p]].slot[i] EXCEPT !.active = @ /\ i \notin gone]]])
          /\ Blame(gone # {} /\ Naming(held[p]), "unnamed")
    BY DEF Write
  <1>5. gone \in SUBSET Slots /\ gone \subseteq DeadReaders(held[p]) BY DEF DeadReaders
  <1>6. PICK n \in Int : n = f.count - Cardinality(gone)
    <2>1. IsFiniteSet(Slots) BY SMTT(30), FS_Interval, FileAssumption DEF Slots
    <2>2. Cardinality(gone) \in Nat BY <1>5, <2>1, FS_Subset, FS_CardinalityType
    <2>3. f.count \in Int BY FileParts
    <2>4. QED BY SMTT(30), <2>2, <2>3
  <1>7. PICK r : r = [i \in Slots |-> [s[i] EXCEPT !.active = s[i].active /\ i \notin gone]] OBVIOUS
  <1>8. /\ r \in [Slots -> Slot]
        /\ \A i \in Slots : r[i].pid = s[i].pid /\ (i \notin gone => r[i].active = s[i].active)
    <2>1. \A e \in Slot : \A b \in BOOLEAN : /\ [e EXCEPT !.active = b] \in Slot /\ [e EXCEPT !.active = b].pid = e.pid
                                             /\ [e EXCEPT !.active = b].active = b /\ e.active \in BOOLEAN
      <3> TAKE e \in Slot
      <3> TAKE b \in BOOLEAN
      <3>1. [e EXCEPT !.active = b] \in Slot BY DEF Slot
      <3>2. [e EXCEPT !.active = b].pid = e.pid BY DEF Slot
      <3>3. [e EXCEPT !.active = b].active = b BY DEF Slot
      <3>4. e.active \in BOOLEAN BY DEF Slot
      <3>5. QED BY <3>1, <3>2, <3>3, <3>4
    <2>2. \A i \in Slots : r[i] = [s[i] EXCEPT !.active = s[i].active /\ i \notin gone] BY <1>7
    <2>3. \A i \in Slots : s[i] \in Slot /\ (s[i].active /\ i \notin gone) \in BOOLEAN OBVIOUS
    <2>4. \A i \in Slots : /\ r[i] \in Slot /\ r[i].pid = s[i].pid /\ r[i].active = (s[i].active /\ i \notin gone)
                           /\ s[i].active \in BOOLEAN
      <3> TAKE i \in Slots
      <3>1. PICK e \in Slot : e = s[i] BY <2>3
      <3>2. PICK b \in BOOLEAN : b = (s[i].active /\ i \notin gone) BY <2>3
      <3>3. r[i] = [e EXCEPT !.active = b] BY <2>2, <3>1, <3>2
      <3>4. /\ [e EXCEPT !.active = b] \in Slot /\ [e EXCEPT !.active = b].pid = e.pid
            /\ [e EXCEPT !.active = b].active = b /\ e.active \in BOOLEAN
        BY <2>1
      <3>5. r[i] \in Slot /\ r[i].pid = e.pid BY <3>3, <3>4
      <3>6. r[i].active = b BY <3>3, <3>4
      <3>7. QED BY <3>1, <3>2, <3>4, <3>5, <3>6
    <2>5. r \in [Slots -> Slot] BY <1>7, <2>2, <2>4
    <2>6. ASSUME NEW i \in Slots, i \notin gone PROVE r[i].active = s[i].active
      <3>1. r[i].active = (s[i].active /\ i \notin gone) /\ s[i].active \in BOOLEAN BY <2>4
      <3>2. QED BY <2>6, <3>1
    <2>7. QED BY <2>4, <2>5, <2>6
  <1>9. PICK v \in File : v = [f EXCEPT !.beat = TRUE, !.count = n, !.slot = r] BY <1>8, ChangedFiles
  <1>10. Change(p, v) BY <1>2, <1>3, <1>4, <1>6, <1>7, <1>9
  <1>11. Becomes(p, v.size, v.ref, v.slot) BY <1>1, <1>10, BecomesBy
  <1>12. v.size = f.size /\ v.ref = f.ref /\ v.slot = r BY SMTT(30), <1>9, Fields
  <1>13. Becomes(p, f.size, f.ref, r) BY <1>11, <1>12
  <1>14. /\ Becomes(p, file[held[p]].size, file[held[p]].ref, r)
         /\ \A i \in Slots : /\ r[i].pid = file[held[p]].slot[i].pid
                             /\ i \notin gone => r[i].active = file[held[p]].slot[i].active
    BY <1>2, <1>3, <1>8, <1>13
  <1> HIDE <1>7
  <1>15. QED BY ZenonT(40), <1>4, <1>5, <1>8, <1>14
-----------------------------------------------------------------------------
(* Types *)

\* The steps of a process that opens, uses or closes the channel.
LEMMA WorkTypes ==
  ASSUME TypeOK, Placed, NEW p \in Processes, Use(p) \/ Work(p)
  PROVE  TypeOK'
  <1> USE DEF local, sweeping
  <1>1. /\ setup' = setup /\ dead' = dead /\ target' = target
        /\ upset' \subseteq upset \cup {"removing", "double", "failed", "zero", "hasty", "unnamed", "overtaking"}
    BY DEF Use, Work, Create, StartupDone, Open, Stat, Size, InitializeFails, Store, Record, Clear, Count,
           RegisterReader, NameReader, Write, Close, Leave, Check, Drop, Unlink, Blame
  <1>2. file' \in [Objects -> File]
    <2>1. CASE UNCHANGED file BY <2>1 DEF TypeOK
    <2>2. CASE Size(p) \/ Store(p) \/ Record(p) \/ Clear(p) \/ Count(p) \/ Drop(p) BY <2>2, InitializeEffects DEF Becomes
    <2>3. CASE RegisterReader(p) \/ NameReader(p) \/ (Close(p) /\ reading[p] # None) \/ Leave(p)
      BY <2>3, ReaderEffects DEF Becomes
    <2>4. CASE Write(p) BY <2>4, WriteEffects DEF Becomes
    <2>5. QED BY <2>1, <2>2, <2>3, <2>4
          DEF Use, Work, Create, StartupDone, Open, Stat, InitializeFails, Close, Check, Unlink
  <1>3. name' \in Objects \cup {None} /\ next' \in 1 .. MaxObjects + 1 /\ held' \in [Processes -> Objects \cup {None}]
    <2>1. CASE Open(p)
      <3>1. CASE name = None
        <4>1. next \in Objects /\ next' = next + 1 /\ name' = next /\ held' = [held EXCEPT ![p] = next] BY <2>1, <3>1 DEF Open
        <4>2. next' \in 1 .. MaxObjects + 1 BY SMTT(30), <4>1, FileAssumption DEF Objects
        <4>3. QED BY <4>1, <4>2 DEF TypeOK
      <3>2. CASE name # None BY <2>1, <3>2 DEF Open, TypeOK
      <3>3. QED BY <3>1, <3>2
    <2>2. CASE ~Open(p)
      <3>1. /\ next' = next /\ name' \in {name, None}
            /\ held' = held \/ held' = [held EXCEPT ![p] = None]
        BY <2>2 DEF Use, Work, Create, StartupDone, Stat, Size, InitializeFails, Store, Record, Clear, Count,
                    RegisterReader, NameReader, Write, Close, Leave, Check, Drop, Unlink
      <3>2. QED BY <3>1 DEF TypeOK
    <2>3. QED BY <2>1, <2>2
  <1>4. pc' \in [Processes -> Early \cup Attached \cup {"idle", "startup", "open", "unlink"}]
    <2>1. pc' = pc \/ \E l \in Early \cup Attached \cup {"idle", "startup", "open", "unlink"} : pc' = [pc EXCEPT ![p] = l]
      BY DEF Use, Work, Create, StartupDone, Open, Stat, Size, InitializeFails, Store, Record, Clear, Count,
             RegisterReader, NameReader, Write, Close, Leave, Check, Drop, Unlink, Goto, Early, Attached
    <2>2. QED BY <2>1 DEF TypeOK
  <1>5. reading' \in [Processes -> Slots \cup {None}]
    <2>1. CASE RegisterReader(p)
      <3>1. PICK i \in Slots : reading' = [reading EXCEPT ![p] = i] BY <2>1, ReaderEffects
      <3>2. QED BY <3>1 DEF TypeOK
    <2>2. CASE Leave(p) BY <2>2 DEF Leave, TypeOK
    <2>3. CASE UNCHANGED reading BY <2>3 DEF TypeOK
    <2>4. QED BY <2>1, <2>2, <2>3
          DEF Use, Work, Create, StartupDone, Open, Stat, Size, InitializeFails, Store, Record, Clear, Count,
              NameReader, Write, Close, Check, Drop, Unlink
  <1>6. opened' \in [Processes -> Nat]
    <2>1. opened' = opened \/ opened' = [opened EXCEPT ![p] = opened[p] + 1]
      BY DEF Use, Work, Create, StartupDone, Open, Stat, Size, InitializeFails, Store, Record, Clear, Count,
             RegisterReader, NameReader, Write, Close, Leave, Check, Drop, Unlink
    <2>2. QED BY SMTT(30), <2>1 DEF TypeOK
  <1>7. swept' \subseteq Processes /\ thread' \in [Processes -> {"idle", "look", "judge", "remove"}]
    <2>1. (swept' = swept \/ swept' = swept \cup {p}) /\ (thread' = thread \/ thread' = [thread EXCEPT ![p] = "look"])
      BY DEF Use, Work, Create, StartupDone, Open, Stat, Size, InitializeFails, Store, Record, Clear, Count,
             RegisterReader, NameReader, Write, Close, Leave, Check, Drop, Unlink, SweepGoto
    <2>2. QED BY <2>1 DEF TypeOK
  <1>8. QED BY <1>1, <1>2, <1>3, <1>4, <1>5, <1>6, <1>7 DEF TypeOK

\* The steps of a sweep, and kills.
LEMMA SweepTypes ==
  ASSUME TypeOK, NEW p \in Processes, Sweep(p) \/ Kill(p)
  PROVE  TypeOK'
  <1> USE DEF local, sweeping
  <1>1. /\ setup' = setup /\ UNCHANGED <<file, next, pc, held, reading, opened, swept>> /\ name' \in {name, None}
        /\ dead' \subseteq dead \cup {p}
        /\ upset' \subseteq upset \cup {"removing", "unborn", "unrecorded", "idle"}
    BY DEF Sweep, StartSweep, Look, Judge, Doom, Remove, Kill
  <1>2. thread' = thread \/ \E l \in {"idle", "look", "judge", "remove"} : thread' = [thread EXCEPT ![p] = l]
    BY DEF Sweep, StartSweep, Look, Judge, Doom, Remove, Kill, SweepGoto
  <1>3. target' = target \/ \E o \in Objects \cup {None} : target' = [target EXCEPT ![p] = o]
    BY DEF Sweep, StartSweep, Look, Judge, Doom, Remove, Kill, TypeOK
  <1>4. QED BY SMTT(30), <1>1, <1>2, <1>3 DEF TypeOK
-----------------------------------------------------------------------------
(* Where everybody is *)

\* The steps of p leave the others where they are.
LEMMA OthersStay ==
  ASSUME TypeOK, NEW p \in Processes, Use(p) \/ Work(p) \/ Sweep(p)
  PROVE  /\ \A q \in Processes \ {p} : /\ pc'[q] = pc[q] /\ held'[q] = held[q] /\ reading'[q] = reading[q]
                                       /\ thread'[q] = thread[q] /\ target'[q] = target[q]
         /\ dead' = dead /\ upset \subseteq upset' /\ Live(p)
  <1> USE DEF local, sweeping
  <1>1. pc' = pc \/ \E l : pc' = [pc EXCEPT ![p] = l]
    BY DEF Use, Work, Create, StartupDone, Open, Stat, Size, InitializeFails, Store, Record, Clear, Count,
           RegisterReader, NameReader, Write, Close, Leave, Check, Drop, Unlink, Goto,
           Sweep, StartSweep, Look, Judge, Remove
  <1>2. held' = held \/ \E o : held' = [held EXCEPT ![p] = o]
    BY DEF Use, Work, Create, StartupDone, Open, Stat, Size, InitializeFails, Store, Record, Clear, Count,
           RegisterReader, NameReader, Write, Close, Leave, Check, Drop, Unlink,
           Sweep, StartSweep, Look, Judge, Remove
  <1>3. reading' = reading \/ \E i : reading' = [reading EXCEPT ![p] = i]
    BY DEF Use, Work, Create, StartupDone, Open, Stat, Size, InitializeFails, Store, Record, Clear, Count,
           RegisterReader, NameReader, Write, Close, Leave, Check, Drop, Unlink,
           Sweep, StartSweep, Look, Judge, Remove
  <1>4. thread' = thread \/ \E l : thread' = [thread EXCEPT ![p] = l]
    BY DEF Use, Work, Create, StartupDone, Open, Stat, Size, InitializeFails, Store, Record, Clear, Count,
           RegisterReader, NameReader, Write, Close, Leave, Check, Drop, Unlink,
           Sweep, StartSweep, Look, Judge, Doom, Remove, SweepGoto
  <1>5. target' = target \/ \E o : target' = [target EXCEPT ![p] = o]
    BY DEF Use, Work, Create, StartupDone, Open, Stat, Size, InitializeFails, Store, Record, Clear, Count,
           RegisterReader, NameReader, Write, Close, Leave, Check, Drop, Unlink,
           Sweep, StartSweep, Look, Judge, Doom, Remove
  <1>6. dead' = dead /\ upset \subseteq upset' /\ Live(p)
    BY DEF Use, Work, Create, StartupDone, Open, Stat, Size, InitializeFails, Store, Record, Clear, Count,
           RegisterReader, NameReader, Write, Close, Leave, Check, Drop, Unlink, Blame,
           Sweep, StartSweep, Look, Judge, Doom, Remove, At, SweepAt
  <1>7. QED BY SMTT(30), <1>1, <1>2, <1>3, <1>4, <1>5, <1>6 DEF TypeOK

\* No object loses its size; those not yet created are left alone.
LEMMA FilesStay ==
  ASSUME TypeOK, Placed, NEW p \in Processes, Use(p) \/ Work(p)
  PROVE  /\ \A o \in Objects : file[o].size => file'[o].size
         /\ \A o \in Objects : o >= next => file'[o] = file[o]
  <1>1. CASE UNCHANGED file BY <1>1
  <1>2. ASSUME NEW z, NEW n, NEW s, Becomes(p, z, n, s), z = file[held[p]].size \/ z = TRUE
        PROVE  /\ \A o \in Objects : file[o].size => file'[o].size
               /\ \A o \in Objects : o >= next => file'[o] = file[o]
    <2>1. \A o \in Objects : o >= next => o # held[p] BY SMTT(30), <1>2 DEF Becomes, TypeOK, Objects
    <2>2. QED BY <1>2, <2>1 DEF Becomes
  <1>3. CASE Size(p) \/ Store(p) \/ Record(p) \/ Clear(p) \/ Count(p) \/ Drop(p) BY <1>2, <1>3, InitializeEffects
  <1>4. CASE RegisterReader(p) \/ NameReader(p) \/ (Close(p) /\ reading[p] # None) \/ Leave(p)
    BY <1>2, <1>4, ReaderEffects
  <1>5. CASE Write(p) BY <1>2, <1>5, WriteEffects
  <1>6. QED BY <1>1, <1>3, <1>4, <1>5
        DEF Use, Work, Create, StartupDone, Open, Stat, InitializeFails, Close, Check, Unlink

\* What a step of p has to keep.
LEMMA PlacedBy ==
  ASSUME TypeOK, TypeOK', Placed, NEW p \in Processes, next' >= next, name' # None => name' < next',
         \A q \in Processes \ {p} : /\ pc'[q] = pc[q] /\ held'[q] = held[q] /\ reading'[q] = reading[q]
                                    /\ thread'[q] = thread[q] /\ target'[q] = target[q],
         \A o \in Objects : file[o].size => file'[o].size, \A o \in Objects : o >= next => file'[o] = file[o],
         pc'[p] \in Early \cup Attached <=> held'[p] # None, held'[p] # None => held'[p] < next',
         reading'[p] # None => pc'[p] \in {"name", "use", "leave"}, pc'[p] \in {"name", "leave"} => reading'[p] # None,
         thread'[p] \in {"judge", "remove"} => target'[p] # None /\ file'[target'[p]].size
  PROVE  Placed'
  <1>1. next \in Int /\ next' \in Int BY SMTT(30) DEF TypeOK
  <1>2. ASSUME NEW q \in Processes \ {p}
        PROVE  /\ pc'[q] \in Early \cup Attached <=> held'[q] # None
               /\ held'[q] # None => held'[q] < next'
               /\ reading'[q] # None => pc'[q] \in {"name", "use", "leave"}
               /\ pc'[q] \in {"name", "leave"} => reading'[q] # None
               /\ thread'[q] \in {"judge", "remove"} => target'[q] # None /\ file'[target'[q]].size
    <2>1. held'[q] # None => held'[q] < next'
      <3>1. held'[q] # None => held[q] \in Objects /\ held[q] < next BY SMTT(30) DEF TypeOK, Placed
      <3>2. QED BY SMTT(30), <1>1, <3>1 DEF Objects
    <2>2. thread'[q] \in {"judge", "remove"} => target'[q] # None /\ file'[target'[q]].size
      <3>1. thread'[q] \in {"judge", "remove"} => target[q] \in Objects /\ target[q] # None /\ file[target[q]].size
        BY SMTT(30) DEF TypeOK, Placed
      <3>2. QED BY <3>1
    <2>3. QED BY SMTT(30), <2>1, <2>2 DEF Placed
  <1>3. \A o \in Objects : o >= next' => file'[o] = NewFile
    <2>1. \A o \in Objects : o >= next' => o >= next BY SMTT(30), <1>1 DEF Objects
    <2>2. QED BY <2>1 DEF Placed
  <1>4. QED BY <1>2, <1>3 DEF Placed

\* The steps of a process that opens, uses or closes the channel.
LEMMA WorkPlaced ==
  ASSUME TypeOK, TypeOK', Placed, NEW p \in Processes, Use(p) \/ Work(p)
  PROVE  Placed'
  <1> USE DEF local, sweeping
  <1>1. /\ \A q \in Processes \ {p} : /\ pc'[q] = pc[q] /\ held'[q] = held[q] /\ reading'[q] = reading[q]
                                      /\ thread'[q] = thread[q] /\ target'[q] = target[q]
        /\ \A o \in Objects : file[o].size => file'[o].size
        /\ \A o \in Objects : o >= next => file'[o] = file[o]
    BY OthersStay, FilesStay
  <1>2. thread'[p] \in {"judge", "remove"} => target'[p] # None /\ file'[target'[p]].size
    <2>1. target' = target /\ (thread' = thread \/ thread' = [thread EXCEPT ![p] = "look"])
      BY DEF Use, Work, Create, StartupDone, Open, Stat, Size, InitializeFails, Store, Record, Clear, Count,
             RegisterReader, NameReader, Write, Close, Leave, Check, Drop, Unlink, SweepGoto
    <2>2. thread'[p] \in {"judge", "remove"} => thread[p] \in {"judge", "remove"} BY SMTT(30), <2>1 DEF TypeOK
    <2>3. thread[p] \in {"judge", "remove"} => target[p] \in Objects /\ target[p] # None /\ file[target[p]].size
      BY DEF TypeOK, Placed
    <2>4. QED BY <1>1, <2>1, <2>2, <2>3
  <1>3. /\ pc[p] \in Early \cup Attached <=> held[p] # None
        /\ held[p] # None => held[p] < next
        /\ reading[p] # None => pc[p] \in {"name", "use", "leave"}
        /\ pc[p] \in {"name", "leave"} => reading[p] # None
        /\ name # None => name < next
        /\ next \in Int /\ pc[p] \in Early \cup Attached \cup {"idle", "startup", "open", "unlink"}
    BY SMTT(30) DEF Placed, TypeOK
  <1>4. /\ next' >= next /\ (name' # None => name' < next')
        /\ pc'[p] \in Early \cup Attached <=> held'[p] # None
        /\ held'[p] # None => held'[p] < next'
        /\ reading'[p] # None => pc'[p] \in {"name", "use", "leave"}
        /\ pc'[p] \in {"name", "leave"} => reading'[p] # None
    <2>1. CASE Open(p)
      <3>1. pc[p] = "open" /\ pc'[p] = "stat" /\ reading'[p] = reading[p] BY <2>1 DEF Open, At, Goto, TypeOK
      <3>2. held[p] = None /\ reading[p] = None BY <1>3, <3>1 DEF Early, Attached
      <3>3. CASE name = None
        <4>1. next' = next + 1 /\ name' = next /\ held'[p] = next /\ next \in Objects BY SMTT(30), <2>1, <3>3 DEF Open, TypeOK
        <4>2. next # None BY SMTT(30), <4>1, FileAssumption DEF Objects
        <4>3. QED BY SMTT(30), <1>3, <3>1, <3>2, <4>1, <4>2 DEF Early
      <3>4. CASE name # None
        <4>1. next' = next /\ name' = name /\ held'[p] = name BY SMTT(30), <2>1, <3>4 DEF Open, TypeOK
        <4>2. QED BY SMTT(30), <1>3, <3>1, <3>2, <3>4, <4>1 DEF Early
      <3>5. QED BY <3>3, <3>4
    <2>2. CASE InitializeFails(p) \/ Check(p) \/ Drop(p) \/ Unlink(p)
      <3>1. /\ next' = next /\ name' \in {name, None} /\ reading'[p] = reading[p]
            /\ pc[p] \in {"size", "store", "count", "check", "drop", "unlink"}
            /\ \/ pc'[p] \in {"idle", "unlink"} /\ (held'[p] = None \/ (held'[p] = held[p] /\ pc[p] = "unlink"))
               \/ pc'[p] = "drop" /\ held'[p] = held[p] /\ pc[p] = "check"
        <4>1. CASE InitializeFails(p) BY SMTT(30), <4>1 DEF InitializeFails, At, Goto, TypeOK
        <4>2. CASE Check(p) BY SMTT(30), <4>2 DEF Check, At, Goto, TypeOK
        <4>3. CASE Drop(p) BY SMTT(30), <4>3 DEF Drop, At, Goto, TypeOK
        <4>4. CASE Unlink(p) BY SMTT(30), <4>4 DEF Unlink, At, Goto, TypeOK
        <4>5. QED BY <2>2, <4>1, <4>2, <4>3, <4>4
      <3>2. QED BY SMTT(30), <1>3, <3>1 DEF Early, Attached
    <2>3. CASE Create(p) \/ StartupDone(p)
      <3>1. /\ next' = next /\ name' = name /\ held'[p] = held[p] /\ reading'[p] = reading[p]
            /\ pc[p] \in {"idle", "startup"} /\ pc'[p] \in {"startup", "open"}
        BY SMTT(30), <2>3 DEF Create, StartupDone, At, Goto, TypeOK
      <3>2. QED BY SMTT(30), <1>3, <3>1 DEF Early, Attached
    <2>4. CASE Stat(p) \/ Size(p) \/ Store(p) \/ Record(p) \/ Clear(p) \/ Count(p)
      <3>1. /\ next' = next /\ name' = name /\ held'[p] = held[p] /\ reading'[p] = reading[p]
            /\ pc[p] \in {"stat", "size", "store", "record", "clear", "count"}
            /\ pc'[p] \in {"count", "size", "store", "record", "clear", "use"}
        <4>1. CASE Stat(p) BY SMTT(30), <4>1 DEF Stat, At, Goto, TypeOK
        <4>2. CASE Size(p) BY SMTT(30), <4>2 DEF Size, At, Goto, TypeOK
        <4>3. CASE Store(p) BY SMTT(30), <4>3 DEF Store, At, Goto, TypeOK
        <4>4. CASE Record(p) BY SMTT(30), <4>4 DEF Record, At, Goto, TypeOK
        <4>5. CASE Clear(p) BY SMTT(30), <4>5 DEF Clear, At, Goto, TypeOK
        <4>6. CASE Count(p) BY SMTT(30), <4>6 DEF Count, At, Goto, TypeOK
        <4>7. QED BY <2>4, <4>1, <4>2, <4>3, <4>4, <4>5, <4>6
      <3>2. QED BY SMTT(30), <1>3, <3>1 DEF Early, Attached
    <2>5. CASE RegisterReader(p)
      <3>1. PICK i \in Slots : reading' = [reading EXCEPT ![p] = i] BY <2>5, ReaderEffects
      <3>2. /\ next' = next /\ name' = name /\ held'[p] = held[p] /\ reading'[p] = i
            /\ pc[p] = "use" /\ pc'[p] = "name"
        BY SMTT(30), <2>5, <3>1 DEF RegisterReader, At, Goto, TypeOK
      <3>3. i # None BY SMTT(30), FileAssumption DEF Slots
      <3>4. QED BY SMTT(30), <1>3, <3>2, <3>3 DEF Early, Attached
    <2>6. CASE NameReader(p) \/ Write(p)
      <3>1. /\ next' = next /\ name' = name /\ held'[p] = held[p] /\ reading'[p] = reading[p]
            /\ pc[p] \in {"name", "use"} /\ pc'[p] = "use"
        BY <2>6 DEF NameReader, Write, At, Goto, TypeOK
      <3>2. QED BY SMTT(30), <1>3, <3>1 DEF Early, Attached
    <2>7. CASE Close(p) \/ Leave(p)
      <3>1. /\ next' = next /\ name' = name /\ held'[p] = held[p] /\ pc[p] \in {"use", "leave"}
            /\ \/ pc'[p] = "leave" /\ reading'[p] = reading[p] /\ reading[p] # None
               \/ pc'[p] = "check" /\ reading'[p] = None
        <4>1. CASE Close(p) BY SMTT(30), <4>1 DEF Close, At, Goto, TypeOK
        <4>2. CASE Leave(p) BY ZenonT(40), <4>2 DEF Leave, At, Goto, TypeOK
        <4>3. QED BY <2>7, <4>1, <4>2
      <3>2. QED BY SMTT(30), <1>3, <3>1 DEF Early, Attached
    <2>8. QED BY <2>1, <2>2, <2>3, <2>4, <2>5, <2>6, <2>7 DEF Use, Work
  <1>5. QED BY <1>1, <1>2, <1>4, PlacedBy

\* The steps of a sweep, and kills.
LEMMA SweepPlaced ==
  ASSUME TypeOK, TypeOK', Placed, NEW p \in Processes, Sweep(p) \/ Kill(p)
  PROVE  Placed'
  <1> USE DEF local, sweeping
  <1>1. UNCHANGED <<file, next, pc, held, reading>> /\ name' \in {name, None} /\ next \in Int
    BY SMTT(30) DEF Sweep, StartSweep, Look, Judge, Doom, Remove, Kill, TypeOK
  <1>2. \A q \in Processes \ {p} : thread'[q] = thread[q] /\ target'[q] = target[q]
    <2>1. CASE Sweep(p) BY <2>1, OthersStay
    <2>2. CASE Kill(p) BY <2>2 DEF Kill
    <2>3. QED BY <2>1, <2>2
  <1>3. thread'[p] \in {"judge", "remove"} => target'[p] # None /\ file[target'[p]].size
    <2>1. thread[p] \in {"judge", "remove"} => target[p] # None /\ file[target[p]].size BY DEF Placed
    <2>2. CASE StartSweep(p) \/ Kill(p) \/ Remove(p)
      BY SMTT(30), <2>1, <2>2 DEF StartSweep, Kill, Remove, SweepGoto, TypeOK
    <2>3. CASE Look(p)
      <3>1. CASE thread'[p] = "judge"
        <4>1. setup.found /\ \E o \in Objects : name = o /\ file[o].size BY <2>3, <3>1 DEF Look, SweepGoto, TypeOK
        <4>2. target'[p] = name BY <2>3, <4>1 DEF Look, TypeOK
        <4>3. \A o \in Objects : o # None BY SMTT(30), FileAssumption DEF Objects
        <4>4. QED BY <4>1, <4>2, <4>3
      <3>2. CASE thread'[p] = "idle" BY <3>2
      <3>3. QED BY ZenonT(40), <2>3, <3>1, <3>2 DEF Look, SweepGoto, TypeOK
    <2>4. CASE Judge(p)
      <3>1. thread[p] = "judge" /\ (target' = target \/ thread' = [thread EXCEPT ![p] = "idle"])
        BY <2>4 DEF Judge, Doom, SweepAt, SweepGoto
      <3>2. QED BY ZenonT(40), <2>1, <3>1 DEF TypeOK
    <2>5. QED BY <2>2, <2>3, <2>4 DEF Sweep
  <1>4. /\ next' >= next /\ (name' # None => name' < next')
        /\ pc'[p] \in Early \cup Attached <=> held'[p] # None
        /\ held'[p] # None => held'[p] < next'
        /\ reading'[p] # None => pc'[p] \in {"name", "use", "leave"}
        /\ pc'[p] \in {"name", "leave"} => reading'[p] # None
    BY SMTT(30), <1>1 DEF Placed
  <1>5. QED BY <1>1, <1>2, <1>3, <1>4, PlacedBy
-----------------------------------------------------------------------------
(* Steps that leave names, sizes and counts alone *)

\* Two places of a process that the counts, the creators and the names do not tell apart.
Alike(a, b) == a = b \/ (a \in Attached /\ b \in Attached) \/ (a \in {"idle", "startup", "open"} /\ b \in {"startup", "open"})

\* A step that changes none of what the objects' counts, creators and names depend on.
Quiet ==
  /\ UNCHANGED <<name, next, held, dead>>
  /\ \A o \in Objects : file'[o].size = file[o].size /\ file'[o].ref = file[o].ref
  /\ \A q \in Processes : Alike(pc[q], pc'[q])
  /\ upset \subseteq upset' /\ (Removing' => Removing)

\* What is known of the objects: their counts, their creators and their names.
Objective == RefsCountUsers /\ LastRemoves /\ (Calm => Named /\ \A o \in Objects : Born(o))

\* What a holder of a finished object may do.
LEMMA FinishedStays ==
  ASSUME TypeOK, TypeOK', NEW o \in Objects, Finished(o), dead \subseteq dead',
         file'[o].size, file'[o].ref = file[o].ref,
         \A q \in Processes : Live(q) /\ held'[q] = o =>
           held[q] = o /\ (pc[q] \in {"stat", "count"} => pc'[q] \in {"stat", "count"})
  PROVE  Finished(o)'
  <1>1. ASSUME NEW q \in Holders(o)' PROVE file'[o].ref = 0 /\ pc'[q] \in {"stat", "count"}
    <2>1. q \in Processes /\ Live(q) /\ held'[q] = o BY DEF Holders, Live
    <2>2. q \in Holders(o) BY <2>1 DEF Holders
    <2>3. QED BY <2>1, <2>2 DEF Finished
  <1>2. QED BY <1>1 DEF Finished

\* A quiet step keeps what is known of the objects.
LEMMA QuietKeeps ==
  ASSUME TypeOK, TypeOK', Objective, Quiet
  PROVE  Objective'
  <1>1. Calm' => Calm BY DEF Calm, Quiet
  <1>2. \A q \in Processes : /\ pc'[q] \in Attached <=> pc[q] \in Attached
                             /\ \A l \in Early \cup {"unlink"} : pc'[q] = l <=> pc[q] = l
    BY DEF Quiet, Alike, Early, Attached
  <1>3. \A o : Users(o)' = Users(o) BY <1>2 DEF Users, Quiet
  <1>4. RefsCountUsers' BY <1>1, <1>3 DEF Objective, RefsCountUsers, Quiet
  <1>5. LastRemoves'
    <2> SUFFICES ASSUME dead' = {}, "failed" \notin upset', name' # None, \A p \in Processes : pc'[p] # "unlink"
                 PROVE  \/ file'[name'].ref >= 1
                        \/ /\ file'[name'].ref = 0 /\ Users(name)' = {}
                           /\ \E p \in Processes : held'[p] = name' /\ pc'[p] \in Early
      BY DEF LastRemoves
    <2>1. name' = name /\ name \in Objects /\ held' = held BY DEF Quiet, TypeOK
    <2>2. file'[name].ref = file[name].ref BY <2>1 DEF Quiet
    <2>3. dead = {} /\ "failed" \notin upset /\ name # None /\ \A p \in Processes : pc[p] # "unlink"
      BY <1>2, <2>1 DEF Quiet
    <2>4. \/ file[name].ref >= 1
          \/ /\ file[name].ref = 0 /\ Users(name) = {}
             /\ \E p \in Processes : held[p] = name /\ pc[p] \in Early
      BY <2>3 DEF Objective, LastRemoves
    <2>5. Users(name)' = Users(name) BY <1>2, <2>1 DEF Users
    <2>6. \A p \in Processes : pc[p] \in Early => pc'[p] \in Early BY <1>2
    <2>7. QED BY <2>1, <2>2, <2>4, <2>5, <2>6
  <1>6. ASSUME Calm' PROVE Named'
    <2>1. Named BY <1>1, <1>6 DEF Objective
    <2>2. ASSUME NEW o \in Objects, Finished(o) PROVE Finished(o)'
      <3>1. \A q \in Processes : pc[q] \in {"stat", "count"} => pc'[q] = pc[q] BY DEF Quiet, Alike, Attached
      <3>2. QED BY <2>2, <3>1, FinishedStays DEF Quiet, Finished
    <2>3. (\A o \in Objects : o < next /\ o # name => Finished(o))' BY <2>1, <2>2 DEF Named, Quiet
    <2>4. (Removing /\ name # None => Finished(name))' 
      <3>1. name' = name /\ (name # None => name \in Objects) /\ (Removing' => Removing) BY DEF Quiet, TypeOK
      <3>2. QED BY <2>1, <2>2, <3>1 DEF Named
    <2>5. QED BY <2>3, <2>4 DEF Named
  <1>7. ASSUME Calm', NEW o \in Objects PROVE Born(o)'
    <2>1. Born(o) /\ file'[o].size = file[o].size /\ held' = held BY <1>1, <1>7 DEF Objective, Quiet
    <2>2. QED BY SMTT(30), <1>2, <2>1 DEF Born, Early
  <1>8. QED BY <1>4, <1>5, <1>6, <1>7 DEF Objective

\* What makes a step of one process quiet.
LEMMA QuietBy ==
  ASSUME TypeOK, NEW p \in Processes, Use(p) \/ Work(p) \/ Sweep(p), UNCHANGED <<name, next, held>>,
         \A o \in Objects : file'[o].size = file[o].size /\ file'[o].ref = file[o].ref,
         Alike(pc[p], pc'[p]), thread'[p] # "remove" \/ thread'[p] = thread[p]
  PROVE  Quiet
  <1>1. /\ \A q \in Processes \ {p} : pc'[q] = pc[q] /\ thread'[q] = thread[q]
        /\ dead' = dead /\ upset \subseteq upset'
    BY OthersStay
  <1>2. \A q \in Processes : Alike(pc[q], pc'[q]) BY <1>1 DEF Alike
  <1>3. \A q \in Processes : (pc'[q] = "unlink" => pc[q] = "unlink") /\ (thread'[q] = "remove" => thread[q] = "remove")
    BY <1>1, <1>2 DEF Alike, Attached
  <1>4. Removing' => Removing BY <1>1, <1>3 DEF Removing, Live
  <1>5. QED BY <1>1, <1>2, <1>4 DEF Quiet

\* Most steps are of this kind.
LEMMA QuietSteps ==
  ASSUME TypeOK, Placed, NEW p \in Processes,
         \/ Create(p) \/ StartupDone(p) \/ Record(p) \/ Clear(p) \/ RegisterReader(p) \/ NameReader(p)
         \/ Write(p) \/ Close(p) \/ Leave(p) \/ (Check(p) /\ file[held[p]].ref > 0)
         \/ StartSweep(p) \/ Look(p) \/ (Judge(p) /\ thread'[p] # "remove")
  PROVE  Quiet
  <1> USE DEF local, sweeping, Goto, SweepGoto, At, SweepAt, Alike, Attached
  <1>1. ASSUME NEW s, Becomes(p, file[held[p]].size, file[held[p]].ref, s)
        PROVE  \A o \in Objects : file'[o].size = file[o].size /\ file'[o].ref = file[o].ref
    BY <1>1 DEF Becomes
  <1>2. CASE Create(p)
    <2>1. pc[p] = "idle" /\ pc'[p] \in {"open", "startup"} /\ (thread'[p] = thread[p] \/ thread'[p] = "look") /\ UNCHANGED <<name, next, held, file>>
      BY <1>2 DEF Create, TypeOK
    <2>2. QED BY <1>2, <2>1, QuietBy DEF Use
  <1>3. CASE StartupDone(p)
    <2>1. pc[p] = "startup" /\ pc'[p] = "open" /\ UNCHANGED <<thread, name, next, held, file>> BY <1>3 DEF StartupDone, TypeOK
    <2>2. QED BY <1>3, <2>1, QuietBy DEF Work
  <1>4. CASE Record(p) \/ Clear(p)
    <2>1. pc[p] \in Attached /\ pc'[p] \in Attached /\ UNCHANGED <<thread, name, next, held>> BY <1>4 DEF Record, Clear, TypeOK
    <2>2. \A o \in Objects : file'[o].size = file[o].size /\ file'[o].ref = file[o].ref BY <1>1, <1>4, InitializeEffects
    <2>3. QED BY <1>4, <2>1, <2>2, QuietBy DEF Work
  <1>5. CASE RegisterReader(p)
    <2>1. pc[p] \in Attached /\ pc'[p] \in Attached /\ UNCHANGED <<thread, name, next, held>> BY <1>5 DEF RegisterReader, TypeOK
    <2>2. PICK s : Becomes(p, file[held[p]].size, file[held[p]].ref, s) BY <1>5, ReaderEffects
    <2>3. QED BY <1>1, <1>5, <2>1, <2>2, QuietBy DEF Use
  <1>6. CASE NameReader(p) \/ Leave(p)
    <2>1. pc[p] \in Attached /\ pc'[p] \in Attached /\ UNCHANGED <<thread, name, next, held>> BY <1>6 DEF NameReader, Leave, TypeOK
    <2>2. PICK s : Becomes(p, file[held[p]].size, file[held[p]].ref, s) BY <1>6, ReaderEffects
    <2>3. QED BY <1>1, <1>6, <2>1, <2>2, QuietBy DEF Work
  <1>7. CASE Write(p)
    <2>1. pc[p] \in Attached /\ pc'[p] \in Attached /\ UNCHANGED <<thread, name, next, held>> BY <1>7 DEF Write, TypeOK
    <2>2. PICK s : Becomes(p, file[held[p]].size, file[held[p]].ref, s) BY <1>7, WriteEffects
    <2>3. QED BY <1>1, <1>7, <2>1, <2>2, QuietBy DEF Use
  <1>8. CASE Close(p)
    <2>1. pc[p] \in Attached /\ pc'[p] \in Attached /\ UNCHANGED <<thread, name, next, held>> BY <1>8 DEF Close, TypeOK
    <2>2. CASE reading[p] # None
      <3>1. PICK s : Becomes(p, file[held[p]].size, file[held[p]].ref, s) BY <1>8, <2>2, ReaderEffects
      <3>2. QED BY <1>1, <1>8, <2>1, <3>1, QuietBy DEF Use
    <2>3. CASE reading[p] = None
      <3>1. UNCHANGED file BY <1>8, <2>3 DEF Close
      <3>2. QED BY <1>8, <2>1, <3>1, QuietBy DEF Use
    <2>4. QED BY <2>2, <2>3
  <1>9. CASE Check(p) /\ file[held[p]].ref > 0
    <2>1. pc[p] \in Attached /\ pc'[p] \in Attached /\ UNCHANGED <<thread, name, next, held, file>> BY <1>9 DEF Check, TypeOK
    <2>2. QED BY <1>9, <2>1, QuietBy DEF Work
  <1>10. CASE StartSweep(p) \/ Look(p)
    <2>1. UNCHANGED <<pc, name, next, held, file>> /\ thread'[p] # "remove" BY <1>10 DEF StartSweep, Look, TypeOK
    <2>2. QED BY <1>10, <2>1, QuietBy DEF Sweep
  <1>11. CASE Judge(p) /\ thread'[p] # "remove"
    <2>1. UNCHANGED <<pc, name, next, held, file>> BY <1>11 DEF Judge
    <2>2. QED BY <1>11, <2>1, QuietBy DEF Sweep
  <1>12. QED BY <1>2, <1>3, <1>4, <1>5, <1>6, <1>7, <1>8, <1>9, <1>10, <1>11
-----------------------------------------------------------------------------
(* ref_count and its users *)

\* The users of an object are finitely many; a step of p adds or takes away p.
LEMMA Tally ==
  ASSUME TypeOK, NEW p \in Processes, Use(p) \/ Work(p) \/ Sweep(p), NEW o \in Objects
  PROVE  /\ Cardinality(Users(o)) \in Nat
         /\ (p \in Users(o)' <=> p \in Users(o)) => Users(o)' = Users(o)
         /\ p \in Users(o)' /\ p \notin Users(o) =>
              Users(o)' = Users(o) \cup {p} /\ Cardinality(Users(o)') = Cardinality(Users(o)) + 1
         /\ p \notin Users(o)' /\ p \in Users(o) =>
              Users(o)' = Users(o) \ {p} /\ Cardinality(Users(o)') = Cardinality(Users(o)) - 1
  <1>1. \A q \in Processes \ {p} : q \in Users(o)' <=> q \in Users(o) BY OthersStay DEF Users
  <1>2. Users(o) \subseteq Processes /\ Users(o)' \subseteq Processes BY DEF Users
  <1>3. IsFiniteSet(Users(o)) BY <1>2, FileAssumption, FS_Subset
  <1>4. Cardinality(Users(o)) \in Nat BY <1>3, FS_CardinalityType
  <1>5. (p \in Users(o)' <=> p \in Users(o)) => Users(o)' = Users(o) BY SMTT(30), <1>1, <1>2
  <1>6. ASSUME p \in Users(o)', p \notin Users(o)
        PROVE  Users(o)' = Users(o) \cup {p} /\ Cardinality(Users(o)') = Cardinality(Users(o)) + 1
    <2>1. Users(o)' = Users(o) \cup {p} BY <1>1, <1>2, <1>6
    <2>2. QED BY <1>3, <1>6, <2>1, FS_AddElement
  <1>7. ASSUME p \notin Users(o)', p \in Users(o)
        PROVE  Users(o)' = Users(o) \ {p} /\ Cardinality(Users(o)') = Cardinality(Users(o)) - 1
    <2>1. Users(o)' = Users(o) \ {p} BY <1>1, <1>2, <1>7
    <2>2. QED BY <1>3, <1>7, <2>1, FS_RemoveElement
  <1>8. QED BY <1>4, <1>5, <1>6, <1>7
-----------------------------------------------------------------------------
(* What a step of p has to keep, for each part of the invariant *)

\* The counts agree with the users after a step that changes neither.
LEMMA RefsBy ==
  ASSUME TypeOK, NEW p \in Processes, Use(p) \/ Work(p) \/ Sweep(p), RefsCountUsers,
         \A o \in Objects : file'[o].ref = file[o].ref, \A o \in Objects : p \in Users(o)' <=> p \in Users(o)
  PROVE  RefsCountUsers'
  <1>1. Calm' => Calm BY OthersStay DEF Calm
  <1>2. \A o \in Objects : Users(o)' = Users(o) BY Tally
  <1>3. QED BY <1>1, <1>2 DEF RefsCountUsers

\* The named object still has a user, or one on its way, after a step that removes none.
LEMMA RemovesBy ==
  ASSUME TypeOK, NEW p \in Processes, Use(p) \/ Work(p) \/ Sweep(p), LastRemoves,
         pc[p] = "unlink" => pc'[p] = "unlink", name = None => name' = None,
         name # None => /\ name' = name /\ file'[name].ref = file[name].ref
                        /\ p \in Users(name)' <=> p \in Users(name)
                        /\ held[p] = name /\ pc[p] \in Early => held'[p] = name /\ pc'[p] \in Early
  PROVE  LastRemoves'
  <1> SUFFICES ASSUME dead' = {}, "failed" \notin upset', name' # None, \A q \in Processes : pc'[q] # "unlink"
               PROVE  \/ file'[name'].ref >= 1
                      \/ /\ file'[name'].ref = 0 /\ Users(name)' = {}
                         /\ \E q \in Processes : held'[q] = name' /\ pc'[q] \in Early
    BY DEF LastRemoves
  <1>1. /\ \A q \in Processes \ {p} : pc'[q] = pc[q] /\ held'[q] = held[q]
        /\ dead' = dead /\ upset \subseteq upset'
    BY OthersStay
  <1>2. name # None /\ name \in Objects BY DEF TypeOK
  <1>3. dead = {} /\ "failed" \notin upset /\ \A q \in Processes : pc[q] # "unlink" BY <1>1
  <1>4. \/ file[name].ref >= 1
        \/ /\ file[name].ref = 0 /\ Users(name) = {}
           /\ \E q \in Processes : held[q] = name /\ pc[q] \in Early
    BY <1>2, <1>3 DEF LastRemoves
  <1>5. Users(name)' = Users(name)
    <2>1. PICK o \in Objects : o = name /\ o = name' BY <1>2
    <2>2. p \in Users(o)' <=> p \in Users(o) BY <1>2, <2>1 DEF Users
    <2>3. Users(o)' = Users(o) BY <2>2, Tally
    <2>4. QED BY <2>1, <2>3 DEF Users
  <1>6. \A q \in Processes : held[q] = name /\ pc[q] \in Early => held'[q] = name /\ pc'[q] \in Early BY <1>1, <1>2
  <1>7. QED BY <1>2, <1>4, <1>5, <1>6

\* An object keeps its one creator when a process only opens it or moves among its users.
LEMMA BornBy ==
  ASSUME TypeOK, NEW p \in Processes, Use(p) \/ Work(p) \/ Sweep(p), NEW o \in Objects, Born(o),
         file'[o].size = file[o].size,
         held'[p] = o => \/ pc'[p] = "stat"
                         \/ held[p] = o /\ (pc'[p] = pc[p] \/ (pc[p] \in Attached /\ pc'[p] \in Attached))
  PROVE  Born(o)'
  <1>1. \A q \in Processes \ {p} : pc'[q] = pc[q] /\ held'[q] = held[q] BY OthersStay
  <1>2. \A q \in Processes : held'[q] = o =>
          \/ pc'[q] = "stat"
          \/ held[q] = o /\ (pc'[q] = pc[q] \/ (pc[q] \in Attached /\ pc'[q] \in Attached))
    BY <1>1
  <1>3. ASSUME NEW q \in Processes, held'[q] = o PROVE ~file'[o].size => pc'[q] \in {"stat", "size"}
    BY <1>2, <1>3 DEF Born, Attached
  <1>4. ASSUME NEW q \in Processes, held'[q] = o, pc'[q] \in {"size", "store"}
        PROVE  /\ pc'[q] = "size" => ~file'[o].size
               /\ \A r \in Processes \ {q} : held'[r] = o => pc'[r] \in {"stat", "count"}
    <2>1. held[q] = o /\ pc[q] = pc'[q] BY <1>2, <1>4 DEF Attached
    <2>2. \A r \in Processes \ {q} : held[r] = o => pc[r] \in {"stat", "count"} BY <1>4, <2>1 DEF Born
    <2>3. pc'[q] = "size" => ~file'[o].size BY <2>1 DEF Born
    <2>4. QED BY <1>2, <2>2, <2>3 DEF Attached
  <1>5. QED BY <1>3, <1>4 DEF Born

\* An object whose users are gone gains none from a step that does not open it.
LEMMA FinishedBy ==
  ASSUME TypeOK, TypeOK', NEW p \in Processes, Use(p) \/ Work(p) \/ Sweep(p), NEW o \in Objects, Finished(o),
         file'[o].size, file'[o].ref = file[o].ref,
         held'[p] = o => held[p] = o /\ (pc[p] \in {"stat", "count"} => pc'[p] \in {"stat", "count"})
  PROVE  Finished(o)'
  <1>1. (\A q \in Processes \ {p} : pc'[q] = pc[q] /\ held'[q] = held[q]) /\ dead' = dead BY OthersStay
  <1>2. QED BY <1>1, FinishedStays

\* The objects without a name stay finished when the name does not move.
LEMMA NamedBy ==
  ASSUME TypeOK, Named, name' = name, next' = next, \A o \in Objects : Finished(o) => Finished(o)',
         Removing' => Removing
  PROVE  Named'
  <1>1. name # None => name \in Objects BY DEF TypeOK
  <1>2. (\A o \in Objects : o < next /\ o # name => Finished(o))' BY DEF Named
  <1>3. (Removing /\ name # None => Finished(name))' BY <1>1 DEF Named
  <1>4. QED BY <1>2, <1>3 DEF Named

\* A process that uses an object, or is about to create it, has one that is not finished.
LEMMA Unfinished ==
  ASSUME Placed, NEW p \in Processes, Live(p), pc[p] \notin {"stat", "count"}
  PROVE  ~Finished(held[p])
  BY DEF Finished, Holders

\* So it is the one that has the name.
LEMMA UsesName ==
  ASSUME TypeOK, Placed, Named, NEW p \in Processes, Live(p), pc[p] \in Attached
  PROVE  held[p] = name
  <1>1. held[p] \in Objects /\ held[p] < next BY Opened
  <1>2. ~Finished(held[p]) BY Unfinished DEF Attached
  <1>3. QED BY <1>1, <1>2 DEF Named
-----------------------------------------------------------------------------
(* Opening *)

\* shm_open: a fresh object for a free name, the named one otherwise.
LEMMA OpenKeeps ==
  ASSUME TypeOK, TypeOK', Placed, Objective, NEW p \in Processes, Open(p)
  PROVE  Objective'
  <1>1. /\ pc[p] = "open" /\ pc'[p] = "stat" /\ file' = file /\ thread' = thread /\ Work(p) /\ Live(p)
        /\ held[p] = None
    BY SMTT(30) DEF Open, At, Goto, Work, TypeOK, sweeping, Placed, Early, Attached
  <1>2. \/ name = None /\ next \in Objects /\ next' = next + 1 /\ name' = next /\ held'[p] = next
        \/ name # None /\ next' = next /\ name' = name /\ held'[p] = name
    BY SMTT(30) DEF Open, TypeOK
  <1>3. /\ \A q \in Processes \ {p} : pc'[q] = pc[q] /\ held'[q] = held[q]
        /\ dead' = dead /\ (Calm' => Calm)
    BY <1>1, OthersStay DEF Calm
  <1>4. \A o \in Objects : p \notin Users(o) /\ p \notin Users(o)' BY <1>1 DEF Users, Attached
  <1>5. RefsCountUsers' BY <1>1, <1>4, RefsBy DEF Objective
  <1>6. LastRemoves'
    <2>1. CASE name # None
      <3>1. name \in Objects /\ name' = name /\ held[p] # name BY <1>1, <1>2, <2>1 DEF TypeOK
      <3>2. QED BY <1>1, <1>4, <2>1, <3>1, RemovesBy DEF Objective, Users
    <2>2. CASE name = None
      <3>1. PICK o \in Objects : o = next /\ name' = o /\ held'[p] = o BY <1>2, <2>2
      <3>2. file'[o].ref = 0
        <4>1. file[o] = NewFile BY SMTT(30), <3>1 DEF Placed, Objects
        <4>2. QED BY <1>1, <4>1, Blank
      <3>3. \A q \in Processes : held[q] # o
        <4>1. \A q \in Processes : held[q] # None => held[q] \in Objects /\ held[q] < next BY SMTT(30) DEF Placed, TypeOK
        <4>2. o # None BY SMTT(30), FileAssumption DEF Objects
        <4>3. QED BY SMTT(30), <3>1, <4>1, <4>2 DEF Objects
      <3>4. Users(o)' = {} BY <1>1, <1>3, <3>3 DEF Users, Attached
      <3>5. Users(name)' = {} BY <3>1, <3>4 DEF Users
      <3>6. QED BY <1>1, <3>1, <3>2, <3>5 DEF LastRemoves, Early
    <2>3. QED BY <2>1, <2>2
  <1>7. ASSUME Calm', NEW o \in Objects PROVE Born(o)'
    BY <1>1, <1>3, <1>7, BornBy DEF Objective
  <1>8. ASSUME Calm' PROVE Named'
    <2>1. Named BY <1>3, <1>8 DEF Objective
    <2>2. ~Removing
      <3>1. "removing" \notin upset' BY <1>8 DEF Calm
      <3>2. QED BY <3>1 DEF Open, Blame
    <2>3. ~Removing' BY <1>1, <1>3, <2>2 DEF Removing, Live
    <2>4. ASSUME NEW o \in Objects, o < next', o # name' PROVE Finished(o)'
      <3>1. o < next /\ o # name /\ o # held'[p]
        <4>1. CASE name = None
          <5>1. name # o BY SMTT(30), <4>1, FileAssumption DEF Objects
          <5>2. next' = next + 1 /\ name' = next /\ held'[p] = next /\ next \in Int BY SMTT(30), <1>2, <4>1 DEF Objects
          <5>3. QED BY SMTT(30), <2>4, <5>1, <5>2 DEF Objects
        <4>2. CASE name # None BY <1>2, <2>4, <4>2
        <4>3. QED BY <4>1, <4>2
      <3>2. Finished(o) BY <2>1, <3>1 DEF Named
      <3>3. file'[o].size BY <1>1, <3>2 DEF Finished
      <3>4. QED BY <1>1, <3>1, <3>2, <3>3, FinishedBy
    <2>5. QED BY <2>3, <2>4 DEF Named
  <1>9. QED BY ZenonT(40), <1>5, <1>6, <1>7, <1>8 DEF Objective

\* fstat: the process finds the object's size set, and attaches, or not, and creates.
LEMMA StatKeeps ==
  ASSUME TypeOK, TypeOK', Placed, Objective, NEW p \in Processes, Stat(p)
  PROVE  Objective'
  <1>1. /\ pc[p] = "stat" /\ UNCHANGED <<file, thread, name, next, held>> /\ Work(p) /\ Live(p)
        /\ pc'[p] = IF file[held[p]].size THEN "count" ELSE "size"
    BY DEF Stat, At, Goto, Work, TypeOK, sweeping
  <1>2. /\ \A q \in Processes \ {p} : pc'[q] = pc[q] /\ held'[q] = held[q] /\ thread'[q] = thread[q]
        /\ dead' = dead /\ (Calm' => Calm)
    BY <1>1, OthersStay DEF Calm
  <1>3. \A o : p \notin Users(o) /\ p \notin Users(o)' BY <1>1 DEF Users, Attached
  <1>4. RefsCountUsers' BY <1>1, <1>3, RefsBy DEF Objective
  <1>5. LastRemoves' BY <1>1, <1>3, RemovesBy DEF Objective, Early
  <1>6. ASSUME Calm', NEW o \in Objects PROVE Born(o)'
    <2>1. Born(o) BY <1>2, <1>6 DEF Objective
    <2>2. CASE held[p] # o BY <1>1, <2>1, <2>2, BornBy
    <2>3. CASE held[p] = o /\ file[o].size
      <3>1. pc'[p] = "count" BY <1>1, <2>3
      <3>2. QED BY <1>1, <1>2, <2>1, <2>3, <3>1 DEF Born
    <2>4. CASE held[p] = o /\ ~file[o].size
      <3>1. pc'[p] = "size" BY <1>1, <2>4
      <3>2. "double" \notin upset' BY <1>6 DEF Calm
      <3>3. \A q \in Processes \ {p} : held[q] = o => pc[q] # "size" BY <2>4, <3>2 DEF Stat, Blame
      <3>4. \A q \in Processes \ {p} : held[q] = o => pc[q] = "stat" BY <2>1, <2>4, <3>3 DEF Born
      <3>5. QED BY <1>1, <1>2, <2>4, <3>1, <3>4 DEF Born
    <2>5. QED BY <2>2, <2>3, <2>4
  <1>7. ASSUME Calm' PROVE Named'
    <2>1. Named BY <1>2, <1>7 DEF Objective
    <2>2. ASSUME NEW o \in Objects, Finished(o) PROVE Finished(o)'
      <3>1. file[o].size BY <2>2 DEF Finished
      <3>2. QED BY <1>1, <2>2, <3>1, FinishedBy
    <2>3. Removing' => Removing BY <1>1, <1>2 DEF Removing, Live
    <2>4. QED BY <1>1, <2>1, <2>2, <2>3, NamedBy
  <1>8. QED BY <1>4, <1>5, <1>6, <1>7 DEF Objective

\* ftruncate by the creator.
LEMMA SizeKeeps ==
  ASSUME TypeOK, TypeOK', Placed, Objective, NEW p \in Processes, Size(p)
  PROVE  Objective'
  <1>1. /\ pc[p] = "size" /\ pc'[p] = "store" /\ UNCHANGED <<thread, name, next, held>> /\ Work(p) /\ Live(p)
    BY DEF Size, At, Goto, Work, TypeOK, sweeping
  <1>2. /\ \A q \in Processes \ {p} : pc'[q] = pc[q] /\ held'[q] = held[q] /\ thread'[q] = thread[q]
        /\ dead' = dead /\ (Calm' => Calm)
    BY <1>1, OthersStay DEF Calm
  <1>3. /\ held[p] \in Objects /\ file'[held[p]].size /\ file'[held[p]].ref = file[held[p]].ref
        /\ \A o \in Objects : o # held[p] => file'[o] = file[o]
    <2>1. Becomes(p, TRUE, file[held[p]].ref, file[held[p]].slot) BY InitializeEffects
    <2>2. QED BY <2>1 DEF Becomes
  <1>4. \A o : p \notin Users(o) /\ p \notin Users(o)' BY <1>1 DEF Users, Attached
  <1>5. \A o \in Objects : file'[o].ref = file[o].ref BY <1>3
  <1>6. RefsCountUsers' BY <1>1, <1>4, <1>5, RefsBy DEF Objective
  <1>7. LastRemoves'
    <2>1. name # None => name \in Objects BY DEF TypeOK
    <2>2. QED BY <1>1, <1>4, <1>5, <2>1, RemovesBy DEF Objective, Early
  <1>8. ASSUME Calm', NEW o \in Objects PROVE Born(o)'
    <2>1. Born(o) BY <1>2, <1>8 DEF Objective
    <2>2. CASE held[p] # o BY <1>1, <1>3, <2>1, <2>2, BornBy
    <2>3. CASE held[p] = o
      <3>1. \A q \in Processes \ {p} : held[q] = o => pc[q] \in {"stat", "count"} BY <1>1, <2>1, <2>3 DEF Born
      <3>2. QED BY <1>1, <1>2, <1>3, <2>3, <3>1 DEF Born
    <2>4. QED BY <2>2, <2>3
  <1>9. ASSUME Calm' PROVE Named'
    <2>1. Named BY <1>2, <1>9 DEF Objective
    <2>2. ASSUME NEW o \in Objects, Finished(o) PROVE Finished(o)'
      <3>1. o # held[p] BY <1>1, <2>2, Unfinished
      <3>2. file'[o].size /\ file'[o].ref = file[o].ref BY <1>3, <2>2, <3>1 DEF Finished
      <3>3. QED BY <1>1, <2>2, <3>1, <3>2, FinishedBy
    <2>3. Removing' => Removing BY <1>1, <1>2 DEF Removing, Live
    <2>4. QED BY <1>1, <2>1, <2>2, <2>3, NamedBy
  <1>10. QED BY <1>6, <1>7, <1>8, <1>9 DEF Objective

\* An initialize() that gives up lets go of the object and is recorded in upset.
LEMMA FailKeeps ==
  ASSUME TypeOK, TypeOK', Placed, Objective, NEW p \in Processes, InitializeFails(p)
  PROVE  Objective'
  <1>1. /\ pc[p] \in {"size", "store", "count"} /\ pc'[p] = "idle" /\ held'[p] = None /\ "failed" \in upset'
        /\ UNCHANGED <<file, thread, name, next>> /\ Work(p) /\ Live(p)
    BY ZenonT(40) DEF InitializeFails, At, Goto, Blame, Work, TypeOK, sweeping
  <1>2. /\ \A q \in Processes \ {p} : pc'[q] = pc[q] /\ held'[q] = held[q] /\ thread'[q] = thread[q]
        /\ dead' = dead /\ (Calm' => Calm)
    BY <1>1, OthersStay DEF Calm
  <1>3. \A o \in Objects : p \notin Users(o) /\ p \notin Users(o)' /\ held'[p] # o
    BY SMTT(30), <1>1, FileAssumption DEF Users, Attached, Objects
  <1>4. RefsCountUsers' BY <1>1, <1>3, RefsBy DEF Objective
  <1>5. LastRemoves' BY <1>1 DEF LastRemoves
  <1>6. ASSUME Calm', NEW o \in Objects PROVE Born(o)' BY <1>1, <1>2, <1>3, <1>6, BornBy DEF Objective
  <1>7. ASSUME Calm' PROVE Named'
    <2>1. Named BY <1>2, <1>7 DEF Objective
    <2>2. ASSUME NEW o \in Objects, Finished(o) PROVE Finished(o)'
      <3>1. file[o].size BY <2>2 DEF Finished
      <3>2. QED BY <1>1, <1>3, <2>2, <3>1, FinishedBy
    <2>3. Removing' => Removing BY <1>1, <1>2 DEF Removing, Live
    <2>4. QED BY <1>1, <2>1, <2>2, <2>3, NamedBy
  <1>8. QED BY <1>4, <1>5, <1>6, <1>7 DEF Objective

\* The creator has the object to itself until it stores ref_count.
LEMMA StoreKeeps ==
  ASSUME TypeOK, TypeOK', Placed, Objective, NEW p \in Processes, Store(p)
  PROVE  Objective'
  <1>1. /\ pc[p] = "store" /\ pc'[p] = "record" /\ UNCHANGED <<thread, name, next, held>> /\ Work(p) /\ Live(p)
    BY DEF Store, At, Goto, Work, TypeOK, sweeping
  <1>2. /\ \A q \in Processes \ {p} : pc'[q] = pc[q] /\ held'[q] = held[q] /\ thread'[q] = thread[q]
        /\ dead' = dead /\ (Calm' => Calm)
    BY <1>1, OthersStay DEF Calm
  <1>3. PICK o \in Objects : o = held[p] BY <1>1, Opened DEF Early
  <1>4. /\ file'[o].size = file[o].size /\ file'[o].ref = 1
        /\ \A x \in Objects : x # o => file'[x] = file[x]
    <2>1. Becomes(p, file[held[p]].size, 1, file[held[p]].slot) BY InitializeEffects
    <2>2. QED BY <1>3, <2>1 DEF Becomes
  <1>5. /\ p \in Users(o)' /\ p \notin Users(o)
        /\ \A x : x # o => p \notin Users(x) /\ p \notin Users(x)'
    BY <1>1, <1>3 DEF Users, Attached
  <1>6. Calm => Users(o) = {}
    <2>1. Calm => \A q \in Processes \ {p} : held[q] = o => pc[q] \in {"stat", "count"}
      BY <1>1, <1>3 DEF Objective, Born
    <2>2. QED BY <1>1, <2>1 DEF Users, Attached
  <1>7. RefsCountUsers'
    <2>1. ASSUME NEW x \in Objects, x # o
          PROVE  (file[x].ref <= Cardinality(Users(x)) /\ (Calm => file[x].ref = Cardinality(Users(x))))'
      <3>1. Users(x)' = Users(x) BY <1>1, <1>5, <2>1, Tally
      <3>2. QED BY <1>2, <1>4, <2>1, <3>1 DEF Objective, RefsCountUsers
    <2>2. Cardinality(Users(o)) \in Nat /\ Cardinality(Users(o)') = Cardinality(Users(o)) + 1 BY <1>1, <1>5, Tally
    <2>3. Calm => Cardinality(Users(o)) = 0 BY <1>6, FS_EmptySet
    <2>4. (file[o].ref <= Cardinality(Users(o)) /\ (Calm => file[o].ref = Cardinality(Users(o))))'
      BY SMTT(30), <1>2, <1>4, <2>2, <2>3
    <2>5. QED BY <2>1, <2>4 DEF RefsCountUsers
  <1>8. LastRemoves'
    <2>1. CASE name = o BY SMTT(30), <1>1, <1>4, <2>1 DEF LastRemoves
    <2>2. CASE name # o
      <3>1. name # None => name \in Objects BY DEF TypeOK
      <3>2. QED BY <1>1, <1>3, <1>4, <1>5, <2>2, <3>1, RemovesBy DEF Objective
    <2>3. QED BY <2>1, <2>2
  <1>9. ASSUME Calm', NEW x \in Objects PROVE Born(x)'
    <2>1. Born(x) BY <1>2, <1>9 DEF Objective
    <2>2. CASE x # o BY <1>1, <1>3, <1>4, <2>1, <2>2, BornBy
    <2>3. CASE x = o
      <3>1. file[o].size /\ \A q \in Processes \ {p} : held[q] = o => pc[q] \in {"stat", "count"}
        BY <1>1, <1>3, <2>1, <2>3 DEF Born
      <3>2. QED BY <1>1, <1>2, <1>3, <1>4, <2>3, <3>1 DEF Born
    <2>4. QED BY <2>2, <2>3
  <1>10. ASSUME Calm' PROVE Named'
    <2>1. Named BY <1>2, <1>10 DEF Objective
    <2>2. ASSUME NEW x \in Objects, Finished(x) PROVE Finished(x)'
      <3>1. x # o BY <1>1, <1>3, <2>2, Unfinished
      <3>2. file'[x].size /\ file'[x].ref = file[x].ref BY <1>4, <2>2, <3>1 DEF Finished
      <3>3. QED BY <1>1, <1>3, <2>2, <3>1, <3>2, FinishedBy
    <2>3. Removing' => Removing BY <1>1, <1>2 DEF Removing, Live
    <2>4. QED BY <1>1, <2>1, <2>2, <2>3, NamedBy
  <1>11. QED BY <1>7, <1>8, <1>9, <1>10 DEF Objective

\* Who counts itself finds users already, unless a race is noted.
LEMMA CountKeeps ==
  ASSUME TypeOK, TypeOK', Placed, Objective, NEW p \in Processes, Count(p)
  PROVE  Objective'
  <1>1. /\ pc[p] = "count" /\ pc'[p] = "use" /\ UNCHANGED <<thread, name, next, held>> /\ Work(p) /\ Live(p)
    BY DEF Count, At, Goto, Work, TypeOK, sweeping
  <1>2. /\ \A q \in Processes \ {p} : pc'[q] = pc[q] /\ held'[q] = held[q] /\ thread'[q] = thread[q]
        /\ dead' = dead /\ upset \subseteq upset' /\ (Calm' => Calm)
    BY <1>1, OthersStay DEF Calm
  <1>3. PICK o \in Objects : o = held[p] BY <1>1, Opened DEF Early
  <1>4. /\ file'[o].size = file[o].size /\ file'[o].ref = file[o].ref + 1
        /\ \A x \in Objects : x # o => file'[x] = file[x]
    <2>1. Becomes(p, file[held[p]].size, file[held[p]].ref + 1, file[held[p]].slot) BY InitializeEffects
    <2>2. QED BY <1>3, <2>1 DEF Becomes
  <1>5. /\ p \in Users(o)' /\ p \notin Users(o)
        /\ \A x : x # o => p \notin Users(x) /\ p \notin Users(x)'
    BY <1>1, <1>3 DEF Users, Attached
  <1>6. Calm' => file[o].ref # 0 BY <1>3 DEF Count, Blame, Calm
  <1>7. file[o].ref \in Int BY FileParts DEF TypeOK
  <1>8. RefsCountUsers'
    <2>1. ASSUME NEW x \in Objects, x # o
          PROVE  (file[x].ref <= Cardinality(Users(x)) /\ (Calm => file[x].ref = Cardinality(Users(x))))'
      <3>1. Users(x)' = Users(x) BY <1>1, <1>5, <2>1, Tally
      <3>2. QED BY <1>2, <1>4, <2>1, <3>1 DEF Objective, RefsCountUsers
    <2>2. Cardinality(Users(o)) \in Nat /\ Cardinality(Users(o)') = Cardinality(Users(o)) + 1 BY <1>1, <1>5, Tally
    <2>3. file[o].ref <= Cardinality(Users(o)) /\ (Calm => file[o].ref = Cardinality(Users(o)))
      BY DEF Objective, RefsCountUsers
    <2>4. (file[o].ref <= Cardinality(Users(o)) /\ (Calm => file[o].ref = Cardinality(Users(o))))'
      BY SMTT(30), <1>2, <1>4, <1>7, <2>2, <2>3
    <2>5. QED BY <2>1, <2>4 DEF RefsCountUsers
  <1>9. LastRemoves'
    <2>1. CASE name = o
      <3> SUFFICES ASSUME dead' = {}, "failed" \notin upset', \A q \in Processes : pc'[q] # "unlink"
                   PROVE  file'[o].ref >= 1
        BY <1>1, <2>1 DEF LastRemoves
      <3>1. o # None BY SMTT(30), FileAssumption DEF Objects
      <3>2. file[o].ref >= 1 \/ file[o].ref = 0
        BY <1>1, <1>2, <2>1, <3>1 DEF Objective, LastRemoves
      <3>3. QED BY SMTT(30), <1>4, <1>7, <3>2
    <2>2. CASE name # o
      <3>1. name # None => name \in Objects BY DEF TypeOK
      <3>2. QED BY <1>1, <1>3, <1>4, <1>5, <2>2, <3>1, RemovesBy DEF Objective
    <2>3. QED BY <2>1, <2>2
  <1>10. ASSUME Calm', NEW x \in Objects PROVE Born(x)'
    <2>1. Born(x) BY <1>2, <1>10 DEF Objective
    <2>2. CASE x # o BY <1>1, <1>3, <1>4, <2>1, <2>2, BornBy
    <2>3. CASE x = o
      <3>1. file[o].size BY <1>1, <1>3, <2>1, <2>3 DEF Born
      <3>2. ASSUME NEW r \in Processes, held[r] = o, pc[r] \in {"size", "store"} PROVE FALSE
        <4>1. \A q \in Processes \ {r} : held[q] = o => pc[q] \in {"stat", "count"} BY <2>1, <2>3, <3>2 DEF Born
        <4>2. Users(o) = {} BY <3>2, <4>1 DEF Users, Attached
        <4>3. file[o].ref = 0 BY <1>2, <1>10, <4>2, FS_EmptySet DEF Objective, RefsCountUsers
        <4>4. QED BY <1>6, <1>10, <4>3
      <3>3. QED BY <1>1, <1>2, <1>3, <1>4, <2>3, <3>1, <3>2 DEF Born
    <2>4. QED BY <2>2, <2>3
  <1>11. ASSUME Calm' PROVE Named'
    <2>1. Named BY <1>2, <1>11 DEF Objective
    <2>2. ASSUME NEW x \in Objects, Finished(x) PROVE Finished(x)'
      <3>1. x # o BY <1>1, <1>3, <1>6, <1>11, <2>2 DEF Finished, Holders
      <3>2. file'[x].size /\ file'[x].ref = file[x].ref BY <1>4, <2>2, <3>1 DEF Finished
      <3>3. QED BY <1>1, <1>3, <2>2, <3>1, <3>2, FinishedBy
    <2>3. Removing' => Removing BY <1>1, <1>2 DEF Removing, Live
    <2>4. QED BY <1>1, <2>1, <2>2, <2>3, NamedBy
  <1>12. QED BY <1>8, <1>9, <1>10, <1>11 DEF Objective
-----------------------------------------------------------------------------
(* Closing and removing *)

\* Who finds ref_count at 0 while it has the object open leaves without counting
\* down: a race was noted, and others remain.
LEMMA CheckKeeps ==
  ASSUME TypeOK, TypeOK', Placed, Objective, NEW p \in Processes, Check(p), ~(file[held[p]].ref > 0)
  PROVE  Objective'
  <1>1. /\ pc[p] = "check" /\ pc'[p] = "idle" /\ held'[p] = None /\ UNCHANGED <<file, thread, name, next>>
        /\ Work(p) /\ Live(p)
    BY SMTT(30) DEF Check, At, Goto, Work, TypeOK, sweeping
  <1>2. /\ \A q \in Processes \ {p} : pc'[q] = pc[q] /\ held'[q] = held[q] /\ thread'[q] = thread[q]
        /\ dead' = dead /\ upset \subseteq upset' /\ (Calm' => Calm)
    BY <1>1, OthersStay DEF Calm
  <1>3. PICK o \in Objects : o = held[p] BY <1>1, Opened DEF Attached
  <1>4. o # None BY SMTT(30), FileAssumption DEF Objects
  <1>5. /\ p \in Users(o) /\ p \notin Users(o)'
        /\ \A x \in Objects : x # o => p \notin Users(x) /\ p \notin Users(x)'
    BY <1>1, <1>3 DEF Users, Attached
  <1>6. file[o].ref \in Int /\ file[o].ref <= 0
    <2>1. file[o].ref \in Int BY FileParts DEF TypeOK
    <2>2. QED BY SMTT(30), <1>3, <2>1
  <1>7. /\ Cardinality(Users(o)) \in Nat /\ Cardinality(Users(o)) >= 1
        /\ Cardinality(Users(o)') = Cardinality(Users(o)) - 1
    <2>1. IsFiniteSet(Users(o)) BY FileAssumption, FS_Subset DEF Users
    <2>2. Cardinality(Users(o)) # 0 BY <1>5, <2>1, FS_EmptySet
    <2>3. QED BY SMTT(30), <1>1, <1>5, <2>2, Tally
  <1>8. ~Calm BY SMTT(30), <1>6, <1>7 DEF Objective, RefsCountUsers
  <1>9. RefsCountUsers'
    <2>1. ASSUME NEW x \in Objects, x # o PROVE file'[x].ref <= Cardinality(Users(x)')
      <3>1. Users(x)' = Users(x) BY <1>1, <1>5, <2>1, Tally
      <3>2. QED BY <1>1, <3>1 DEF Objective, RefsCountUsers
    <2>2. file'[o].ref <= Cardinality(Users(o)') BY SMTT(30), <1>1, <1>6, <1>7
    <2>3. QED BY <1>2, <1>8, <2>1, <2>2 DEF RefsCountUsers
  <1>10. LastRemoves'
    <2>1. CASE name = o
      <3>1. Users(name) # {} BY <1>5, <2>1
      <3>2. ~(file[name].ref >= 1) BY SMTT(30), <1>6, <2>1
      <3>3. ~(dead = {} /\ "failed" \notin upset /\ \A q \in Processes : pc[q] # "unlink")
        BY <1>4, <2>1, <3>1, <3>2 DEF Objective, LastRemoves
      <3>4. QED BY <1>1, <1>2, <3>3 DEF LastRemoves
    <2>2. CASE name # o
      <3>1. name # None => name \in Objects BY DEF TypeOK
      <3>2. QED BY <1>1, <1>3, <1>5, <2>2, <3>1, RemovesBy DEF Objective
    <2>3. QED BY <2>1, <2>2
  <1>11. QED BY <1>2, <1>8, <1>9, <1>10 DEF Objective

\* Who brings ref_count to 0 leaves an object that is finished.
LEMMA DropKeeps ==
  ASSUME TypeOK, TypeOK', Placed, Objective, NEW p \in Processes, Drop(p)
  PROVE  Objective'
  <1>1. /\ pc[p] = "drop" /\ held'[p] = None /\ UNCHANGED <<thread, name, next>> /\ Work(p) /\ Live(p)
        /\ pc'[p] = IF file[held[p]].ref = 1 THEN "unlink" ELSE "idle"
    BY SMTT(30) DEF Drop, At, Goto, Work, TypeOK, sweeping
  <1>2. /\ \A q \in Processes \ {p} : pc'[q] = pc[q] /\ held'[q] = held[q] /\ thread'[q] = thread[q]
        /\ dead' = dead /\ upset \subseteq upset' /\ (Calm' => Calm)
    BY <1>1, OthersStay DEF Calm
  <1>3. PICK o \in Objects : o = held[p] BY <1>1, Opened DEF Attached
  <1>4. /\ file'[o].size = file[o].size /\ file'[o].ref = file[o].ref - 1
        /\ \A x \in Objects : x # o => file'[x] = file[x]
    <2>1. Becomes(p, file[held[p]].size, file[held[p]].ref - 1, file[held[p]].slot) BY InitializeEffects
    <2>2. QED BY <1>3, <2>1 DEF Becomes
  <1>5. \A x \in Objects : x # None BY SMTT(30), FileAssumption DEF Objects
  <1>6. /\ p \in Users(o) /\ p \notin Users(o)'
        /\ \A x \in Objects : x # o => p \notin Users(x) /\ p \notin Users(x)'
    BY <1>1, <1>3, <1>5 DEF Users, Attached
  <1>7. file[o].ref \in Int BY FileParts DEF TypeOK
  <1>8. /\ Cardinality(Users(o)) \in Nat /\ Cardinality(Users(o)') = Cardinality(Users(o)) - 1
        /\ Users(o)' = Users(o) \ {p}
    BY <1>1, <1>6, Tally
  <1>9. file[o].ref <= Cardinality(Users(o)) /\ (Calm => file[o].ref = Cardinality(Users(o)))
    BY DEF Objective, RefsCountUsers
  <1>10. RefsCountUsers'
    <2>1. ASSUME NEW x \in Objects, x # o
          PROVE  (file[x].ref <= Cardinality(Users(x)) /\ (Calm => file[x].ref = Cardinality(Users(x))))'
      <3>1. Users(x)' = Users(x) BY <1>1, <1>6, <2>1, Tally
      <3>2. QED BY <1>2, <1>4, <2>1, <3>1 DEF Objective, RefsCountUsers
    <2>2. (file[o].ref <= Cardinality(Users(o)) /\ (Calm => file[o].ref = Cardinality(Users(o))))'
      BY SMTT(30), <1>2, <1>4, <1>7, <1>8, <1>9
    <2>3. QED BY <2>1, <2>2 DEF RefsCountUsers
  <1>11. LastRemoves'
    <2>1. CASE name = o
      <3> SUFFICES ASSUME dead' = {}, "failed" \notin upset', \A q \in Processes : pc'[q] # "unlink"
                   PROVE  file'[o].ref >= 1
        BY <1>1, <2>1 DEF LastRemoves
      <3>1. \A q \in Processes : pc[q] # "unlink" BY <1>1, <1>2
      <3>2. file[o].ref >= 1 BY <1>2, <1>5, <1>6, <2>1, <3>1 DEF Objective, LastRemoves
      <3>3. file[o].ref # 1 BY <1>1, <1>3
      <3>4. QED BY SMTT(30), <1>4, <1>7, <3>2, <3>3
    <2>2. CASE name # o
      <3>1. name # None => name \in Objects BY DEF TypeOK
      <3>2. QED BY <1>1, <1>3, <1>4, <1>6, <2>2, <3>1, RemovesBy DEF Objective
    <2>3. QED BY <2>1, <2>2
  <1>12. ASSUME Calm', NEW x \in Objects PROVE Born(x)'
    <2>1. file'[x].size = file[x].size BY <1>4
    <2>2. QED BY <1>1, <1>2, <1>5, <1>12, <2>1, BornBy DEF Objective
  <1>13. ASSUME Calm' PROVE Named'
    <2>1. Named BY <1>2, <1>13 DEF Objective
    <2>2. o = name BY <1>1, <1>3, <2>1, UsesName DEF Attached
    <2>3. ASSUME NEW x \in Objects, Finished(x) PROVE Finished(x)'
      <3>1. x # o BY <1>1, <1>3, <2>3, Unfinished
      <3>2. file'[x].size /\ file'[x].ref = file[x].ref BY <1>4, <2>3, <3>1 DEF Finished
      <3>3. QED BY <1>1, <1>5, <2>3, <3>2, FinishedBy
    <2>4. CASE file[o].ref # 1
      <3>1. pc'[p] = "idle" BY <1>1, <1>3, <2>4
      <3>2. Removing' => Removing BY <1>1, <1>2, <3>1 DEF Removing, Live
      <3>3. QED BY <1>1, <2>1, <2>3, <3>2, NamedBy
    <2>5. CASE file[o].ref = 1
      <3>1. Born(o) BY <1>2, <1>13 DEF Objective
      <3>2. file[o].size BY <1>1, <1>3, <3>1 DEF Born
      <3>3. Cardinality(Users(o)') = 0 BY SMTT(30), <1>2, <1>8, <1>9, <1>13, <2>5
      <3>4. Users(o)' = {}
        <4>1. IsFiniteSet(Users(o)') BY FileAssumption, FS_Subset DEF Users
        <4>2. QED BY <3>3, <4>1, FS_EmptySet
      <3>5. ASSUME NEW q \in Processes, held'[q] = o PROVE pc'[q] \in {"stat", "count"}
        <4>1. q # p /\ held[q] = o /\ pc'[q] = pc[q] BY <1>1, <1>2, <1>5, <3>5
        <4>2. pc[q] \notin Attached BY <3>4, <3>5, <4>1 DEF Users
        <4>3. pc[q] \in Early BY <1>5, <4>1, <4>2 DEF Placed
        <4>4. pc[q] \notin {"size", "store"} BY <1>1, <1>3, <3>1, <4>1 DEF Born
        <4>5. QED BY <4>1, <4>3, <4>4 DEF Early
      <3>6. file'[o].ref = 0 BY SMTT(30), <1>4, <2>5
      <3>7. Finished(o)' BY <1>4, <3>2, <3>5, <3>6 DEF Finished, Holders
      <3>8. \A x \in Objects : x < next' /\ x # name' => Finished(x)' BY <1>1, <2>1, <2>3 DEF Named
      <3>9. QED BY <1>1, <2>2, <3>7, <3>8 DEF Named
    <2>6. QED BY <2>4, <2>5
  <1>14. QED BY <1>10, <1>11, <1>12, <1>13 DEF Objective

\* The name that is removed is that of a finished object.
LEMMA RemoveKeeps ==
  ASSUME TypeOK, TypeOK', Placed, Objective, NEW p \in Processes, Unlink(p) \/ Remove(p)
  PROVE  Objective'
  <1>1. /\ name' = None /\ UNCHANGED <<file, next, held>> /\ (pc'[p] = pc[p] \/ (pc[p] = "unlink" /\ pc'[p] = "idle"))
        /\ Work(p) \/ Sweep(p)
        /\ Live(p) /\ (pc[p] = "unlink" \/ thread[p] = "remove")
    BY DEF Unlink, Remove, At, SweepAt, Goto, Work, Sweep, TypeOK, local, sweeping
  <1>2. Calm' => Calm BY <1>1, OthersStay DEF Calm
  <1>3. \A o \in Objects : p \in Users(o)' <=> p \in Users(o) BY <1>1 DEF Users, Attached
  <1>4. RefsCountUsers' BY <1>1, <1>3, RefsBy DEF Objective
  <1>5. LastRemoves' BY <1>1 DEF LastRemoves
  <1>6. \A o \in Objects : held[p] = o => pc'[p] = pc[p]
    <2>1. pc[p] = "unlink" => held[p] = None BY DEF Placed, Early, Attached
    <2>2. \A o \in Objects : o # None BY SMTT(30), FileAssumption DEF Objects
    <2>3. QED BY <1>1, <2>1, <2>2
  <1>7. ASSUME Calm', NEW o \in Objects PROVE Born(o)' BY <1>1, <1>2, <1>6, <1>7, BornBy DEF Objective
  <1>8. ASSUME Calm' PROVE Named'
    <2>1. Named BY <1>2, <1>8 DEF Objective
    <2>2. Removing BY <1>1 DEF Removing
    <2>3. ASSUME NEW o \in Objects, o < next PROVE Finished(o)'
      <3>1. o # None BY SMTT(30), FileAssumption DEF Objects
      <3>2. Finished(o) BY <2>1, <2>2, <2>3, <3>1 DEF Named
      <3>3. file[o].size BY <3>2 DEF Finished
      <3>4. QED BY <1>1, <1>6, <3>2, <3>3, FinishedBy
    <2>4. QED BY <1>1, <2>3 DEF Named
  <1>9. QED BY <1>4, <1>5, <1>7, <1>8 DEF Objective

\* A sweep dooms the object that has the name only when it is finished.
LEMMA DoomKeeps ==
  ASSUME TypeOK, TypeOK', Placed, Objective, NEW p \in Processes, Judge(p), thread'[p] = "remove"
  PROVE  Objective'
  <1>1. /\ UNCHANGED <<file, name, next, pc, held, dead>> /\ Sweep(p) /\ thread[p] = "judge" /\ upset \subseteq upset'
    BY DEF Judge, Doom, SweepAt, Sweep, local
  <1>2. Calm' => Calm BY <1>1 DEF Calm
  <1>3. \A x : Users(x)' = Users(x) BY <1>1 DEF Users
  <1>4. RefsCountUsers' BY <1>1, <1>3, RefsBy DEF Objective
  <1>5. LastRemoves'
    <2>1. name # None => name \in Objects BY DEF TypeOK
    <2>2. QED BY <1>1, <1>3, <2>1, RemovesBy DEF Objective
  <1>6. ASSUME Calm', NEW x \in Objects PROVE Born(x)' BY <1>1, <1>2, <1>6 DEF Objective, Born
  <1>7. ASSUME Calm' PROVE Named'
    <2>1. Named BY <1>2, <1>7 DEF Objective
    <2>2. PICK o \in Objects : o = target[p] /\ file[o].size BY <1>1 DEF Placed, TypeOK
    <2>3. \/ Unreferenced(o) /\ Doom(p, \E q \in Holders(o) : pc[q] = "store", "unborn")
          \/ AllDead(o) /\ Doom(p, ~(Holders(o) \subseteq Recorded(o)), "unrecorded")
          \/ Doom(p, Holders(o) # {}, "idle")
      <3>1. ~SweepGoto(p, "idle") BY DEF SweepGoto, TypeOK
      <3>2. QED BY <2>2, <3>1 DEF Judge
    <2>4. {"removing", "unborn", "unrecorded", "idle"} \cap upset' = {} BY <1>7 DEF Calm
    <2>5. name \in {o, None} BY <2>2, <2>3, <2>4 DEF Doom
    <2>6. Finished(o)
      <3>1. CASE Unreferenced(o) /\ ~\E q \in Holders(o) : pc[q] = "store"
        <4>1. Users(o) = {}
          <5>1. IsFiniteSet(Users(o)) BY FileAssumption, FS_Subset DEF Users
          <5>2. Cardinality(Users(o)) = 0 BY <1>2, <1>7, <3>1 DEF Unreferenced, Objective, RefsCountUsers
          <5>3. QED BY <5>1, <5>2, FS_EmptySet
        <4>2. ASSUME NEW q \in Holders(o) PROVE pc[q] \in {"stat", "count"}
          <5>1. q \in Processes /\ held[q] = o BY DEF Holders
          <5>2. o # None BY SMTT(30), FileAssumption DEF Objects
          <5>3. pc[q] \in Early \cup Attached BY <5>1, <5>2 DEF Placed
          <5>4. pc[q] \notin Attached BY <4>1, <5>1 DEF Users
          <5>5. pc[q] # "size" BY <1>2, <1>7, <2>2, <5>1 DEF Objective, Born
          <5>6. pc[q] # "store" BY <3>1
          <5>7. QED BY <5>3, <5>4, <5>5, <5>6 DEF Early
        <4>3. QED BY <2>2, <3>1, <4>2 DEF Finished, Unreferenced
      <3>2. CASE AllDead(o) /\ Holders(o) \subseteq Recorded(o)
        <4>1. Recorded(o) \subseteq dead \cup {None} BY <3>2 DEF AllDead, Recorded
        <4>2. Holders(o) \cap (dead \cup {None}) = {} BY FileAssumption DEF Holders, Live
        <4>3. Holders(o) = {} BY <3>2, <4>1, <4>2
        <4>4. QED BY <2>2, <4>3 DEF Finished
      <3>3. CASE Holders(o) = {} BY <2>2, <3>3 DEF Finished
      <3>4. QED BY <2>3, <2>4, <3>1, <3>2, <3>3 DEF Doom
    <2>7. \A x \in Objects : Finished(x) => Finished(x)' BY <1>1 DEF Finished, Holders, Live
    <2>8. QED BY <1>1, <2>1, <2>5, <2>6, <2>7 DEF Named
  <1>8. QED BY <1>4, <1>5, <1>6, <1>7 DEF Objective

\* A killed process leaves the object as it is.
LEMMA KillKeeps ==
  ASSUME TypeOK, TypeOK', Objective, NEW p \in Processes, Kill(p)
  PROVE  Objective'
  <1>1. UNCHANGED <<file, name, next, pc, held, thread, upset>> /\ dead' = dead \cup {p} BY DEF Kill, local, sweeping
  <1>2. \A x : Users(x)' = Users(x) BY <1>1 DEF Users
  <1>3. Calm' => Calm BY <1>1 DEF Calm
  <1>4. RefsCountUsers' BY <1>1, <1>2, <1>3 DEF Objective, RefsCountUsers
  <1>5. LastRemoves' BY <1>1 DEF LastRemoves
  <1>6. ASSUME Calm', NEW x \in Objects PROVE Born(x)' BY <1>1, <1>3, <1>6 DEF Objective, Born
  <1>7. ASSUME Calm' PROVE Named'
    <2>1. Named BY <1>3, <1>7 DEF Objective
    <2>2. \A x \in Objects : Finished(x) => Finished(x)' BY <1>1 DEF Finished, Holders, Live
    <2>3. Removing' => Removing BY <1>1 DEF Removing, Live
    <2>4. QED BY <1>1, <2>1, <2>2, <2>3, NamedBy
  <1>8. QED BY <1>4, <1>5, <1>6, <1>7 DEF Objective

\* Every step keeps what is known of the objects.
LEMMA ObjectiveKept ==
  ASSUME TypeOK, TypeOK', Placed, Objective, NEW p \in Processes, Use(p) \/ Work(p) \/ Sweep(p) \/ Kill(p)
  PROVE  Objective'
  <1>1. CASE Quiet BY <1>1, QuietKeeps
  <1>2. CASE Open(p) \/ Stat(p) \/ Size(p) \/ InitializeFails(p) \/ Store(p) \/ Count(p)
    BY <1>2, OpenKeeps, StatKeeps, SizeKeeps, FailKeeps, StoreKeeps, CountKeeps
  <1>3. CASE (Check(p) /\ ~(file[held[p]].ref > 0)) \/ Drop(p) \/ Unlink(p) \/ Remove(p)
    BY <1>3, CheckKeeps, DropKeeps, RemoveKeeps
  <1>4. CASE (Judge(p) /\ thread'[p] = "remove") \/ Kill(p) BY <1>4, DoomKeeps, KillKeeps
  <1>5. QED BY <1>1, <1>2, <1>3, <1>4, QuietSteps DEF Use, Work, Sweep
-----------------------------------------------------------------------------
(* The creator of an object *)

\* What the races and the heartbeats allow now, they allowed before.
LEMMA OrderlyBefore ==
  ASSUME TypeOK, NEW p \in Processes, Use(p) \/ Work(p) \/ Sweep(p) \/ Kill(p), Orderly'
  PROVE  Orderly
  <1>1. setup' = setup
    BY DEF Use, Work, Create, StartupDone, Open, Stat, Size, InitializeFails, Store, Record, Clear, Count,
           RegisterReader, NameReader, Write, Close, Leave, Check, Drop, Unlink,
           Sweep, StartSweep, Look, Judge, Remove, Kill
  <1>2. upset \subseteq upset' BY OthersStay DEF Kill
  <1>3. QED BY <1>1, <1>2 DEF Orderly

\* Only ftruncate gives an object a size.
LEMMA SizesStay ==
  ASSUME TypeOK, Placed, NEW p \in Processes, Use(p) \/ Work(p) \/ Sweep(p), ~Size(p)
  PROVE  \A o \in Objects : file'[o].size = file[o].size
  <1>1. CASE UNCHANGED file BY <1>1
  <1>2. ASSUME NEW n, NEW s, Becomes(p, file[held[p]].size, n, s) PROVE \A o \in Objects : file'[o].size = file[o].size
    BY <1>2 DEF Becomes
  <1>3. CASE Store(p) \/ Record(p) \/ Clear(p) \/ Count(p) \/ Drop(p) BY <1>2, <1>3, InitializeEffects
  <1>4. CASE RegisterReader(p) \/ NameReader(p) \/ (Close(p) /\ reading[p] # None) \/ Leave(p) BY <1>2, <1>4, ReaderEffects
  <1>5. CASE Write(p) BY <1>2, <1>5, WriteEffects
  <1>6. QED BY <1>1, <1>3, <1>4, <1>5
        DEF Use, Work, Create, StartupDone, Open, Stat, InitializeFails, Close, Check, Unlink,
            Sweep, StartSweep, Look, Judge, Remove

\* Whoever uses an object has found or given it a size.
LEMMA SizedKeeps ==
  ASSUME TypeOK, Placed, Sized, NEW p \in Processes, Use(p) \/ Work(p) \/ Sweep(p)
  PROVE  Sized'
  <1> USE DEF local
  <1>1. \A q \in Processes \ {p} : pc'[q] = pc[q] /\ held'[q] = held[q] BY OthersStay
  <1>2. \A o \in Objects : file[o].size => file'[o].size
    <2>1. CASE Sweep(p) BY <2>1 DEF Sweep, StartSweep, Look, Judge, Remove
    <2>2. QED BY <2>1, FilesStay
  <1>3. ASSUME NEW q \in Processes, pc[q] \in Attached \cup {"store", "count"}, held'[q] = held[q] PROVE file'[held'[q]].size
    <2>1. held[q] \in Objects BY <1>3, Opened DEF Early
    <2>2. QED BY <1>2, <1>3, <2>1 DEF Sized
  <1>4. ASSUME pc'[p] \in Attached \cup {"store", "count"} PROVE file'[held'[p]].size
    <2>1. CASE Stat(p)
      <3>1. pc'[p] = (IF file[held[p]].size THEN "count" ELSE "size") /\ UNCHANGED <<file, held>>
        BY <2>1 DEF Stat, Goto, TypeOK
      <3>2. QED BY <1>4, <3>1 DEF Attached
    <2>2. CASE Size(p)
      <3>1. Becomes(p, TRUE, file[held[p]].ref, file[held[p]].slot) /\ held' = held BY <2>2, InitializeEffects DEF Size
      <3>2. QED BY <3>1 DEF Becomes
    <2>3. CASE Sweep(p) \/ Write(p)
      <3>1. UNCHANGED <<pc, held>> BY <2>3 DEF Sweep, StartSweep, Look, Judge, Remove, Write
      <3>2. QED BY <1>3, <1>4, <3>1
    <2>4. CASE Store(p) \/ Record(p) \/ Clear(p) \/ Count(p) \/ RegisterReader(p) \/ NameReader(p) \/ Close(p) \/ Leave(p)
      <3>1. pc[p] \in Attached \cup {"store", "count"} /\ held' = held
        BY <2>4 DEF Store, Record, Clear, Count, RegisterReader, NameReader, Close, Leave, At, Attached
      <3>2. QED BY <1>3, <3>1
    <2>5. CASE Check(p)
      <3>1. pc[p] = "check" /\ (pc'[p] = "idle" \/ held' = held) BY <2>5 DEF Check, At, Goto, TypeOK
      <3>2. QED BY <1>3, <1>4, <3>1 DEF Attached
    <2>6. CASE Create(p) \/ StartupDone(p) \/ Open(p) \/ InitializeFails(p) \/ Drop(p) \/ Unlink(p)
      <3>1. \E l \in {"startup", "open", "stat", "idle", "unlink"} : pc' = [pc EXCEPT ![p] = l]
        BY <2>6 DEF Create, StartupDone, Open, InitializeFails, Drop, Unlink, Goto
      <3>2. pc'[p] \in {"startup", "open", "stat", "idle", "unlink"} BY <3>1 DEF TypeOK
      <3>3. QED BY <1>4, <3>2 DEF Attached
    <2>7. QED BY <2>1, <2>2, <2>3, <2>4, <2>5, <2>6 DEF Use, Work
  <1>5. QED BY <1>1, <1>3, <1>4 DEF Sized

\* Nobody else is about to give the object a size.
LEMMA CreatedKeeps ==
  ASSUME TypeOK, Placed, Created, NEW p \in Processes, Use(p) \/ Work(p) \/ Sweep(p), "double" \notin upset'
  PROVE  Created'
  <1> USE DEF local
  <1>1. \A q \in Processes \ {p} : pc'[q] = pc[q] /\ held'[q] = held[q] BY OthersStay
  <1>2. CASE Stat(p)
    <2>1. UNCHANGED <<file, held>> BY <1>2 DEF Stat
    <2>2. pc'[p] = "size" => ~file[held[p]].size /\ \A q \in Processes \ {p} : ~(pc[q] = "size" /\ held[q] = held[p])
      BY <1>2 DEF Stat, Goto, Blame, TypeOK
    <2>3. QED BY <1>1, <2>1, <2>2 DEF Created
  <1>3. CASE Size(p)
    <2>1. pc[p] = "size" /\ pc'[p] = "store" /\ held' = held BY <1>3 DEF Size, At, Goto, TypeOK
    <2>2. \A o \in Objects : o # held[p] => file'[o] = file[o] BY <1>3, InitializeEffects DEF Becomes
    <2>3. ASSUME NEW q \in Processes, pc'[q] = "size" PROVE pc[q] = "size" /\ file'[held[q]] = file[held[q]]
      <3>1. q # p /\ pc[q] = "size" BY <1>1, <2>1, <2>3
      <3>2. held[q] \in Objects BY <3>1, Opened DEF Early
      <3>3. held[q] # held[p] BY <2>1, <3>1 DEF Created
      <3>4. QED BY <2>2, <3>1, <3>2, <3>3
    <2>4. QED BY <2>1, <2>3 DEF Created
  <1>4. CASE ~Stat(p) /\ ~Size(p)
    <2>1. \A o \in Objects : file'[o].size = file[o].size BY <1>4, SizesStay
    <2>2. CASE Sweep(p)
      <3>1. UNCHANGED <<pc, held, file>> BY <2>2 DEF Sweep, StartSweep, Look, Judge, Remove
      <3>2. QED BY <3>1 DEF Created
    <2>3. CASE ~Sweep(p)
      <3>1. pc'[p] # "size"
        <4>1. CASE Write(p) BY <4>1 DEF Write, At
        <4>2. CASE ~Write(p)
          <5>1. \E l \in {"startup", "open", "stat", "record", "clear", "use", "name", "leave", "check", "drop", "idle", "unlink"} :
                  pc' = [pc EXCEPT ![p] = l]
            BY <1>4, <2>3, <4>2 DEF Use, Work, Create, StartupDone, Open, InitializeFails, Store, Record, Clear, Count,
               RegisterReader, NameReader, Close, Leave, Check, Drop, Unlink, Goto
          <5>2. QED BY <5>1 DEF TypeOK
        <4>3. QED BY <4>1, <4>2
      <3>2. \A q \in Processes : pc'[q] = "size" => pc[q] = "size" /\ held'[q] = held[q] BY <1>1, <3>1
      <3>3. \A q \in Processes : pc[q] = "size" => held[q] \in Objects BY Opened DEF Early
      <3>4. QED BY ZenonT(40), <2>1, <3>2, <3>3 DEF Created
    <2>4. QED BY <2>2, <2>3
  <1>5. QED BY <1>2, <1>3, <1>4
-----------------------------------------------------------------------------
(* The readers' slots *)

\* A live reader in the middle of using its slot.
Sits(q) == Live(q) /\ pc[q] \in {"name", "use"} /\ reading[q] # None

\* A step leaves it alone: nobody begins to initialise its object or takes its slot.
Undisturbed(q) ==
  \A r \in Processes \ {q} : Live(r)' /\ held'[r] = held[q] =>
    /\ pc'[r] \in {"store", "record", "clear"} => Live(r) /\ held[r] = held[q] /\ pc[r] \in {"store", "record", "clear"}
    /\ reading'[r] = reading[q] => Live(r) /\ held[r] = held[q] /\ reading[r] = reading[q]

\* What a step has to keep for those that sit after it.
LEMMA SeatedBy ==
  ASSUME Seated,
         \A q \in Processes : Sits(q)' =>
           /\ Sits(q) /\ held'[q] = held[q] /\ reading'[q] = reading[q] /\ Undisturbed(q)
           /\ file[held[q]].slot[reading[q]].active => file'[held[q]].slot[reading[q]].active
           /\ pc'[q] = "use" => \/ file'[held[q]].slot[reading[q]].pid = q
                                \/ /\ file'[held[q]].slot[reading[q]].pid = file[held[q]].slot[reading[q]].pid
                                   /\ pc[q] = "use"
  PROVE  Seated'
  <1> SUFFICES ASSUME NEW q \in Processes, Sits(q)'
               PROVE  /\ file'[held'[q]].slot[reading'[q]].active
                      /\ pc'[q] = "use" => file'[held'[q]].slot[reading'[q]].pid = q
                      /\ \A r \in Processes : Live(r)' /\ held'[r] = held'[q] => pc'[r] \notin {"store", "record", "clear"}
                      /\ \A r \in Processes \ {q} : Live(r)' /\ held'[r] = held'[q] => reading'[r] # reading'[q]
    BY DEF Seated, Sits, Initialising
  <1>1. Sits(q) /\ held'[q] = held[q] /\ reading'[q] = reading[q] /\ Undisturbed(q) OBVIOUS
  <1>2. /\ file[held[q]].slot[reading[q]].active
        /\ pc[q] = "use" => file[held[q]].slot[reading[q]].pid = q
        /\ \A r \in Processes : Live(r) /\ held[r] = held[q] => pc[r] \notin {"store", "record", "clear"}
        /\ \A r \in Processes \ {q} : Live(r) /\ held[r] = held[q] => reading[r] # reading[q]
    BY <1>1 DEF Seated, Sits, Initialising
  <1>3. file'[held'[q]].slot[reading'[q]].active BY <1>1, <1>2
  <1>4. pc'[q] = "use" => file'[held'[q]].slot[reading'[q]].pid = q BY ZenonT(40), <1>1, <1>2
  <1>5. ASSUME NEW r \in Processes, Live(r)', held'[r] = held'[q] PROVE pc'[r] \notin {"store", "record", "clear"}
    <2>1. CASE r = q BY <2>1 DEF Sits
    <2>2. CASE r # q
      <3>1. held'[r] = held[q] BY <1>1, <1>5
      <3>2. pc'[r] \in {"store", "record", "clear"} => Live(r) /\ held[r] = held[q] /\ pc[r] \in {"store", "record", "clear"}
        BY <1>1, <1>5, <2>2, <3>1 DEF Undisturbed
      <3>3. Live(r) /\ held[r] = held[q] => pc[r] \notin {"store", "record", "clear"} BY <1>2
      <3>4. QED BY <3>2, <3>3
    <2>3. QED BY <2>1, <2>2
  <1>6. ASSUME NEW r \in Processes \ {q}, Live(r)', held'[r] = held'[q] PROVE reading'[r] # reading'[q]
    <2>1. held'[r] = held[q] BY <1>1, <1>6
    <2>2. reading'[r] = reading[q] => Live(r) /\ held[r] = held[q] /\ reading[r] = reading[q]
      BY <1>1, <1>6, <2>1 DEF Undisturbed
    <2>3. Live(r) /\ held[r] = held[q] => reading[r] # reading[q] BY <1>2
    <2>4. QED BY <1>1, <2>2, <2>3
  <1>7. QED BY <1>3, <1>4, <1>5, <1>6

\* No step does but registerReader and the creation of an object that nobody reads.
LEMMA OthersUndisturbed ==
  ASSUME TypeOK, Placed, Sized, Created, NEW p \in Processes, Use(p) \/ Work(p) \/ Sweep(p), ~RegisterReader(p),
         NEW q \in Processes, Sits(q)
  PROVE  Undisturbed(q)
  <1> USE DEF local
  <1>1. /\ \A r \in Processes \ {p} : pc'[r] = pc[r] /\ held'[r] = held[r] /\ reading'[r] = reading[r]
        /\ dead' = dead
    BY OthersStay
  <1>2. held[q] \in Objects /\ held[q] # None /\ file[held[q]].size /\ reading[q] # None
    <2>1. pc[q] \in Attached BY DEF Sits, Attached
    <2>2. QED BY <2>1, Opened DEF Sits, Sized
  <1>3. ASSUME held'[p] = held[q], pc'[p] \in {"store", "record", "clear"}
        PROVE  held[p] = held[q] /\ pc[p] \in {"store", "record", "clear"}
    <2>1. CASE Size(p)
      <3>1. pc[p] = "size" /\ held' = held BY <2>1 DEF Size, At
      <3>2. QED BY <1>2, <1>3, <3>1 DEF Created
    <2>2. CASE Store(p) \/ Record(p)
      <3>1. pc[p] \in {"store", "record"} /\ held' = held BY <2>2 DEF Store, Record, At
      <3>2. QED BY <1>3, <3>1
    <2>3. CASE Sweep(p) \/ Write(p)
      <3>1. UNCHANGED <<pc, held>> BY <2>3 DEF Sweep, StartSweep, Look, Judge, Remove, Write
      <3>2. QED BY <1>3, <3>1
    <2>4. CASE ~(Size(p) \/ Store(p) \/ Record(p) \/ Sweep(p) \/ Write(p))
      <3>1. \E l \in {"startup", "open", "stat", "count", "size", "use", "name", "leave", "check", "drop", "idle", "unlink"} :
              pc' = [pc EXCEPT ![p] = l]
        BY <2>4 DEF Use, Work, Create, StartupDone, Open, Stat, InitializeFails, Clear, Count, RegisterReader, NameReader,
                    Close, Leave, Check, Drop, Unlink, Goto
      <3>2. pc'[p] \notin {"store", "record", "clear"} BY <3>1 DEF TypeOK
      <3>3. QED BY <1>3, <3>2
    <2>5. QED BY <2>1, <2>2, <2>3, <2>4
  <1>4. ASSUME held'[p] = held[q], reading'[p] = reading[q] PROVE held[p] = held[q] /\ reading[p] = reading[q]
    <2>1. CASE Open(p)
      <3>1. pc[p] = "open" /\ reading' = reading BY <2>1 DEF Open, At
      <3>2. QED BY <1>2, <1>4, <3>1 DEF Placed
    <2>2. CASE Leave(p)
      <3>1. reading'[p] = None BY <2>2 DEF Leave, TypeOK
      <3>2. QED BY <1>2, <1>4, <3>1
    <2>3. CASE InitializeFails(p) \/ Check(p) \/ Drop(p)
      <3>1. reading' = reading /\ (held' = held \/ held'[p] = None) BY <2>3 DEF InitializeFails, Check, Drop, TypeOK
      <3>2. QED BY <1>2, <1>4, <3>1
    <2>4. CASE ~(Open(p) \/ Leave(p) \/ InitializeFails(p) \/ Check(p) \/ Drop(p))
      <3>1. UNCHANGED <<held, reading>>
        BY <2>4 DEF Use, Work, Create, StartupDone, Stat, Size, Store, Record, Clear, Count, NameReader, Write, Close, Unlink,
                    Sweep, StartSweep, Look, Judge, Remove
      <3>2. QED BY <1>4, <3>1
    <2>5. QED BY <2>1, <2>2, <2>3, <2>4
  <1>5. SUFFICES ASSUME NEW r \in Processes \ {q}, Live(r)', held'[r] = held[q]
                 PROVE  /\ pc'[r] \in {"store", "record", "clear"} =>
                             Live(r) /\ held[r] = held[q] /\ pc[r] \in {"store", "record", "clear"}
                        /\ reading'[r] = reading[q] => Live(r) /\ held[r] = held[q] /\ reading[r] = reading[q]
    BY DEF Undisturbed
  <1>6. Live(r) BY <1>1, <1>5 DEF Live
  <1>7. CASE r = p BY <1>3, <1>4, <1>5, <1>6, <1>7
  <1>8. CASE r # p BY <1>1, <1>5, <1>6, <1>8
  <1>9. QED BY <1>7, <1>8

\* Steps that leave the slots alone.
LEMMA SeatedSame ==
  ASSUME TypeOK, Placed, Sized, Created, Seated, NEW p \in Processes, Use(p) \/ Work(p) \/ Sweep(p), ~RegisterReader(p),
         \A o \in Objects : file'[o].slot = file[o].slot,
         Sits(p)' => Sits(p) /\ pc'[p] = pc[p] /\ held'[p] = held[p] /\ reading'[p] = reading[p]
  PROVE  Seated'
  <1>1. /\ \A q \in Processes \ {p} : pc'[q] = pc[q] /\ held'[q] = held[q] /\ reading'[q] = reading[q]
        /\ dead' = dead
    BY OthersStay
  <1>2. \A q \in Processes : Sits(q)' => Sits(q) /\ pc'[q] = pc[q] /\ held'[q] = held[q] /\ reading'[q] = reading[q]
    BY <1>1 DEF Sits, Live
  <1>3. \A q \in Processes : Sits(q) => held[q] \in Objects BY Opened DEF Sits, Attached
  <1>4. \A q \in Processes : Sits(q) => Undisturbed(q) BY OthersUndisturbed
  <1>5. QED BY <1>2, <1>3, <1>4, SeatedBy

\* Most steps.
LEMMA SeatedElsewhere ==
  ASSUME TypeOK, Placed, Sized, Created, Seated, NEW p \in Processes,
         \/ Create(p) \/ StartupDone(p) \/ Open(p) \/ Stat(p) \/ Size(p) \/ InitializeFails(p) \/ Store(p) \/ Record(p)
         \/ Count(p) \/ Check(p) \/ Drop(p) \/ Unlink(p) \/ (Close(p) /\ reading[p] = None) \/ Sweep(p)
  PROVE  Seated'
  <1>1. Use(p) \/ Work(p) \/ Sweep(p) BY DEF Use, Work
  <1>2. \A o \in Objects : file'[o].slot = file[o].slot
    <2>1. CASE UNCHANGED file BY <2>1
    <2>2. ASSUME NEW z, NEW n, Becomes(p, z, n, file[held[p]].slot) PROVE \A o \in Objects : file'[o].slot = file[o].slot
      BY <2>2 DEF Becomes
    <2>3. CASE Size(p) \/ Store(p) \/ Record(p) \/ Count(p) \/ Drop(p) BY <2>2, <2>3, InitializeEffects
    <2>4. QED BY <2>1, <2>3 DEF Create, StartupDone, Open, Stat, InitializeFails, Check, Unlink, Close,
                               Sweep, StartSweep, Look, Judge, Remove
  <1>3. Sits(p)' => Sits(p) /\ pc'[p] = pc[p] /\ held'[p] = held[p] /\ reading'[p] = reading[p]
    <2>1. CASE Sweep(p)
      <3>1. UNCHANGED <<pc, held, reading, dead>> BY <2>1 DEF Sweep, StartSweep, Look, Judge, Remove, local
      <3>2. QED BY <3>1 DEF Sits, Live
    <2>2. CASE Count(p)
      <3>1. pc[p] = "count" /\ reading' = reading BY <2>2 DEF Count, At
      <3>2. reading[p] = None BY <3>1 DEF Placed
      <3>3. QED BY <3>1, <3>2 DEF Sits
    <2>3. CASE ~Sweep(p) /\ ~Count(p)
      <3>1. \E l \in {"startup", "open", "stat", "count", "size", "store", "record", "clear", "idle", "check", "drop", "unlink"} :
              pc' = [pc EXCEPT ![p] = l]
        BY <2>3 DEF Create, StartupDone, Open, Stat, Size, InitializeFails, Store, Record, Check, Drop, Unlink, Close, Goto
      <3>2. pc'[p] \notin {"name", "use"} BY <3>1 DEF TypeOK
      <3>3. QED BY <3>2 DEF Sits
    <2>4. QED BY <2>1, <2>2, <2>3
  <1>4. ~RegisterReader(p)
    <2>1. CASE RegisterReader(p) /\ Sweep(p)
      <3>1. pc'[p] = "name" /\ pc[p] = "use" BY <2>1 DEF RegisterReader, At, Goto, TypeOK
      <3>2. pc' = pc BY <2>1 DEF Sweep, StartSweep, Look, Judge, Remove, local
      <3>3. QED BY <3>1, <3>2
    <2>2. CASE RegisterReader(p) /\ ~Sweep(p)
      <3>1. pc[p] = "use" /\ reading[p] = None /\ pc'[p] = "name" BY <2>2 DEF RegisterReader, At, Goto, TypeOK
      <3>2. Close(p) BY <2>2, <3>1 DEF Create, StartupDone, Open, Stat, Size, InitializeFails, Store, Record, Count, Check, Drop, Unlink, At
      <3>3. pc'[p] = "check" BY <3>1, <3>2 DEF Close, Goto, TypeOK
      <3>4. QED BY <3>1, <3>3
    <2>3. QED BY <2>1, <2>2
  <1>5. QED BY <1>1, <1>2, <1>3, <1>4, SeatedSame

\* The creator, which clears the slots before anybody reads, and the others that store
\* into slots they have or that are dead.
LEMMA SeatedThere ==
  ASSUME TypeOK, Placed, Sized, Created, Seated, NEW p \in Processes, Orderly, Orderly',
         \/ Clear(p) \/ NameReader(p) \/ Write(p) \/ (Close(p) /\ reading[p] # None) \/ Leave(p)
  PROVE  Seated'
  <1>1. /\ \A q \in Processes \ {p} : pc'[q] = pc[q] /\ held'[q] = held[q] /\ reading'[q] = reading[q]
        /\ dead' = dead /\ Live(p)
    BY OthersStay DEF Use, Work
  <1>2. \A q \in Processes \ {p} : Sits(q)' => Sits(q) BY <1>1 DEF Sits, Live
  <1>3. held' = held /\ pc[p] \in Attached
    BY DEF Clear, NameReader, Write, Close, Leave, At, Attached, local
  <1>4. PICK o \in Objects : o = held[p] /\ file[o] \in File BY <1>3, Opened
  <1>5. PICK s \in [Slots -> Slot] : s = file[o].slot BY <1>4, FileParts
  <1>6. \A q \in Processes : Sits(q) => held[q] \in Objects /\ reading[q] \in Slots BY Opened DEF Sits, Attached, TypeOK
  <1>7. \A q \in Processes : Sits(q) => /\ file[held[q]].slot[reading[q]].active
                                        /\ pc[q] = "use" => file[held[q]].slot[reading[q]].pid = q
    BY DEF Seated, Sits
  <1>8. \A q \in Processes : Sits(q) /\ held[q] = o => s[reading[q]].active BY <1>5, <1>7
  \* What is left to show: those that sit at this object.
  <1>9. ASSUME NEW t \in [Slots -> Slot], file'[o].slot = t, \A x \in Objects : x # o => file'[x] = file[x],
               \A q \in Processes \ {p} : Sits(q)' /\ held[q] = o =>
                 (s[reading[q]].active => t[reading[q]].active) /\ t[reading[q]].pid = s[reading[q]].pid,
               Sits(p)' => /\ Sits(p) /\ reading'[p] = reading[p]
                           /\ s[reading[p]].active => t[reading[p]].active
                           /\ pc'[p] = "use" => \/ t[reading[p]].pid = p
                                                \/ t[reading[p]].pid = s[reading[p]].pid /\ pc[p] = "use"
        PROVE  Seated'
    <2>1. ASSUME NEW q \in Processes, Sits(q)'
          PROVE  /\ Sits(q) /\ held'[q] = held[q] /\ reading'[q] = reading[q]
                 /\ file[held[q]].slot[reading[q]].active => file'[held[q]].slot[reading[q]].active
                 /\ pc'[q] = "use" => \/ file'[held[q]].slot[reading[q]].pid = q
                                      \/ /\ file'[held[q]].slot[reading[q]].pid = file[held[q]].slot[reading[q]].pid
                                         /\ pc[q] = "use"
      <3>1. CASE q = p BY <1>3, <1>4, <1>5, <1>9, <2>1, <3>1
      <3>2. CASE q # p
        <4>1. Sits(q) /\ held'[q] = held[q] /\ reading'[q] = reading[q] /\ pc'[q] = pc[q] /\ held[q] \in Objects
          BY <1>1, <1>2, <1>6, <2>1, <3>2
        <4>2. CASE held[q] = o BY <1>5, <1>9, <2>1, <3>2, <4>1, <4>2
        <4>3. CASE held[q] # o
          <5>1. file'[held[q]] = file[held[q]] BY <1>9, <4>1, <4>3
          <5>2. QED BY <4>1, <5>1
        <4>4. QED BY <4>2, <4>3
      <3>3. QED BY <3>1, <3>2
    <2>2. ~RegisterReader(p)
      <3>1. RegisterReader(p) => pc[p] = "use" /\ reading[p] = None /\ pc'[p] = "name"
        BY DEF RegisterReader, At, Goto, TypeOK
      <3>2. QED BY <3>1 DEF Clear, NameReader, Write, Close, Leave, At, local
    <2>3. \A q \in Processes : Sits(q) => Undisturbed(q) BY <2>2, OthersUndisturbed DEF Use, Work
    <2>4. QED BY <2>1, <2>3, SeatedBy
  <1>10. \A e \in Slot : /\ [e EXCEPT !.active = TRUE] \in Slot /\ [e EXCEPT !.active = FALSE] \in Slot
                         /\ [e EXCEPT !.pid = None] \in Slot /\ [e EXCEPT !.pid = p, !.beat = TRUE] \in Slot
    BY DEF Slot
  <1>11. CASE Clear(p)
    <2>1. file'[o].slot = NewFile.slot /\ \A x \in Objects : x # o => file'[x] = file[x]
      <3>1. Becomes(p, file[held[p]].size, file[held[p]].ref, NewFile.slot) BY <1>11, InitializeEffects
      <3>2. QED BY <1>4, <3>1 DEF Becomes
    <2>2. Initialising(o) BY <1>1, <1>4, <1>11 DEF Clear, At, Initialising
    <2>3. \A q \in Processes : ~(Sits(q) /\ held[q] = o) BY <2>2 DEF Seated, Sits, Initialising
    <2>4. reading[p] = None /\ reading' = reading BY <1>11 DEF Clear, At, Placed
    <2>5. ~Sits(p)' BY <2>4 DEF Sits
    <2>6. NewFile.slot \in [Slots -> Slot] BY Blank, FileParts
    <2>7. QED BY <1>2, <1>9, <2>1, <2>3, <2>5, <2>6
  <1>12. CASE NameReader(p)
    <2>1. PICK i \in Slots : i = reading[p] BY <1>12, ReaderEffects
    <2>2. PICK t \in [Slots -> Slot] : t = [s EXCEPT ![i] = [s[i] EXCEPT !.pid = p, !.beat = TRUE]] BY <1>10
    <2>3. file'[o].slot = t /\ \A x \in Objects : x # o => file'[x] = file[x]
      <3>1. Becomes(p, file[held[p]].size, file[held[p]].ref, t) BY <1>4, <1>5, <1>12, <2>1, <2>2, ReaderEffects
      <3>2. QED BY <1>4, <3>1 DEF Becomes
    <2>4. t[i].active = s[i].active /\ t[i].pid = p /\ \A j \in Slots \ {i} : t[j] = s[j] BY <2>2 DEF Slot
    <2>5. pc[p] = "name" /\ reading' = reading BY <1>12 DEF NameReader, At
    <2>6. Sits(p) BY SMTT(30), <1>1, <2>1, <2>5, FileAssumption DEF Sits, Slots
    <2>7. \A q \in Processes \ {p} : Sits(q) /\ held[q] = o => reading[q] # i
      BY <1>1, <1>4, <2>1 DEF Seated, Sits
    <2>8. QED BY ZenonT(40), <1>2, <1>6, <1>9, <2>1, <2>3, <2>4, <2>5, <2>6, <2>7
  <1>13. CASE Close(p) /\ reading[p] # None
    <2>1. PICK i \in Slots : i = reading[p] BY <1>13, ReaderEffects
    <2>2. PICK t \in [Slots -> Slot] : t = [s EXCEPT ![i] = [s[i] EXCEPT !.active = FALSE]] BY <1>10
    <2>3. file'[o].slot = t /\ \A x \in Objects : x # o => file'[x] = file[x]
      <3>1. Becomes(p, file[held[p]].size, file[held[p]].ref, t) BY <1>4, <1>5, <1>13, <2>1, <2>2, ReaderEffects
      <3>2. QED BY <1>4, <3>1 DEF Becomes
    <2>4. \A j \in Slots \ {i} : t[j] = s[j] BY <2>2
    <2>5. \A q \in Processes \ {p} : Sits(q) /\ held[q] = o => reading[q] # i
      BY <1>1, <1>4, <2>1 DEF Seated, Sits
    <2>6. pc'[p] = "leave" BY <1>13 DEF Close, Goto, TypeOK
    <2>7. ~Sits(p)' BY <2>6 DEF Sits
    <2>8. QED BY <1>2, <1>6, <1>9, <2>3, <2>4, <2>5, <2>7
  <1>14. CASE Leave(p)
    <2>1. PICK i \in Slots : i = reading[p] BY <1>14, ReaderEffects
    <2>2. PICK t \in [Slots -> Slot] : t = [s EXCEPT ![i] = [s[i] EXCEPT !.pid = None]] BY <1>10
    <2>3. file'[o].slot = t /\ \A x \in Objects : x # o => file'[x] = file[x]
      <3>1. Becomes(p, file[held[p]].size, file[held[p]].ref, t) BY <1>4, <1>5, <1>14, <2>1, <2>2, ReaderEffects
      <3>2. QED BY <1>4, <3>1 DEF Becomes
    <2>4. \A j \in Slots \ {i} : t[j] = s[j] BY <2>2
    <2>5. \A q \in Processes \ {p} : Sits(q) /\ held[q] = o => reading[q] # i
      BY <1>1, <1>4, <2>1 DEF Seated, Sits
    <2>6. pc'[p] = "check" BY <1>14 DEF Leave, Goto, TypeOK
    <2>7. ~Sits(p)' BY <2>6 DEF Sits
    <2>8. QED BY <1>2, <1>6, <1>9, <2>3, <2>4, <2>5, <2>7
  <1>15. CASE Write(p)
    <2>1. PICK gone \in SUBSET Slots, t \in [Slots -> Slot] :
            /\ Becomes(p, file[held[p]].size, file[held[p]].ref, t)
            /\ \A i \in Slots : /\ t[i].pid = file[held[p]].slot[i].pid
                                /\ i \notin gone => t[i].active = file[held[p]].slot[i].active
            /\ gone \subseteq DeadReaders(held[p]) /\ Blame(gone # {} /\ Naming(held[p]), "unnamed")
      BY <1>15, WriteEffects
    <2>2. file'[o].slot = t /\ \A x \in Objects : x # o => file'[x] = file[x] BY <1>4, <2>1 DEF Becomes
    <2>3. \A i \in Slots : t[i].pid = s[i].pid /\ (i \notin gone => t[i].active = s[i].active) BY <1>4, <1>5, <2>1
    <2>4. ASSUME NEW q \in Processes, Sits(q), held[q] = o PROVE reading[q] \notin gone
      <3>1. CASE pc[q] = "name"
        <4>1. Naming(held[p]) BY <1>4, <2>4, <3>1 DEF Naming, Sits
        <4>2. gone = {} BY <2>1, <4>1 DEF Blame, Orderly
        <4>3. QED BY <4>2
      <3>2. CASE pc[q] = "use"
        <4>1. file[o].slot[reading[q]].pid = q BY <1>7, <2>4, <3>2
        <4>2. q \notin dead \cup {None} BY <2>4, FileAssumption DEF Sits, Live
        <4>3. QED BY <1>4, <2>1, <4>1, <4>2 DEF DeadReaders, Orderly
      <3>3. QED BY <2>4, <3>1, <3>2 DEF Sits
    <2>5. pc' = pc /\ reading' = reading BY <1>15 DEF Write, local
    <2>6. Sits(p)' => Sits(p) BY <1>1, <2>5 DEF Sits, Live
    <2>7. QED BY <1>2, <1>4, <1>6, <1>9, <2>2, <2>3, <2>4, <2>5, <2>6
  <1>16. QED BY <1>11, <1>12, <1>13, <1>14, <1>15

\* Whoever takes a free slot, when nobody initialises the object or leaves the slot.
LEMMA SeatedTaken ==
  ASSUME TypeOK, Placed, Seated, NEW p \in Processes, Orderly', RegisterReader(p)
  PROVE  Seated'
  <1>1. /\ \A q \in Processes \ {p} : pc'[q] = pc[q] /\ held'[q] = held[q] /\ reading'[q] = reading[q]
        /\ dead' = dead /\ Live(p)
    BY OthersStay DEF Use
  <1>2. held' = held /\ pc[p] \in Attached BY DEF RegisterReader, At, Attached
  <1>3. PICK o \in Objects : o = held[p] /\ file[o] \in File BY <1>2, Opened
  <1>4. PICK s \in [Slots -> Slot] : s = file[o].slot BY <1>3, FileParts
  <1>5. PICK i \in Slots : /\ ~s[i].active /\ reading' = [reading EXCEPT ![p] = i]
                           /\ Becomes(p, file[held[p]].size, file[held[p]].ref, [s EXCEPT ![i] = [s[i] EXCEPT !.active = TRUE]])
    BY <1>3, <1>4, ReaderEffects
  <1>6. pc'[p] = "name" /\ reading'[p] = i /\ i # None
    <2>1. i # None BY SMTT(30), FileAssumption DEF Slots
    <2>2. QED BY <1>5, <2>1 DEF RegisterReader, Goto, TypeOK
  <1>7. ~Initialising(o) /\ ~Vacating(o, i)
    <2>1. PICK j : /\ reading' = [reading EXCEPT ![p] = j]
                   /\ upset' = upset \cup {x \in {"hasty"} : Initialising(held[p])}
                                    \cup {x \in {"overtaking"} : Vacating(held[p], j)}
      BY DEF RegisterReader
    <2>2. j = i BY <1>6, <2>1 DEF TypeOK
    <2>3. "hasty" \notin upset' /\ "overtaking" \notin upset' BY DEF Orderly
    <2>4. QED BY <1>3, <2>1, <2>2, <2>3
  <1>8. PICK t \in [Slots -> Slot] : t = [s EXCEPT ![i] = [s[i] EXCEPT !.active = TRUE]]
    <2>1. \A e \in Slot : [e EXCEPT !.active = TRUE] \in Slot BY DEF Slot
    <2>2. QED BY <2>1
  <1>9. file'[o].slot = t /\ \A x \in Objects : x # o => file'[x] = file[x] BY <1>3, <1>5, <1>8 DEF Becomes
  <1>10. t[i].active /\ \A j \in Slots \ {i} : t[j] = s[j] BY <1>8 DEF Slot
  <1>11. ASSUME NEW q \in Processes, Sits(q)
         PROVE  /\ held[q] \in Objects /\ reading[q] \in Slots
                /\ file[held[q]].slot[reading[q]].active
                /\ pc[q] = "use" => file[held[q]].slot[reading[q]].pid = q
                /\ \A r \in Processes : Live(r) /\ held[r] = held[q] => pc[r] \notin {"store", "record", "clear"}
                /\ \A r \in Processes \ {q} : Live(r) /\ held[r] = held[q] => reading[r] # reading[q]
    <2>1. held[q] \in Objects /\ reading[q] \in Slots BY <1>11, Opened DEF Sits, Attached, TypeOK
    <2>2. QED BY <1>11, <2>1 DEF Seated, Sits, Initialising
  <1>12. ASSUME NEW r \in Processes \ {p}, Live(r), held[r] = o PROVE reading[r] # i /\ pc[r] \notin {"store", "record", "clear"}
    <2>1. pc[r] \notin {"store", "record", "clear"} BY <1>7, <1>12 DEF Initialising
    <2>2. ASSUME reading[r] = i PROVE FALSE
      <3>1. pc[r] \in {"name", "use", "leave"} BY <1>6, <2>2 DEF Placed
      <3>2. pc[r] # "leave" BY <1>7, <1>12, <2>2 DEF Vacating
      <3>3. Sits(r) BY <1>6, <1>12, <2>2, <3>1, <3>2 DEF Sits
      <3>4. s[i].active BY <1>4, <1>11, <1>12, <2>2, <3>3
      <3>5. QED BY <1>5, <3>4
    <2>3. QED BY <2>1, <2>2
  <1>13. ASSUME NEW q \in Processes \ {p}, Sits(q)'
         PROVE  /\ file'[held'[q]].slot[reading'[q]].active
                /\ pc'[q] = "use" => file'[held'[q]].slot[reading'[q]].pid = q
                /\ \A r \in Processes : Live(r)' /\ held'[r] = held'[q] => pc'[r] \notin {"store", "record", "clear"}
                /\ \A r \in Processes \ {q} : Live(r)' /\ held'[r] = held'[q] => reading'[r] # reading'[q]
    <2>1. Sits(q) /\ Live(q) BY <1>1, <1>13 DEF Sits, Live
    <2>2. held[q] \in Objects /\ reading[q] \in Slots BY <1>11, <2>1
    <2>3. file'[held[q]].slot[reading[q]] = file[held[q]].slot[reading[q]]
      <3>1. CASE held[q] = o
        <4>1. reading[q] # i BY <1>12, <2>1, <3>1
        <4>2. t[reading[q]] = s[reading[q]] BY <1>10, <2>2, <4>1
        <4>3. QED BY <1>4, <1>9, <3>1, <4>2
      <3>2. CASE held[q] # o
        <4>1. file'[held[q]] = file[held[q]] BY <1>9, <2>2, <3>2
        <4>2. QED BY <4>1
      <3>3. QED BY <3>1, <3>2
    <2>4. held'[q] = held[q] /\ reading'[q] = reading[q] /\ pc'[q] = pc[q] BY <1>1
    <2>5. ASSUME NEW r \in Processes, Live(r)', held'[r] = held'[q]
          PROVE  pc'[r] \notin {"store", "record", "clear"} /\ (r # q => reading'[r] # reading'[q])
      <3>1. Live(r) /\ held[r] = held[q] BY <1>1, <1>2, <2>5 DEF Live
      <3>2. CASE r = p
        <4>1. reading[q] # i BY <1>3, <1>12, <2>1, <3>1, <3>2
        <4>2. QED BY <1>6, <2>4, <3>2, <4>1
      <3>3. CASE r # p
        <4>1. pc'[r] = pc[r] /\ reading'[r] = reading[r] BY <1>1, <3>3
        <4>2. pc[r] \notin {"store", "record", "clear"} BY <1>11, <2>1, <3>1
        <4>3. r # q => reading[r] # reading[q] BY <1>11, <2>1, <3>1
        <4>4. QED BY <2>4, <4>1, <4>2, <4>3
      <3>4. QED BY <3>2, <3>3
    <2>6. QED BY <1>11, <2>1, <2>3, <2>4, <2>5
  <1>14. /\ file'[held'[p]].slot[reading'[p]].active /\ pc'[p] # "use"
         /\ \A r \in Processes : Live(r)' /\ held'[r] = held'[p] => pc'[r] \notin {"store", "record", "clear"}
         /\ \A r \in Processes \ {p} : Live(r)' /\ held'[r] = held'[p] => reading'[r] # reading'[p]
    <2>1. file'[held'[p]].slot[reading'[p]].active BY <1>2, <1>3, <1>6, <1>9, <1>10
    <2>2. ASSUME NEW r \in Processes \ {p}, Live(r)', held'[r] = held'[p]
          PROVE  pc'[r] \notin {"store", "record", "clear"} /\ reading'[r] # reading'[p]
      <3>1. Live(r) /\ held[r] = o BY <1>1, <1>2, <1>3, <2>2 DEF Live
      <3>2. QED BY <1>1, <1>6, <1>12, <3>1
    <2>3. QED BY <1>6, <2>1, <2>2
  <1>15. QED BY <1>13, <1>14 DEF Seated, Sits, Initialising
-----------------------------------------------------------------------------
(* The invariant, and what follows from it *)

\* The inductive invariant holds before any process has opened the object.
LEMMA InitIInv ==
  ASSUME Init
  PROVE  IInv
  <1> USE DEF Init
  <1>1. TypeOK
    <2>1. setup \in Scenario BY FileAssumption
    <2>2. file \in [Objects -> File] BY Blank
    <2>3. 1 \in 1 .. MaxObjects + 1 BY SMTT(30), FileAssumption
    <2>4. QED BY <2>1, <2>2, <2>3 DEF TypeOK, Scenario
  <1>2. Placed BY DEF Placed, Early, Attached
  <1>3. \A o : Users(o) = {} BY DEF Users, Attached
  <1>4. RefsCountUsers BY SMTT(30), <1>3, FS_EmptySet, Blank DEF RefsCountUsers
  <1>5. LastRemoves BY DEF LastRemoves
  <1>6. \A o \in Objects : Born(o)
    <2>1. \A o \in Objects : o # None BY SMTT(30), FileAssumption DEF Objects
    <2>2. QED BY <2>1 DEF Born
  <1>7. Named BY SMTT(30) DEF Named, Objects
  <1>8. Sized /\ Created /\ Seated BY DEF Sized, Created, Seated, Attached
  <1>9. QED BY <1>1, <1>2, <1>4, <1>5, <1>6, <1>7, <1>8 DEF IInv

\* Every step of every process keeps the inductive invariant.
LEMMA NextIInv ==
  ASSUME IInv, [Next]_vars
  PROVE  IInv'
  <1>1. CASE UNCHANGED vars
    <2> USE <1>1 DEF vars, local, sweeping
    <2>1. TypeOK' BY DEF IInv, TypeOK
    <2>2. Placed' BY DEF IInv, Placed
    <2>3. Calm' = Calm /\ \A o : Users(o)' = Users(o) BY DEF Calm, Users
    <2>4. RefsCountUsers' BY <2>3 DEF IInv, RefsCountUsers
    <2>5. LastRemoves' BY <2>3 DEF IInv, LastRemoves, Users
    <2>6. Calm' => Named' /\ \A o \in Objects : Born(o)'
      <3>1. \A o \in Objects : Finished(o)' = Finished(o) /\ Born(o)' = Born(o) BY DEF Finished, Holders, Live, Born
      <3>2. Removing' = Removing BY DEF Removing, Live
      <3>3. name # None => name \in Objects BY DEF IInv, TypeOK
      <3>4. QED BY <2>3, <3>1, <3>2, <3>3 DEF IInv, Named
    <2>7. Sized' BY DEF IInv, Sized
    <2>8. Orderly' => Created' /\ Seated' BY DEF IInv, Orderly, Created, Seated, Initialising, Live
    <2>9. QED BY <2>1, <2>2, <2>4, <2>5, <2>6, <2>7, <2>8 DEF IInv
  <1>2. ASSUME NEW p \in Processes, Use(p) \/ Work(p) \/ Sweep(p) \/ Kill(p)
        PROVE  IInv'
    <2>1. TypeOK /\ Placed /\ Objective /\ Sized /\ (Orderly => Created /\ Seated)
      BY DEF IInv, Objective
    <2>2. TypeOK' BY <1>2, <2>1, WorkTypes, SweepTypes
    <2>3. Placed' BY <1>2, <2>1, <2>2, WorkPlaced, SweepPlaced
    <2>4. Objective' BY <1>2, <2>1, <2>2, ObjectiveKept
    <2>5. CASE Kill(p)
      <3>1. UNCHANGED <<file, pc, held, reading>> /\ dead' = dead \cup {p} BY <2>5 DEF Kill, local
      <3>2. Sized' BY <2>1, <3>1 DEF Sized
      <3>3. ASSUME Orderly' PROVE Created' /\ Seated'
        <4>1. Created /\ Seated BY <2>1, <2>5, <3>3, OrderlyBefore
        <4>2. Created' BY <3>1, <4>1 DEF Created
        <4>3. Seated' BY <3>1, <4>1 DEF Seated, Initialising, Live
        <4>4. QED BY <4>2, <4>3
      <3>4. QED BY <2>2, <2>3, <2>4, <3>2, <3>3 DEF IInv, Objective
    <2>6. CASE Use(p) \/ Work(p) \/ Sweep(p)
      <3>1. Sized' BY <2>1, <2>6, SizedKeeps
      <3>2. ASSUME Orderly' PROVE Created' /\ Seated'
        <4>1. Created /\ Seated /\ Orderly BY <2>1, <2>6, <3>2, OrderlyBefore
        <4>2. "double" \notin upset' BY <3>2 DEF Orderly
        <4>3. Created' BY <2>1, <2>6, <4>1, <4>2, CreatedKeeps
        <4>4. CASE RegisterReader(p) BY <2>1, <3>2, <4>1, <4>3, <4>4, SeatedTaken
        <4>5. CASE Clear(p) \/ NameReader(p) \/ Write(p) \/ (Close(p) /\ reading[p] # None) \/ Leave(p)
          BY <2>1, <3>2, <4>1, <4>3, <4>5, SeatedThere
        <4>6. CASE \/ Create(p) \/ StartupDone(p) \/ Open(p) \/ Stat(p) \/ Size(p) \/ InitializeFails(p) \/ Store(p) \/ Record(p)
                   \/ Count(p) \/ Check(p) \/ Drop(p) \/ Unlink(p) \/ (Close(p) /\ reading[p] = None) \/ Sweep(p)
          BY <2>1, <4>1, <4>3, <4>6, SeatedElsewhere
        <4>7. QED BY <2>6, <4>4, <4>5, <4>6 DEF Use, Work
      <3>3. QED BY <2>2, <2>3, <2>4, <3>1, <3>2 DEF IInv, Objective
    <2>7. QED BY <1>2, <2>5, <2>6
  <1>3. QED BY <1>1, <1>2 DEF Next

\* The invariant holds in every state, for any number of processes, objects and
\* slots and any scenarios.
THEOREM Invariant == Spec => []IInv
  <1>1. Init => IInv BY InitIInv
  <1>2. IInv /\ [Next]_vars => IInv' BY NextIInv
  <1>3. QED BY <1>1, <1>2, PTL DEF Spec

\* create, the destructor and the sweeps: a live user of the channel uses the
\* object that has the name, unless one of the noted races happened.
THEOREM UsersShareTheName == Spec => []OneChannel
  <1>1. IInv => OneChannel BY UsesName DEF IInv, OneChannel
  <1>2. QED BY <1>1, Invariant, PTL

\* ref_count never exceeds the number of users, and is that number unless one of the
\* noted races happened.
THEOREM RefCounts == Spec => []RefsCountUsers
  <1>1. IInv => RefsCountUsers BY DEF IInv
  <1>2. QED BY <1>1, Invariant, PTL

\* registerReader, unregisterReader, cleanupDeadReaders and initialize: a live reader
\* has its slot with its process id, whatever the other processes do, as long as nobody
\* creates the object twice, registers while it is initialised or while the slot is
\* left, or cleans up before a pid is stored, and no heartbeat is old.
THEOREM SlotsKept == Spec => []ReadersKeepTheirSlot
  <1>1. ASSUME IInv PROVE ReadersKeepTheirSlot BY <1>1 DEF IInv, Seated, ReadersKeepTheirSlot
  <1>2. QED BY <1>1, Invariant, PTL

\* The destructor: when everybody has closed the channel its name is gone.
THEOREM LastUserRemoves == Spec => []NothingLeft
  <1>1. ASSUME IInv, dead = {}, "failed" \notin upset, \A p \in Processes : pc[p] = "idle" PROVE name = None
    <2> SUFFICES ASSUME name # None PROVE FALSE OBVIOUS
    <2>1. name \in Objects BY <1>1 DEF IInv, TypeOK
    <2>2. file[name].ref >= 1 BY <1>1 DEF IInv, LastRemoves, Early
    <2>3. Users(name) = {} BY <1>1 DEF Users, Attached
    <2>4. file[name].ref <= 0 BY <1>1, <2>1, <2>3, FS_EmptySet DEF IInv, RefsCountUsers
    <2>5. file[name].ref \in Int BY SMTT(30), <1>1, <2>1, FileParts DEF IInv, TypeOK
    <2>6. QED BY SMTT(30), <2>2, <2>4, <2>5
  <1>2. IInv => NothingLeft BY <1>1 DEF NothingLeft
  <1>3. QED BY <1>2, Invariant, PTL
==============================================================================
