------------------------- MODULE RegistryFile_proofs -------------------------
(***************************************************************************)
(* Proofs about RegistryFile, for any number of processes, instances and   *)
(* objects.                                                                *)
(***************************************************************************)
EXTENDS RegistryFile, FiniteSetTheorems, TLAPS

\* Leaves go to Zenon unless they name another prover.
USE Zenon

\* The types, in parts.
Header == [sized : BOOLEAN, magic : BOOLEAN, first : SUBSET Processes, pids : [Processes -> Nat], count : 0 .. CountMod - 1, inits : Nat]
ObjectType == object \in [Objects -> Header]
PlaceType == /\ name \in 0 .. created /\ created \in 0 .. MaxObjects
             /\ held \in [Instances -> 0 .. created] /\ swept \in [Instances -> 0 .. created]
ControlType == /\ pc \in [Instances -> {"start", "resize", "adopt", "failed", "open", "stat", "wait", "reset", "publish",
                                        "using", "done", "sweep", "judge", "unlink", "fault", "killed"}]
               /\ back \in [Instances -> {"start", "using", "done"}] /\ dead \subseteq Processes

\* They make up TypeOK.
LEMMA TypeParts == TypeOK <=> ObjectType /\ PlaceType /\ ControlType /\ upset \in BOOLEAN
BY DEF TypeOK, ObjectType, Header, PlaceType, ControlType

\* A step of one instance.
Action(i) == Steps(i) \/ Leave(i) \/ SweepStart(i)

\* ref_count stays in its range.
LEMMA Wrap == \A n \in Int : n % CountMod \in 0 .. CountMod - 1
BY SMTT(30), FileAssumption

\* Without objects nothing is wrong.
LEMMA InitIInv == Init => IInv
<1> SUFFICES ASSUME Init PROVE IInv
  OBVIOUS
<1>1. ObjectType /\ PlaceType
  BY SMTT(30), FileAssumption DEF Init, ObjectType, Header, PlaceType, Unused, Objects
<1>5. ControlType /\ upset \in BOOLEAN
  BY DEF Init, ControlType
<1>2. HeldSound /\ InitialisedOnce /\ Meeting
  BY SMTT(30) DEF Init, HeldSound, InitialisedOnce, Meeting, Opening, User, Attached, Removing, At, Unused
<1>3. \A o \in Objects, p \in Processes : {i \in Instances : Using(i) /\ held[i] = o /\ Owner[i] = p} = {}
  BY DEF Init, Using
<1>4. UsersAreRecorded
  BY SMTT(30), <1>3, FS_EmptySet DEF Init, UsersAreRecorded, Unused
<1> QED
  BY <1>1, <1>2, <1>4, <1>5, TypeParts DEF IInv

\* What an instance holds is an object that was created.
LEMMA HeldObjects == TypeOK => \A j \in Instances : held[j] # 0 => held[j] \in Objects
<1> SUFFICES ASSUME PlaceType, NEW j \in Instances, held[j] # 0
             PROVE  held[j] \in Objects
  BY TypeParts
<1>1. held[j] \in 0 .. created /\ created \in Nat /\ created <= MaxObjects
  BY SMTT(30), FileAssumption DEF PlaceType
<1> QED
  BY SMTT(30), <1>1, FileAssumption DEF Objects

\* Changing fields of a header within their types keeps its type.
LEMMA HeaderKept ==
  ASSUME NEW f \in Header, NEW g \in SUBSET Processes, NEW w \in [Processes -> Nat],
         NEW c \in 0 .. CountMod - 1, NEW n \in Nat
  PROVE  /\ [f EXCEPT !.first = g] \in Header /\ [f EXCEPT !.pids = w] \in Header /\ [f EXCEPT !.count = c] \in Header
         /\ [f EXCEPT !.first = g, !.pids = w, !.count = c, !.inits = n] \in Header
         /\ [f EXCEPT !.first = g, !.count = c, !.magic = TRUE] \in Header
<1>1. [f EXCEPT !.first = g] \in Header /\ [f EXCEPT !.pids = w] \in Header /\ [f EXCEPT !.count = c] \in Header
  BY FileAssumption DEF Header
<1>2. [f EXCEPT !.first = g, !.pids = w, !.count = c, !.inits = n] \in Header
  BY FileAssumption DEF Header
<1>3. [f EXCEPT !.first = g, !.count = c, !.magic = TRUE] \in Header
  BY FileAssumption DEF Header
<1> QED
  BY <1>1, <1>2, <1>3

\* Recording a pid changes ref_pids alone: the process has one slot more.
LEMMA PidRecorded ==
  ASSUME ObjectType, NEW o \in Objects, NEW p \in Processes
  PROVE  LET w == WithPid(o, p)
         IN /\ w \in Header /\ w.inits = object[o].inits /\ w.magic = object[o].magic
            /\ \A q \in Processes : Refs(w, q) = Refs(object[o], q) + (IF q = p THEN 1 ELSE 0)
<1> DEFINE f == object[o]
<1>1. f \in Header
  BY DEF ObjectType
<1>2. CASE f.first = {}
  <2>1. WithPid(o, p) = [f EXCEPT !.first = {p}]
    BY <1>2 DEF WithPid
  <2>2. [f EXCEPT !.first = {p}] \in Header
    BY <1>1 DEF Header
  <2> QED
    BY SMTT(30), <1>1, <1>2, <2>1, <2>2 DEF Header, Refs
<1>3. CASE f.first # {}
  <2>1. WithPid(o, p) = [f EXCEPT !.pids = [f.pids EXCEPT ![p] = f.pids[p] + 1]]
    BY <1>3 DEF WithPid
  <2>2. [f EXCEPT !.pids = [f.pids EXCEPT ![p] = f.pids[p] + 1]] \in Header
    BY SMTT(30), <1>1 DEF Header
  <2> QED
    BY SMTT(30), <1>1, <1>3, <2>1, <2>2 DEF Header, Refs
<1> QED
  BY <1>2, <1>3

\* Removing a pid changes ref_pids alone: the process has one slot less, if it had any.
LEMMA PidRemoved ==
  ASSUME ObjectType, NEW o \in Objects, NEW p \in Processes
  PROVE  LET w == WithoutPid(o, p)
         IN /\ w \in Header /\ w.inits = object[o].inits /\ w.magic = object[o].magic
            /\ \A q \in Processes \ {p} : Refs(w, q) = Refs(object[o], q)
            /\ Refs(object[o], p) > 0 => Refs(w, p) = Refs(object[o], p) - 1
<1> DEFINE f == object[o]
<1>1. f \in Header
  BY DEF ObjectType
<1>2. CASE p \in f.first
  <2>1. WithoutPid(o, p) = [f EXCEPT !.first = f.first \ {p}]
    BY <1>2 DEF WithoutPid
  <2>2. [f EXCEPT !.first = f.first \ {p}] \in Header
    BY <1>1 DEF Header
  <2> QED
    BY SMTT(30), <1>1, <1>2, <2>1, <2>2 DEF Header, Refs
<1>3. CASE p \notin f.first /\ f.pids[p] > 0
  <2>1. WithoutPid(o, p) = [f EXCEPT !.pids = [f.pids EXCEPT ![p] = f.pids[p] - 1]]
    BY <1>3 DEF WithoutPid
  <2>2. [f EXCEPT !.pids = [f.pids EXCEPT ![p] = f.pids[p] - 1]] \in Header
    BY SMTT(30), <1>1, <1>3 DEF Header
  <2> QED
    BY SMTT(30), <1>1, <1>3, <2>1, <2>2 DEF Header, Refs
<1>4. CASE p \notin f.first /\ ~(f.pids[p] > 0)
  <2>1. WithoutPid(o, p) = f
    BY <1>4 DEF WithoutPid
  <2> QED
    BY SMTT(30), <1>1, <1>4, <2>1 DEF Header, Refs
<1> QED
  BY <1>2, <1>3, <1>4

\* ftruncate leaves the header as it is.
LEMMA ResizeEffect ==
  ASSUME ObjectType, PlaceType, HeldSound, NEW i \in Instances, Resize(i)
  PROVE  /\ held[i] \in Objects /\ Owner[i] \in Processes \ dead
         /\ object' = [object EXCEPT ![held[i]] = object'[held[i]]] /\ object'[held[i]] \in Header
         /\ \A o \in Objects \ {held[i]} : object'[o] = object[o]
         /\ object'[held[i]].magic = object[held[i]].magic /\ object'[held[i]].inits = object[held[i]].inits
         /\ \A q \in Processes : Refs(object'[held[i]], q) = Refs(object[held[i]], q)
<1> DEFINE f == object[held[i]]
<1>0. Owner[i] \notin dead /\ (Opening(i) \/ User(i))
  BY DEF Resize, At, Opening, User
<1>1. held[i] \in Objects /\ Owner[i] \in Processes /\ f \in Header
  <2>1. held[i] \in 0 .. created /\ created \in 0 .. MaxObjects /\ held[i] # 0
    BY <1>0 DEF PlaceType, HeldSound
  <2>2. held[i] \in Objects
    BY SMTT(30), <2>1, FileAssumption DEF Objects
  <2> QED
    BY <2>2, FileAssumption DEF ObjectType
<1>3. [f EXCEPT !.sized = TRUE] \in Header
  BY <1>1 DEF Header
<1>4. object' = [object EXCEPT ![held[i]] = [f EXCEPT !.sized = TRUE]]
  BY DEF Resize, Removed
<1>5. object'[held[i]] = [f EXCEPT !.sized = TRUE] /\ \A o \in Objects \ {held[i]} : object'[o] = object[o]
  BY <1>1, <1>4 DEF ObjectType
<1>6. object' = [object EXCEPT ![held[i]] = object'[held[i]]]
  BY <1>4, <1>5
<1> QED
  BY SMTT(30), <1>0, <1>1, <1>3, <1>5, <1>6 DEF Header, Refs

\* Initialising empties ref_pids, and is counted.
LEMMA ResetEffect ==
  ASSUME ObjectType, PlaceType, HeldSound, NEW i \in Instances, Reset(i)
  PROVE  /\ held[i] \in Objects /\ Owner[i] \in Processes \ dead
         /\ object' = [object EXCEPT ![held[i]] = object'[held[i]]] /\ object'[held[i]] \in Header
         /\ \A o \in Objects \ {held[i]} : object'[o] = object[o]
         /\ object'[held[i]].magic = object[held[i]].magic
         /\ object[held[i]].inits \in Nat /\ object'[held[i]].inits = object[held[i]].inits + 1
         /\ \A q \in Processes : Refs(object'[held[i]], q) = 0
<1> DEFINE f == object[held[i]]
<1>0. Owner[i] \notin dead /\ (Opening(i) \/ User(i))
  BY DEF Reset, At, Opening, User
<1>1. held[i] \in Objects /\ Owner[i] \in Processes /\ f \in Header
  <2>1. held[i] \in 0 .. created /\ created \in 0 .. MaxObjects /\ held[i] # 0
    BY <1>0 DEF PlaceType, HeldSound
  <2>2. held[i] \in Objects
    BY SMTT(30), <2>1, FileAssumption DEF Objects
  <2> QED
    BY <2>2, FileAssumption DEF ObjectType
<1>2. f.inits \in Nat /\ f.inits + 1 \in Nat /\ 0 \in 0 .. CountMod - 1 /\ [p \in Processes |-> 0] \in [Processes -> Nat]
  BY SMTT(30), <1>1, FileAssumption DEF Header
<1>3. [f EXCEPT !.first = {}, !.pids = [p \in Processes |-> 0], !.count = 0, !.inits = f.inits + 1] \in Header
  BY <1>1, <1>2, HeaderKept
<1>4. object' = [object EXCEPT ![held[i]] = [f EXCEPT !.first = {}, !.pids = [p \in Processes |-> 0], !.count = 0, !.inits = f.inits + 1]]
  BY DEF Reset, Removed
<1>5. object'[held[i]] = [f EXCEPT !.first = {}, !.pids = [p \in Processes |-> 0], !.count = 0, !.inits = f.inits + 1] /\ \A o \in Objects \ {held[i]} : object'[o] = object[o]
  BY <1>1, <1>4 DEF ObjectType
<1>6. object' = [object EXCEPT ![held[i]] = object'[held[i]]]
  BY <1>4, <1>5
<1> QED
  BY SMTT(30), <1>0, <1>1, <1>2, <1>3, <1>5, <1>6 DEF Header, Refs

\* The creator is recorded once, and magic set.
LEMMA PublishEffect ==
  ASSUME ObjectType, PlaceType, HeldSound, NEW i \in Instances, Publish(i)
  PROVE  /\ held[i] \in Objects /\ Owner[i] \in Processes \ dead
         /\ object' = [object EXCEPT ![held[i]] = object'[held[i]]] /\ object'[held[i]] \in Header
         /\ \A o \in Objects \ {held[i]} : object'[o] = object[o]
         /\ object'[held[i]].magic = TRUE /\ object'[held[i]].inits = object[held[i]].inits
         /\ (\A q \in Processes : Refs(object[held[i]], q) = 0) =>
              \A q \in Processes : Refs(object'[held[i]], q) = IF q = Owner[i] THEN 1 ELSE 0
<1> DEFINE f == object[held[i]]
<1>0. Owner[i] \notin dead /\ (Opening(i) \/ User(i))
  BY DEF Publish, At, Opening, User
<1>1. held[i] \in Objects /\ Owner[i] \in Processes /\ f \in Header
  <2>1. held[i] \in 0 .. created /\ created \in 0 .. MaxObjects /\ held[i] # 0
    BY <1>0 DEF PlaceType, HeldSound
  <2>2. held[i] \in Objects
    BY SMTT(30), <2>1, FileAssumption DEF Objects
  <2> QED
    BY <2>2, FileAssumption DEF ObjectType
<1>2. 1 \in 0 .. CountMod - 1 /\ {Owner[i]} \in SUBSET Processes
  BY SMTT(30), <1>1, FileAssumption
<1>3. [f EXCEPT !.first = {Owner[i]}, !.count = 1, !.magic = TRUE] \in Header
  BY <1>1, <1>2, FileAssumption DEF Header
<1>4. object' = [object EXCEPT ![held[i]] = [f EXCEPT !.first = {Owner[i]}, !.count = 1, !.magic = TRUE]]
  BY DEF Publish, Removed
<1>5. object'[held[i]] = [f EXCEPT !.first = {Owner[i]}, !.count = 1, !.magic = TRUE] /\ \A o \in Objects \ {held[i]} : object'[o] = object[o]
  BY <1>1, <1>4 DEF ObjectType
<1>6. object' = [object EXCEPT ![held[i]] = object'[held[i]]]
  BY <1>4, <1>5
<1> QED
  BY SMTT(30), <1>0, <1>1, <1>3, <1>5, <1>6 DEF Header, Refs

\* Joining records the process once more.
LEMMA JoinEffect ==
  ASSUME ObjectType, PlaceType, HeldSound, NEW i \in Instances, Join(i)
  PROVE  /\ held[i] \in Objects /\ Owner[i] \in Processes \ dead
         /\ object' = [object EXCEPT ![held[i]] = object'[held[i]]] /\ object'[held[i]] \in Header
         /\ \A o \in Objects \ {held[i]} : object'[o] = object[o]
         /\ object'[held[i]].magic = object[held[i]].magic /\ object'[held[i]].inits = object[held[i]].inits
         /\ \A q \in Processes : Refs(object'[held[i]], q) = Refs(object[held[i]], q) + (IF q = Owner[i] THEN 1 ELSE 0)
<1> DEFINE f == object[held[i]]
           w == WithPid(held[i], Owner[i])
           c == (w.count + 1) % CountMod
<1>0. Owner[i] \notin dead /\ (Opening(i) \/ User(i))
  BY DEF Join, At, Opening, User
<1>1. held[i] \in Objects /\ Owner[i] \in Processes /\ f \in Header
  <2>1. held[i] \in 0 .. created /\ created \in 0 .. MaxObjects /\ held[i] # 0
    BY <1>0 DEF PlaceType, HeldSound
  <2>2. held[i] \in Objects
    BY SMTT(30), <2>1, FileAssumption DEF Objects
  <2> QED
    BY <2>2, FileAssumption DEF ObjectType
<1>2. w \in Header /\ c \in 0 .. CountMod - 1
  <2>1. w \in Header
    BY <1>1, PidRecorded
  <2>2. w.count \in 0 .. CountMod - 1
    BY <2>1 DEF Header
  <2>3. w.count + 1 \in Int
    BY SMTT(30), <2>2, FileAssumption
  <2> QED
    BY <2>1, <2>3, Wrap
<1>3. [w EXCEPT !.count = c] \in Header
  BY <1>2 DEF Header
<1>4. object' = [object EXCEPT ![held[i]] = [w EXCEPT !.count = c]]
  BY DEF Join, Removed
<1>5. object'[held[i]] = [w EXCEPT !.count = c] /\ \A o \in Objects \ {held[i]} : object'[o] = object[o]
  BY <1>1, <1>4 DEF ObjectType
<1>6. object' = [object EXCEPT ![held[i]] = object'[held[i]]]
  BY <1>4, <1>5
<1>7. /\ [w EXCEPT !.count = c].magic = w.magic /\ [w EXCEPT !.count = c].inits = w.inits
      /\ [w EXCEPT !.count = c].pids = w.pids /\ [w EXCEPT !.count = c].first = w.first
  BY <1>2 DEF Header
<1>8. \A q \in Processes : Refs([w EXCEPT !.count = c], q) = Refs(w, q)
  BY <1>7 DEF Refs
<1> HIDE DEF w, c
<1> QED
  BY SMTT(30), <1>0, <1>1, <1>3, <1>5, <1>6, <1>7, <1>8, PidRecorded DEF w

\* Leaving records the process once less.
LEMMA LeaveEffect ==
  ASSUME ObjectType, PlaceType, HeldSound, NEW i \in Instances, Leave(i)
  PROVE  /\ held[i] \in Objects /\ Owner[i] \in Processes \ dead
         /\ object' = [object EXCEPT ![held[i]] = object'[held[i]]] /\ object'[held[i]] \in Header
         /\ \A o \in Objects \ {held[i]} : object'[o] = object[o]
         /\ object'[held[i]].magic = object[held[i]].magic /\ object'[held[i]].inits = object[held[i]].inits
         /\ \A q \in Processes \ {Owner[i]} : Refs(object'[held[i]], q) = Refs(object[held[i]], q)
         /\ Refs(object[held[i]], Owner[i]) > 0 => Refs(object'[held[i]], Owner[i]) = Refs(object[held[i]], Owner[i]) - 1
<1> DEFINE f == object[held[i]]
           w == WithoutPid(held[i], Owner[i])
           c == (w.count - 1) % CountMod
<1>0. Owner[i] \notin dead /\ (Opening(i) \/ User(i))
  BY DEF Leave, At, Opening, User
<1>1. held[i] \in Objects /\ Owner[i] \in Processes /\ f \in Header
  <2>1. held[i] \in 0 .. created /\ created \in 0 .. MaxObjects /\ held[i] # 0
    BY <1>0 DEF PlaceType, HeldSound
  <2>2. held[i] \in Objects
    BY SMTT(30), <2>1, FileAssumption DEF Objects
  <2> QED
    BY <2>2, FileAssumption DEF ObjectType
<1>2. w \in Header /\ c \in 0 .. CountMod - 1
  <2>1. w \in Header
    BY <1>1, PidRemoved
  <2>2. w.count \in 0 .. CountMod - 1
    BY <2>1 DEF Header
  <2>3. w.count - 1 \in Int
    BY SMTT(30), <2>2, FileAssumption
  <2> QED
    BY <2>1, <2>3, Wrap
<1>3. [w EXCEPT !.count = c] \in Header
  BY <1>2 DEF Header
<1>4. object' = [object EXCEPT ![held[i]] = [w EXCEPT !.count = c]]
  BY DEF Leave, Removed
<1>5. object'[held[i]] = [w EXCEPT !.count = c] /\ \A o \in Objects \ {held[i]} : object'[o] = object[o]
  BY <1>1, <1>4 DEF ObjectType
<1>6. object' = [object EXCEPT ![held[i]] = object'[held[i]]]
  BY <1>4, <1>5
<1>7. /\ [w EXCEPT !.count = c].magic = w.magic /\ [w EXCEPT !.count = c].inits = w.inits
      /\ [w EXCEPT !.count = c].pids = w.pids /\ [w EXCEPT !.count = c].first = w.first
  BY <1>2 DEF Header
<1>8. \A q \in Processes : Refs([w EXCEPT !.count = c], q) = Refs(w, q)
  BY <1>7 DEF Refs
<1> HIDE DEF w, c
<1> QED
  BY SMTT(30), <1>0, <1>1, <1>3, <1>5, <1>6, <1>7, <1>8, PidRemoved DEF w

\* A step keeps the types of the objects.
LEMMA StepObject ==
  ASSUME ObjectType, PlaceType, HeldSound, NEW i \in Instances
  PROVE  Action(i) => ObjectType'
<1>1. CASE Create(i)
  BY <1>1, FileAssumption DEF Create, At, ObjectType, PlaceType, HeldSound, Opening, User, Objects, Removed
<1>2. CASE CreateFails(i)
  BY <1>2, FileAssumption DEF CreateFails, At, ObjectType, PlaceType, HeldSound, Opening, User, Objects, Removed
<1>3. CASE Resize(i)
  BY <1>3, ResizeEffect DEF ObjectType
<1>4. CASE CreatorFails(i)
  BY <1>4, FileAssumption DEF CreatorFails, At, ObjectType, PlaceType, HeldSound, Opening, User, Objects, Removed
<1>5. CASE AdoptFails(i)
  BY <1>5, FileAssumption DEF AdoptFails, At, ObjectType, PlaceType, HeldSound, Opening, User, Objects, Removed
<1>6. CASE Open(i)
  BY <1>6, FileAssumption DEF Open, At, ObjectType, PlaceType, HeldSound, Opening, User, Objects, Removed
<1>7. CASE OpenFails(i)
  BY <1>7, FileAssumption DEF OpenFails, At, ObjectType, PlaceType, HeldSound, Opening, User, Objects, Removed
<1>8. CASE Stat(i)
  BY <1>8, FileAssumption DEF Stat, At, ObjectType, PlaceType, HeldSound, Opening, User, Objects, Removed
<1>9. CASE Reset(i)
  BY <1>9, ResetEffect DEF ObjectType
<1>10. CASE Publish(i)
  BY <1>10, PublishEffect DEF ObjectType
<1>11. CASE Join(i)
  BY <1>11, JoinEffect DEF ObjectType
<1>12. CASE JoinFails(i)
  BY <1>12, FileAssumption DEF JoinFails, At, ObjectType, PlaceType, HeldSound, Opening, User, Objects, Removed
<1>13. CASE Retry(i)
  BY <1>13, FileAssumption DEF Retry, At, ObjectType, PlaceType, HeldSound, Opening, User, Objects, Removed
<1>14. CASE SweepOpen(i)
  BY <1>14, FileAssumption DEF SweepOpen, At, ObjectType, PlaceType, HeldSound, Opening, User, Objects, Removed
<1>15. CASE SweepFaults(i)
  BY <1>15, FileAssumption DEF SweepFaults, At, ObjectType, PlaceType, HeldSound, Opening, User, Objects, Removed
<1>16. CASE SweepKeep(i)
  BY <1>16, FileAssumption DEF SweepKeep, At, ObjectType, PlaceType, HeldSound, Opening, User, Objects, Removed
<1>17. CASE SweepJudge(i)
  BY <1>17, FileAssumption DEF SweepJudge, At, ObjectType, PlaceType, HeldSound, Opening, User, Objects, Removed
<1>18. CASE SweepUnlink(i)
  BY <1>18, FileAssumption DEF SweepUnlink, At, ObjectType, PlaceType, HeldSound, Opening, User, Objects, Removed
<1>19. CASE Leave(i)
  BY <1>19, LeaveEffect DEF ObjectType
<1>20. CASE SweepStart(i)
  BY <1>20, FileAssumption DEF SweepStart, At, ObjectType, PlaceType, HeldSound, Opening, User, Objects, Removed
<1> QED
  BY <1>1, <1>2, <1>3, <1>4, <1>5, <1>6, <1>7, <1>8, <1>9, <1>10, <1>11, <1>12, <1>13, <1>14, <1>15, <1>16, <1>17, <1>18, <1>19, <1>20 DEF Action, Steps

\* A step keeps the types of the objects, also when a process is killed.
LEMMA StepObjectDie ==
  ASSUME ObjectType, PlaceType, HeldSound, NEW p \in Processes, Die(p)
  PROVE  ObjectType'
BY FileAssumption DEF Die, Killed, At, ObjectType, PlaceType, HeldSound, Opening, User, Objects, Removed

\* A step keeps the types of names and places.
LEMMA StepPlace ==
  ASSUME PlaceType, NEW i \in Instances
  PROVE  Action(i) => PlaceType'
<1>1. CASE Create(i)
  BY SMTT(30), <1>1, FileAssumption DEF Create, At, PlaceType
<1>2. CASE CreateFails(i)
  BY <1>2, FileAssumption DEF CreateFails, At, PlaceType
<1>3. CASE Resize(i)
  BY <1>3, FileAssumption DEF Resize, At, PlaceType
<1>4. CASE CreatorFails(i)
  BY SMTT(30), <1>4, FileAssumption DEF CreatorFails, At, PlaceType
<1>5. CASE AdoptFails(i)
  BY SMTT(30), <1>5, FileAssumption DEF AdoptFails, At, PlaceType
<1>6. CASE Open(i)
  BY <1>6, FileAssumption DEF Open, At, PlaceType
<1>7. CASE OpenFails(i)
  BY <1>7, FileAssumption DEF OpenFails, At, PlaceType
<1>8. CASE Stat(i)
  BY <1>8, FileAssumption DEF Stat, At, PlaceType
<1>9. CASE Reset(i)
  BY <1>9, FileAssumption DEF Reset, At, PlaceType
<1>10. CASE Publish(i)
  BY <1>10, FileAssumption DEF Publish, At, PlaceType
<1>11. CASE Join(i)
  BY <1>11, FileAssumption DEF Join, At, PlaceType
<1>12. CASE JoinFails(i)
  BY SMTT(30), <1>12, FileAssumption DEF JoinFails, At, PlaceType
<1>13. CASE Retry(i)
  BY <1>13, FileAssumption DEF Retry, At, PlaceType
<1>14. CASE SweepOpen(i)
  BY <1>14, FileAssumption DEF SweepOpen, At, PlaceType
<1>15. CASE SweepFaults(i)
  BY <1>15, FileAssumption DEF SweepFaults, At, PlaceType
<1>16. CASE SweepKeep(i)
  BY SMTT(30), <1>16, FileAssumption DEF SweepKeep, At, PlaceType
<1>17. CASE SweepJudge(i)
  BY <1>17, FileAssumption DEF SweepJudge, At, PlaceType
<1>18. CASE SweepUnlink(i)
  BY SMTT(30), <1>18, FileAssumption DEF SweepUnlink, At, PlaceType
<1>19. CASE Leave(i)
  BY SMTT(30), <1>19, FileAssumption DEF Leave, At, PlaceType
<1>20. CASE SweepStart(i)
  BY <1>20, FileAssumption DEF SweepStart, At, PlaceType
<1> QED
  BY <1>1, <1>2, <1>3, <1>4, <1>5, <1>6, <1>7, <1>8, <1>9, <1>10, <1>11, <1>12, <1>13, <1>14, <1>15, <1>16, <1>17, <1>18, <1>19, <1>20 DEF Action, Steps

\* A step keeps the types of names and places, also when a process is killed.
LEMMA StepPlaceDie ==
  ASSUME PlaceType, NEW p \in Processes, Die(p)
  PROVE  PlaceType'
BY SMTT(30), FileAssumption DEF Die, Killed, At, PlaceType

\* A step keeps the types of the control state.
LEMMA StepControl ==
  ASSUME ControlType, NEW i \in Instances
  PROVE  Action(i) => ControlType'
<1>1. CASE Create(i)
  BY <1>1, FileAssumption DEF Create, At, Goto, ControlType
<1>2. CASE CreateFails(i)
  BY <1>2, FileAssumption DEF CreateFails, At, Goto, ControlType
<1>3. CASE Resize(i)
  BY <1>3, FileAssumption DEF Resize, At, Goto, ControlType
<1>4. CASE CreatorFails(i)
  BY <1>4, FileAssumption DEF CreatorFails, At, Goto, ControlType
<1>5. CASE AdoptFails(i)
  BY <1>5, FileAssumption DEF AdoptFails, At, Goto, ControlType
<1>6. CASE Open(i)
  BY <1>6, FileAssumption DEF Open, At, Goto, ControlType
<1>7. CASE OpenFails(i)
  BY <1>7, FileAssumption DEF OpenFails, At, Goto, ControlType
<1>8. CASE Stat(i)
  BY <1>8, FileAssumption DEF Stat, At, Goto, ControlType
<1>9. CASE Reset(i)
  BY <1>9, FileAssumption DEF Reset, At, Goto, ControlType
<1>10. CASE Publish(i)
  BY <1>10, FileAssumption DEF Publish, At, Goto, ControlType
<1>11. CASE Join(i)
  BY <1>11, FileAssumption DEF Join, At, Goto, ControlType
<1>12. CASE JoinFails(i)
  BY <1>12, FileAssumption DEF JoinFails, At, Goto, ControlType
<1>13. CASE Retry(i)
  BY <1>13, FileAssumption DEF Retry, At, Goto, ControlType
<1>14. CASE SweepOpen(i)
  BY <1>14, FileAssumption DEF SweepOpen, At, Goto, ControlType
<1>15. CASE SweepFaults(i)
  BY <1>15, FileAssumption DEF SweepFaults, At, Goto, ControlType
<1>16. CASE SweepKeep(i)
  BY <1>16, FileAssumption DEF SweepKeep, At, Goto, ControlType
<1>17. CASE SweepJudge(i)
  BY <1>17, FileAssumption DEF SweepJudge, At, Goto, ControlType
<1>18. CASE SweepUnlink(i)
  BY <1>18, FileAssumption DEF SweepUnlink, At, Goto, ControlType
<1>19. CASE Leave(i)
  BY <1>19, FileAssumption DEF Leave, At, Goto, ControlType
<1>20. CASE SweepStart(i)
  BY <1>20, FileAssumption DEF SweepStart, At, Goto, ControlType
<1> QED
  BY <1>1, <1>2, <1>3, <1>4, <1>5, <1>6, <1>7, <1>8, <1>9, <1>10, <1>11, <1>12, <1>13, <1>14, <1>15, <1>16, <1>17, <1>18, <1>19, <1>20 DEF Action, Steps

\* A step keeps the types of the control state, also when a process is killed.
LEMMA StepControlDie ==
  ASSUME ControlType, NEW p \in Processes, Die(p)
  PROVE  ControlType'
BY FileAssumption DEF Die, Killed, At, Goto, ControlType

\* A step keeps the type of upset.
LEMMA StepUpset ==
  ASSUME upset \in BOOLEAN, NEW i \in Instances
  PROVE  Action(i) => upset' \in BOOLEAN
<1>1. CASE Create(i)
  BY <1>1, FileAssumption DEF Create, Upset
<1>2. CASE CreateFails(i)
  BY <1>2, FileAssumption DEF CreateFails, Upset
<1>3. CASE Resize(i)
  BY <1>3, FileAssumption DEF Resize, Upset
<1>4. CASE CreatorFails(i)
  BY <1>4, FileAssumption DEF CreatorFails, Upset
<1>5. CASE AdoptFails(i)
  BY <1>5, FileAssumption DEF AdoptFails, Upset
<1>6. CASE Open(i)
  BY <1>6, FileAssumption DEF Open, Upset
<1>7. CASE OpenFails(i)
  BY <1>7, FileAssumption DEF OpenFails, Upset
<1>8. CASE Stat(i)
  BY <1>8, FileAssumption DEF Stat, Upset
<1>9. CASE Reset(i)
  BY <1>9, FileAssumption DEF Reset, Upset
<1>10. CASE Publish(i)
  BY <1>10, FileAssumption DEF Publish, Upset
<1>11. CASE Join(i)
  BY <1>11, FileAssumption DEF Join, Upset
<1>12. CASE JoinFails(i)
  BY <1>12, FileAssumption DEF JoinFails, Upset
<1>13. CASE Retry(i)
  BY <1>13, FileAssumption DEF Retry, Upset
<1>14. CASE SweepOpen(i)
  BY <1>14, FileAssumption DEF SweepOpen, Upset
<1>15. CASE SweepFaults(i)
  BY <1>15, FileAssumption DEF SweepFaults, Upset
<1>16. CASE SweepKeep(i)
  BY <1>16, FileAssumption DEF SweepKeep, Upset
<1>17. CASE SweepJudge(i)
  BY <1>17, FileAssumption DEF SweepJudge, Upset
<1>18. CASE SweepUnlink(i)
  BY <1>18, FileAssumption DEF SweepUnlink, Upset
<1>19. CASE Leave(i)
  BY <1>19, FileAssumption DEF Leave, Upset
<1>20. CASE SweepStart(i)
  BY <1>20, FileAssumption DEF SweepStart, Upset
<1> QED
  BY <1>1, <1>2, <1>3, <1>4, <1>5, <1>6, <1>7, <1>8, <1>9, <1>10, <1>11, <1>12, <1>13, <1>14, <1>15, <1>16, <1>17, <1>18, <1>19, <1>20 DEF Action, Steps

\* A step keeps the type of upset, also when a process is killed.
LEMMA StepUpsetDie ==
  ASSUME upset \in BOOLEAN, NEW p \in Processes, Die(p)
  PROVE  upset' \in BOOLEAN
BY FileAssumption DEF Die, Killed, Upset

\* A step keeps HeldSound.
LEMMA StepHeld ==
  ASSUME TypeOK, HeldSound, NEW i \in Instances
  PROVE  Action(i) => HeldSound'
<1>1. CASE Create(i)
  <2>1. \A j \in Instances : Opening(j)' => held'[j] # 0
    BY SMTT(30), <1>1, FileAssumption DEF Create, At, Goto, TypeOK, HeldSound, Opening
  <2>2. \A j \in Instances : (Owner[j] \notin dead /\ User(j))' => j # i /\ Owner[j] \notin dead /\ User(j) /\ held'[j] = held[j]
    BY <1>1 DEF Create, At, Goto, TypeOK, User
  <2>3. object' = object
    BY <1>1 DEF Create
  <2> QED
    BY <2>1, <2>2, <2>3 DEF HeldSound
<1>2. CASE CreateFails(i)
  BY <1>2, FileAssumption DEF CreateFails, At, Goto, Upset, TypeOK, HeldSound, Opening, User, Objects, Removed
<1>3. CASE Resize(i)
  BY SMTT(30), <1>3, FileAssumption DEF Resize, At, Goto, Upset, TypeOK, HeldSound, Opening, User, Objects, Removed
<1>4. CASE CreatorFails(i)
  BY <1>4, FileAssumption DEF CreatorFails, At, Goto, Upset, TypeOK, HeldSound, Opening, User, Objects, Removed
<1>5. CASE AdoptFails(i)
  BY <1>5, FileAssumption DEF AdoptFails, At, Goto, Upset, TypeOK, HeldSound, Opening, User, Objects, Removed
<1>6. CASE Open(i)
  BY <1>6, FileAssumption DEF Open, At, Goto, Upset, TypeOK, HeldSound, Opening, User, Objects, Removed
<1>7. CASE OpenFails(i)
  BY <1>7, FileAssumption DEF OpenFails, At, Goto, Upset, TypeOK, HeldSound, Opening, User, Objects, Removed
<1>8. CASE Stat(i)
  BY <1>8, FileAssumption DEF Stat, At, Goto, Upset, TypeOK, HeldSound, Opening, User, Objects, Removed
<1>9. CASE Reset(i)
  BY SMTT(60), <1>9, FileAssumption DEF Reset, At, Goto, Upset, TypeOK, HeldSound, Opening, User, Objects, Removed
<1>10. CASE Publish(i)
  BY SMTT(30), <1>10, FileAssumption DEF Publish, At, Goto, Upset, TypeOK, HeldSound, Opening, User, Objects, Removed
<1>11. CASE Join(i)
  <2>1. \A j \in Instances : Opening(j)' => Opening(j) /\ j # i /\ held'[j] = held[j]
    BY <1>11, TypeParts DEF Join, At, Goto, ControlType, PlaceType, Opening
  <2>2. \A j \in Instances : (Owner[j] \notin dead /\ User(j))' =>
          /\ Owner[j] \notin dead /\ held'[j] = held[j]
          /\ (User(j) /\ j # i) \/ (j = i /\ Opening(i) /\ object[held[i]].magic)
    BY <1>11, TypeParts DEF Join, At, Goto, ControlType, PlaceType, User, Opening
  <2>3. \A o \in Objects : object'[o].magic = object[o].magic
    BY <1>11, TypeParts, JoinEffect
  <2>4. \A j \in Instances : held[j] # 0 => held[j] \in Objects
    BY HeldObjects
  <2> QED
    BY <2>1, <2>2, <2>3, <2>4 DEF HeldSound
<1>12. CASE JoinFails(i)
  BY <1>12, FileAssumption DEF JoinFails, At, Goto, Upset, TypeOK, HeldSound, Opening, User, Objects, Removed
<1>13. CASE Retry(i)
  BY <1>13, FileAssumption DEF Retry, At, Goto, Upset, TypeOK, HeldSound, Opening, User, Objects, Removed
<1>14. CASE SweepOpen(i)
  BY <1>14, FileAssumption DEF SweepOpen, At, Goto, Upset, TypeOK, HeldSound, Opening, User, Objects, Removed
<1>15. CASE SweepFaults(i)
  BY <1>15, FileAssumption DEF SweepFaults, At, Goto, Upset, TypeOK, HeldSound, Opening, User, Objects, Removed
<1>16. CASE SweepKeep(i)
  BY <1>16, FileAssumption DEF SweepKeep, At, Goto, Upset, TypeOK, HeldSound, Opening, User, Objects, Removed
<1>17. CASE SweepJudge(i)
  BY <1>17, FileAssumption DEF SweepJudge, At, Goto, Upset, TypeOK, HeldSound, Opening, User, Objects, Removed
<1>18. CASE SweepUnlink(i)
  BY <1>18, FileAssumption DEF SweepUnlink, At, Goto, Upset, TypeOK, HeldSound, Opening, User, Objects, Removed
<1>19. CASE Leave(i)
  <2>1. \A j \in Instances : Opening(j)' => Opening(j) /\ j # i /\ held'[j] = held[j]
    BY <1>19, TypeParts DEF Leave, At, Goto, ControlType, PlaceType, Opening
  <2>2. \A j \in Instances : (Owner[j] \notin dead /\ User(j))' =>
          /\ Owner[j] \notin dead /\ held'[j] = held[j]
          /\ (User(j) /\ j # i) \/ (j = i /\ Opening(i) /\ object[held[i]].magic)
    BY <1>19, TypeParts DEF Leave, At, Goto, ControlType, PlaceType, User, Opening
  <2>3. \A o \in Objects : object'[o].magic = object[o].magic
    BY <1>19, TypeParts, LeaveEffect
  <2>4. \A j \in Instances : held[j] # 0 => held[j] \in Objects
    BY HeldObjects
  <2> QED
    BY <2>1, <2>2, <2>3, <2>4 DEF HeldSound
<1>20. CASE SweepStart(i)
  BY <1>20, FileAssumption DEF SweepStart, At, Goto, Upset, TypeOK, HeldSound, Opening, User, Objects, Removed
<1> QED
  BY <1>1, <1>2, <1>3, <1>4, <1>5, <1>6, <1>7, <1>8, <1>9, <1>10, <1>11, <1>12, <1>13, <1>14, <1>15, <1>16, <1>17, <1>18, <1>19, <1>20 DEF Action, Steps

\* A step keeps HeldSound, also when a process is killed.
LEMMA StepHeldDie ==
  ASSUME TypeOK, HeldSound, NEW p \in Processes, Die(p)
  PROVE  HeldSound'
BY FileAssumption DEF Die, Killed, At, Goto, Upset, TypeOK, HeldSound, Opening, User, Objects, Removed

\* Steps that leave the objects alone and let nobody begin to fill one in keep
\* InitialisedOnce.
LEMMA OnceKept ==
  ASSUME InitialisedOnce, object' = object,
         \A j \in Instances : At(j, "publish")' => At(j, "publish") /\ held'[j] = held[j]
  PROVE  InitialisedOnce'
BY DEF InitialisedOnce

\* A step keeps InitialisedOnce.
LEMMA StepOnce ==
  ASSUME TypeOK, HeldSound, InitialisedOnce, NEW i \in Instances
  PROVE  Action(i) => InitialisedOnce'
<1>1. CASE Create(i)
  BY <1>1, TypeParts, OnceKept DEF Create, At, Goto, ControlType, PlaceType
<1>2. CASE CreateFails(i)
  BY <1>2, TypeParts, OnceKept DEF CreateFails, At, Goto, ControlType, PlaceType
<1>3. CASE Resize(i)
  <2>1. /\ held[i] \in Objects
        /\ \A o \in Objects : object'[o].magic = object[o].magic /\ object'[o].inits = object[o].inits
        /\ \A o \in Objects \ {held[i]} : object'[o] = object[o]
    BY <1>3, TypeParts, ResizeEffect
  <2>2. \A q \in Processes : Refs(object'[held[i]], q) = Refs(object[held[i]], q)
    BY <1>3, TypeParts, ResizeEffect
  <2>3. \A j \in Instances : At(j, "publish")' => At(j, "publish") /\ held'[j] = held[j]
    BY <1>3, TypeParts DEF Resize, At, Goto, ControlType, PlaceType
  <2> QED
    BY SMTT(30), <2>1, <2>2, <2>3 DEF InitialisedOnce
<1>4. CASE CreatorFails(i)
  BY <1>4, TypeParts, OnceKept DEF CreatorFails, At, Goto, ControlType, PlaceType
<1>5. CASE AdoptFails(i)
  BY <1>5, TypeParts, OnceKept DEF AdoptFails, At, Goto, ControlType, PlaceType
<1>6. CASE Open(i)
  BY <1>6, TypeParts, OnceKept DEF Open, At, Goto, ControlType, PlaceType
<1>7. CASE OpenFails(i)
  BY <1>7, TypeParts, OnceKept DEF OpenFails, At, Goto, ControlType, PlaceType
<1>8. CASE Stat(i)
  BY ZenonT(40), <1>8, TypeParts, OnceKept DEF Stat, At, Goto, ControlType, PlaceType
<1>9. CASE Reset(i)
  BY SMTT(30), <1>9, FileAssumption DEF Reset, At, Goto, Upset, TypeOK, HeldSound, InitialisedOnce, Opening, User, Objects, Removed
<1>10. CASE Publish(i)
  BY SMTT(60), <1>10, FileAssumption DEF Publish, At, Goto, Upset, TypeOK, HeldSound, InitialisedOnce, Opening, User, Objects, Removed
<1>11. CASE Join(i)
  <2>1. /\ held[i] \in Objects
        /\ \A o \in Objects : object'[o].magic = object[o].magic /\ object'[o].inits = object[o].inits
        /\ \A o \in Objects \ {held[i]} : object'[o] = object[o]
    BY <1>11, TypeParts, JoinEffect
  <2>2. object[held[i]].magic
    BY <1>11 DEF Join, At, HeldSound, User
  <2>3. \A j \in Instances : At(j, "publish")' => At(j, "publish") /\ held'[j] = held[j]
    BY <1>11, TypeParts DEF Join, At, Goto, ControlType, PlaceType
  <2> QED
    BY SMTT(30), <2>1, <2>2, <2>3 DEF InitialisedOnce
<1>12. CASE JoinFails(i)
  BY <1>12, TypeParts, OnceKept DEF JoinFails, At, Goto, ControlType, PlaceType
<1>13. CASE Retry(i)
  BY <1>13, TypeParts, OnceKept DEF Retry, At, Goto, ControlType, PlaceType
<1>14. CASE SweepOpen(i)
  BY <1>14, TypeParts, OnceKept DEF SweepOpen, At, Goto, ControlType, PlaceType
<1>15. CASE SweepFaults(i)
  BY <1>15, TypeParts, OnceKept DEF SweepFaults, At, Goto, ControlType, PlaceType
<1>16. CASE SweepKeep(i)
  BY <1>16, TypeParts, OnceKept DEF SweepKeep, At, Goto, ControlType, PlaceType
<1>17. CASE SweepJudge(i)
  BY <1>17, TypeParts, OnceKept DEF SweepJudge, At, Goto, ControlType, PlaceType
<1>18. CASE SweepUnlink(i)
  BY <1>18, TypeParts, OnceKept DEF SweepUnlink, At, Goto, ControlType, PlaceType
<1>19. CASE Leave(i)
  <2>1. /\ held[i] \in Objects
        /\ \A o \in Objects : object'[o].magic = object[o].magic /\ object'[o].inits = object[o].inits
        /\ \A o \in Objects \ {held[i]} : object'[o] = object[o]
    BY <1>19, TypeParts, LeaveEffect
  <2>2. object[held[i]].magic
    BY <1>19 DEF Leave, At, HeldSound, User
  <2>3. \A j \in Instances : At(j, "publish")' => At(j, "publish") /\ held'[j] = held[j]
    BY <1>19, TypeParts DEF Leave, At, Goto, ControlType, PlaceType
  <2> QED
    BY SMTT(30), <2>1, <2>2, <2>3 DEF InitialisedOnce
<1>20. CASE SweepStart(i)
  BY <1>20, TypeParts, OnceKept DEF SweepStart, At, Goto, ControlType, PlaceType
<1> QED
  BY <1>1, <1>2, <1>3, <1>4, <1>5, <1>6, <1>7, <1>8, <1>9, <1>10, <1>11, <1>12, <1>13, <1>14, <1>15, <1>16, <1>17, <1>18, <1>19, <1>20 DEF Action, Steps

\* A step keeps InitialisedOnce, also when a process is killed.
LEMMA StepOnceDie ==
  ASSUME TypeOK, HeldSound, InitialisedOnce, NEW p \in Processes, Die(p)
  PROVE  InitialisedOnce'
BY FileAssumption DEF Die, Killed, At, Goto, Upset, TypeOK, HeldSound, InitialisedOnce, Opening, User, Objects, Removed

UsersOf(o, p) == {i \in Instances : Using(i) /\ held[i] = o /\ Owner[i] = p}

\* Sets of instances are finite.
LEMMA UserSets == \A o, p : IsFiniteSet(UsersOf(o, p)) /\ Cardinality(UsersOf(o, p)) \in Nat
BY FS_Subset, FS_CardinalityType, FileAssumption DEF UsersOf

\* UsersAreRecorded in terms of UsersOf.
LEMMA RecordedIff ==
  UsersAreRecorded <=> \A o \in Objects, p \in Processes \ dead :
                          object[o].inits = 1 => Refs(object[o], p) = Cardinality(UsersOf(o, p))
BY DEF UsersAreRecorded, UsersOf

\* Steps that change neither the records nor who uses what keep UsersAreRecorded.
LEMMA RecordedKept ==
  ASSUME UsersAreRecorded, dead \subseteq dead',
         \A o \in Objects : object'[o].inits = object[o].inits /\ \A q \in Processes : Refs(object'[o], q) = Refs(object[o], q),
         \A j \in Instances : Owner[j] \notin dead' => (Using(j)' <=> Using(j)) /\ (Using(j) => held'[j] = held[j])
  PROVE  UsersAreRecorded'
<1>1. \A o \in Objects, p \in Processes \ dead' : UsersOf(o, p)' = UsersOf(o, p)
  BY DEF UsersOf
<1> QED
  BY SMTT(30), <1>1, RecordedIff DEF UsersAreRecorded, UsersOf

\* A step keeps UsersAreRecorded.
LEMMA StepRecorded ==
  ASSUME TypeOK, HeldSound, InitialisedOnce, UsersAreRecorded, NEW i \in Instances
  PROVE  Action(i) => UsersAreRecorded'
<1>1. CASE Create(i)
  BY <1>1, TypeParts, RecordedKept, FileAssumption DEF Create, At, Goto, ControlType, PlaceType, Using, HeldSound, Opening, User, Objects
<1>2. CASE CreateFails(i)
  BY <1>2, TypeParts, RecordedKept, FileAssumption DEF CreateFails, At, Goto, ControlType, PlaceType, Using, HeldSound, Opening, User, Objects
<1>3. CASE Resize(i)
  <2>1. \A o \in Objects : object'[o].inits = object[o].inits /\ object'[o].magic = object[o].magic
                          /\ \A q \in Processes : Refs(object'[o], q) = Refs(object[o], q)
    BY <1>3, TypeParts, ResizeEffect
  <2>2. dead \subseteq dead'
    BY <1>3 DEF Resize
  <2>3. \A j \in Instances : Owner[j] \notin dead' => (Using(j)' <=> Using(j)) /\ (Using(j) => held'[j] = held[j])
    BY SMTT(30), <1>3, <2>1, <2>2, FileAssumption DEF Resize, At, Goto, TypeOK, Using, User, HeldSound, Opening, Objects
  <2> QED
    BY <2>1, <2>2, <2>3, RecordedKept
<1>4. CASE CreatorFails(i)
  BY <1>4, TypeParts, RecordedKept, FileAssumption DEF CreatorFails, At, Goto, ControlType, PlaceType, Using, HeldSound, Opening, User, Objects
<1>5. CASE AdoptFails(i)
  BY <1>5, TypeParts, RecordedKept, FileAssumption DEF AdoptFails, At, Goto, ControlType, PlaceType, Using, HeldSound, Opening, User, Objects
<1>6. CASE Open(i)
  BY <1>6, TypeParts, RecordedKept, FileAssumption DEF Open, At, Goto, ControlType, PlaceType, Using, HeldSound, Opening, User, Objects
<1>7. CASE OpenFails(i)
  BY <1>7, TypeParts, RecordedKept, FileAssumption DEF OpenFails, At, Goto, ControlType, PlaceType, Using, HeldSound, Opening, User, Objects
<1>8. CASE Stat(i)
  BY <1>8, TypeParts, RecordedKept, FileAssumption DEF Stat, At, Goto, ControlType, PlaceType, Using, HeldSound, Opening, User, Objects
<1>9. CASE Reset(i)
  <2> DEFINE h == held[i]
  <2>1. h \in Objects /\ Owner[i] \in Processes
    BY SMTT(30), <1>9, FileAssumption DEF Reset, At, TypeOK, HeldSound, Opening, User, Objects
  <2>2. /\ dead' = dead /\ \A o \in Objects \ {h} : object'[o] = object[o]
        /\ object'[h].magic = object[h].magic /\ object'[h].inits = object[h].inits + 1 /\ object[h].inits \in Nat /\ \A q \in Processes : Refs(object'[h], q) = 0
    BY <1>9, TypeParts, ResetEffect DEF Reset
  <2>m. /\ held' = held /\ back' = back /\ pc[i] = "reset" /\ pc'[i] = "publish" /\ Owner[i] \notin dead
        /\ \A j \in Instances \ {i} : pc'[j] = pc[j]
    BY <1>9 DEF Reset, At, Goto, TypeOK
  <2>o. \A j \in Instances : held[j] # 0 => held[j] \in Objects
    BY HeldObjects
  <2>3. \A j \in Instances : (Using(j)' <=> Using(j)) /\ held'[j] = held[j]
    BY <2>1, <2>2, <2>m, <2>o DEF Using, Objects
  <2>4. \A o, p : UsersOf(o, p)' = UsersOf(o, p)
    BY <2>3 DEF UsersOf
  <2> QED
    <3> SUFFICES ASSUME NEW o \in Objects, NEW p \in Processes \ dead', object'[o].inits = 1
                 PROVE  Refs(object'[o], p) = Cardinality(UsersOf(o, p)')
      BY DEF UsersAreRecorded, UsersOf
    <3>1. CASE o # h
      BY <2>2, <2>4, <3>1, RecordedIff
    <3>2. CASE o = h
      <4>1. object[h].inits = 0
        BY SMTT(30), <2>1, <2>2, <3>2
      <4>2. UsersOf(h, p) = {}
        BY <2>1, <4>1 DEF InitialisedOnce, UsersOf, Using
      <4> QED
        BY <2>2, <2>4, <3>2, <4>2, FS_EmptySet
    <3> QED
      BY <3>1, <3>2
<1>10. CASE Publish(i)
  <2> DEFINE h == held[i]
  <2>1. h \in Objects /\ Owner[i] \in Processes
    BY SMTT(30), <1>10, FileAssumption DEF Publish, At, TypeOK, HeldSound, Opening, User, Objects
  <2>2. /\ dead' = dead /\ \A o \in Objects \ {h} : object'[o] = object[o]
        /\ object'[h].magic /\ object'[h].inits = object[h].inits
        /\ (\A q \in Processes : Refs(object[h], q) = 0) => \A q \in Processes : Refs(object'[h], q) = IF q = Owner[i] THEN 1 ELSE 0
    BY <1>10, TypeParts, PublishEffect DEF Publish
  <2>m. /\ held' = held /\ back' = back /\ pc[i] = "publish" /\ pc'[i] = "using" /\ Owner[i] \notin dead
        /\ \A j \in Instances \ {i} : pc'[j] = pc[j]
    BY <1>10 DEF Publish, At, Goto, TypeOK
  <2>o. \A j \in Instances : held[j] # 0 => held[j] \in Objects
    BY HeldObjects
  <2>3. \A j \in Instances : held'[j] = held[j] /\ (held[j] # h => (Using(j)' <=> Using(j)))
    BY <2>1, <2>2, <2>m, <2>o DEF Using, Objects
  <2>4. \A o \in Objects \ {h}, p \in Processes : UsersOf(o, p)' = UsersOf(o, p)
    BY <2>3 DEF UsersOf
  <2> QED
    <3> SUFFICES ASSUME NEW o \in Objects, NEW p \in Processes \ dead', object'[o].inits = 1
                 PROVE  Refs(object'[o], p) = Cardinality(UsersOf(o, p)')
      BY DEF UsersAreRecorded, UsersOf
    <3>1. CASE o # h
      BY SMTT(30), <2>2, <2>4, <3>1, RecordedIff
    <3>2. CASE o = h
      <4>1. ~object[h].magic /\ \A q \in Processes : Refs(object[h], q) = 0
        BY SMTT(30), <1>10, <2>1, <2>2, <3>2 DEF InitialisedOnce, Publish, TypeOK
      <4>2. \A j \in Instances : Using(j)' /\ held'[j] = h => j = i
        BY SMTT(30), <1>10, <2>1, <2>2, <2>3, <4>1 DEF HeldSound, User, Using, Publish, Goto, At, TypeOK
      <4>3. Using(i)' /\ held'[i] = h
        BY SMTT(30), <2>1, <2>2, <2>m, <2>o DEF Using, Objects
      <4>4. UsersOf(h, p)' = IF p = Owner[i] THEN {i} ELSE {}
        BY <4>2, <4>3 DEF UsersOf
      <4> QED
        <5>1. CASE p = Owner[i]
          <6>1. UsersOf(o, p)' = {i}
            BY <2>m, <3>2, <4>4, <5>1
          <6>2. Cardinality({i}) = 1
            BY FS_Singleton
          <6>3. Refs(object'[o], p) = 1
            BY <2>2, <3>2, <4>1, <5>1
          <6> QED
            BY <6>1, <6>2, <6>3
        <5>2. CASE p # Owner[i]
          BY <2>2, <2>m, <3>2, <4>1, <4>4, <5>2, FS_EmptySet
        <5> QED
          BY <5>1, <5>2
    <3> QED
      BY <3>1, <3>2
<1>11. CASE Join(i)
  <2> DEFINE h == held[i]
  <2>1. h \in Objects /\ Owner[i] \in Processes
    BY SMTT(30), <1>11, FileAssumption DEF Join, At, TypeOK, HeldSound, Opening, User, Objects
  <2>2. /\ dead' = dead /\ \A o \in Objects \ {h} : object'[o] = object[o]
        /\ object'[h].magic = object[h].magic /\ object'[h].inits = object[h].inits
        /\ \A p \in Processes : Refs(object'[h], p) = Refs(object[h], p) + (IF p = Owner[i] THEN 1 ELSE 0)
    BY <1>11, TypeParts, JoinEffect DEF Join
  <2>m. /\ held' = held /\ back' = back /\ pc[i] = "wait" /\ pc'[i] = "using" /\ Owner[i] \notin dead
        /\ \A j \in Instances \ {i} : pc'[j] = pc[j]
    BY <1>11 DEF Join, At, Goto, TypeOK
  <2>o. \A j \in Instances : held[j] # 0 => held[j] \in Objects
    BY HeldObjects
  <2>g. object[h].magic /\ object'[h].magic
    BY <1>11, <2>2 DEF Join
  <2>p. ~Using(i)
    BY <2>m DEF Using
  <2>q. Using(i)'
    BY SMTT(30), <2>1, <2>2, <2>m, <2>g, FileAssumption DEF Using, Objects
  <2>r. \A j \in Instances \ {i} : Using(j)' <=> Using(j)
    BY <2>1, <2>2, <2>m, <2>g, <2>o DEF Using
  <2>3. /\ \A j \in Instances : held'[j] = held[j] /\ (j # i => (Using(j)' <=> Using(j)))
        /\ Using(i)' /\ ~Using(i)
    BY <2>m, <2>p, <2>q, <2>r
  <2>4. \A o \in Objects, p \in Processes : UsersOf(o, p)' = IF o = h /\ p = Owner[i] THEN UsersOf(o, p) \cup {i} ELSE UsersOf(o, p)
    BY <2>3 DEF UsersOf
  <2> QED
    <3> SUFFICES ASSUME NEW o \in Objects, NEW p \in Processes \ dead', object'[o].inits = 1
                 PROVE  Refs(object'[o], p) = Cardinality(UsersOf(o, p)')
      BY DEF UsersAreRecorded, UsersOf
    <3>1. CASE o # h
      BY ZenonT(40), <2>2, <2>4, <3>1, RecordedIff
    <3>2. CASE o = h
      <4>1. i \notin UsersOf(h, p)
        BY <2>3 DEF UsersOf
      <4>2. Cardinality(UsersOf(h, p) \cup {i}) = Cardinality(UsersOf(h, p)) + 1
        BY <4>1, UserSets, FS_AddElement
      <4> QED
        <5>1. Refs(object[h], p) = Cardinality(UsersOf(h, p))
          BY <2>1, <2>2, <3>2, RecordedIff
        <5>2. CASE p = Owner[i]
          BY <2>1, <2>2, <2>4, <3>2, <4>2, <5>1, <5>2
        <5>3. CASE p # Owner[i]
          <6>1. UsersOf(o, p)' = UsersOf(h, p)
            BY <2>4, <3>2, <5>3
          <6>2. Refs(object'[o], p) = Refs(object[h], p) + 0
            BY <2>2, <3>2, <5>3
          <6> QED
            BY SMTT(30), <5>1, <6>1, <6>2, UserSets
        <5> QED
          BY <5>2, <5>3
    <3> QED
      BY <3>1, <3>2
<1>12. CASE JoinFails(i)
  BY <1>12, TypeParts, RecordedKept, FileAssumption DEF JoinFails, At, Goto, ControlType, PlaceType, Using, HeldSound, Opening, User, Objects
<1>13. CASE Retry(i)
  BY <1>13, TypeParts, RecordedKept, FileAssumption DEF Retry, At, Goto, ControlType, PlaceType, Using, HeldSound, Opening, User, Objects
<1>14. CASE SweepOpen(i)
  BY <1>14, TypeParts, RecordedKept, FileAssumption DEF SweepOpen, At, Goto, ControlType, PlaceType, Using, HeldSound, Opening, User, Objects
<1>15. CASE SweepFaults(i)
  BY <1>15, TypeParts, RecordedKept, FileAssumption DEF SweepFaults, At, Goto, ControlType, PlaceType, Using, HeldSound, Opening, User, Objects
<1>16. CASE SweepKeep(i)
  BY <1>16, TypeParts, RecordedKept, FileAssumption DEF SweepKeep, At, Goto, ControlType, PlaceType, Using, HeldSound, Opening, User, Objects
<1>17. CASE SweepJudge(i)
  BY <1>17, TypeParts, RecordedKept, FileAssumption DEF SweepJudge, At, Goto, ControlType, PlaceType, Using, HeldSound, Opening, User, Objects
<1>18. CASE SweepUnlink(i)
  BY <1>18, TypeParts, RecordedKept, FileAssumption DEF SweepUnlink, At, Goto, ControlType, PlaceType, Using, HeldSound, Opening, User, Objects
<1>19. CASE Leave(i)
  <2> DEFINE h == held[i]
  <2>u. Owner[i] \notin dead /\ User(i)
    BY <1>19 DEF Leave, At, User
  <2>1. h \in Objects /\ Owner[i] \in Processes
    BY <2>u, HeldObjects, FileAssumption DEF HeldSound
  <2>2. /\ dead' = dead /\ \A o \in Objects \ {h} : object'[o] = object[o]
        /\ object'[h].magic = object[h].magic /\ object'[h].inits = object[h].inits
        /\ \A p \in Processes : p # Owner[i] => Refs(object'[h], p) = Refs(object[h], p)
        /\ Refs(object[h], Owner[i]) > 0 => Refs(object'[h], Owner[i]) = Refs(object[h], Owner[i]) - 1
    BY <1>19, TypeParts, LeaveEffect DEF Leave
  <2>3. /\ \A j \in Instances \ {i} : held'[j] = held[j] /\ (Using(j)' <=> Using(j))
        /\ ~Using(i)' /\ Using(i)
    BY SMTT(30), <1>19, <2>1, <2>2 DEF Leave, At, Goto, TypeOK, Using, HeldSound, User, Objects
  <2>4. \A o \in Objects, p \in Processes : UsersOf(o, p)' = IF o = h /\ p = Owner[i] THEN UsersOf(o, p) \ {i} ELSE UsersOf(o, p)
    BY SMTT(30), <2>3 DEF UsersOf
  <2> QED
    <3> SUFFICES ASSUME NEW o \in Objects, NEW p \in Processes \ dead', object'[o].inits = 1
                 PROVE  Refs(object'[o], p) = Cardinality(UsersOf(o, p)')
      BY DEF UsersAreRecorded, UsersOf
    <3>1. CASE o # h
      BY <2>2, <2>4, <3>1, RecordedIff
    <3>2. CASE o = h
      <4>1. i \in UsersOf(h, Owner[i])
        BY <2>3 DEF UsersOf
      <4>2. Cardinality(UsersOf(h, Owner[i]) \ {i}) = Cardinality(UsersOf(h, Owner[i])) - 1 /\ Cardinality(UsersOf(h, Owner[i])) # 0
        BY <4>1, UserSets, FS_RemoveElement, FS_EmptySet
      <4>3. Owner[i] \notin dead /\ object[h].inits = 1
        BY <1>19, <2>2, <3>2 DEF Leave, At
      <4>4. Refs(object[h], Owner[i]) = Cardinality(UsersOf(h, Owner[i]))
        BY <2>1, <4>3, RecordedIff
      <4> QED
        <5>1. CASE p = Owner[i]
          <6>1. Refs(object[h], Owner[i]) > 0
            BY SMTT(30), <4>2, <4>4, UserSets
          <6> QED
            BY <2>1, <2>2, <2>4, <3>2, <4>2, <4>4, <5>1, <6>1
        <5>2. CASE p # Owner[i]
          BY SMTT(30), <2>1, <2>2, <2>4, <3>2, <4>3, <5>2, RecordedIff
        <5> QED
          BY <5>1, <5>2
    <3> QED
      BY <3>1, <3>2
<1>20. CASE SweepStart(i)
  BY <1>20, TypeParts, RecordedKept, FileAssumption DEF SweepStart, At, Goto, ControlType, PlaceType, Using, HeldSound, Opening, User, Objects
<1> QED
  BY <1>1, <1>2, <1>3, <1>4, <1>5, <1>6, <1>7, <1>8, <1>9, <1>10, <1>11, <1>12, <1>13, <1>14, <1>15, <1>16, <1>17, <1>18, <1>19, <1>20 DEF Action, Steps

\* A step keeps UsersAreRecorded, also when a process is killed.
LEMMA StepRecordedDie ==
  ASSUME TypeOK, HeldSound, InitialisedOnce, UsersAreRecorded, NEW p \in Processes, Die(p)
  PROVE  UsersAreRecorded'
<1>1. \A j \in Instances : Owner[j] \notin dead' => (Using(j)' <=> Using(j)) /\ (Using(j) => held'[j] = held[j])
  BY FileAssumption DEF Die, Killed, Using, TypeOK
<1>2. dead \subseteq dead' /\ object' = object
  BY DEF Die
<1> QED
  BY <1>1, <1>2, RecordedKept

\* Steps that bring nobody to an object and begin no removal keep Meeting.
LEMMA MeetingKept ==
  ASSUME Meeting, upset => upset', NoneTwice' => NoneTwice, name' = name,
         \A j \in Instances : Attached(j)' => Attached(j) /\ held'[j] = held[j],
         \A j \in Instances : At(j, "unlink")' => At(j, "unlink")
  PROVE  Meeting'
BY DEF Meeting, Removing

\* initializations are only counted up.
LEMMA TwiceStays ==
  ASSUME TypeOK, HeldSound, NEW i \in Instances, Action(i)
  PROVE  NoneTwice' => NoneTwice
<1>1. \A o \in Objects : object[o].inits \in Nat
  BY TypeParts DEF ObjectType, Header
<1>2. \A o \in Objects : object'[o].inits = object[o].inits \/ object'[o].inits = object[o].inits + 1
  <2>1. CASE Create(i)
    BY <2>1, TypeParts DEF Create
  <2>2. CASE CreateFails(i)
    BY <2>2, TypeParts DEF CreateFails
  <2>3. CASE Resize(i)
    BY <2>3, TypeParts, ResizeEffect
  <2>4. CASE CreatorFails(i)
    BY <2>4, TypeParts DEF CreatorFails
  <2>5. CASE AdoptFails(i)
    BY <2>5, TypeParts DEF AdoptFails
  <2>6. CASE Open(i)
    BY <2>6, TypeParts DEF Open
  <2>7. CASE OpenFails(i)
    BY <2>7, TypeParts DEF OpenFails
  <2>8. CASE Stat(i)
    BY <2>8, TypeParts DEF Stat
  <2>9. CASE Reset(i)
    BY <2>9, TypeParts, ResetEffect
  <2>10. CASE Publish(i)
    BY <2>10, TypeParts, PublishEffect
  <2>11. CASE Join(i)
    BY <2>11, TypeParts, JoinEffect
  <2>12. CASE JoinFails(i)
    BY <2>12, TypeParts DEF JoinFails
  <2>13. CASE Retry(i)
    BY <2>13, TypeParts DEF Retry
  <2>14. CASE SweepOpen(i)
    BY <2>14, TypeParts DEF SweepOpen
  <2>15. CASE SweepFaults(i)
    BY <2>15, TypeParts DEF SweepFaults
  <2>16. CASE SweepKeep(i)
    BY <2>16, TypeParts DEF SweepKeep
  <2>17. CASE SweepJudge(i)
    BY <2>17, TypeParts DEF SweepJudge
  <2>18. CASE SweepUnlink(i)
    BY <2>18, TypeParts DEF SweepUnlink
  <2>19. CASE Leave(i)
    BY <2>19, TypeParts, LeaveEffect
  <2>20. CASE SweepStart(i)
    BY <2>20, TypeParts DEF SweepStart
  <2> QED
    BY <2>1, <2>2, <2>3, <2>4, <2>5, <2>6, <2>7, <2>8, <2>9, <2>10, <2>11, <2>12, <2>13, <2>14, <2>15, <2>16, <2>17, <2>18, <2>19, <2>20 DEF Action, Steps
<1> QED
  BY SMTT(30), <1>1, <1>2 DEF NoneTwice

\* A live user of an object that was initialised once is in its records.
LEMMA UserInUse ==
  ASSUME TypeOK, HeldSound, InitialisedOnce, UsersAreRecorded, NoneTwice,
         NEW j \in Instances, Owner[j] \notin dead, User(j)
  PROVE  object[held[j]].magic /\ InUse(held[j])
<1> DEFINE h == held[j]
           p == Owner[j]
<1>1. h \in Objects /\ h # 0 /\ p \in Processes \ dead /\ object[h].magic
  BY HeldObjects, FileAssumption DEF HeldSound
<1>2. object[h].inits = 1
  <2>1. object[h].inits \in Nat
    BY <1>1, TypeParts DEF ObjectType, Header
  <2> QED
    BY SMTT(30), <1>1, <2>1 DEF InitialisedOnce, NoneTwice
<1>3. j \in UsersOf(h, p)
  BY <1>1 DEF UsersOf, Using, User
<1>4. Cardinality(UsersOf(h, p)) \in Nat /\ Cardinality(UsersOf(h, p)) # 0
  BY <1>3, UserSets, FS_EmptySet
<1>5. Refs(object[h], p) = Cardinality(UsersOf(h, p))
  BY <1>1, <1>2, RecordedIff
<1> QED
  BY SMTT(30), <1>1, <1>4, <1>5 DEF InUse

\* A step keeps Meeting.
LEMMA StepMeeting ==
  ASSUME TypeOK, HeldSound, InitialisedOnce, UsersAreRecorded, Meeting, NEW i \in Instances
  PROVE  Action(i) => Meeting'
<1> SUFFICES ASSUME Action(i) PROVE Meeting'
  OBVIOUS
<1>m. NoneTwice' => NoneTwice
  BY TwiceStays
<1>1. CASE Create(i)
  <2> SUFFICES ASSUME ~upset', NoneTwice'
               PROVE  /\ \A j \in Instances : Attached(j)' => held'[j] = name'
                      /\ Removing' => \A j \in Instances : ~Attached(j)'
    BY DEF Meeting
  <2>1. ~upset /\ NoneTwice
    BY <1>1, <1>m DEF Create, Upset
  <2>2. ~Removing /\ name = 0
    BY <1>1 DEF Create, Upset
  <2>3. \A j \in Instances : ~Attached(j)
    BY <2>1, <2>2 DEF Meeting, HeldSound, Attached
  <2>4. \A j \in Instances \ {i} : Attached(j)' => Attached(j)
    BY <1>1, TypeParts DEF Create, Goto, ControlType, Attached, Opening, User
  <2>5. held'[i] = name'
    BY <1>1, TypeParts DEF Create, PlaceType
  <2>6. ~Removing'
    BY <1>1, <2>2, TypeParts DEF Create, Goto, At, ControlType, Removing
  <2> QED
    BY <2>3, <2>4, <2>5, <2>6
<1>2. CASE CreateFails(i)
  BY <1>2, <1>m, TypeParts, MeetingKept DEF CreateFails, At, Goto, ControlType, PlaceType, Attached, Opening, User
<1>3. CASE Resize(i)
  BY <1>3, <1>m, TypeParts, MeetingKept DEF Resize, At, Goto, ControlType, PlaceType, Attached, Opening, User
<1>4. CASE CreatorFails(i)
  <2> SUFFICES ASSUME ~upset', NoneTwice'
               PROVE  /\ \A j \in Instances : Attached(j)' => held'[j] = name'
                      /\ Removing' => \A j \in Instances : ~Attached(j)'
    BY DEF Meeting
  <2>1. ~upset /\ NoneTwice
    BY <1>4, <1>m DEF CreatorFails, Upset
  <2>2. \A j \in Instances \ {i} : ~(Owner[j] \notin dead /\ held[j] = name)
    BY <1>4 DEF CreatorFails, Upset
  <2>3. \A j \in Instances \ {i} : ~Attached(j)
    BY <2>1, <2>2 DEF Meeting, Attached, Opening
  <2>4. \A j \in Instances : Attached(j)' => Attached(j) /\ j # i
    BY <1>4, TypeParts DEF CreatorFails, Goto, ControlType, Attached, Opening, User
  <2> QED
    BY <2>3, <2>4
<1>5. CASE AdoptFails(i)
  BY <1>5, <1>m, TypeParts, MeetingKept DEF AdoptFails, At, Goto, ControlType, PlaceType, Attached, Opening, User
<1>6. CASE Open(i)
  <2> SUFFICES ASSUME ~upset', NoneTwice'
               PROVE  /\ \A j \in Instances : Attached(j)' => held'[j] = name'
                      /\ Removing' => \A j \in Instances : ~Attached(j)'
    BY DEF Meeting
  <2>1. ~upset /\ NoneTwice
    BY <1>6, <1>m DEF Open, Upset
  <2>2. ~Removing /\ name' = name
    BY <1>6 DEF Open, Upset
  <2>3. \A j \in Instances : Attached(j) => held[j] = name
    BY <2>1 DEF Meeting
  <2>4. \A j \in Instances \ {i} : (Attached(j)' => Attached(j)) /\ held'[j] = held[j]
    BY <1>6, TypeParts DEF Open, Goto, ControlType, PlaceType, Attached, Opening, User
  <2>5. held'[i] = name
    BY <1>6, TypeParts DEF Open, PlaceType
  <2>6. ~Removing'
    BY <1>6, <2>2, TypeParts DEF Open, Goto, At, ControlType, Removing
  <2> QED
    BY <2>2, <2>3, <2>4, <2>5, <2>6
<1>7. CASE OpenFails(i)
  BY <1>7, <1>m, TypeParts, MeetingKept DEF OpenFails, At, Goto, ControlType, PlaceType, Attached, Opening, User
<1>8. CASE Stat(i)
  BY <1>8, <1>m, TypeParts, MeetingKept DEF Stat, At, Goto, ControlType, PlaceType, Attached, Opening, User
<1>9. CASE Reset(i)
  BY <1>9, <1>m, TypeParts, MeetingKept DEF Reset, At, Goto, ControlType, PlaceType, Attached, Opening, User
<1>10. CASE Publish(i)
  BY <1>10, <1>m, TypeParts, MeetingKept DEF Publish, At, Goto, ControlType, PlaceType, Attached, Opening, User
<1>11. CASE Join(i)
  BY <1>11, <1>m, TypeParts, MeetingKept DEF Join, At, Goto, ControlType, PlaceType, Attached, Opening, User
<1>12. CASE JoinFails(i)
  BY <1>12, <1>m, TypeParts, MeetingKept DEF JoinFails, At, Goto, ControlType, PlaceType, Attached, Opening, User
<1>13. CASE Retry(i)
  BY <1>13, <1>m, TypeParts, MeetingKept DEF Retry, At, Goto, ControlType, PlaceType, Attached, Opening, User
<1>14. CASE SweepOpen(i)
  BY <1>14, <1>m, TypeParts, MeetingKept DEF SweepOpen, At, Goto, ControlType, PlaceType, Attached, Opening, User
<1>15. CASE SweepFaults(i)
  BY <1>15, <1>m, TypeParts, MeetingKept DEF SweepFaults, At, Goto, ControlType, PlaceType, Attached, Opening, User
<1>16. CASE SweepKeep(i)
  BY <1>16, <1>m, TypeParts, MeetingKept DEF SweepKeep, At, Goto, ControlType, PlaceType, Attached, Opening, User
<1>17. CASE SweepJudge(i)
  <2> SUFFICES ASSUME ~upset', NoneTwice'
               PROVE  /\ \A j \in Instances : Attached(j)' => held'[j] = name'
                      /\ Removing' => \A j \in Instances : ~Attached(j)'
    BY DEF Meeting
  <2>1. ~upset /\ NoneTwice
    BY <1>17, <1>m DEF SweepJudge, Upset
  <2>2. /\ name \in {swept[i], 0} /\ \A j \in Instances : ~(Opening(j) /\ held[j] = swept[i])
        /\ object[swept[i]].magic => ~InUse(swept[i])
    BY <1>17 DEF SweepJudge, Upset
  <2>3. ASSUME NEW j \in Instances, Attached(j)
        PROVE  FALSE
    <3>1. held[j] = name /\ held[j] # 0
      BY <2>1, <2>3 DEF Meeting, HeldSound, Attached
    <3>2. held[j] = swept[i]
      BY <2>2, <3>1
    <3>3. Owner[j] \notin dead /\ User(j)
      BY <2>2, <2>3, <3>2 DEF Attached
    <3> QED
      BY <2>1, <2>2, <3>2, <3>3, UserInUse
  <2>4. \A j \in Instances : Attached(j)' => Attached(j)
    BY <1>17, TypeParts DEF SweepJudge, At, Goto, ControlType, Attached, Opening, User
  <2> QED
    BY <2>3, <2>4
<1>18. CASE SweepUnlink(i)
  <2> SUFFICES ASSUME ~upset', NoneTwice'
               PROVE  /\ \A j \in Instances : Attached(j)' => held'[j] = name'
                      /\ Removing' => \A j \in Instances : ~Attached(j)'
    BY DEF Meeting
  <2>1. ~upset /\ NoneTwice
    BY <1>18, <1>m DEF SweepUnlink, Upset
  <2>2. \A j \in Instances : ~Attached(j)
    BY <1>18, <2>1 DEF SweepUnlink, Meeting, Removing
  <2>3. \A j \in Instances : Attached(j)' => Attached(j)
    BY <1>18, TypeParts DEF SweepUnlink, At, Goto, ControlType, Attached, Opening, User
  <2> QED
    BY <2>2, <2>3
<1>19. CASE Leave(i)
  BY <1>19, <1>m, TypeParts, MeetingKept DEF Leave, At, Goto, ControlType, PlaceType, Attached, Opening, User
<1>20. CASE SweepStart(i)
  BY <1>20, <1>m, TypeParts, MeetingKept DEF SweepStart, At, Goto, ControlType, PlaceType, Attached, Opening, User
<1> QED
  BY <1>1, <1>2, <1>3, <1>4, <1>5, <1>6, <1>7, <1>8, <1>9, <1>10, <1>11, <1>12, <1>13, <1>14, <1>15, <1>16, <1>17, <1>18, <1>19, <1>20 DEF Action, Steps

\* A step keeps Meeting, also when a process is killed.
LEMMA StepMeetingDie ==
  ASSUME TypeOK, HeldSound, InitialisedOnce, UsersAreRecorded, Meeting, NEW p \in Processes, Die(p)
  PROVE  Meeting'
<1>1. (upset => upset') /\ name' = name /\ object' = object
  BY DEF Die
<1>2. \A j \in Instances : Attached(j)' => Attached(j) /\ held'[j] = held[j]
  BY FileAssumption DEF Die, Killed, Attached, Opening, User
<1>3. \A j \in Instances : At(j, "unlink")' => At(j, "unlink")
  BY DEF Die, Killed, At
<1>4. NoneTwice' => NoneTwice
  BY <1>1 DEF NoneTwice
<1> QED
  BY <1>1, <1>2, <1>3, <1>4, MeetingKept

\* Every step of the registry file's life keeps the inductive invariant.
LEMMA NextIInv == IInv /\ [Next]_vars => IInv'
<1> SUFFICES ASSUME IInv, [Next]_vars PROVE IInv'
  OBVIOUS
<1>0. TypeOK /\ HeldSound /\ InitialisedOnce /\ UsersAreRecorded /\ Meeting
  BY DEF IInv
<1>1. ASSUME NEW i \in Instances, Action(i)
      PROVE  IInv'
  <2>1. ObjectType' /\ PlaceType' /\ ControlType' /\ upset' \in BOOLEAN
    BY <1>0, <1>1, TypeParts, StepObject, StepPlace, StepControl, StepUpset
  <2>2. TypeOK'
    BY <2>1 DEF TypeOK, ObjectType, Header, PlaceType, ControlType
  <2> QED
    BY <1>0, <1>1, <2>2, StepHeld, StepOnce, StepRecorded, StepMeeting DEF IInv
<1>2. ASSUME NEW p \in Processes, Die(p)
      PROVE  IInv'
  <2>1. ObjectType' /\ PlaceType' /\ ControlType' /\ upset' \in BOOLEAN
    BY <1>0, <1>2, TypeParts, StepObjectDie, StepPlaceDie, StepControlDie, StepUpsetDie
  <2>2. TypeOK'
    BY <2>1 DEF TypeOK, ObjectType, Header, PlaceType, ControlType
  <2> QED
    BY <1>0, <1>2, <2>2, StepHeldDie, StepOnceDie, StepRecordedDie, StepMeetingDie DEF IInv
<1>3. CASE UNCHANGED vars
  <2>1. name' = name /\ object' = object /\ created' = created /\ pc' = pc /\ held' = held
    BY <1>3 DEF vars
  <2>2. swept' = swept /\ back' = back /\ dead' = dead /\ upset' = upset
    BY <1>3 DEF vars
  <2>3. TypeOK'
    BY <1>0, <2>1, <2>2 DEF TypeOK
  <2>4. HeldSound' /\ InitialisedOnce'
    BY <1>0, <2>1, <2>2 DEF HeldSound, InitialisedOnce, Opening, User, At
  <2>5. UsersAreRecorded'
    BY SMTT(30), <1>0, <2>1, <2>2 DEF UsersAreRecorded, Using
  <2>6. Meeting'
    BY <1>0, <2>1, <2>2 DEF Meeting, NoneTwice, Attached, Opening, User, Removing, At
  <2> QED
    BY <2>3, <2>4, <2>5, <2>6 DEF IInv
<1> QED
  BY <1>1, <1>2, <1>3 DEF Next, Action

\* The inductive invariant holds for ever: what an instance uses is finished, an
\* object initialised once has one initialiser, its records count its users, and
\* everybody is at the object that has the name.
THEOREM RegistryInvariant == Spec => []IInv
BY InitIInv, NextIInv, PTL DEF Spec

\* The registry's header, the name and every instance keep their types: ref_count
\* stays within its width although it may wrap below zero.
THEOREM TypeCorrect == Spec => []TypeOK
<1>1. IInv => TypeOK
  BY DEF IInv
<1> QED
  BY <1>1, RegistryInvariant, PTL

\* For any number of processes that start, leave, fail and are killed: the pid
\* records of an object initialised once count its live users exactly, whatever
\* ref_count has become.
THEOREM Recorded == Spec => []UsersAreRecorded
<1>1. IInv => UsersAreRecorded
  BY DEF IInv
<1> QED
  BY <1>1, RegistryInvariant, PTL

\* For any number of processes: all users are in the registry that has the name,
\* unless an object was initialised twice or a removal by name crossed an opener.
THEOREM AllMeet == Spec => []OneRegistry
<1>1. IInv => OneRegistry
  BY DEF IInv, Meeting, NoneTwice, OneRegistry, Attached, Using, User
<1> QED
  BY <1>1, RegistryInvariant, PTL

\* A remainder is what is left of a multiple.
LEMMA Remainder ==
  ASSUME NEW m \in Nat \ {0}, NEW q \in Int, NEW r \in 0 .. m - 1
  PROVE  (m * q + r) % m = r
BY SMTT(30)

\* A wrapping counter adds up as an unbounded one would.
LEMMA WrapAdd ==
  ASSUME NEW m \in Nat \ {0}, NEW a \in Int, NEW b \in Int
  PROVE  ((a % m) + b) % m = (a + b) % m
<1> DEFINE u == a \div m
           v == ((a % m) + b) \div m
           r == ((a % m) + b) % m
<1>1. a = m * u + (a % m) /\ u \in Int /\ a % m \in Int
  BY SMTT(30)
<1>2. (a % m) + b = m * v + r /\ v \in Int /\ r \in 0 .. m - 1
  BY SMTT(30), <1>1
<1> HIDE DEF u, v, r
<1>3. a + b = (m * u + m * v) + r
  BY SMTT(30), <1>1, <1>2
<1>4. m * u + m * v = m * (u + v) /\ u + v \in Int
  BY SMTT(30), <1>1, <1>2
<1>5. (m * (u + v) + r) % m = r
  BY <1>2, <1>4, Remainder
<1> QED
  BY <1>3, <1>4, <1>5 DEF r

\* The users of an object are finitely many.
LEMMA AllUserSets == \A o : IsFiniteSet(Users(o)) /\ Cardinality(Users(o)) \in Nat
BY FS_Subset, FS_CardinalityType, FileAssumption DEF Users

\* Publishing, joining and leaving set, raise and lower ref_count.
LEMMA CountEffect ==
  ASSUME ObjectType, PlaceType, HeldSound, NEW i \in Instances
  PROVE  /\ Publish(i) => object'[held[i]].count = 1
         /\ Join(i) => object'[held[i]].count = (object[held[i]].count + 1) % CountMod
         /\ Leave(i) => object'[held[i]].count = (object[held[i]].count - 1) % CountMod
<1> DEFINE h == held[i]
<1>1. ASSUME Publish(i) \/ Join(i) \/ Leave(i)
      PROVE  h \in Objects /\ Owner[i] \in Processes /\ object[h] \in Header
  <2>1. CASE Publish(i)
    BY <2>1, PublishEffect DEF ObjectType
  <2>2. CASE Join(i)
    BY <2>2, JoinEffect DEF ObjectType
  <2>3. CASE Leave(i)
    BY <2>3, LeaveEffect DEF ObjectType
  <2> QED
    BY <1>1, <2>1, <2>2, <2>3
<1>2. ASSUME Publish(i) PROVE object'[h].count = 1
  <2>1. object' = [object EXCEPT ![h] = [object[h] EXCEPT !.first = {Owner[i]}, !.count = 1, !.magic = TRUE]]
    BY <1>2 DEF Publish
  <2> QED
    BY <1>1, <1>2, <2>1 DEF ObjectType, Header
<1>3. ASSUME Join(i) PROVE object'[h].count = (object[h].count + 1) % CountMod
  <2> DEFINE w == WithPid(h, Owner[i])
  <2>1. object' = [object EXCEPT ![h] = [w EXCEPT !.count = (w.count + 1) % CountMod]]
    BY <1>3 DEF Join
  <2>2. w \in Header
    BY <1>1, <1>3, PidRecorded
  <2>3. w.count = object[h].count
    BY <1>1, <1>3 DEF WithPid, Header
  <2> HIDE DEF w
  <2> QED
    BY <1>1, <1>3, <2>1, <2>2, <2>3 DEF ObjectType, Header
<1>4. ASSUME Leave(i) PROVE object'[h].count = (object[h].count - 1) % CountMod
  <2> DEFINE w == WithoutPid(h, Owner[i])
  <2>1. object' = [object EXCEPT ![h] = [w EXCEPT !.count = (w.count - 1) % CountMod]]
    BY <1>4 DEF Leave, Removed
  <2>2. w \in Header
    BY <1>1, <1>4, PidRemoved
  <2>3. w.count = object[h].count
    BY <1>1, <1>4 DEF WithoutPid, Header
  <2> HIDE DEF w
  <2> QED
    BY <1>1, <1>4, <2>1, <2>2, <2>3 DEF ObjectType, Header
<1> QED
  BY <1>2, <1>3, <1>4

\* Steps by which nobody dies or comes back keep DeathShows.
LEMMA DeathKept ==
  ASSUME DeathShows, dead' = dead,
         \A j \in Instances : pc[j] \in {"killed", "fault"} => pc'[j] \in {"killed", "fault"}
  PROVE  DeathShows'
BY DEF DeathShows

\* A step keeps DeathShows.
LEMMA StepDeath ==
  ASSUME TypeOK, DeathShows, NEW i \in Instances
  PROVE  Action(i) => DeathShows'
<1>t. ControlType
  BY TypeParts
<1>1. CASE Create(i)
  BY <1>1, <1>t, DeathKept DEF ControlType, PlaceType, Create, At, Goto
<1>2. CASE CreateFails(i)
  BY <1>2, <1>t, DeathKept DEF ControlType, PlaceType, CreateFails, At, Goto
<1>3. CASE Resize(i)
  BY <1>3, <1>t, DeathKept DEF ControlType, PlaceType, Resize, At, Goto
<1>4. CASE CreatorFails(i)
  BY <1>4, <1>t, DeathKept DEF ControlType, PlaceType, CreatorFails, At, Goto
<1>5. CASE AdoptFails(i)
  BY <1>5, <1>t, DeathKept DEF ControlType, PlaceType, AdoptFails, At, Goto
<1>6. CASE Open(i)
  BY <1>6, <1>t, DeathKept DEF ControlType, PlaceType, Open, At, Goto
<1>7. CASE OpenFails(i)
  BY <1>7, <1>t, DeathKept DEF ControlType, PlaceType, OpenFails, At, Goto
<1>8. CASE Stat(i)
  BY <1>8, <1>t, DeathKept DEF ControlType, PlaceType, Stat, At, Goto
<1>9. CASE Reset(i)
  BY <1>9, <1>t, DeathKept DEF ControlType, PlaceType, Reset, At, Goto
<1>10. CASE Publish(i)
  BY <1>10, <1>t, DeathKept DEF ControlType, PlaceType, Publish, At, Goto
<1>11. CASE Join(i)
  BY <1>11, <1>t, DeathKept DEF ControlType, PlaceType, Join, At, Goto
<1>12. CASE JoinFails(i)
  BY <1>12, <1>t, DeathKept DEF ControlType, PlaceType, JoinFails, At, Goto
<1>13. CASE Retry(i)
  BY <1>13, <1>t, DeathKept DEF ControlType, PlaceType, Retry, At, Goto
<1>14. CASE SweepOpen(i)
  BY <1>14, <1>t, DeathKept DEF ControlType, PlaceType, SweepOpen, At, Goto
<1>15. CASE SweepFaults(i)
  <2>1. /\ Owner[i] \notin dead /\ pc[i] = "judge" /\ dead' = dead \cup {Owner[i]}
        /\ pc'[i] = "fault" /\ \A j \in Instances \ {i} : pc'[j] = pc[j]
    BY <1>15, <1>t DEF ControlType, PlaceType, SweepFaults, At, Goto
  <2> QED
    BY <2>1 DEF DeathShows
<1>16. CASE SweepKeep(i)
  BY <1>16, <1>t, DeathKept DEF ControlType, PlaceType, SweepKeep, At, Goto
<1>17. CASE SweepJudge(i)
  BY <1>17, <1>t, DeathKept DEF ControlType, PlaceType, SweepJudge, At, Goto
<1>18. CASE SweepUnlink(i)
  BY <1>18, <1>t, DeathKept DEF ControlType, PlaceType, SweepUnlink, At, Goto
<1>19. CASE Leave(i)
  BY <1>19, <1>t, DeathKept DEF ControlType, PlaceType, Leave, At, Goto
<1>20. CASE SweepStart(i)
  BY <1>20, <1>t, DeathKept DEF ControlType, PlaceType, SweepStart, At, Goto
<1> QED
  BY <1>1, <1>2, <1>3, <1>4, <1>5, <1>6, <1>7, <1>8, <1>9, <1>10, <1>11, <1>12, <1>13, <1>14, <1>15, <1>16, <1>17, <1>18, <1>19, <1>20 DEF Action, Steps

\* A step keeps DeathShows, also when a process is killed.
LEMMA StepDeathDie ==
  ASSUME TypeOK, DeathShows, NEW p \in Processes, Die(p)
  PROVE  DeathShows'
<1>1. dead' = dead \cup {p} /\ \A j \in Instances : pc'[j] = IF Owner[j] = p THEN "killed" ELSE pc[j]
  BY DEF Die, Killed
<1> QED
  BY <1>1 DEF DeathShows

\* Steps that change neither a count nor who uses what keep Counted.
LEMMA CountedKept ==
  ASSUME Counted, dead' = dead,
         \A o \in Objects : /\ object'[o].inits = object[o].inits /\ object'[o].magic = object[o].magic
                            /\ object'[o].count = object[o].count,
         \A j \in Instances : (Using(j)' <=> Using(j)) /\ (Using(j) => held'[j] = held[j])
  PROVE  Counted'
<1>1. \A o : Users(o)' = Users(o)
  BY DEF Users
<1> QED
  BY <1>1 DEF Counted, AllLive

\* A step keeps Counted.
LEMMA StepCounted ==
  ASSUME TypeOK, HeldSound, InitialisedOnce, Counted, NEW i \in Instances
  PROVE  Action(i) => Counted'
<1>t. ObjectType /\ PlaceType /\ ControlType
  BY TypeParts
<1>o. \A j \in Instances : held[j] # 0 => held[j] \in Objects
  BY HeldObjects
<1>1. CASE Create(i)
  BY <1>1, <1>t, CountedKept DEF ControlType, PlaceType, Create, At, Goto, Using
<1>2. CASE CreateFails(i)
  BY <1>2, <1>t, CountedKept DEF ControlType, PlaceType, CreateFails, At, Goto, Using
<1>3. CASE Resize(i)
  <2>1. /\ held[i] \in Objects
        /\ \A o \in Objects : object'[o].inits = object[o].inits /\ object'[o].magic = object[o].magic
        /\ \A o \in Objects \ {held[i]} : object'[o] = object[o]
    BY <1>3, <1>t, ResizeEffect
  <2>2. \A o \in Objects : object'[o].count = object[o].count
    BY SMTT(30), <1>3, <1>t, <2>1 DEF ControlType, PlaceType, Resize, ObjectType, Header
  <2>3. \A j \in Instances : (Using(j)' <=> Using(j)) /\ (Using(j) => held'[j] = held[j])
    BY SMTT(30), <1>3, <1>t, <1>o, <2>1 DEF ControlType, PlaceType, Resize, At, Goto, Using
  <2>4. dead' = dead
    BY <1>3 DEF Resize
  <2> QED
    BY <2>1, <2>2, <2>3, <2>4, CountedKept
<1>4. CASE CreatorFails(i)
  BY <1>4, <1>t, CountedKept DEF ControlType, PlaceType, CreatorFails, At, Goto, Using
<1>5. CASE AdoptFails(i)
  BY <1>5, <1>t, CountedKept DEF ControlType, PlaceType, AdoptFails, At, Goto, Using
<1>6. CASE Open(i)
  BY <1>6, <1>t, CountedKept DEF ControlType, PlaceType, Open, At, Goto, Using
<1>7. CASE OpenFails(i)
  BY <1>7, <1>t, CountedKept DEF ControlType, PlaceType, OpenFails, At, Goto, Using
<1>8. CASE Stat(i)
  BY <1>8, <1>t, CountedKept DEF ControlType, PlaceType, Stat, At, Goto, Using
<1>9. CASE Reset(i)
  <2>h. PICK h : h = held[i]
    OBVIOUS
  <2>2. /\ h \in Objects /\ \A o \in Objects \ {h} : object'[o] = object[o]
        /\ object'[h].magic = object[h].magic /\ object'[h].inits = object[h].inits + 1 /\ object[h].inits \in Nat
    BY <2>h, <1>9, <1>t, ResetEffect
  <2>m. dead' = dead /\ held' = held /\ back' = back /\ pc[i] = "reset" /\ pc'[i] = "publish" /\ \A j \in Instances \ {i} : pc'[j] = pc[j]
    BY <1>9, <1>t DEF ControlType, PlaceType, Reset, At, Goto
  <2>3. \A j \in Instances : (Using(j)' <=> Using(j)) /\ held'[j] = held[j]
    BY <2>h, <2>2, <2>m, <1>o DEF Using
  <2> QED
    <3> SUFFICES ASSUME AllLive, NEW o \in Objects, object'[o].inits = 1, object'[o].magic
                 PROVE  object'[o].count = Cardinality(Users(o)') % CountMod
      BY <2>m DEF Counted, AllLive
    <3>1. CASE o # h
      <4>1. Users(o)' = Users(o)
        BY <2>h, <2>3, <3>1 DEF Users
      <4> QED
        BY <2>2, <3>1, <4>1 DEF Counted
    <3>2. CASE o = h
      BY SMTT(30), <2>2, <3>2 DEF InitialisedOnce
    <3> QED
      BY <3>1, <3>2
<1>10. CASE Publish(i)
  <2>h. PICK h : h = held[i]
    OBVIOUS
  <2>2. /\ h \in Objects /\ \A o \in Objects \ {h} : object'[o] = object[o]
        /\ object'[h].magic /\ object'[h].inits = object[h].inits /\ object'[h].count = 1
    BY <2>h, <1>10, <1>t, PublishEffect, CountEffect
  <2>m. /\ dead' = dead /\ held' = held /\ back' = back /\ pc[i] = "publish" /\ pc'[i] = "using" /\ Owner[i] \notin dead
        /\ \A j \in Instances \ {i} : pc'[j] = pc[j]
    BY <1>10, <1>t DEF ControlType, PlaceType, Publish, At, Goto
  <2>3. \A j \in Instances : held'[j] = held[j] /\ (held[j] # h => (Using(j)' <=> Using(j)))
    BY <2>h, <2>2, <2>m, <1>o DEF Using
  <2> QED
    <3> SUFFICES ASSUME AllLive, NEW o \in Objects, object'[o].inits = 1, object'[o].magic
                 PROVE  object'[o].count = Cardinality(Users(o)') % CountMod
      BY <2>m DEF Counted, AllLive
    <3>1. CASE o # h
      <4>1. Users(o)' = Users(o)
        BY <2>h, <2>3, <3>1 DEF Users
      <4> QED
        BY <2>2, <3>1, <4>1 DEF Counted
    <3>2. CASE o = h
      <4>1. ~object[h].magic
        BY <2>h, <2>2, <2>m, <3>2 DEF InitialisedOnce, At
      <4>2. \A j \in Instances : Using(j)' /\ held'[j] = h => j = i
        BY <2>h, <2>2, <2>m, <4>1 DEF HeldSound, User, Using
      <4>3. Using(i)' /\ held'[i] = h
        BY SMTT(30), <2>h, <2>2, <2>m, FileAssumption DEF Using, Objects
      <4>4. Users(h)' = {i}
        BY <4>2, <4>3 DEF Users
      <4>5. Cardinality({i}) = 1
        BY FS_Singleton
      <4>6. 1 % CountMod = 1
        BY SMTT(30), FileAssumption
      <4> QED
        BY <2>2, <3>2, <4>4, <4>5, <4>6
    <3> QED
      BY <3>1, <3>2
<1>11. CASE Join(i)
  <2>h. PICK h : h = held[i]
    OBVIOUS
  <2>2. /\ h \in Objects /\ \A o \in Objects \ {h} : object'[o] = object[o]
        /\ object'[h].magic = object[h].magic /\ object'[h].inits = object[h].inits
        /\ object'[h].count = (object[h].count + 1) % CountMod
    BY <2>h, <1>11, <1>t, JoinEffect, CountEffect
  <2>m. /\ dead' = dead /\ Owner[i] \notin dead /\ pc[i] = "wait" /\ pc'[i] = "using" /\ held'[i] = held[i]
        /\ \A j \in Instances \ {i} : pc'[j] = pc[j] /\ held'[j] = held[j] /\ back'[j] = back[j]
    BY <1>11, <1>t DEF ControlType, PlaceType, Join, At, Goto
  <2>g. h # 0 /\ object[h].magic
    BY SMTT(30), <2>h, <1>11, <2>2, FileAssumption DEF Join, At, HeldSound, User, Objects
  <2>3. \A j \in Instances \ {i} : held'[j] = held[j] /\ (Using(j)' <=> Using(j))
    BY SMTT(30), <2>h, <2>2, <2>m, <1>o DEF Using
  <2>4. Using(i)' /\ ~Using(i)
    BY <2>h, <2>2, <2>m, <2>g DEF Using
  <2>5. \A o \in Objects \ {h} : Users(o)' = Users(o)
    BY <2>h, <2>3, <2>4, <2>m DEF Users
  <2>6. Users(h)' = Users(h) \cup {i} /\ i \notin Users(h)
    <3>1. \A j \in Instances : j \in Users(h)' <=> j \in Users(h) \/ j = i
      BY <2>h, <2>3, <2>4, <2>m DEF Users
    <3> QED
      BY <2>h, <2>4, <3>1 DEF Users
  <2> QED
    <3> SUFFICES ASSUME AllLive, NEW o \in Objects, object'[o].inits = 1, object'[o].magic
                 PROVE  object'[o].count = Cardinality(Users(o)') % CountMod
      BY <2>m DEF Counted, AllLive
    <3>1. CASE o # h
      BY <2>2, <2>5, <3>1 DEF Counted
    <3>2. CASE o = h
      <4> DEFINE n == Cardinality(Users(h))
      <4>1. Cardinality(Users(h)') = n + 1 /\ n \in Nat
        BY <2>6, AllUserSets, FS_AddElement
      <4>2. object[h].count = n % CountMod
        BY <2>2, <3>2 DEF Counted
      <4> HIDE DEF n
      <4>3. ((n % CountMod) + (1)) % CountMod = (n + (1)) % CountMod
        <5>1. n \in Int /\ 1 \in Int /\ CountMod \in Nat \ {0}
          BY SMTT(30), <4>1, FileAssumption
        <5> QED
          BY <5>1, WrapAdd
      <4>4. n % CountMod \in Int
        BY SMTT(30), <4>1, Wrap, FileAssumption
      <4>5. (n % CountMod) + 1 = (n % CountMod) + (1) /\ n + 1 = n + (1)
        BY <4>1, <4>4
      <4> QED
        BY <2>2, <3>2, <4>1, <4>2, <4>3, <4>5
    <3> QED
      BY <3>1, <3>2
<1>12. CASE JoinFails(i)
  BY <1>12, <1>t, CountedKept DEF ControlType, PlaceType, JoinFails, At, Goto, Using
<1>13. CASE Retry(i)
  BY <1>13, <1>t, CountedKept DEF ControlType, PlaceType, Retry, At, Goto, Using
<1>14. CASE SweepOpen(i)
  BY <1>14, <1>t, CountedKept DEF ControlType, PlaceType, SweepOpen, At, Goto, Using
<1>15. CASE SweepFaults(i)
  <2>1. Owner[i] \in dead'
    BY <1>15 DEF SweepFaults
  <2> QED
    BY <2>1 DEF Counted, AllLive
<1>16. CASE SweepKeep(i)
  BY <1>16, <1>t, CountedKept DEF ControlType, PlaceType, SweepKeep, At, Goto, Using
<1>17. CASE SweepJudge(i)
  BY <1>17, <1>t, CountedKept DEF ControlType, PlaceType, SweepJudge, At, Goto, Using
<1>18. CASE SweepUnlink(i)
  BY <1>18, <1>t, CountedKept DEF ControlType, PlaceType, SweepUnlink, At, Goto, Using
<1>19. CASE Leave(i)
  <2>h. PICK h : h = held[i]
    OBVIOUS
  <2>2. /\ h \in Objects /\ \A o \in Objects \ {h} : object'[o] = object[o]
        /\ object'[h].magic = object[h].magic /\ object'[h].inits = object[h].inits
        /\ object'[h].count = (object[h].count - 1) % CountMod
    BY <2>h, <1>19, <1>t, LeaveEffect, CountEffect
  <2>m. /\ dead' = dead /\ Owner[i] \notin dead /\ pc[i] = "using" /\ held'[i] = 0
        /\ \A j \in Instances \ {i} : pc'[j] = pc[j] /\ held'[j] = held[j] /\ back'[j] = back[j]
    BY <1>19, <1>t DEF ControlType, PlaceType, Leave, At, Goto
  <2>g. h # 0 /\ object[h].magic
    BY <2>h, <1>19, <2>2, FileAssumption DEF Leave, At, HeldSound, User, Objects
  <2>3. \A j \in Instances \ {i} : held'[j] = held[j] /\ (Using(j)' <=> Using(j))
    BY SMTT(30), <2>h, <2>2, <2>m, <1>o DEF Using
  <2>4. Using(i) /\ ~Using(i)'
    BY <2>h, <2>2, <2>m, <2>g DEF Using
  <2>5. \A o \in Objects \ {h} : Users(o)' = Users(o)
    BY <2>h, <2>3, <2>4 DEF Users
  <2>6. Users(h)' = Users(h) \ {i} /\ i \in Users(h)
    <3>1. \A j \in Instances : j \in Users(h)' <=> j \in Users(h) /\ j # i
      BY <2>h, <2>3, <2>4, <2>m DEF Users
    <3> QED
      BY <2>h, <2>4, <3>1 DEF Users
  <2> QED
    <3> SUFFICES ASSUME AllLive, NEW o \in Objects, object'[o].inits = 1, object'[o].magic
                 PROVE  object'[o].count = Cardinality(Users(o)') % CountMod
      BY <2>m DEF Counted, AllLive
    <3>1. CASE o # h
      BY <2>2, <2>5, <3>1 DEF Counted
    <3>2. CASE o = h
      <4> DEFINE n == Cardinality(Users(h))
      <4>1. Cardinality(Users(h)') = n - 1 /\ n \in Nat
        BY ZenonT(40), <2>6, AllUserSets, FS_RemoveElement
      <4>2. object[h].count = n % CountMod
        BY <2>2, <3>2 DEF Counted
      <4> HIDE DEF n
      <4>3. ((n % CountMod) + (-1)) % CountMod = (n + (-1)) % CountMod
        <5>1. n \in Int /\ -1 \in Int /\ CountMod \in Nat \ {0}
          BY SMTT(30), <4>1, FileAssumption
        <5> QED
          BY <5>1, WrapAdd
      <4>4. n % CountMod \in Int
        BY SMTT(30), <4>1, Wrap, FileAssumption
      <4>5. (n % CountMod) - 1 = (n % CountMod) + (-1) /\ n - 1 = n + (-1)
        BY <4>1, <4>4
      <4> QED
        BY <2>2, <3>2, <4>1, <4>2, <4>3, <4>5
    <3> QED
      BY <3>1, <3>2
<1>20. CASE SweepStart(i)
  BY <1>20, <1>t, CountedKept DEF ControlType, PlaceType, SweepStart, At, Goto, Using
<1> QED
  BY <1>1, <1>2, <1>3, <1>4, <1>5, <1>6, <1>7, <1>8, <1>9, <1>10, <1>11, <1>12, <1>13, <1>14, <1>15, <1>16, <1>17, <1>18, <1>19, <1>20 DEF Action, Steps

\* When somebody has died, nothing is claimed.
LEMMA DieKeepsClean ==
  ASSUME NEW p \in Processes, Die(p), Counted, Guarded, TypeOK
  PROVE  Counted' /\ Guarded'
<1>1. CASE \E i \in Instances : Owner[i] = p
  BY <1>1 DEF Die, Counted, Guarded, AllLive
<1>2. CASE \A i \in Instances : Owner[i] # p
  <2>1. /\ \A j \in Instances : pc'[j] = pc[j] /\ held'[j] = held[j] /\ swept'[j] = swept[j] /\ back'[j] = back[j]
        /\ object' = object /\ name' = name /\ dead' = dead \cup {p}
    BY <1>2 DEF Die, Killed
  <2>2. \A o : Users(o)' = Users(o)
    BY SMTT(30), <1>2, <2>1 DEF Users, Using
  <2>3. \A j \in Instances : Guards(j)' <=> Guards(j)
    BY <2>1 DEF Guards, User
  <2> QED
    BY <2>1, <2>2, <2>3 DEF Counted, Guarded, AllLive, NoneTwice
<1> QED
  BY <1>1, <1>2

\* Steps by which nobody gives up what it answers for keep Guarded.
LEMMA GuardedKept ==
  ASSUME Guarded, dead' = dead, name' = name, NoneTwice' => NoneTwice,
         \A j \in Instances : Guards(j) => Guards(j)'
  PROVE  Guarded'
BY DEF Guarded, AllLive

\* An object that is in use has a user.
LEMMA InUseHasUser ==
  ASSUME TypeOK, InitialisedOnce, UsersAreRecorded, NoneTwice, NEW o \in Objects, object[o].magic,
         InUse(o) \/ MayHaveEntry(o)
  PROVE  \E j \in Instances : User(j) /\ held[j] = o
<1>1. CASE MayHaveEntry(o)
  BY <1>1 DEF MayHaveEntry, Using, User
<1>2. CASE InUse(o)
  <2>1. PICK p \in Processes \ dead : Refs(object[o], p) > 0
    BY <1>2 DEF InUse
  <2>2. object[o].inits = 1
    <3>1. object[o].inits \in Nat
      BY TypeParts DEF ObjectType, Header
    <3> QED
      BY SMTT(30), <3>1 DEF InitialisedOnce, NoneTwice
  <2>3. Refs(object[o], p) = Cardinality(UsersOf(o, p))
    BY <2>2, RecordedIff
  <2>4. UsersOf(o, p) # {}
    BY SMTT(30), <2>1, <2>3, FS_EmptySet
  <2> QED
    BY <2>4 DEF UsersOf, Using, User
<1> QED
  BY <1>1, <1>2

\* A step keeps Guarded.
LEMMA StepGuarded ==
  ASSUME TypeOK, HeldSound, InitialisedOnce, UsersAreRecorded, Counted, Guarded, NEW i \in Instances
  PROVE  Action(i) => Guarded'
<1> SUFFICES ASSUME Action(i) PROVE Guarded'
  OBVIOUS
<1>t. PlaceType /\ ControlType
  BY TypeParts
<1>m. NoneTwice' => NoneTwice
  BY TwiceStays
<1>1. CASE Create(i)
  <2>1. held'[i] = name' /\ pc'[i] = "resize"
    BY <1>1, <1>t DEF ControlType, PlaceType, Create, Goto
  <2> QED
    BY <2>1 DEF Guarded, Guards
<1>2. CASE CreateFails(i)
  BY <1>2, <1>m, <1>t, GuardedKept DEF ControlType, PlaceType, CreateFails, At, Goto, Guards, User
<1>3. CASE Resize(i)
  BY <1>3, <1>m, <1>t, GuardedKept DEF ControlType, PlaceType, Resize, At, Goto, Guards, User
<1>4. CASE CreatorFails(i)
  BY <1>4 DEF CreatorFails, Guarded
<1>5. CASE AdoptFails(i)
  BY <1>5, <1>m, <1>t, GuardedKept DEF ControlType, PlaceType, AdoptFails, At, Goto, Guards, User
<1>6. CASE Open(i)
  BY <1>6, <1>m, <1>t, GuardedKept DEF ControlType, PlaceType, Open, At, Goto, Guards, User
<1>7. CASE OpenFails(i)
  BY <1>7, <1>m, <1>t, GuardedKept DEF ControlType, PlaceType, OpenFails, At, Goto, Guards, User
<1>8. CASE Stat(i)
  BY <1>8, <1>m, <1>t, GuardedKept DEF ControlType, PlaceType, Stat, At, Goto, Guards, User
<1>9. CASE Reset(i)
  BY <1>9, <1>m, <1>t, GuardedKept DEF ControlType, PlaceType, Reset, At, Goto, Guards, User
<1>10. CASE Publish(i)
  BY <1>10, <1>m, <1>t, GuardedKept DEF ControlType, PlaceType, Publish, At, Goto, Guards, User
<1>11. CASE Join(i)
  BY <1>11, <1>m, <1>t, GuardedKept DEF ControlType, PlaceType, Join, At, Goto, Guards, User
<1>12. CASE JoinFails(i)
  BY <1>12, <1>m, <1>t, GuardedKept DEF ControlType, PlaceType, JoinFails, At, Goto, Guards, User
<1>13. CASE Retry(i)
  BY <1>13, <1>m, <1>t, GuardedKept DEF ControlType, PlaceType, Retry, At, Goto, Guards, User
<1>14. CASE SweepOpen(i)
  <2>1. /\ name' = name /\ held' = held /\ back' = back /\ dead' = dead
        /\ swept'[i] = name /\ (name # 0 => pc'[i] = "judge")
        /\ \A j \in Instances \ {i} : pc'[j] = pc[j] /\ swept'[j] = swept[j]
    BY <1>14, <1>t DEF ControlType, PlaceType, SweepOpen, Goto
  <2>2. CASE name = 0
    BY <2>1, <2>2 DEF Guarded
  <2>3. CASE name # 0
    BY <2>1, <2>3 DEF Guarded, Guards
  <2> QED
    BY <2>2, <2>3
<1>15. CASE SweepFaults(i)
  BY <1>15 DEF SweepFaults, Guarded, AllLive
<1>16. CASE SweepKeep(i)
  <2>1. /\ name' = name /\ held' = held /\ back' = back /\ dead' = dead /\ object' = object
        /\ pc[i] = "judge" /\ pc'[i] = back[i]
        /\ \A j \in Instances \ {i} : pc'[j] = pc[j] /\ swept'[j] = swept[j]
    BY <1>16, <1>t DEF ControlType, PlaceType, SweepKeep, At, Goto
  <2>2. \A j \in Instances \ {i} : Guards(j) => Guards(j)'
    BY <2>1 DEF Guards, User
  <2>3. \A j \in Instances : User(j) /\ held[j] = name => Guards(j)'
    BY <2>1 DEF Guards, User
  <2> SUFFICES ASSUME AllLive, NoneTwice, name # 0 PROVE \E j \in Instances : Guards(j)'
    BY <1>m, <2>1 DEF Guarded, AllLive
  <2>4. CASE swept[i] = name
    <3>1. name \in Objects
      BY SMTT(30), <1>t, <2>1, TypeParts, FileAssumption DEF ControlType, PlaceType, PlaceType, Objects
    <3>2. object[name].magic /\ (InUse(name) \/ MayHaveEntry(name))
      BY <1>16, <2>4 DEF SweepKeep
    <3>3. \E j \in Instances : User(j) /\ held[j] = name
      BY <3>1, <3>2, InUseHasUser
    <3> QED
      BY <2>3, <3>3
  <2>5. CASE swept[i] # name
    <3>1. PICK j \in Instances : Guards(j)
      BY DEF Guarded
    <3>2. j = i => User(i) /\ held[i] = name
      BY <2>1, <2>5, <3>1 DEF Guards
    <3> QED
      BY <2>2, <2>3, <3>1, <3>2
  <2> QED
    BY <2>4, <2>5
<1>17. CASE SweepJudge(i)
  BY <1>17, <1>m, <1>t, GuardedKept DEF ControlType, PlaceType, SweepJudge, At, Goto, Guards, User
<1>18. CASE SweepUnlink(i)
  BY <1>18 DEF SweepUnlink, Guarded
<1>19. CASE Leave(i)
  <2> DEFINE h == held[i]
  <2>1. /\ name' = name /\ dead' = dead /\ Owner[i] \notin dead /\ pc[i] = "using" /\ swept' = swept
        /\ \A j \in Instances \ {i} : pc'[j] = pc[j] /\ held'[j] = held[j] /\ back'[j] = back[j]
    BY <1>19, <1>t DEF ControlType, PlaceType, Leave, At, Goto
  <2>2. \A j \in Instances \ {i} : Guards(j) => Guards(j)'
    BY <2>1 DEF Guards, User
  <2> SUFFICES ASSUME AllLive, NoneTwice, name # 0 PROVE \E j \in Instances : Guards(j)'
    BY <1>m, <2>1 DEF Guarded, AllLive
  <2>3. PICK j \in Instances : Guards(j)
    BY DEF Guarded
  <2>4. CASE \E k \in Instances \ {i} : User(k) /\ held[k] = h
    <3>1. PICK k \in Instances \ {i} : User(k) /\ held[k] = h
      BY <2>4
    <3>2. j = i => Guards(k)
      BY <2>1, <2>3, <3>1 DEF Guards
    <3> QED
      BY <2>2, <2>3, <3>1, <3>2
  <2>5. CASE ~ \E k \in Instances \ {i} : User(k) /\ held[k] = h
    <3>1. h \in Objects /\ h # 0 /\ object[h].magic
      BY <2>1, HeldObjects DEF HeldSound, User
    <3>2. Users(h) = {i}
      BY <2>1, <2>5, <3>1 DEF Users, Using, User
    <3>3. object[h].inits = 1
      <4>1. object[h].inits \in Nat
        BY <3>1, TypeParts DEF ObjectType, Header
      <4> QED
        BY SMTT(30), <3>1, <4>1 DEF InitialisedOnce, NoneTwice
    <3>4. object[h].count = 1
      <4>1. object[h].count = Cardinality(Users(h)) % CountMod
        BY <3>1, <3>3 DEF Counted
      <4>2. Cardinality(Users(h)) = 1
        BY <3>2, FS_Singleton
      <4>3. 1 % CountMod = 1
        BY SMTT(30), FileAssumption
      <4> QED
        BY <4>1, <4>2, <4>3
    <3>5. object'[h].count = 0
      <4>1. object'[h].count = (object[h].count - 1) % CountMod
        BY <1>19, TypeParts, CountEffect
      <4>2. 1 - 1 = 0 /\ 0 % CountMod = 0
        BY SMTT(30), FileAssumption
      <4> QED
        BY <3>4, <4>1, <4>2
    <3>6. pc'[i] = IF object'[h].count = 0 THEN "sweep" ELSE "done"
      BY <1>19, <1>t, <3>1, TypeParts DEF ControlType, PlaceType, Leave, Goto, ObjectType
    <3> QED
      BY <3>5, <3>6 DEF Guards
  <2> QED
    BY <2>4, <2>5
<1>20. CASE SweepStart(i)
  BY <1>20, <1>m, <1>t, GuardedKept DEF ControlType, PlaceType, SweepStart, At, Goto, Guards, User
<1> QED
  BY <1>1, <1>2, <1>3, <1>4, <1>5, <1>6, <1>7, <1>8, <1>9, <1>10, <1>11, <1>12, <1>13, <1>14, <1>15, <1>16, <1>17, <1>18, <1>19, <1>20 DEF Action, Steps

\* Every step keeps what LastOneCleans rests on.
LEMMA NextClean == IInv /\ CleanInv /\ [Next]_vars => CleanInv'
<1> SUFFICES ASSUME IInv, CleanInv, [Next]_vars PROVE CleanInv'
  OBVIOUS
<1>0. TypeOK /\ HeldSound /\ InitialisedOnce /\ UsersAreRecorded /\ DeathShows /\ Counted /\ Guarded
  BY DEF IInv, CleanInv
<1>1. ASSUME NEW i \in Instances, Action(i)
      PROVE  CleanInv'
  BY <1>0, <1>1, StepDeath, StepCounted, StepGuarded DEF CleanInv
<1>2. ASSUME NEW p \in Processes, Die(p)
      PROVE  CleanInv'
  BY <1>0, <1>2, StepDeathDie, DieKeepsClean DEF CleanInv
<1>3. CASE UNCHANGED vars
  <2>1. name' = name /\ object' = object /\ pc' = pc /\ held' = held /\ swept' = swept /\ back' = back /\ dead' = dead
    BY <1>3 DEF vars
  <2>2. DeathShows'
    BY <1>0, <2>1 DEF DeathShows
  <2>3. Counted'
    BY <1>0, <2>1 DEF Counted, AllLive, Users, Using
  <2>4. Guarded'
    BY <1>0, <2>1 DEF Guarded, AllLive, NoneTwice, Guards, User
  <2> QED
    BY <2>2, <2>3, <2>4 DEF CleanInv
<1> QED
  BY <1>1, <1>2, <1>3 DEF Next, Action

\* For any number of instances and processes, at any width of ref_count: when every
\* instance has been destroyed in the regular way the name is gone, unless an object
\* was initialised twice; also when removals by name crossed openers.
THEOREM LastCleans == Spec => []LastOneCleans
<1>1. Init => CleanInv
  BY SMTT(30), FileAssumption DEF Init, CleanInv, DeathShows, Counted, Guarded, Unused
<1>2. IInv /\ CleanInv => LastOneCleans
  <2> SUFFICES ASSUME CleanInv, \A i \in Instances : pc[i] = "done", NoneTwice
               PROVE  name = 0
    BY DEF LastOneCleans, NoneTwice
  <2>1. AllLive
    BY DEF CleanInv, DeathShows, AllLive
  <2>2. \A i \in Instances : ~Guards(i)
    BY DEF Guards, User
  <2> QED
    BY <2>1, <2>2 DEF CleanInv, Guarded
<1> QED
  BY <1>1, <1>2, RegistryInvariant, NextClean, PTL DEF Spec
==============================================================================
