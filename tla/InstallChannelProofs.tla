------------------------ MODULE InstallChannelProofs ------------------------
(***************************************************************************)
(* Theorems about InstallChannel, for any installers, launches, releases and *)
(* faults, in the behaviours that lose neither of its two races.             *)
(***************************************************************************)
EXTENDS InstallChannel, TLAPS

USE InstallAssumption DEF InstallAssumption
USE DEF vars, store, locks, counts, Launches, Procs, Links, NoWish, PcOf, Dead,
        InLock, InGuard, LockFree, Ended, InstPcs, ShellPcs

-----------------------------------------------------------------------------
\* What an assignment to some fields of one process leaves.

Stays(i) == inst' \in [Installers -> InstallerStates] /\ \A j \in Installers \ {i} : inst'[j] = inst[j]
Waits(p) == launch' \in [Launches -> LaunchStates] /\ \A q \in Launches \ {p} : launch'[q] = launch[q]

LEMMA OneUpdate ==
    ASSUME inst \in [Installers -> InstallerStates], NEW i \in Installers, NEW r \in InstallerStates,
           inst' = [inst EXCEPT ![i] = r]
    PROVE  Stays(i) /\ inst'[i] = r
BY DEF Stays

LEMMA PcUpdate ==
    ASSUME inst \in [Installers -> InstallerStates], NEW i \in Installers, NEW pc \in InstPcs,
           inst' = [inst EXCEPT ![i].pc = pc]
    PROVE  Stays(i) /\ inst'[i] = [inst[i] EXCEPT !.pc = pc]
<1> DEFINE o == inst[i]
<1> DEFINE r == [o EXCEPT !.pc = pc]
<1>1. o \in InstallerStates  OBVIOUS
<1>2. inst' = [inst EXCEPT ![i] = r]  OBVIOUS
<1> HIDE DEF o
<1>3. r \in InstallerStates  BY <1>1, Zenon DEF InstallerStates
<1>4. Stays(i) /\ inst'[i] = r  BY <1>2, <1>3, OneUpdate
<1> QED BY <1>4 DEF o

LEMMA BadUpdate ==
    ASSUME inst \in [Installers -> InstallerStates], NEW i \in Installers, NEW pc \in InstPcs,
           inst' = [inst EXCEPT ![i].pc = pc, ![i].bad = TRUE]
    PROVE  Stays(i) /\ inst'[i] = [inst[i] EXCEPT !.pc = pc, !.bad = TRUE]
<1> DEFINE o == inst[i]
<1> DEFINE r == [o EXCEPT !.pc = pc, !.bad = TRUE]
<1>1. o \in InstallerStates  OBVIOUS
<1>2. inst' = [inst EXCEPT ![i] = r]  OBVIOUS
<1> HIDE DEF o
<1>3. r \in InstallerStates  BY <1>1, Zenon DEF InstallerStates
<1>4. Stays(i) /\ inst'[i] = r  BY <1>2, <1>3, OneUpdate
<1> QED BY <1>4 DEF o

LEMMA PlanUpdate ==
    ASSUME inst \in [Installers -> InstallerStates], NEW i \in Installers, NEW pc \in InstPcs, NEW plan \in Releases \cup {Rollback},
           inst' = [inst EXCEPT ![i].pc = pc, ![i].plan = plan]
    PROVE  Stays(i) /\ inst'[i] = [inst[i] EXCEPT !.pc = pc, !.plan = plan]
<1> DEFINE o == inst[i]
<1> DEFINE r == [o EXCEPT !.pc = pc, !.plan = plan]
<1>1. o \in InstallerStates  OBVIOUS
<1>2. inst' = [inst EXCEPT ![i] = r]  OBVIOUS
<1> HIDE DEF o
<1>3. r \in InstallerStates  BY <1>1, Zenon DEF InstallerStates
<1>4. Stays(i) /\ inst'[i] = r  BY <1>2, <1>3, OneUpdate
<1> QED BY <1>4 DEF o

LEMMA WantUpdate ==
    ASSUME inst \in [Installers -> InstallerStates], NEW i \in Installers, NEW pc \in InstPcs, NEW want \in Links,
           inst' = [inst EXCEPT ![i].pc = pc, ![i].want = want]
    PROVE  Stays(i) /\ inst'[i] = [inst[i] EXCEPT !.pc = pc, !.want = want]
<1> DEFINE o == inst[i]
<1> DEFINE r == [o EXCEPT !.pc = pc, !.want = want]
<1>1. o \in InstallerStates  OBVIOUS
<1>2. inst' = [inst EXCEPT ![i] = r]  OBVIOUS
<1> HIDE DEF o
<1>3. r \in InstallerStates  BY <1>1, Zenon DEF InstallerStates
<1>4. Stays(i) /\ inst'[i] = r  BY <1>2, <1>3, OneUpdate
<1> QED BY <1>4 DEF o

LEMMA WishUpdate ==
    ASSUME inst \in [Installers -> InstallerStates], NEW i \in Installers, NEW pc \in InstPcs, NEW why \in {"apply", "prune"}, NEW want \in Links,
           inst' = [inst EXCEPT ![i].pc = pc, ![i].why = why, ![i].want = want]
    PROVE  Stays(i) /\ inst'[i] = [inst[i] EXCEPT !.pc = pc, !.why = why, !.want = want]
<1> DEFINE o == inst[i]
<1> DEFINE r == [o EXCEPT !.pc = pc, !.why = why, !.want = want]
<1>1. o \in InstallerStates  OBVIOUS
<1>2. inst' = [inst EXCEPT ![i] = r]  OBVIOUS
<1> HIDE DEF o
<1>3. r \in InstallerStates  BY <1>1, Zenon DEF InstallerStates
<1>4. Stays(i) /\ inst'[i] = r  BY <1>2, <1>3, OneUpdate
<1> QED BY <1>4 DEF o

LEMMA WhyUpdate ==
    ASSUME inst \in [Installers -> InstallerStates], NEW i \in Installers, NEW pc \in InstPcs, NEW why \in {"apply", "prune"},
           inst' = [inst EXCEPT ![i].pc = pc, ![i].why = why]
    PROVE  Stays(i) /\ inst'[i] = [inst[i] EXCEPT !.pc = pc, !.why = why]
<1> DEFINE o == inst[i]
<1> DEFINE r == [o EXCEPT !.pc = pc, !.why = why]
<1>1. o \in InstallerStates  OBVIOUS
<1>2. inst' = [inst EXCEPT ![i] = r]  OBVIOUS
<1> HIDE DEF o
<1>3. r \in InstallerStates  BY <1>1, Zenon DEF InstallerStates
<1>4. Stays(i) /\ inst'[i] = r  BY <1>2, <1>3, OneUpdate
<1> QED BY <1>4 DEF o

LEMMA ListUpdate ==
    ASSUME inst \in [Installers -> InstallerStates], NEW i \in Installers, NEW pc \in InstPcs, NEW todo \in SUBSET Releases,
           inst' = [inst EXCEPT ![i].pc = pc, ![i].todo = todo]
    PROVE  Stays(i) /\ inst'[i] = [inst[i] EXCEPT !.pc = pc, !.todo = todo]
<1> DEFINE o == inst[i]
<1> DEFINE r == [o EXCEPT !.pc = pc, !.todo = todo]
<1>1. o \in InstallerStates  OBVIOUS
<1>2. inst' = [inst EXCEPT ![i] = r]  OBVIOUS
<1> HIDE DEF o
<1>3. r \in InstallerStates  BY <1>1, Zenon DEF InstallerStates
<1>4. Stays(i) /\ inst'[i] = r  BY <1>2, <1>3, OneUpdate
<1> QED BY <1>4 DEF o

LEMMA TodoUpdate ==
    ASSUME inst \in [Installers -> InstallerStates], NEW i \in Installers, NEW todo \in SUBSET Releases,
           inst' = [inst EXCEPT ![i].todo = todo]
    PROVE  Stays(i) /\ inst'[i] = [inst[i] EXCEPT !.todo = todo]
<1> DEFINE o == inst[i]
<1> DEFINE r == [o EXCEPT !.todo = todo]
<1>1. o \in InstallerStates  OBVIOUS
<1>2. inst' = [inst EXCEPT ![i] = r]  OBVIOUS
<1> HIDE DEF o
<1>3. r \in InstallerStates  BY <1>1, Zenon DEF InstallerStates
<1>4. Stays(i) /\ inst'[i] = r  BY <1>2, <1>3, OneUpdate
<1> QED BY <1>4 DEF o

LEMMA StepUpdate ==
    ASSUME launch \in [Launches -> LaunchStates], NEW p \in Launches,
           NEW pc \in ShellPcs \cup {"guard", "owner", "lease", "unguard"},
           launch' = [launch EXCEPT ![p].pc = pc]
    PROVE  Waits(p) /\ launch'[p] = [launch[p] EXCEPT !.pc = pc]
BY DEF Waits, LaunchStates

LEMMA FoundUpdate ==
    ASSUME launch \in [Launches -> LaunchStates], NEW p \in Launches,
           NEW pc \in ShellPcs \cup {"guard", "owner", "lease", "unguard"}, NEW rel \in Releases \cup {None},
           launch' = [launch EXCEPT ![p].rel = rel, ![p].pc = pc]
    PROVE  Waits(p) /\ launch'[p] = [pc |-> pc, rel |-> rel]
BY DEF Waits, LaunchStates

-----------------------------------------------------------------------------
\* Who is inside: the lock and the guard.

LEMMA InitExclusive == Init => Exclusive
<1> SUFFICES ASSUME Init PROVE Exclusive  OBVIOUS
<1> USE DEF Init, InitDisk
<1>1. TypeOK
  <2>1. disk \in [cur : Releases \cup {None}, prev : Releases \cup {None}, launcher : {"missing", "open", "guarded"},
          tx : {None} \cup [cur : Releases, prev : Releases \cup {None}]]  OBVIOUS
  <2>2. dirs \subseteq Releases /\ marked \subseteq Releases  BY <2>1
  <2>3. \A i \in Installers : inst[i].todo \subseteq Releases /\ inst[i].bad \in BOOLEAN  OBVIOUS
  <2>4. \A p \in Launches : launch[p].rel \in Releases \cup {None}  OBVIOUS
  <2>5. lease \in [Runners -> Releases \cup {None}]  OBVIOUS
  <2>6. owned \in BOOLEAN  OBVIOUS
  <2> QED BY <2>1, <2>2, <2>3, <2>4, <2>5, <2>6 DEF TypeOK
<1>2. Placed
  <2>1. [pc |-> "idle", plan |-> None, why |-> "recover", want |-> NoWish, todo |-> {}, bad |-> FALSE] \in InstallerStates
    BY DEF InstallerStates
  <2>2. inst \in [Installers -> InstallerStates]  BY <2>1
  <2>3. launch \in [Launches -> LaunchStates]  BY DEF LaunchStates
  <2> QED BY <2>2, <2>3 DEF Placed
<1>3. Held  BY DEF Held
<1> QED BY <1>1, <1>2, <1>3 DEF Exclusive

\* An installer inside goes from one place to another, and takes no guard.
LEMMA InsideKeeps ==
    ASSUME NEW i \in Installers, Placed, Held, Stays(i), UNCHANGED <<ilock, guard, owned, launch>>,
           InLock(i), InLock(i)', inst'[i].pc # "reap", InGuard(i)' => InGuard(i),
           inst'[i].plan # None,
           inst'[i].pc \in {"recover", "plan", "mark", "record"} => inst'[i].why = "recover",
           inst'[i].pc \in {"apply", "launcher"} => inst'[i].why # "prune"
    PROVE  Placed' /\ Held'
<1> USE DEF Placed, Held, Stays
<1>1. Placed'  OBVIOUS
<1>2. \A j \in Installers : InLock(j)' => ilock' = j  OBVIOUS
<1>3. \A p \in Procs : InGuard(p)' => guard' = p  OBVIOUS
<1>4. \A j \in Installers : inst'[j].pc = "reap" => guard' # None /\ Dead(guard)'  OBVIOUS
<1> QED BY <1>1, <1>2, <1>3, <1>4

LEMMA InitData == Init => Data
<1> SUFFICES ASSUME Init PROVE Data  OBVIOUS
<1> USE DEF Init, InitDisk
<1>1. Recorded  BY DEF Recorded, RecordedAt, Completing, Recordless
<1>2. Synchronized  BY DEF Synchronized, Ahead
<1>3. Kept  BY DEF Kept, KeptAt, Named, CurOf, PrevOf
<1>4. Protected  BY DEF Protected, ProtectedAt, Named, CurOf, PrevOf
<1> QED BY <1>1, <1>2, <1>3, <1>4 DEF Data

\* A step of one installer that leaves the links and the record alone, and
\* synchronizes them.
LEMMA QuietKeeps ==
    ASSUME NEW i \in Installers, Data, Stays(i), UNCHANGED <<disk, launch, lease>>,
           dirs \subseteq dirs', marked \subseteq marked',
           durable' = disk \/ (durable' = durable /\ ~InLock(i)'), RecordedAt(i)', KeptAt(i)'
    PROVE  Data'
<1> USE DEF Data, Stays
<1>1. Recorded'
  <2> SUFFICES ASSUME NEW j \in Installers PROVE RecordedAt(j)'  BY DEF Recorded
  <2> QED BY DEF Recorded, RecordedAt, Completing, Recordless
<1>2. Synchronized'  BY DEF Synchronized, Ahead, CurOf, PrevOf
<1>3. Kept'  BY DEF Kept, KeptAt, Named, CurOf, PrevOf
<1>4. Protected'  BY DEF Protected, ProtectedAt, Named, CurOf, PrevOf
<1> QED BY <1>1, <1>2, <1>3, <1>4

\* What the installer inside writes is among what is there, and one step ahead of
\* what was synchronized.
LEMMA WriteKeeps ==
    ASSUME NEW i \in Installers, Held, Data, Stays(i), UNCHANGED <<dirs, marked, launch, lease>>,
           durable' = disk, InLock(i), InLock(i)', inst'[i].pc \in Wrote,
           RecordedAt(i)', Ahead(disk, disk'), Named(disk') \subseteq dirs,
           disk'.launcher = "open" => disk.launcher = "open" /\ Named(disk') \subseteq marked,
           \A p \in Launches \ Runners : launch[p].pc = "resolve" => Named(disk') \subseteq marked
    PROVE  Data'
<1> USE DEF Data, Stays
<1>1. \A j \in Installers \ {i} : ~InLock(j) /\ ~InLock(j)'  BY DEF Held
<1>2. Recorded'
  <2> SUFFICES ASSUME NEW j \in Installers PROVE RecordedAt(j)'  BY DEF Recorded
  <2> QED BY <1>1 DEF Recorded, RecordedAt, Completing, Recordless
<1>3. Synchronized'  BY <1>1 DEF Synchronized
<1>4. Kept'  BY <1>1 DEF Kept, KeptAt, Wrote, Named, CurOf, PrevOf
<1>5. Protected'  BY DEF Protected, ProtectedAt, Named, CurOf, PrevOf
<1> QED BY <1>2, <1>3, <1>4, <1>5

\* A step of one launch.
LEMMA LaunchKeeps ==
    ASSUME NEW p \in Launches, Data, Waits(p), UNCHANGED <<disk, durable, dirs, marked, inst>>,
           \A q \in Runners \ {p} : lease'[q] = lease[q], ProtectedAt(p)'
    PROVE  Data'
<1> USE DEF Data, Waits
<1>1. Recorded'  BY DEF Recorded, RecordedAt, Completing, Recordless
<1>2. Synchronized'  BY DEF Synchronized, Ahead, CurOf, PrevOf
<1>3. Kept'  BY DEF Kept, KeptAt, Named, CurOf, PrevOf
<1>4. Protected'
  <2>1. \A q \in Launches \ {p} : ProtectedAt(q)'  BY DEF Protected, ProtectedAt, Named, CurOf, PrevOf
  <2> QED BY <2>1 DEF Protected, Named, CurOf, PrevOf
<1> QED BY <1>1, <1>2, <1>3, <1>4

\* The same two, with what they leave of the lock and the guard.
LEMMA InsideQuiet ==
    ASSUME NEW i \in Installers, Safe, Stays(i), UNCHANGED <<disk, drifted, locks, launch, lease>>,
           dirs \subseteq dirs', marked \subseteq marked', dirs' \subseteq Releases, marked' \subseteq Releases,
           durable' = disk,
           InLock(i), InLock(i)', inst'[i].pc # "reap", InGuard(i)' => InGuard(i),
           inst'[i].plan # None,
           inst'[i].pc \in {"recover", "plan", "mark", "record"} => inst'[i].why = "recover",
           inst'[i].pc \in {"apply", "launcher"} => inst'[i].why # "prune",
           RecordedAt(i)', KeptAt(i)'
    PROVE  Safe'
<1> USE DEF Safe, Exclusive
<1>1. Placed' /\ Held'  BY InsideKeeps
<1>2. owned' \in BOOLEAN  BY Zenon DEF TypeOK
<1>3. TypeOK'  BY <1>2 DEF TypeOK, Stays, InstallerStates
<1>4. Data'  BY QuietKeeps
<1> QED BY <1>1, <1>3, <1>4

Disks == [cur : Releases \cup {None}, prev : Releases \cup {None}, launcher : {"missing", "open", "guarded"},
          tx : {None} \cup [cur : Releases, prev : Releases \cup {None}]]

LEMMA InsideWrite ==
    ASSUME NEW i \in Installers, Safe, Stays(i), UNCHANGED <<store, locks, launch, lease>>,
           durable' = disk, disk' \in Disks,
           InLock(i), inst'[i].pc \in Wrote, InGuard(i)' => InGuard(i),
           inst'[i].plan # None,
           inst'[i].pc \in {"apply", "launcher"} => inst'[i].why # "prune",
           RecordedAt(i)', Ahead(disk, disk'), Named(disk') \subseteq dirs,
           disk'.launcher = "open" => disk.launcher = "open" /\ Named(disk') \subseteq marked,
           \A p \in Launches \ Runners : launch[p].pc = "resolve" => Named(disk') \subseteq marked
    PROVE  Safe'
<1> USE DEF Safe, Exclusive
<1>1. InLock(i)' /\ inst'[i].pc # "reap" /\ inst'[i].pc \notin {"recover", "plan", "mark", "record"}
  BY DEF Wrote
<1>2. Placed' /\ Held'  BY <1>1, InsideKeeps
<1>3. owned' \in BOOLEAN  BY Zenon DEF TypeOK
<1>4. TypeOK'  BY <1>3 DEF TypeOK, Stays, InstallerStates, Disks
<1>5. Data'  BY <1>1, WriteKeeps
<1> QED BY <1>2, <1>4, <1>5

LEMMA LockKeeps ==
    ASSUME NEW i \in Installers, Safe, NoSteal, Locking(i)
    PROVE  Safe'
<1> USE DEF Safe, Exclusive, TypeOK, Placed, Held, Goes
<1>0. UNCHANGED owned  BY DEF Locking, Publish, JudgeLock, ReclaimLock, ReleaseLock
<1>1. owned' \in BOOLEAN  BY <1>0, Zenon
<1>2. UNCHANGED <<disk, store, guard, owned, launch, lease>> /\ durable' = disk
  BY DEF Locking, Publish, JudgeLock, ReclaimLock, ReleaseLock
<1>3. ASSUME Stays(i), inst'[i].pc \in LockFree \cup Ended \cup {"recover"}  PROVE Data'
  <2>1. RecordedAt(i)' /\ KeptAt(i)'  BY <1>3 DEF RecordedAt, KeptAt, Completing, Recordless
  <2> QED BY <1>2, <1>3, <2>1, QuietKeeps
<1>4. CASE Publish(i)
  <2>1. PICK pc \in {"recover", "judge", "failed"} :
          /\ inst' = [inst EXCEPT ![i].pc = pc]
          /\ pc = "recover" => ilock = None /\ ilock' = i
          /\ pc # "recover" => ilock' = ilock
    BY <1>4 DEF Publish
  <2>2. Stays(i) /\ inst'[i] = [inst[i] EXCEPT !.pc = pc]  BY <2>1, PcUpdate
  <2>3. inst[i].pc \in {"publish", "republish"}  BY <1>4 DEF Publish
  <2>4. Exclusive'  BY <1>1, <1>2, <2>1, <2>2, <2>3 DEF Stays, InstallerStates
  <2>5. inst'[i].pc = pc  BY <2>2 DEF InstallerStates
  <2> QED BY <1>3, <2>2, <2>4, <2>5
<1>5. CASE JudgeLock(i)
  <2>1. PICK pc \in {"reclaim", "failed"} : inst' = [inst EXCEPT ![i].pc = pc]  BY <1>5 DEF JudgeLock
  <2>2. Stays(i) /\ inst'[i] = [inst[i] EXCEPT !.pc = pc]  BY <2>1, PcUpdate
  <2>3. inst[i].pc = "judge" /\ UNCHANGED ilock  BY <1>5 DEF JudgeLock
  <2>4. Exclusive'  BY <1>1, <1>2, <2>1, <2>2, <2>3 DEF Stays, InstallerStates
  <2>5. inst'[i].pc = pc  BY <2>2 DEF InstallerStates
  <2> QED BY <1>3, <2>2, <2>4, <2>5
<1>6. CASE ReclaimLock(i)
  <2>1. PICK pc \in {"republish", "failed"} : inst' = [inst EXCEPT ![i].pc = pc]  BY <1>6 DEF ReclaimLock
  <2>2. Stays(i) /\ inst'[i] = [inst[i] EXCEPT !.pc = pc]  BY <2>1, PcUpdate
  <2>3. inst[i].pc = "reclaim" /\ ilock' = None  BY <1>6 DEF ReclaimLock
  <2>4. \A j \in Installers : ~InLock(j)  BY <2>3 DEF NoSteal
  <2>5. Exclusive'  BY <1>1, <1>2, <2>1, <2>2, <2>3, <2>4 DEF Stays, InstallerStates
  <2>6. inst'[i].pc = pc  BY <2>2 DEF InstallerStates
  <2> QED BY <1>3, <2>2, <2>5, <2>6
<1>7. CASE ReleaseLock(i)
  <2>1. PICK pc \in {"done", "failed"} : inst' = [inst EXCEPT ![i].pc = pc]  BY <1>7 DEF ReleaseLock
  <2>2. Stays(i) /\ inst'[i] = [inst[i] EXCEPT !.pc = pc]  BY <2>1, PcUpdate
  <2>3. inst[i].pc = "release" /\ ilock' \in {None, ilock}  BY <1>7 DEF ReleaseLock
  <2>4. \A j \in Installers : InLock(j) => j = i  BY <2>3
  <2>5. Exclusive'  BY <1>1, <1>2, <2>1, <2>2, <2>3, <2>4 DEF Stays, InstallerStates
  <2>6. inst'[i].pc = pc  BY <2>2 DEF InstallerStates
  <2> QED BY <1>3, <2>2, <2>5, <2>6
<1> QED BY <1>4, <1>5, <1>6, <1>7 DEF Locking

LEMMA BeginKeeps ==
    ASSUME NEW i \in Installers, NEW plan \in Releases \cup {Rollback}, Safe, Begin(i, plan)
    PROVE  Safe'
<1> USE DEF Safe, Exclusive, TypeOK, Placed, Held, Begin
<1>1. owned' \in BOOLEAN  BY Zenon
<1>2. Stays(i) /\ inst'[i] = [inst[i] EXCEPT !.pc = "publish", !.plan = plan]  BY PlanUpdate
<1>3. Exclusive'  BY <1>1, <1>2 DEF Stays, InstallerStates
<1>4. inst'[i].pc = "publish"  BY <1>2 DEF InstallerStates
<1>5. RecordedAt(i)' /\ KeptAt(i)'  BY <1>4 DEF RecordedAt, KeptAt, Completing, Recordless
<1>6. Data'  BY <1>2, <1>4, <1>5, QuietKeeps
<1> QED BY <1>3, <1>6

LEMMA GuardKeeps ==
    ASSUME NEW p \in Installers \cup Runners, Safe, Guarding(p)
    PROVE  Safe'
<1> USE DEF Safe, Exclusive, TypeOK, Placed, Held, Goes, Step
<1>0. ASSUME p \in Installers, Stays(p), UNCHANGED <<disk, store, launch, lease>>, durable' = disk,
             RecordedAt(p)', inst'[p].pc \notin {"mark", "record", "collecting"}
      PROVE Data'
  <2>1. KeptAt(p)'  BY <1>0 DEF KeptAt
  <2> QED BY <1>0, <2>1, QuietKeeps
<1>1. CASE TakeGuard(p)
  <2>1. owned' \in BOOLEAN /\ guard = None /\ guard' = p /\ UNCHANGED ilock /\ ~owned'  BY <1>1 DEF TakeGuard
  <2>2. \A q \in Procs : ~InGuard(q)  BY <2>1
  <2>3. CASE p \in Installers
    <3>1. Stays(p) /\ inst'[p] = [inst[p] EXCEPT !.pc = "owner"]  BY <1>1, <2>3, PcUpdate DEF TakeGuard
    <3>2. Exclusive'
      BY <1>1, <2>1, <2>2, <2>3, <3>1 DEF TakeGuard, Stays, Waits, InstallerStates, LaunchStates
    <3>3. inst[p].pc = "guard" /\ inst'[p].pc = "owner" /\ inst'[p].why = inst[p].why
          /\ inst'[p].want = inst[p].want
      BY <1>1, <2>3, <3>1 DEF TakeGuard, InstallerStates
    <3>4. UNCHANGED <<disk, store, launch, lease>> /\ durable' = disk  BY <1>1, <2>3 DEF TakeGuard
    <3>5. RecordedAt(p)'  BY <2>3, <3>3, <3>4 DEF Data, Recorded, RecordedAt, Completing, Recordless
    <3> QED BY <1>0, <2>3, <3>1, <3>2, <3>3, <3>4, <3>5
  <2>4. CASE p \in Runners
    <3>1. Waits(p) /\ launch'[p] = [launch[p] EXCEPT !.pc = "owner"]  BY <1>1, <2>4, StepUpdate DEF TakeGuard
    <3>2. Exclusive'
      BY <1>1, <2>1, <2>2, <2>4, <3>1 DEF TakeGuard, Stays, Waits, InstallerStates, LaunchStates
    <3>3. launch[p].pc = "guard" /\ launch'[p].pc = "owner" /\ launch'[p].rel = launch[p].rel
      BY <1>1, <2>4, <3>1 DEF TakeGuard, LaunchStates
    <3>4. UNCHANGED <<disk, durable, dirs, marked, inst, lease>>  BY <1>1, <2>4 DEF TakeGuard
    <3>5. ProtectedAt(p)'  BY <2>4, <3>3, <3>4 DEF Data, Protected, ProtectedAt
    <3> QED BY <2>4, <3>1, <3>2, <3>4, <3>5, LaunchKeeps
  <2> QED BY <2>3, <2>4
<1>2. CASE WriteOwner(p)
  <2>1. owned' \in BOOLEAN /\ guard = p /\ UNCHANGED <<ilock, guard>>  BY <1>2 DEF WriteOwner
  <2>3. CASE p \in Installers
    <3>1. PICK pc \in {"prune", "cur"} :
            inst' = [inst EXCEPT ![p].pc = pc] /\ (pc = "prune" <=> inst[p].why = "prune")
      BY <1>2, <2>3 DEF WriteOwner, Guarded
    <3>2. Stays(p) /\ inst'[p] = [inst[p] EXCEPT !.pc = pc]  BY <2>3, <3>1, PcUpdate
    <3>3. Exclusive'
      BY <1>2, <2>1, <2>3, <3>1, <3>2 DEF WriteOwner, Stays, Waits, InstallerStates, LaunchStates
    <3>4. inst[p].pc = "owner" /\ inst'[p].pc = pc /\ inst'[p].why = inst[p].why /\ inst'[p].want = inst[p].want
      BY <1>2, <2>3, <3>2 DEF WriteOwner, InstallerStates
    <3>5. UNCHANGED <<disk, store, launch, lease>> /\ durable' = disk  BY <1>2, <2>3 DEF WriteOwner
    <3>6. RecordedAt(p)'  BY <2>3, <3>1, <3>4, <3>5 DEF Data, Recorded, RecordedAt, Completing, Recordless
    <3> QED BY <1>0, <2>3, <3>2, <3>3, <3>4, <3>5, <3>6
  <2>4. CASE p \in Runners
    <3>1. Waits(p) /\ launch'[p] = [launch[p] EXCEPT !.pc = "resolve"]
      BY <1>2, <2>4, StepUpdate DEF WriteOwner, Guarded
    <3>2. Exclusive'
      BY <1>2, <2>1, <2>4, <3>1 DEF WriteOwner, Stays, Waits, InstallerStates, LaunchStates
    <3>3. launch[p].pc = "owner" /\ launch'[p].pc = "resolve" /\ launch'[p].rel = launch[p].rel
      BY <1>2, <2>4, <3>1 DEF WriteOwner, LaunchStates
    <3>4. UNCHANGED <<disk, durable, dirs, marked, inst, lease>>  BY <1>2, <2>4 DEF WriteOwner
    <3>5. ProtectedAt(p)'  BY <2>4, <3>3, <3>4 DEF Data, Protected, ProtectedAt
    <3> QED BY <2>4, <3>1, <3>2, <3>4, <3>5, LaunchKeeps
  <2> QED BY <2>3, <2>4
<1>3. CASE GuardTimeout(p)
  <2>0. UNCHANGED owned  BY <1>3 DEF GuardTimeout
  <2>1. owned' \in BOOLEAN  BY <2>0, Zenon
  <2>2. UNCHANGED <<disk, store, ilock, guard, owned, lease>> /\ durable' \in {disk, durable}
    BY <1>3 DEF GuardTimeout, Throws
  <2>3. CASE p \in Installers
    <3>0. durable' = disk  BY <1>3, <2>3 DEF GuardTimeout, Throws
    <3>1. /\ Stays(p) /\ UNCHANGED launch
          /\ \/ inst'[p] = [inst[p] EXCEPT !.pc = "release"]
             \/ inst'[p] = [inst[p] EXCEPT !.pc = "release", !.bad = TRUE]
      <4>1. CASE inst[p].why = "prune"  BY <1>3, <2>3, <4>1, PcUpdate DEF GuardTimeout
      <4>2. CASE inst[p].why # "prune"  BY <1>3, <2>3, <4>2, BadUpdate DEF GuardTimeout, Throws
      <4> QED BY <4>1, <4>2
    <3>2. inst[p].pc = "guard" /\ inst'[p].pc = "release" /\ inst'[p].plan = inst[p].plan /\ p \notin Launches
      BY <1>3, <2>3, <3>1 DEF GuardTimeout, InstallerStates
    <3>3. Placed' /\ Held'  BY <2>2, <2>3, <3>1, <3>2, InsideKeeps
    <3>4. Exclusive'  BY <2>1, <2>2, <3>1, <3>3 DEF Stays, InstallerStates
    <3>5. RecordedAt(p)'  BY <3>2 DEF RecordedAt, Completing, Recordless
    <3> QED BY <1>0, <2>2, <2>3, <3>0, <3>1, <3>2, <3>4, <3>5
  <2>4. CASE p \in Runners
    <3>1. Waits(p) /\ launch'[p] = [launch[p] EXCEPT !.pc = "failed"] /\ UNCHANGED inst
      BY <1>3, <2>4, StepUpdate DEF GuardTimeout
    <3>2. launch[p].pc = "guard" /\ launch'[p].pc = "failed" /\ p \notin Installers
      BY <1>3, <2>4, <3>1 DEF GuardTimeout, LaunchStates
    <3>3. TypeOK'  BY <2>1, <2>2, <3>1 DEF Waits, LaunchStates
    <3>4. Placed'  BY <2>4, <3>1, <3>2 DEF Waits
    <3>5. Held'  BY <2>2, <3>1, <3>2 DEF Waits
    <3>6. ProtectedAt(p)'  BY <3>2 DEF ProtectedAt
    <3>7. UNCHANGED durable  BY <1>3, <2>4 DEF GuardTimeout
    <3> QED BY <2>2, <2>4, <3>1, <3>3, <3>4, <3>5, <3>6, <3>7, LaunchKeeps
  <2> QED BY <2>3, <2>4
<1>4. CASE Unguard(p)
  <2>1. owned' \in BOOLEAN /\ guard = p /\ guard' = None /\ ~owned' /\ UNCHANGED ilock  BY <1>4 DEF Unguard
  <2>2. \A q \in Procs \ {p} : ~InGuard(q)  BY <2>1
  <2>3. CASE p \in Installers
    <3>1. PICK pc \in {"plan", "collect", "release"} :
            /\ inst' = [inst EXCEPT ![p].pc = pc] /\ (pc = "plan" => inst[p].why = "recover")
            /\ pc # "release" => ~inst[p].bad
      BY <1>4, <2>3 DEF Unguard, After
    <3>2. Stays(p) /\ inst'[p] = [inst[p] EXCEPT !.pc = pc]  BY <2>3, <3>1, PcUpdate
    <3>3. Exclusive'
      BY <1>4, <2>1, <2>2, <2>3, <3>1, <3>2 DEF Unguard, Stays, Waits, InstallerStates, LaunchStates
    <3>4. inst[p].pc = "unguard" /\ inst'[p].pc = pc  BY <1>4, <2>3, <3>2 DEF Unguard, InstallerStates
    <3>5. UNCHANGED <<disk, store, launch, lease>> /\ durable' = disk  BY <1>4, <2>3 DEF Unguard
    <3>6. RecordedAt(p)'  BY <2>3, <3>1, <3>4, <3>5 DEF Data, Recorded, RecordedAt, Completing, Recordless
    <3> QED BY <1>0, <2>3, <3>2, <3>3, <3>4, <3>5, <3>6
  <2>4. CASE p \in Runners
    <3>1. PICK pc \in {"failed", "run"} : launch' = [launch EXCEPT ![p].pc = pc]
      BY <1>4, <2>4 DEF Unguard
    <3>2. Waits(p) /\ launch'[p] = [launch[p] EXCEPT !.pc = pc]  BY <2>4, <3>1, StepUpdate
    <3>3. Exclusive'
      BY <1>4, <2>1, <2>2, <2>4, <3>1, <3>2 DEF Unguard, Stays, Waits, InstallerStates, LaunchStates
    <3>4. launch[p].pc = "unguard" /\ launch'[p].pc = pc /\ launch'[p].rel = launch[p].rel
      BY <1>4, <2>4, <3>2 DEF Unguard, LaunchStates
    <3>5. UNCHANGED <<disk, durable, dirs, marked, inst, lease>>  BY <1>4, <2>4 DEF Unguard
    <3>6. ProtectedAt(p)'  BY <2>4, <3>4, <3>5 DEF Data, Protected, ProtectedAt
    <3> QED BY <2>4, <3>2, <3>3, <3>5, <3>6, LaunchKeeps
  <2> QED BY <2>3, <2>4
<1> QED BY <1>1, <1>2, <1>3, <1>4 DEF Guarding

-----------------------------------------------------------------------------
\* The installer inside: recovery, promotion, rollback.

LEMMA TypeKeeps ==
    ASSUME NEW i \in Installers, TypeOK, Stays(i), UNCHANGED <<disk, store, locks, launch, lease>>, durable' = disk
    PROVE  TypeOK'
<1>1. owned' \in BOOLEAN  BY Zenon DEF TypeOK
<1> QED BY <1>1 DEF TypeOK, Stays, InstallerStates

\* The guard of the dead is taken away.
LEMMA ReapKeeps ==
    ASSUME NEW i \in Installers, Safe, SeeDeadGuard(i) \/ ReapGuard(i)
    PROVE  Safe'
<1>0. ASSUME SeeDeadGuard(i) PROVE TypeOK'
  <2>1. Stays(i)  BY <1>0, PcUpdate DEF SeeDeadGuard, Step, Safe, Exclusive, Placed
  <2>2. TypeOK /\ UNCHANGED <<disk, store, locks, launch, lease>> /\ durable' = disk
    BY <1>0 DEF SeeDeadGuard, Step, Safe, Exclusive
  <2> QED BY <2>1, <2>2, TypeKeeps
<1>r. ASSUME ReapGuard(i) PROVE TypeOK'
  <2>1. Stays(i)  BY <1>r, PcUpdate DEF ReapGuard, Step, Safe, Exclusive, Placed
  <2>2. UNCHANGED <<disk, store, ilock, launch, lease>> /\ durable' = disk /\ guard' = None /\ owned' = FALSE
    BY <1>r DEF ReapGuard, Step, Safe, Exclusive
  <2>3. TypeOK  BY DEF Safe, Exclusive
  <2> QED BY <2>1, <2>2, <2>3 DEF TypeOK, Stays, InstallerStates
<1> USE DEF Safe, Exclusive, Placed, Held, Step
<1>t. inst \in [Installers -> InstallerStates] /\ guard \in Procs \cup {None} /\ owned \in BOOLEAN  BY Zenon DEF TypeOK
<1>1. UNCHANGED <<disk, store, ilock, launch, lease>> /\ durable' = disk  BY DEF SeeDeadGuard, ReapGuard
<1>2. ASSUME NEW pc \in {"guard", "reap"}, inst[i].pc \in {"guard", "reap"},
             Stays(i), inst'[i] = [inst[i] EXCEPT !.pc = pc]
      PROVE  Data'
  <2>1. inst'[i].pc = pc /\ inst'[i].why = inst[i].why /\ inst'[i].want = inst[i].want
    BY <1>t, <1>2 DEF InstallerStates
  <2>2. RecordedAt(i)' /\ KeptAt(i)'
    BY <1>1, <1>2, <2>1 DEF Data, Recorded, RecordedAt, KeptAt, Completing, Recordless
  <2> QED BY <1>t, <1>1, <1>2, <2>2, QuietKeeps
<1>3. CASE SeeDeadGuard(i)
  <2>1. inst' = [inst EXCEPT ![i].pc = "reap"] /\ UNCHANGED <<guard, owned>> /\ guard # None /\ Dead(guard)
        /\ inst[i].pc = "guard"
    BY <1>3 DEF SeeDeadGuard, DeadGuard
  <2>2. Stays(i) /\ inst'[i] = [inst[i] EXCEPT !.pc = "reap"]  BY <1>t, <2>1, PcUpdate
  <2>3. inst'[i].pc = "reap" /\ inst'[i].plan = inst[i].plan /\ inst'[i].why = inst[i].why
    BY <1>t, <2>2 DEF InstallerStates
  <2>5. TypeOK'  BY <1>0, <1>3
  <2>6. Placed'  BY <1>1, <2>1, <2>2, <2>3 DEF Stays
  <2>7. Held'  BY <1>1, <2>1, <2>2, <2>3 DEF Stays
  <2>8. Data'  BY <1>2, <2>1, <2>2
  <2> QED BY <2>5, <2>6, <2>7, <2>8
<1>4. CASE ReapGuard(i)
  <2>1. inst' = [inst EXCEPT ![i].pc = "guard"] /\ guard' = None /\ owned' = FALSE /\ inst[i].pc = "reap"
    BY <1>4 DEF ReapGuard
  <2>2. Stays(i) /\ inst'[i] = [inst[i] EXCEPT !.pc = "guard"]  BY <1>t, <2>1, PcUpdate
  <2>3. inst'[i].pc = "guard" /\ inst'[i].plan = inst[i].plan /\ inst'[i].why = inst[i].why
    BY <1>t, <2>2 DEF InstallerStates
  <2>4. \A q \in Procs : ~InGuard(q)  BY <2>1
  <2>5. \A j \in Installers \ {i} : ~InLock(j)  BY <2>1
  <2>6. TypeOK'  BY <1>r, <1>4
  <2>7. Placed'  BY <1>1, <2>1, <2>2, <2>3 DEF Stays
  <2>8. Held'  BY <1>1, <2>1, <2>2, <2>3, <2>4, <2>5 DEF Stays
  <2>9. Data'  BY <1>2, <2>1, <2>2
  <2> QED BY <2>6, <2>7, <2>8, <2>9
<1> QED BY <1>3, <1>4

\* Who throws keeps what it was to keep.
LEMMA ThrowKeeps ==
    ASSUME NEW i \in Installers, Safe, InLock(i), Throws(i), UNCHANGED <<disk, store, locks>>
    PROVE  Safe'
<1> USE DEF Safe, Exclusive, Placed, Throws
<1>1. Stays(i) /\ inst'[i] = [inst[i] EXCEPT !.pc = "release", !.bad = TRUE]  BY BadUpdate
<1>2. inst'[i].pc = "release" /\ inst'[i].plan = inst[i].plan  BY <1>1 DEF InstallerStates
<1>3. RecordedAt(i)' /\ KeptAt(i)'  BY <1>2 DEF RecordedAt, KeptAt, Completing, Recordless
<1>4. InLock(i)' /\ ~InGuard(i)'  BY <1>2
<1>5. dirs \subseteq Releases /\ marked \subseteq Releases  BY DEF TypeOK
<1> HIDE DEF Safe, Exclusive
<1> QED BY <1>1, <1>2, <1>3, <1>4, <1>5, InsideQuiet DEF Safe, Exclusive

LEMMA RecoverKeeps ==
    ASSUME NEW i \in Installers, Safe, Recover(i) \/ Apply(i)
    PROVE  Safe'
<1>0. Placed /\ dirs \subseteq Releases /\ marked \subseteq Releases  BY DEF Safe, Exclusive, TypeOK
<1>1. InLock(i) /\ inst[i].pc \in {"recover", "apply"} /\ UNCHANGED <<disk, store, locks>>  BY DEF Recover, Apply
<1>2. CASE Recover(i) /\ disk.tx = None /\ Goes(i, "plan")
  <2>1. Stays(i) /\ inst'[i] = [inst[i] EXCEPT !.pc = "plan"]  BY <1>0, <1>2, PcUpdate DEF Goes, Placed
  <2>2. inst[i].pc = "recover" /\ inst'[i].pc = "plan" /\ inst'[i].plan = inst[i].plan /\ inst'[i].why = "recover"
    BY <1>0, <1>2, <2>1 DEF Recover, Placed, InstallerStates
  <2>3. RecordedAt(i)' /\ KeptAt(i)'  BY <1>1, <1>2, <2>2 DEF RecordedAt, KeptAt, Completing, Recordless
  <2>4. UNCHANGED <<launch, lease>> /\ durable' = disk  BY <1>2 DEF Goes
  <2>5. InLock(i)' /\ ~InGuard(i)' /\ inst'[i].plan # None  BY <1>0, <2>2 DEF Placed
  <2> QED BY <1>0, <1>1, <2>1, <2>2, <2>3, <2>4, <2>5, InsideQuiet
<1>3. CASE Recover(i) /\ disk.tx # None /\ Completable(disk.tx)
           /\ inst' = [inst EXCEPT ![i].pc = "guard", ![i].want = disk.tx]
  <2>0. disk.tx \in Links  BY <1>3 DEF Safe, Exclusive, TypeOK
  <2>1. Stays(i) /\ inst'[i] = [inst[i] EXCEPT !.pc = "guard", !.want = disk.tx]
    BY <1>0, <1>3, <2>0, WantUpdate DEF Placed
  <2>2. /\ inst[i].pc = "recover" /\ inst'[i].pc = "guard" /\ inst'[i].plan = inst[i].plan
        /\ inst'[i].why = "recover" /\ inst'[i].want = disk.tx
    BY <1>0, <1>3, <2>1 DEF Recover, Placed, InstallerStates
  <2>3. RecordedAt(i)' /\ KeptAt(i)'  BY <1>1, <1>3, <2>2 DEF RecordedAt, KeptAt, Completing, Recordless
  <2>4. UNCHANGED <<launch, lease>> /\ durable' = disk  BY <1>3 DEF Recover
  <2>5. InLock(i)' /\ ~InGuard(i)' /\ inst'[i].plan # None  BY <1>0, <2>2 DEF Placed
  <2> QED BY <1>0, <1>1, <2>1, <2>2, <2>3, <2>4, <2>5, InsideQuiet
<1>4. CASE Apply(i) /\ Goes(i, "guard")
  <2>1. Stays(i) /\ inst'[i] = [inst[i] EXCEPT !.pc = "guard"]  BY <1>0, <1>4, PcUpdate DEF Goes, Placed
  <2>2. /\ inst[i].pc = "apply" /\ inst'[i].pc = "guard" /\ inst'[i].plan = inst[i].plan
        /\ inst'[i].why = inst[i].why /\ inst'[i].want = inst[i].want /\ inst[i].why # "prune"
    BY <1>0, <1>4, <2>1 DEF Apply, Placed, InstallerStates
  <2>3. RecordedAt(i)' /\ KeptAt(i)'
    BY <1>1, <2>2 DEF Safe, Data, Recorded, RecordedAt, KeptAt, Completing, Recordless
  <2>4. UNCHANGED <<launch, lease>> /\ durable' = disk  BY <1>4 DEF Goes
  <2>5. InLock(i)' /\ ~InGuard(i)' /\ inst'[i].plan # None  BY <1>0, <2>2 DEF Placed
  <2> QED BY <1>0, <1>1, <2>1, <2>2, <2>3, <2>4, <2>5, InsideQuiet
<1>5. CASE Throws(i)  BY <1>1, <1>5, ThrowKeeps
<1> QED BY <1>2, <1>3, <1>4, <1>5 DEF Recover, Apply

\* A link or the record that is written says what the record says.
LEMMA LinkKeeps ==
    ASSUME NEW i \in Installers, Safe, LinkCurrent(i) \/ LinkPrevious(i) \/ ClearRecord(i)
    PROVE  Safe'
<1>0. Placed /\ disk \in Disks /\ inst[i] \in InstallerStates
  BY DEF Safe, Exclusive, TypeOK, Placed, Disks
<1>1. PICK pc \in {"prev", "clear", "unguard"} : inst' = [inst EXCEPT ![i].pc = pc]
  BY DEF LinkCurrent, LinkPrevious, ClearRecord, Goes
<1>2. Stays(i) /\ inst'[i] = [inst[i] EXCEPT !.pc = pc]  BY <1>0, <1>1, PcUpdate DEF Placed
<1>3. /\ inst'[i].pc = pc /\ inst'[i].plan = inst[i].plan
      /\ inst'[i].why = inst[i].why /\ inst'[i].want = inst[i].want
  BY <1>0, <1>2 DEF InstallerStates
<1>4. UNCHANGED <<store, locks, launch, lease>> /\ durable' = disk
  BY DEF LinkCurrent, LinkPrevious, ClearRecord, Goes
<1>5. /\ inst[i].pc \in {"cur", "prev", "clear"} /\ disk.tx # None /\ disk.tx = inst[i].want
      /\ inst[i].pc \in {"prev", "clear"} => disk.cur = disk.tx.cur
      /\ inst[i].pc = "clear" => disk.prev = disk.tx.prev
  BY DEF LinkCurrent, LinkPrevious, ClearRecord, Safe, Data, Recorded, RecordedAt, Completing
<1>6. /\ disk' \in Disks /\ disk'.launcher = disk.launcher
      /\ CurOf(disk') = CurOf(disk) /\ PrevOf(disk') = PrevOf(disk)
      /\ Named(disk') \subseteq Named(disk)
      /\ RecordedAt(i)'
  <2>1. CASE LinkCurrent(i)
    <3>1. disk' = [disk EXCEPT !.cur = disk.tx.cur] /\ pc = "prev"
      BY <2>1, <1>3, <1>5, <1>2, <1>0 DEF LinkCurrent, Goes, Placed, InstallerStates
    <3> QED BY <1>0, <1>3, <1>5, <3>1 DEF Disks, CurOf, PrevOf, Named, RecordedAt, Completing, Recordless
  <2>2. CASE LinkPrevious(i)
    <3>1. disk' = [disk EXCEPT !.prev = disk.tx.prev] /\ pc = "clear" /\ inst[i].pc = "prev"
      BY <2>2, <1>3, <1>5, <1>2, <1>0 DEF LinkPrevious, Goes, Placed, InstallerStates
    <3> QED BY <1>0, <1>3, <1>5, <3>1 DEF Disks, CurOf, PrevOf, Named, RecordedAt, Completing, Recordless
  <2>3. CASE ClearRecord(i)
    <3>1. disk' = [disk EXCEPT !.tx = None] /\ pc = "unguard" /\ inst[i].pc = "clear"
      BY <2>3, <1>3, <1>5, <1>2, <1>0 DEF ClearRecord, Goes, Placed, InstallerStates
    <3> QED BY <1>0, <1>3, <1>5, <3>1 DEF Disks, CurOf, PrevOf, Named, RecordedAt, Completing, Recordless
  <2> QED BY <2>1, <2>2, <2>3
<1>7. InLock(i) /\ InGuard(i) /\ pc \in Wrote /\ inst[i].plan # None  BY <1>0, <1>5 DEF Wrote, Placed
<1>8. /\ Named(disk) \subseteq dirs
      /\ disk.launcher = "open" => Named(disk) \subseteq marked
      /\ \A p \in Launches \ Runners : launch[p].pc = "resolve" => Named(disk) \subseteq marked
  BY DEF Safe, Data, Kept, Protected, ProtectedAt
<1>9. Ahead(disk, disk')  BY <1>6 DEF Ahead
<1> QED BY <1>2, <1>3, <1>4, <1>6, <1>7, <1>8, <1>9, InsideWrite

LEMMA RollBackKeeps ==
    ASSUME NEW i \in Installers, Safe, RollBack(i)
    PROVE  Safe'
<1>0. Placed /\ disk \in Disks /\ inst[i] \in InstallerStates
  BY DEF Safe, Exclusive, TypeOK, Placed, Disks
<1>1. CASE CanRollback
  <2> DEFINE back == [cur |-> disk.prev, prev |-> disk.cur]
  <2>1. /\ disk' = [disk EXCEPT !.tx = back]
        /\ inst' = [inst EXCEPT ![i].pc = "apply", ![i].why = "apply", ![i].want = back]
        /\ UNCHANGED <<store, locks, launch, lease>> /\ durable' = disk /\ inst[i].pc = "plan"
    BY <1>1 DEF RollBack
  <2>2. back \in Links /\ back \in [cur : Releases, prev : Releases \cup {None}]
    BY <1>0, <1>1 DEF CanRollback, Disks
  <2>3. Stays(i) /\ inst'[i] = [inst[i] EXCEPT !.pc = "apply", !.why = "apply", !.want = back]
    BY <1>0, <2>1, <2>2, WishUpdate DEF Placed
  <2>4. /\ inst'[i].pc = "apply" /\ inst'[i].plan = inst[i].plan /\ inst'[i].why = "apply"
        /\ inst'[i].want = back
    BY <1>0, <2>3 DEF InstallerStates
  <2>5. disk.tx = None  BY <2>1 DEF Safe, Data, Recorded, RecordedAt, Recordless
  <2>6. disk' \in Disks /\ disk'.tx = back /\ back # None /\ disk'.launcher = disk.launcher
        /\ disk'.cur = disk.cur /\ disk'.prev = disk.prev
    BY <1>0, <2>1, <2>2 DEF Disks
  <2>7. Named(disk') = Named(disk)  BY <2>5, <2>6 DEF Named, CurOf, PrevOf
  <2>8. Ahead(disk, disk')  BY <1>1, <2>5, <2>6 DEF Ahead, CurOf, PrevOf, CanRollback
  <2>9. RecordedAt(i)'  BY <2>4, <2>6 DEF RecordedAt, Completing, Recordless
  <2>10. InLock(i) /\ ~InGuard(i)' /\ inst'[i].pc \in Wrote /\ inst'[i].plan # None
    BY <1>0, <2>1, <2>4 DEF Wrote, Placed
  <2>11. /\ Named(disk) \subseteq dirs
         /\ disk.launcher = "open" => Named(disk) \subseteq marked
         /\ \A p \in Launches \ Runners : launch[p].pc = "resolve" => Named(disk) \subseteq marked
    BY DEF Safe, Data, Kept, Protected, ProtectedAt
  <2> QED BY <2>1, <2>3, <2>4, <2>6, <2>7, <2>8, <2>9, <2>10, <2>11, InsideWrite
<1>2. CASE ~CanRollback
  <2>1. Throws(i) /\ UNCHANGED <<disk, store, locks>> /\ InLock(i)  BY <1>2 DEF RollBack
  <2> QED BY <2>1, ThrowKeeps
<1> QED BY <1>1, <1>2

LEMMA MaterializeKeeps ==
    ASSUME NEW i \in Installers, Safe, Materialize(i) \/ Mark(i)
    PROVE  Safe'
<1>0. /\ Placed /\ inst[i] \in InstallerStates /\ inst[i].plan # None /\ inst[i].why = "recover"
      /\ dirs \subseteq Releases /\ marked \subseteq Releases
      /\ inst[i].pc \in {"plan", "mark"} /\ InLock(i) /\ disk.tx = None
      /\ inst[i].pc = "mark" => inst[i].plan \in dirs
  BY DEF Safe, Exclusive, TypeOK, Placed, Materialize, Mark, Data, Recorded, RecordedAt, Recordless, Kept, KeptAt
<1>1. ASSUME NEW pc \in {"mark", "launcher", "record"}, Goes(i, pc),
             UNCHANGED <<disk, drifted, locks>>,
             dirs \subseteq dirs', marked \subseteq marked', dirs' \subseteq Releases, marked' \subseteq Releases,
             inst[i].plan \in dirs',
             pc = "record" => inst[i].plan # disk.cur /\ (disk.launcher = "open" => inst[i].plan \in marked')
      PROVE  Safe'
  <2>1. Stays(i) /\ inst'[i] = [inst[i] EXCEPT !.pc = pc]  BY <1>0, <1>1, PcUpdate DEF Goes, Placed
  <2>2. inst'[i].pc = pc /\ inst'[i].plan = inst[i].plan /\ inst'[i].why = "recover"
    BY <1>0, <2>1 DEF InstallerStates
  <2>3. RecordedAt(i)' /\ KeptAt(i)'  BY <1>0, <1>1, <2>2 DEF RecordedAt, KeptAt, Completing, Recordless
  <2>4. UNCHANGED <<launch, lease>> /\ durable' = disk  BY <1>1 DEF Goes
  <2>5. InLock(i)' /\ ~InGuard(i)' /\ inst'[i].pc # "reap" /\ inst'[i].plan # None  BY <1>0, <2>2
  <2> QED BY <1>0, <1>1, <2>1, <2>2, <2>3, <2>4, <2>5, InsideQuiet
<1>2. CASE Materialize(i)
  <2>1. CASE inst[i].plan \in drifted
    <3>1. Throws(i) /\ UNCHANGED <<disk, store, locks>>  BY <1>2, <2>1 DEF Materialize
    <3> QED BY <1>0, <3>1, ThrowKeeps
  <2>2. CASE inst[i].plan \notin drifted
    <3>1. Goes(i, "mark") /\ dirs' = dirs \cup {inst[i].plan} /\ UNCHANGED <<disk, drifted, marked, locks>>
      BY <1>2, <2>2 DEF Materialize
    <3>2. inst[i].plan \in Releases  BY <1>0, <1>2 DEF Materialize, InstallerStates
    <3> QED BY <1>0, <1>1, <3>1, <3>2
  <2> QED BY <2>1, <2>2
<1>3. CASE Mark(i)
  <2>1. inst[i].plan \in dirs /\ UNCHANGED <<disk, dirs, drifted, locks>>  BY <1>0, <1>3 DEF Mark
  <2>2. marked \subseteq marked' /\ marked' \subseteq Releases /\ (Marks => inst[i].plan \in marked')
    BY <1>0, <1>3, <2>1 DEF Mark
  <2>3. CASE disk.cur = inst[i].plan
    <3>1. Goes(i, "launcher")  BY <1>3, <2>3 DEF Mark
    <3> QED BY <1>0, <1>1, <2>1, <2>2, <3>1
  <2>4. CASE disk.cur # inst[i].plan
    <3>1. Goes(i, "record")  BY <1>3, <2>4 DEF Mark
    <3>2. disk.launcher = "open" => Marks  BY DEF Marks
    <3> QED BY <1>0, <1>1, <2>1, <2>2, <2>4, <3>1, <3>2
  <2> QED BY <2>3, <2>4
<1> QED BY <1>2, <1>3

LEMMA RecordKeeps ==
    ASSUME NEW i \in Installers, Safe, Timely, WriteRecord(i)
    PROVE  Safe'
<1> DEFINE next == [cur |-> inst[i].plan, prev |-> disk.cur]
<1>0. Placed /\ disk \in Disks /\ inst[i] \in InstallerStates
  BY DEF Safe, Exclusive, TypeOK, Placed, Disks
<1>1. /\ disk' = [disk EXCEPT !.tx = next]
      /\ inst' = [inst EXCEPT ![i].pc = "launcher", ![i].why = "apply", ![i].want = next]
      /\ UNCHANGED <<store, locks, launch, lease>> /\ durable' = disk /\ inst[i].pc = "record"
  BY DEF WriteRecord
<1>2. /\ disk.tx = None /\ inst[i].plan \in dirs /\ inst[i].plan # disk.cur
      /\ disk.launcher = "open" => inst[i].plan \in marked
  BY <1>1 DEF Safe, Data, Recorded, RecordedAt, Recordless, Kept, KeptAt
<1>3. inst[i].plan \in Releases  BY <1>2 DEF Safe, Exclusive, TypeOK
<1>4. next \in Links /\ next \in [cur : Releases, prev : Releases \cup {None}]
  BY <1>0, <1>3 DEF Disks
<1>5. Stays(i) /\ inst'[i] = [inst[i] EXCEPT !.pc = "launcher", !.why = "apply", !.want = next]
  BY <1>0, <1>1, <1>4, WishUpdate DEF Placed
<1>6. /\ inst'[i].pc = "launcher" /\ inst'[i].plan = inst[i].plan /\ inst'[i].why = "apply"
      /\ inst'[i].want = next
  BY <1>0, <1>5 DEF InstallerStates
<1>7. disk' \in Disks /\ disk'.tx = next /\ next # None /\ disk'.launcher = disk.launcher
      /\ disk'.cur = disk.cur /\ disk'.prev = disk.prev
  BY <1>0, <1>1, <1>4 DEF Disks
<1>8. Named(disk') \subseteq Named(disk) \cup {inst[i].plan}  BY <1>2, <1>7 DEF Named, CurOf, PrevOf
<1>9. Ahead(disk, disk')  BY <1>2, <1>3, <1>7 DEF Ahead, CurOf, PrevOf
<1>10. RecordedAt(i)'  BY <1>6, <1>7 DEF RecordedAt, Completing, Recordless
<1>11. InLock(i) /\ ~InGuard(i)' /\ inst'[i].pc \in Wrote /\ inst'[i].plan # None
  BY <1>0, <1>1, <1>6 DEF Wrote, Placed
<1>12. /\ Named(disk) \subseteq dirs
       /\ disk.launcher = "open" => Named(disk) \subseteq marked
       /\ \A p \in Launches \ Runners : launch[p].pc = "resolve" => Named(disk) \subseteq marked
  BY DEF Safe, Data, Kept, Protected, ProtectedAt
<1>13. \A p \in Launches \ Runners : launch[p].pc = "resolve" => inst[i].plan \in marked
  BY <1>1 DEF Timely
<1> QED BY <1>1, <1>2, <1>5, <1>6, <1>7, <1>8, <1>9, <1>10, <1>11, <1>12, <1>13, InsideWrite

LEMMA LauncherKeeps ==
    ASSUME NEW i \in Installers, Safe, WriteLauncher(i)
    PROVE  Safe'
<1>0. Placed /\ disk \in Disks /\ inst[i] \in InstallerStates /\ inst[i].pc = "launcher" /\ inst[i].why # "prune"
      /\ inst[i].plan # None
  BY DEF Safe, Exclusive, TypeOK, Placed, Disks, WriteLauncher
<1>1. PICK pc \in {"apply", "collect"} :
        inst' = [inst EXCEPT ![i].pc = pc] /\ (pc = "apply" <=> inst[i].why = "apply")
  BY DEF WriteLauncher, Goes
<1>2. /\ disk' = [disk EXCEPT !.launcher = "guarded"]
      /\ UNCHANGED <<store, locks, launch, lease>> /\ durable' = disk
  BY DEF WriteLauncher, Goes
<1>3. Stays(i) /\ inst'[i] = [inst[i] EXCEPT !.pc = pc]  BY <1>0, <1>1, PcUpdate DEF Placed
<1>4. /\ inst'[i].pc = pc /\ inst'[i].plan = inst[i].plan
      /\ inst'[i].why = inst[i].why /\ inst'[i].want = inst[i].want
  BY <1>0, <1>3 DEF InstallerStates
<1>5. /\ disk' \in Disks /\ disk'.launcher = "guarded" /\ disk'.tx = disk.tx
      /\ disk'.cur = disk.cur /\ disk'.prev = disk.prev
  BY <1>0, <1>2 DEF Disks
<1>6. Named(disk') = Named(disk) /\ Ahead(disk, disk')  BY <1>5 DEF Named, Ahead, CurOf, PrevOf
<1>7. RecordedAt(i)'
  BY <1>0, <1>1, <1>4, <1>5 DEF Safe, Data, Recorded, RecordedAt, Completing, Recordless
<1>8. InLock(i) /\ ~InGuard(i)' /\ inst'[i].pc \in Wrote  BY <1>0, <1>4 DEF Wrote
<1>9. /\ Named(disk) \subseteq dirs
      /\ \A p \in Launches \ Runners : launch[p].pc = "resolve" => Named(disk) \subseteq marked
  BY DEF Safe, Data, Kept, Protected, ProtectedAt
<1> QED BY <1>0, <1>2, <1>3, <1>4, <1>5, <1>6, <1>7, <1>8, <1>9, InsideWrite

-----------------------------------------------------------------------------
\* The garbage collection.

LEMMA CollectKeeps ==
    ASSUME NEW i \in Installers, Safe, Collect(i) \/ Protect(i) \/ Collected(i)
    PROVE  Safe'
<1>0. /\ Placed /\ inst[i] \in InstallerStates /\ inst[i].plan # None
      /\ dirs \subseteq Releases /\ marked \subseteq Releases
      /\ inst[i].pc \in {"collect", "prune", "collecting"} /\ InLock(i) /\ disk.tx = None
  BY DEF Safe, Exclusive, TypeOK, Placed, Collect, Protect, Collected, Data, Recorded, RecordedAt, Recordless
<1>1. UNCHANGED <<disk, store, locks, launch, lease>> /\ durable' = disk
  BY DEF Collect, Protect, Collected, Step
<1>2. CASE Collect(i)
  <2>1. Stays(i) /\ inst'[i] = [inst[i] EXCEPT !.pc = "guard", !.why = "prune"]
    BY <1>0, <1>2, WhyUpdate DEF Collect, Placed
  <2>2. inst'[i].pc = "guard" /\ inst'[i].plan = inst[i].plan /\ inst'[i].why = "prune"
    BY <1>0, <2>1 DEF InstallerStates
  <2>3. RecordedAt(i)' /\ KeptAt(i)'  BY <1>0, <1>1, <2>2 DEF RecordedAt, KeptAt, Completing, Recordless
  <2>4. InLock(i)' /\ ~InGuard(i)'  BY <2>2
  <2> QED BY <1>0, <1>1, <2>1, <2>2, <2>3, <2>4, InsideQuiet
<1>3. CASE Protect(i)
  <2> DEFINE todo == IF {disk.cur, disk.prev} \ {None} \subseteq dirs THEN dirs \ {disk.cur, disk.prev} ELSE {}
  <2>0. todo \in SUBSET Releases /\ todo \cap {disk.cur, disk.prev} = {}  BY <1>0
  <2>1. inst' = [inst EXCEPT ![i].pc = "collecting", ![i].todo = todo] /\ inst[i].pc = "prune"
    BY <1>3 DEF Protect
  <2> HIDE DEF todo
  <2>2. Stays(i) /\ inst'[i] = [inst[i] EXCEPT !.pc = "collecting", !.todo = todo]
    BY <1>0, <2>0, <2>1, ListUpdate DEF Placed
  <2>3. inst'[i].pc = "collecting" /\ inst'[i].plan = inst[i].plan /\ inst'[i].todo = todo
    BY <1>0, <2>2 DEF InstallerStates
  <2>4. RecordedAt(i)' /\ KeptAt(i)'
    BY <1>0, <1>1, <2>0, <2>3 DEF RecordedAt, KeptAt, Completing, Recordless
  <2>5. InLock(i)' /\ InGuard(i)  BY <2>1, <2>3
  <2> QED BY <1>0, <1>1, <2>2, <2>3, <2>4, <2>5, InsideQuiet
<1>4. CASE Collected(i)
  <2>1. Stays(i) /\ inst'[i] = [inst[i] EXCEPT !.pc = "unguard"]
    BY <1>0, <1>4, PcUpdate DEF Collected, Step, Placed
  <2>2. inst[i].pc = "collecting" /\ inst'[i].pc = "unguard" /\ inst'[i].plan = inst[i].plan
    BY <1>0, <1>4, <2>1 DEF Collected, InstallerStates
  <2>3. RecordedAt(i)' /\ KeptAt(i)'  BY <1>0, <1>1, <2>2 DEF RecordedAt, KeptAt, Completing, Recordless
  <2>4. InLock(i)' /\ InGuard(i)  BY <2>2
  <2> QED BY <1>0, <1>1, <2>1, <2>2, <2>3, <2>4, InsideQuiet
<1> QED BY <1>2, <1>3, <1>4

\* A release that is deleted is nobody's: a launch with the guard there is none, one
\* without it has its lease, and one from before the guard runs from a marked release.
LEMMA ExamineKeeps ==
    ASSUME NEW i \in Installers, NEW r \in Releases, Safe, Examine(i, r)
    PROVE  Safe'
<1>0. /\ Placed /\ Held /\ TypeOK /\ inst[i] \in InstallerStates /\ inst[i].plan # None
      /\ inst[i].pc = "collecting" /\ r \in inst[i].todo /\ disk.tx = None
      /\ inst[i].todo \cap {disk.cur, disk.prev} = {}
  BY DEF Safe, Exclusive, Placed, Examine, Data, Recorded, RecordedAt, Recordless, Kept, KeptAt
<1>1. UNCHANGED <<disk, marked, locks, launch>> /\ durable' = disk  BY DEF Examine
<1>2. inst' = [inst EXCEPT ![i].todo = inst[i].todo \ {r}]  BY <1>0 DEF Examine, Placed
<1>3. Stays(i) /\ inst'[i] = [inst[i] EXCEPT !.todo = inst[i].todo \ {r}]
  <2>1. inst[i].todo \ {r} \in SUBSET Releases  BY <1>0 DEF InstallerStates
  <2> QED BY <1>0, <1>2, <2>1, TodoUpdate DEF Placed
<1>4. inst'[i].pc = "collecting" /\ inst'[i].plan = inst[i].plan /\ inst'[i].todo \subseteq inst[i].todo
  BY <1>0, <1>3 DEF InstallerStates
<1>5. InLock(i) /\ InLock(i)' /\ InGuard(i)  BY <1>0, <1>4
<1>6. Placed' /\ Held'  BY <1>0, <1>1, <1>3, <1>4, <1>5, InsideKeeps
<1>7. dirs' \subseteq dirs /\ drifted' \subseteq dirs' /\ (dirs' # dirs => dirs' = dirs \ {r} /\ Deletable(r))
  BY <1>0 DEF Examine, TypeOK
<1>8. lease' \in [Runners -> Releases \cup {None}] /\ \A p \in Runners : ~Dead(p) => lease'[p] = lease[p]
  BY <1>0 DEF Examine, TypeOK
<1>9. TypeOK'
  <2>1. owned' \in BOOLEAN  BY <1>0, <1>1, Zenon DEF TypeOK
  <2> QED BY <1>0, <1>1, <1>3, <1>7, <1>8, <2>1 DEF TypeOK, Stays, InstallerStates
<1>10. \A j \in Installers \ {i} : ~InLock(j)  BY <1>0, <1>5 DEF Held
<1>11. Recorded'
  <2>1. \A j \in Installers : inst'[j].pc = inst[j].pc /\ (j # i => inst'[j] = inst[j])
    BY <1>0, <1>3, <1>4 DEF Stays
  <2>2. RecordedAt(i)'  BY <1>0, <1>1, <1>4 DEF RecordedAt, Completing, Recordless
  <2> QED BY <1>1, <2>1, <2>2 DEF Safe, Data, Recorded, RecordedAt, Completing, Recordless
<1>12. Synchronized'  BY <1>1 DEF Synchronized, Ahead, CurOf, PrevOf
<1>13. Kept'
  <2>1. Named(disk') \subseteq dirs'
    BY <1>0, <1>1, <1>7 DEF Safe, Data, Kept, Named, CurOf, PrevOf
  <2>2. KeptAt(i)'  BY <1>0, <1>1, <1>4 DEF KeptAt
  <2>3. \A j \in Installers \ {i} : KeptAt(j)'  BY <1>3, <1>10 DEF KeptAt, Stays
  <2> QED BY <1>1, <2>1, <2>2, <2>3 DEF Kept, Named, CurOf, PrevOf
<1>14. Protected'
  <2>1. SUFFICES ASSUME NEW p \in Launches PROVE ProtectedAt(p)'
    BY <1>1 DEF Safe, Data, Protected, Named, CurOf, PrevOf
  <2>2. ProtectedAt(p)  BY DEF Safe, Data, Protected
  <2>3. p # i /\ p \notin Installers  OBVIOUS
  <2>4. ~InGuard(p)  BY <1>0, <1>5, <2>3 DEF Held
  <2>5. launch[p].rel # None /\ ~Dead(p) => launch[p].rel # r \/ dirs' = dirs
    <3>1. SUFFICES ASSUME launch[p].rel = r, ~Dead(p), Deletable(r) PROVE FALSE  BY <1>7
    <3>2. CASE p \in Runners
      <4>1. launch[p].pc \in {"unguard", "run"}
        BY <1>0, <2>2, <2>3, <2>4, <3>1, <3>2 DEF ProtectedAt, Placed, LaunchStates
      <4>2. lease[p] = r  BY <2>2, <3>1, <3>2, <4>1 DEF ProtectedAt
      <4> QED BY <3>1, <3>2, <4>2 DEF Deletable, InUse
    <3>3. CASE p \notin Runners
      <4>1. launch[p].pc = "run"
        BY <1>0, <2>2, <2>3, <3>1, <3>3 DEF ProtectedAt, Placed
      <4> QED BY <2>2, <3>1, <3>3, <4>1 DEF ProtectedAt, Deletable
    <3> QED BY <3>2, <3>3
  <2>6. ~Dead(p) => launch[p].rel = None \/ launch[p].rel \in dirs'
    BY <1>7, <2>2, <2>5 DEF ProtectedAt
  <2>7. Dead(p)' <=> Dead(p)  BY <1>1, <2>3
  <2>8. p \in Runners /\ launch[p].pc \in {"unguard", "run"} => lease'[p] = lease[p]
    BY <1>8, <2>3
  <2> QED BY <1>1, <2>2, <2>6, <2>7, <2>8 DEF ProtectedAt, Named, CurOf, PrevOf
<1> QED BY <1>6, <1>9, <1>11, <1>12, <1>13, <1>14 DEF Safe, Exclusive, Data

-----------------------------------------------------------------------------
\* The launches and the world.

LEMMA StartKeeps ==
    ASSUME NEW p \in Launches, Safe, Starting(p) \/ (p \in Runners /\ WriteLease(p))
    PROVE  Safe'
<1>0. /\ Placed /\ Held /\ TypeOK /\ p \notin Installers /\ launch[p] \in LaunchStates
      /\ ProtectedAt(p) /\ owned' \in BOOLEAN
  <2>1. UNCHANGED owned  BY DEF Starting, Launch, Step, Resolve, Exit, WriteLease
  <2>2. owned' \in BOOLEAN  BY <2>1, Zenon DEF Safe, Exclusive, TypeOK
  <2> QED BY <2>2 DEF Safe, Exclusive, Placed, Data, Protected
<1>1. UNCHANGED <<disk, durable, store, locks, inst>>
  BY <1>0 DEF Starting, Launch, Step, Resolve, Exit, WriteLease
<1>2. ASSUME NEW pc \in ShellPcs \cup {"guard", "owner", "lease", "unguard"}, NEW rel \in Releases \cup {None},
             Waits(p), launch'[p] = [pc |-> pc, rel |-> rel], launch[p].pc \notin Ended,
             p \notin Runners => pc \in ShellPcs,
             InGuard(p)' => InGuard(p), lease' \in [Runners -> Releases \cup {None}],
             \A q \in Runners \ {p} : lease'[q] = lease[q], ProtectedAt(p)'
      PROVE  Safe'
  <2>1. TypeOK'  BY <1>0, <1>1, <1>2 DEF TypeOK, Waits, LaunchStates
  <2>2. Placed'  BY <1>0, <1>1, <1>2 DEF Placed, Waits
  <2>3. Held'
    <3>1. \A i \in Installers : InLock(i)' => ilock' = i  BY <1>0, <1>1 DEF Held
    <3>2. \A q \in Procs : InGuard(q)' => guard' = q  BY <1>0, <1>1, <1>2 DEF Held, Waits
    <3>3. \A i \in Installers : inst'[i].pc = "reap" => guard' # None /\ Dead(guard)'
      BY <1>0, <1>1, <1>2 DEF Held, Waits, TypeOK
    <3> QED BY <3>1, <3>2, <3>3 DEF Held
  <2>4. Data'  BY <1>1, <1>2, LaunchKeeps DEF Safe
  <2> QED BY <2>1, <2>2, <2>3, <2>4 DEF Safe, Exclusive
<1>3. CASE Launch(p)
  <2>1. PICK pc \in {"guard", "resolve"} :
          /\ launch' = [launch EXCEPT ![p].pc = pc] /\ launch[p].pc = "idle" /\ UNCHANGED lease
          /\ pc = "guard" => p \in Runners
          /\ pc = "resolve" => p \notin Runners /\ disk.launcher = "open"
    BY <1>0, <1>3 DEF Launch, Step
  <2>2. Waits(p) /\ launch'[p] = [pc |-> pc, rel |-> launch[p].rel]
    BY <1>0, <2>1, StepUpdate DEF Placed, LaunchStates
  <2>3. ProtectedAt(p)'
    BY <1>0, <1>1, <2>1, <2>2 DEF ProtectedAt, Safe, Data, Protected, Named, CurOf, PrevOf
  <2>4. ~InGuard(p)'  BY <1>0, <2>1, <2>2
  <2>5. lease' \in [Runners -> Releases \cup {None}]  BY <1>0, <2>1 DEF TypeOK
  <2>6. launch[p].rel \in Releases \cup {None}  BY <1>0 DEF LaunchStates
  <2> QED BY <1>2, <2>1, <2>2, <2>3, <2>4, <2>5, <2>6
<1>4. CASE Resolve(p)
  <2>0. launch[p].pc = "resolve" /\ launch[p].rel = None /\ UNCHANGED lease
    BY <1>0, <1>4 DEF Resolve, ProtectedAt
  <2>1. CASE disk.cur \in dirs
    <3> DEFINE pc == IF p \in Runners THEN "lease" ELSE "run"
    <3>1. launch' = [launch EXCEPT ![p].rel = disk.cur, ![p].pc = pc]  BY <1>4, <2>1 DEF Resolve
    <3>2. disk.cur \in Releases /\ disk.cur # None  BY <1>0, <2>1 DEF TypeOK
    <3>3. pc \in ShellPcs \cup {"lease"}  OBVIOUS
    <3>4. Waits(p) /\ launch'[p] = [pc |-> pc, rel |-> disk.cur]
      <4> DEFINE rel == disk.cur
      <4>1. launch \in [Launches -> LaunchStates]  BY <1>0 DEF Placed
      <4>2. rel \in Releases \cup {None} /\ pc \in ShellPcs \cup {"guard", "owner", "lease", "unguard"}
        BY <3>2, <3>3
      <4>3. launch' = [launch EXCEPT ![p].rel = rel, ![p].pc = pc]  BY <3>1
      <4> HIDE DEF pc, rel
      <4>4. Waits(p) /\ launch'[p] = [pc |-> pc, rel |-> rel]  BY <4>1, <4>2, <4>3, FoundUpdate
      <4> QED BY <4>4 DEF rel
    <3>5. ProtectedAt(p)'
      BY <1>0, <1>1, <2>0, <2>1, <3>2, <3>4 DEF ProtectedAt, Named, CurOf, PrevOf
    <3>6. InGuard(p)' => InGuard(p)  BY <1>0, <2>0, <3>4
    <3>7. lease' \in [Runners -> Releases \cup {None}]  BY <1>0, <2>0 DEF TypeOK
    <3> QED BY <1>2, <2>0, <3>2, <3>3, <3>4, <3>5, <3>6, <3>7
  <2>2. CASE disk.cur \notin dirs
    <3> DEFINE pc == IF p \in Runners THEN "unguard" ELSE "failed"
    <3>1. launch' = [launch EXCEPT ![p].pc = pc]  BY <1>4, <2>2 DEF Resolve
    <3>2. pc \in ShellPcs \cup {"unguard"}  OBVIOUS
    <3>3. Waits(p) /\ launch'[p] = [pc |-> pc, rel |-> None]
      BY <1>0, <2>0, <3>1, <3>2, StepUpdate DEF Placed, LaunchStates
    <3>4. ProtectedAt(p)'  BY <1>0, <3>3 DEF ProtectedAt
    <3>5. InGuard(p)' => InGuard(p)  BY <1>0, <2>0, <3>3
    <3>6. lease' \in [Runners -> Releases \cup {None}]  BY <1>0, <2>0 DEF TypeOK
    <3> QED BY <1>2, <2>0, <3>2, <3>3, <3>4, <3>5, <3>6
  <2> QED BY <2>1, <2>2
<1>5. CASE Exit(p)
  <2>1. launch' = [launch EXCEPT ![p].pc = "done"] /\ launch[p].pc = "run"  BY <1>5 DEF Exit
  <2>2. Waits(p) /\ launch'[p] = [pc |-> "done", rel |-> launch[p].rel]
    BY <1>0, <2>1, StepUpdate DEF Placed, LaunchStates
  <2>3. lease' \in [Runners -> Releases \cup {None}] /\ \A q \in Runners \ {p} : lease'[q] = lease[q]
    BY <1>0, <1>5 DEF Exit, TypeOK
  <2>4. ProtectedAt(p)' /\ ~InGuard(p)'  BY <1>0, <2>2 DEF ProtectedAt
  <2>5. launch[p].rel \in Releases \cup {None}  BY <1>0 DEF LaunchStates
  <2> QED BY <1>2, <2>1, <2>2, <2>3, <2>4, <2>5
<1>6. CASE p \in Runners /\ WriteLease(p)
  <2>1. launch' = [launch EXCEPT ![p].pc = "unguard"] /\ launch[p].pc = "lease"
        /\ lease' = [lease EXCEPT ![p] = launch[p].rel]
    BY <1>6 DEF WriteLease
  <2>2. Waits(p) /\ launch'[p] = [pc |-> "unguard", rel |-> launch[p].rel]
    BY <1>0, <2>1, StepUpdate DEF Placed, LaunchStates
  <2>3. launch[p].rel \in Releases \cup {None}  BY <1>0 DEF LaunchStates
  <2>4. lease' \in [Runners -> Releases \cup {None}] /\ lease'[p] = launch[p].rel
        /\ \A q \in Runners \ {p} : lease'[q] = lease[q]
    BY <1>0, <1>6, <2>1, <2>3 DEF TypeOK
  <2>5. ProtectedAt(p)'  BY <1>0, <1>1, <1>6, <2>1, <2>2, <2>4 DEF ProtectedAt
  <2>6. InGuard(p)  BY <1>0, <2>1
  <2> QED BY <1>2, <1>6, <2>1, <2>2, <2>3, <2>4, <2>5, <2>6
<1> QED BY <1>3, <1>4, <1>5, <1>6 DEF Starting

\* A step that fails gives back the guard, if it has it, and the lock.
LEMMA FailKeeps ==
    ASSUME NEW i \in Installers, Safe, StepFails(i)
    PROVE  Safe'
<1>0. /\ Placed /\ inst[i] \in InstallerStates /\ inst[i].plan # None /\ InLock(i)
      /\ dirs \subseteq Releases /\ marked \subseteq Releases
  BY DEF Safe, Exclusive, TypeOK, Placed, StepFails
<1>1. UNCHANGED <<disk, store, locks, launch, lease>> /\ durable' = disk  BY DEF StepFails
<1>2. PICK pc \in {"release", "unguard"} :
        inst' = [inst EXCEPT ![i].pc = pc, ![i].bad = TRUE] /\ (pc = "unguard" => InGuard(i))
  BY DEF StepFails
<1>3. Stays(i) /\ inst'[i] = [inst[i] EXCEPT !.pc = pc, !.bad = TRUE]
  BY <1>0, <1>2, BadUpdate DEF Placed
<1>4. inst'[i].pc = pc /\ inst'[i].plan = inst[i].plan /\ inst'[i].bad
  BY <1>0, <1>3 DEF InstallerStates
<1>5. RecordedAt(i)' /\ KeptAt(i)'  BY <1>4 DEF RecordedAt, KeptAt, Completing, Recordless
<1>6. InLock(i)' /\ (InGuard(i)' => InGuard(i))  BY <1>2, <1>4
<1> QED BY <1>0, <1>1, <1>3, <1>4, <1>5, <1>6, InsideQuiet

LEMMA DriftKeeps ==
    ASSUME NEW r \in Releases, Safe, Drift(r)
    PROVE  Safe'
<1> USE DEF Safe, Drift
<1>1. owned' \in BOOLEAN  BY Zenon DEF Exclusive, TypeOK
<1>2. TypeOK'  BY <1>1 DEF Exclusive, TypeOK
<1>3. Placed' /\ Held'  BY DEF Exclusive, Placed, Held
<1>4. Recorded'  BY DEF Data, Recorded, RecordedAt, Completing, Recordless
<1>5. Synchronized'  BY DEF Data, Synchronized, Ahead, CurOf, PrevOf
<1>6. Kept'  BY DEF Data, Kept, KeptAt, Named, CurOf, PrevOf
<1>7. Protected'  BY DEF Data, Protected, ProtectedAt, Named, CurOf, PrevOf
<1> QED BY <1>2, <1>3, <1>4, <1>5, <1>6, <1>7 DEF Exclusive, Data

LEMMA DeathKeeps ==
    ASSUME NEW p \in Procs, Safe, Die(p)
    PROVE  Safe'
<1>0. Placed /\ Held /\ TypeOK /\ ~Dead(p) /\ PcOf(p) # "idle"  BY DEF Safe, Exclusive, Die, Killed
<1>1. UNCHANGED <<disk, durable, store, locks, lease>>  BY DEF Die
<1>2. owned' \in BOOLEAN  BY <1>0, <1>1, Zenon DEF TypeOK
<1>3. CASE p \in Installers
  <2>1. Stays(p) /\ inst'[p] = [inst[p] EXCEPT !.pc = "dead"] /\ UNCHANGED launch
    BY <1>0, <1>3, PcUpdate DEF Die, Placed
  <2>2. inst'[p].pc = "dead" /\ inst'[p].plan = inst[p].plan  BY <1>0, <1>3, <2>1 DEF Placed, InstallerStates
  <2>3. TypeOK'  BY <1>0, <1>1, <1>2, <2>1 DEF TypeOK, Stays, InstallerStates
  <2>4. Placed'
    <3>1. inst'[p].plan # None  BY <1>0, <1>3, <2>2 DEF Placed
    <3> QED BY <1>0, <2>1, <2>2, <3>1 DEF Placed, Stays
  <2>5. Held'  BY <1>0, <1>1, <1>3, <2>1, <2>2 DEF Held, Stays
  <2>6. RecordedAt(p)' /\ KeptAt(p)'  BY <2>2 DEF RecordedAt, KeptAt, Completing, Recordless
  <2>7. Data'  BY <1>1, <1>3, <2>1, <2>2, <2>6, QuietKeeps DEF Safe
  <2> QED BY <2>3, <2>4, <2>5, <2>7 DEF Safe, Exclusive
<1>4. CASE p \notin Installers
  <2>0. p \in Launches  BY <1>4
  <2>1. Waits(p) /\ launch'[p] = [launch[p] EXCEPT !.pc = "dead"] /\ UNCHANGED inst
    BY <1>0, <1>4, <2>0, StepUpdate DEF Die, Placed
  <2>2. launch'[p].pc = "dead"  BY <1>0, <2>0, <2>1 DEF Placed, LaunchStates
  <2>3. TypeOK'  BY <1>0, <1>1, <1>2, <2>0, <2>1 DEF TypeOK, Waits, LaunchStates
  <2>4. Placed'  BY <1>0, <1>4, <2>1, <2>2 DEF Placed, Waits
  <2>5. Held'
    <3>1. \A i \in Installers : InLock(i)' => ilock' = i  BY <1>0, <1>1, <2>1 DEF Held
    <3>2. \A q \in Procs : InGuard(q)' => guard' = q
      BY <1>0, <1>1, <1>4, <2>0, <2>1, <2>2 DEF Held, Waits
    <3>3. \A i \in Installers : inst'[i].pc = "reap" => guard' # None /\ Dead(guard)'
      BY <1>0, <1>1, <1>4, <2>0, <2>1, <2>2 DEF Held, Waits, TypeOK
    <3> QED BY <3>1, <3>2, <3>3 DEF Held
  <2>6. ProtectedAt(p)'  BY <1>4, <2>2 DEF ProtectedAt
  <2>7. Data'  BY <1>1, <2>0, <2>1, <2>6, LaunchKeeps DEF Safe
  <2> QED BY <2>3, <2>4, <2>5, <2>7 DEF Safe, Exclusive
<1> QED BY <1>3, <1>4

\* After a power failure nobody is inside, and the disk is one of the two.
LEMMA PowerKeeps == ASSUME Safe, PowerFails PROVE Safe'
<1>0. Placed /\ Held /\ TypeOK  BY DEF Safe, Exclusive
<1>1. UNCHANGED <<store, locks, lease>> /\ disk' \in {disk, durable} /\ durable' = disk'  BY DEF PowerFails
<1>2. owned' \in BOOLEAN  BY <1>0, <1>1, Zenon DEF TypeOK
<1>3. ASSUME NEW i \in Installers
      PROVE  /\ inst'[i] \in InstallerStates /\ inst'[i].pc \in Ended \cup {"idle"}
             /\ inst'[i].plan = None => inst'[i].pc = "idle"
             /\ Dead(i) => inst'[i].pc \in Ended
             /\ inst'[i].pc = "idle" => inst'[i].why = "recover"
  <2>0. inst[i] \in InstallerStates  BY <1>0 DEF Placed
  <2>1. CASE Killed(i)
    <3> DEFINE o == inst[i]
    <3>1. inst'[i] = [o EXCEPT !.pc = "dead"]  BY <2>1 DEF PowerFails
    <3>2. o \in InstallerStates /\ o.plan # None  BY <1>0, <2>0, <2>1 DEF Killed, Placed
    <3> HIDE DEF o
    <3>3. [o EXCEPT !.pc = "dead"] \in InstallerStates  BY <3>2, Zenon DEF InstallerStates
    <3>4. [o EXCEPT !.pc = "dead"].pc = "dead" /\ [o EXCEPT !.pc = "dead"].plan # None
      BY <3>2 DEF InstallerStates
    <3> QED BY <3>1, <3>3, <3>4
  <2>2. CASE ~Killed(i)
    <3>1. inst'[i] = inst[i]  BY <2>2 DEF PowerFails
    <3> QED BY <1>0, <2>0, <2>2, <3>1 DEF Killed, Placed
  <2> QED BY <2>1, <2>2
<1>4. ASSUME NEW p \in Launches
      PROVE  /\ launch'[p] \in LaunchStates /\ launch'[p].pc \in Ended \cup {"idle"}
             /\ Dead(p) => launch'[p].pc \in Ended
             /\ launch'[p].rel = launch[p].rel
             /\ launch'[p].pc = "idle" => launch[p].pc = "idle"
  <2>0. launch[p] \in LaunchStates /\ p \notin Installers  BY <1>0 DEF Placed
  <2>1. CASE Killed(p)
    <3>1. launch'[p] = [launch[p] EXCEPT !.pc = "dead"]  BY <2>1 DEF PowerFails
    <3> QED BY <2>0, <3>1 DEF LaunchStates
  <2>2. CASE ~Killed(p)
    <3>1. launch'[p] = launch[p]  BY <2>2 DEF PowerFails
    <3> QED BY <2>0, <2>2, <3>1 DEF Killed
  <2> QED BY <2>1, <2>2
<1>5. inst' \in [Installers -> InstallerStates]
  <2>1. inst' = [i \in Installers |-> inst'[i]]  BY DEF PowerFails
  <2> QED BY <1>3, <2>1
<1>6. launch' \in [Launches -> LaunchStates]
  <2>1. launch' = [p \in Launches |-> launch'[p]]  BY DEF PowerFails
  <2> QED BY <1>4, <2>1
<1>7. TypeOK'  BY <1>0, <1>1, <1>2, <1>5, <1>6 DEF TypeOK, InstallerStates, LaunchStates
<1>8. Placed'  BY <1>0, <1>3, <1>4, <1>5, <1>6 DEF Placed
<1>9. Held'  BY <1>0, <1>1, <1>3, <1>4 DEF Held, TypeOK
<1>10. Recorded'  BY <1>3 DEF Recorded, RecordedAt, Completing, Recordless
<1>11. Synchronized'  BY <1>1, <1>3 DEF Synchronized, Ahead, CurOf, PrevOf
<1>12. Kept'  BY <1>1, <1>3 DEF Safe, Data, Kept, KeptAt, Named, CurOf, PrevOf
<1>13. Protected'
  <2>1. \A p \in Launches : ProtectedAt(p)'  BY <1>4 DEF Safe, Data, Protected, ProtectedAt
  <2>2. /\ disk'.launcher = "open" => Named(disk') \subseteq marked
        /\ durable'.launcher = "open" => Named(durable') \subseteq marked
    BY <1>1 DEF Safe, Data, Protected
  <2> QED BY <1>1, <2>1, <2>2 DEF Protected, Named, CurOf, PrevOf
<1> QED BY <1>7, <1>8, <1>9, <1>10, <1>11, <1>12, <1>13 DEF Safe, Exclusive, Data

-----------------------------------------------------------------------------
LEMMA InitSafe == Init => Safe
BY InitExclusive, InitData DEF Safe

LEMMA InitOrderly == Init => NoSteal /\ Timely
BY DEF Init, NoSteal, Timely

LEMMA InstallingKeeps ==
    ASSUME NEW i \in Installers, Safe, Timely, Installing(i)
    PROVE  Safe'
BY ReapKeeps, RecoverKeeps, LinkKeeps, RollBackKeeps, MaterializeKeeps, RecordKeeps, LauncherKeeps,
   CollectKeeps, ExamineKeeps
DEF Installing

LEMMA StutterKeeps == Safe /\ UNCHANGED vars => Safe'
<1> SUFFICES ASSUME Safe, UNCHANGED vars PROVE Safe'  OBVIOUS
<1> USE DEF Safe, Exclusive, Data
<1>1. TypeOK'
  <2>1. UNCHANGED owned  OBVIOUS
  <2>2. owned' \in BOOLEAN  BY <2>1, Zenon DEF TypeOK
  <2> QED BY <2>2 DEF TypeOK
<1>2. Placed' /\ Held'  BY DEF Placed, Held
<1>3. Recorded'  BY DEF Recorded, RecordedAt, Completing, Recordless
<1>4. Synchronized'  BY DEF Synchronized, Ahead, CurOf, PrevOf
<1>5. Kept'  BY DEF Kept, KeptAt, Named, CurOf, PrevOf
<1>6. Protected'  BY DEF Protected, ProtectedAt, Named, CurOf, PrevOf
<1> QED BY <1>1, <1>2, <1>3, <1>4, <1>5, <1>6

LEMMA NextKeeps == Safe /\ NoSteal /\ Timely /\ [Next]_vars => Safe'
<1> SUFFICES ASSUME Safe, NoSteal, Timely, [Next]_vars PROVE Safe'  OBVIOUS
<1>1. ASSUME NEW i \in Installers, NEW plan \in Releases \cup {Rollback}, Begin(i, plan) PROVE Safe'
  BY <1>1, BeginKeeps
<1>2. ASSUME NEW i \in Installers, Locking(i) PROVE Safe'  BY <1>2, LockKeeps
<1>3. ASSUME NEW i \in Installers, Installing(i) PROVE Safe'  BY <1>3, InstallingKeeps
<1>4. ASSUME NEW i \in Installers, StepFails(i) PROVE Safe'  BY <1>4, FailKeeps
<1>5. ASSUME NEW p \in Launches, Starting(p) PROVE Safe'  BY <1>5, StartKeeps
<1>6. ASSUME NEW p \in Runners, WriteLease(p) PROVE Safe'
  <2>1. p \in Launches  OBVIOUS
  <2> QED BY <1>6, <2>1, StartKeeps
<1>7. ASSUME NEW p \in Installers \cup Runners, Guarding(p) PROVE Safe'  BY <1>7, GuardKeeps
<1>8. ASSUME NEW r \in Releases, Drift(r) PROVE Safe'  BY <1>8, DriftKeeps
<1>9. ASSUME NEW p \in Procs, Die(p) PROVE Safe'  BY <1>9, DeathKeeps
<1>10. CASE PowerFails  BY <1>10, PowerKeeps
<1>11. CASE UNCHANGED vars  BY <1>11, StutterKeeps
<1> HIDE DEF Launches, Procs, vars
<1> QED BY <1>1, <1>2, <1>3, <1>4, <1>5, <1>6, <1>7, <1>8, <1>9, <1>10, <1>11 DEF Next

\* The invariant holds in every reachable state of every instance, as long as
\* neither race is lost.
THEOREM SafeAlways == OrderlySpec => [](Safe /\ NoSteal /\ Timely)
<1>1. Init => Safe /\ NoSteal /\ Timely  BY InitSafe, InitOrderly
<1>2. (Safe /\ NoSteal /\ Timely) /\ [Next /\ NoSteal' /\ Timely']_vars => (Safe /\ NoSteal /\ Timely)'
  <2> SUFFICES ASSUME Safe, NoSteal, Timely, [Next /\ NoSteal' /\ Timely']_vars
               PROVE  Safe' /\ NoSteal' /\ Timely'
    OBVIOUS
  <2>1. Safe'
    <3> HIDE DEF vars
    <3> QED BY NextKeeps
  <2>2. UNCHANGED vars => NoSteal' /\ Timely'  BY DEF NoSteal, Timely
  <2> HIDE DEF vars
  <2> QED BY <2>1, <2>2
<1> HIDE DEF vars
<1> QED BY <1>1, <1>2, PTL DEF OrderlySpec

\* Every variable has its type, and a record names a release to go to
\* (install-channel.mjs, completeRollbackTransaction).
THEOREM TypeCorrect == OrderlySpec => []TypeOK
<1>1. Safe => TypeOK  BY DEF Safe, Exclusive
<1> QED BY <1>1, SafeAlways, PTL

\* However many installers and launches there are, and whoever dies: one installer
\* is inside the lock, and only the guard's owner resolves, moves or collects
\* (acquireLock, acquireChannelRuntimeLock).
THEOREM Exclusion == OrderlySpec => []OneInside
<1>1. Safe => OneInside  BY DEF Safe, Exclusive, Held, OneInside, TypeOK
<1> QED BY <1>1, SafeAlways, PTL

\* Nothing that a live process, a link or a record needs is ever deleted
\* (pruneChannelReleases, releaseIsInUse, markUnguardedMigrationRelease).
THEOREM NothingLost == OrderlySpec => []NothingPulledAway
<1>1. Safe => NothingPulledAway
  BY DEF Safe, Exclusive, TypeOK, Data, Kept, Protected, ProtectedAt, NothingPulledAway, Named, CurOf, PrevOf
<1> QED BY <1>1, SafeAlways, PTL

-----------------------------------------------------------------------------
\* The refinement.

\* What is durable becomes what is on the disk, or stays.
LEMMA DurableFollows == Next => durable' \in {durable, disk}
<1> SUFFICES ASSUME Next PROVE durable' \in {durable, disk}  OBVIOUS
<1>1. ASSUME NEW i \in Installers, Locking(i) PROVE durable' = disk
  BY <1>1 DEF Locking, Publish, JudgeLock, ReclaimLock, ReleaseLock, Goes
<1>2. ASSUME NEW i \in Installers, Installing(i) PROVE durable' = disk
  BY <1>2 DEF Installing, SeeDeadGuard, ReapGuard, Recover, Apply, LinkCurrent, LinkPrevious, ClearRecord,
     RollBack, Materialize, Mark, WriteRecord, WriteLauncher, Collect, Protect, Collected, Examine,
     Goes, Throws, Step
<1>3. ASSUME NEW i \in Installers, NEW plan \in Releases \cup {Rollback}, Begin(i, plan) PROVE durable' = durable
  BY <1>3 DEF Begin
<1>4. ASSUME NEW i \in Installers, StepFails(i) PROVE durable' = disk  BY <1>4 DEF StepFails
<1>5. ASSUME NEW p \in Launches, Starting(p) PROVE durable' \in {durable, disk}
  BY <1>5 DEF Starting, Launch, Resolve, Exit, Step
<1>6. ASSUME NEW p \in Runners, WriteLease(p) PROVE durable' = durable  BY <1>6 DEF WriteLease
<1>7. ASSUME NEW p \in Installers \cup Runners, Guarding(p) PROVE durable' \in {durable, disk}
  BY <1>7 DEF Guarding, TakeGuard, WriteOwner, GuardTimeout, Unguard, Step, Throws
<1>8. ASSUME NEW r \in Releases, Drift(r) PROVE durable' = durable  BY <1>8 DEF Drift
<1>9. ASSUME NEW p \in Procs, Die(p) PROVE durable' = durable  BY <1>9 DEF Die
<1>10. CASE PowerFails  BY <1>10 DEF PowerFails
<1> HIDE DEF Launches, Procs
<1> QED BY <1>1, <1>2, <1>3, <1>4, <1>5, <1>6, <1>7, <1>8, <1>9, <1>10 DEF Next

\* The channel promises what ChannelPointers says: every promotion and every
\* rollback is one step, whatever dies between its writes (promoteRelease,
\* rollbackChannel, completeRollbackTransaction).
THEOREM PointersImplemented == OrderlySpec => ImplementsPointers
<1> USE DEF CurOf, PrevOf
<1>1. Init => Channel!Init  BY DEF Init, InitDisk, Channel!Init
<1>2. Safe /\ [Next /\ NoSteal' /\ Timely']_vars => [Channel!Next]_Channel!vars
  <2> SUFFICES ASSUME Safe, [Next /\ NoSteal' /\ Timely']_vars PROVE [Channel!Next]_Channel!vars  OBVIOUS
  <2>1. durable' = durable \/ durable' = disk
    <3>1. CASE UNCHANGED vars  BY <3>1
    <3>2. CASE Next  BY <3>2, DurableFollows
    <3> HIDE DEF vars
    <3> QED BY <3>1, <3>2
  <2>2. Ahead(durable, disk)  BY DEF Safe, Data, Synchronized
  <2>3. CASE durable' = durable  BY <2>3 DEF Channel!vars
  <2>4. CASE durable' = disk
    <3>1. CASE CurOf(disk) = CurOf(durable) /\ PrevOf(disk) = PrevOf(durable)
      BY <2>4, <3>1 DEF Channel!vars
    <3>2. CASE PrevOf(disk) = CurOf(durable) /\ CurOf(disk) \in Releases /\ CurOf(disk) # CurOf(durable)
      BY <2>4, <3>2 DEF Channel!Next, Channel!Promote
    <3>3. CASE PrevOf(disk) = CurOf(durable) /\ CurOf(disk) = PrevOf(durable) /\ PrevOf(durable) # None
      BY <2>4, <3>3 DEF Channel!Next, Channel!RollBack
    <3> QED BY <2>2, <3>1, <3>2, <3>3 DEF Ahead
  <2> QED BY <2>1, <2>3, <2>4
<1> HIDE DEF vars, CurOf, PrevOf
<1> QED BY <1>1, <1>2, SafeAlways, PTL DEF OrderlySpec, ImplementsPointers, Channel!Spec
=============================================================================
