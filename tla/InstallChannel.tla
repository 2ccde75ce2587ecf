--------------------------- MODULE InstallChannel ---------------------------
(***************************************************************************)
(* scripts/install-channel.mjs: one channel's releases, the `current' and   *)
(* `previous' links, the promotion and the rollback that move them, and the *)
(* garbage collection that deletes what no launch uses.                     *)
(*                                                                          *)
(* Installers take .install-lock; installers and launches take              *)
(* .launch-gc-lock (the guard).  A process is its call of installChannel or *)
(* its run of the launcher; it may die at every step, and the power may     *)
(* fail.  A write is synchronized before the installer's next step, so a    *)
(* power failure can undo the last one only: `durable' is the disk without  *)
(* it.  A staging directory, a claim and a tombstone are seen by nobody and *)
(* are left out.                                                            *)
(***************************************************************************)
EXTENDS Naturals, FiniteSets

CONSTANTS
    Installers,    \* calls of installChannel
    Runners,       \* runs of the guarded launcher
    Shells,        \* runs of a launcher from before the guard
    Releases,      \* commits
    None, Rollback,
    MaxCrashes, MaxFails, MaxDrifts   \* bounds

ASSUME InstallAssumption ==
    /\ None \notin Releases \cup Installers \cup Runners
    /\ None \notin [cur : Releases, prev : Releases \cup {None}]
    /\ Rollback \notin Releases \cup {None}
    /\ Installers \cap (Runners \cup Shells) = {}

VARIABLES
    disk,       \* the links, the transaction record and the launcher
    durable,    \* the same, without a write that is not synchronized
    dirs,       \* the canonical directories of releases
    drifted,    \* those whose content no longer matches their manifest
    marked,     \* those with .cc-unguarded-launch or without a leaseProtocol
    ilock,      \* the owner of .install-lock, or None
    guard,      \* the owner of .launch-gc-lock, or None
    owned,      \* the guard's owner.json has been written
    inst,       \* the installers
    launch,     \* the launches
    lease,      \* the lease file of each guarded launch
    crashes, fails, drifts

locks == <<ilock, guard, owned>>
store == <<dirs, drifted, marked>>
counts == <<crashes, fails, drifts>>
vars == <<disk, durable, store, locks, inst, launch, lease, counts>>

Launches == Runners \cup Shells
Procs == Installers \cup Launches
Links == [cur : Releases \cup {None}, prev : Releases \cup {None}]
NoWish == [cur |-> None, prev |-> None]

PcOf(p) == IF p \in Installers THEN inst[p].pc ELSE launch[p].pc
Dead(p) == PcOf(p) \in {"dead", "done", "failed"}

\* The release's directory is there, with the content it was installed with.
Valid(r) == r \in dirs \ drifted
Completable(links) == Valid(links.cur) /\ (links.prev = None \/ Valid(links.prev))

-----------------------------------------------------------------------------
\* A channel that the present installer has made, one of an older installer, or
\* none yet.
InitDisk ==
    {[cur |-> c, prev |-> p, tx |-> None, launcher |-> l] :
        c \in Releases \cup {None}, p \in Releases \cup {None},
        l \in {"missing", "open", "guarded"}}

Init ==
    /\ disk \in {d \in InitDisk :
         /\ d.launcher = "missing" <=> d.cur = None
         /\ d.prev # None => d.cur # None /\ d.prev # d.cur}
    /\ durable = disk
    /\ dirs = {disk.cur, disk.prev} \ {None}
    /\ drifted = {} /\ marked = IF disk.launcher = "open" THEN dirs ELSE {}
    /\ ilock = None /\ guard = None /\ owned = FALSE
    /\ inst = [i \in Installers |->
                 [pc |-> "idle", plan |-> None, why |-> "recover", want |-> NoWish,
                  todo |-> {}, bad |-> FALSE]]
    /\ launch = [p \in Launches |-> [pc |-> "idle", rel |-> None]]
    /\ lease = [p \in Runners |-> None]
    /\ crashes = 0 /\ fails = 0 /\ drifts = 0

-----------------------------------------------------------------------------
\* An installer goes on; everything it wrote before is synchronized.
Goes(i, pc) ==
    /\ inst' = [inst EXCEPT ![i].pc = pc]
    /\ durable' = disk
    /\ UNCHANGED <<launch, lease, counts>>

\* It gives the lock back and throws.
Throws(i) ==
    /\ inst' = [inst EXCEPT ![i].pc = "release", ![i].bad = TRUE]
    /\ durable' = disk
    /\ UNCHANGED <<launch, lease, counts>>

Begin(i, plan) ==
    /\ inst[i].pc = "idle"
    /\ inst' = [inst EXCEPT ![i].pc = "publish", ![i].plan = plan]
    /\ UNCHANGED <<disk, durable, store, locks, launch, lease, counts>>

\* acquireLock: the claim is renamed to the lock, unless there is one.
Publish(i) ==
    /\ inst[i].pc \in {"publish", "republish"}
    /\ IF ilock = None
       THEN ilock' = i /\ Goes(i, "recover")
       ELSE /\ UNCHANGED ilock
            /\ Goes(i, IF inst[i].pc = "publish" THEN "judge" ELSE "failed")
    /\ UNCHANGED <<disk, store, guard, owned>>

\* A lock that has gone is taken for a live owner's.
Reclaimable == ilock # None /\ Dead(ilock)

JudgeLock(i) ==
    /\ inst[i].pc = "judge"
    /\ Goes(i, IF Reclaimable THEN "reclaim" ELSE "failed")
    /\ UNCHANGED <<disk, store, locks>>

\* The lock that is at the path now, not the one that was read, is moved away.
ReclaimLock(i) ==
    /\ inst[i].pc = "reclaim"
    /\ ilock' = None
    /\ Goes(i, IF ilock = None THEN "failed" ELSE "republish")
    /\ UNCHANGED <<disk, store, guard, owned>>

ReleaseLock(i) ==
    /\ inst[i].pc = "release"
    /\ ilock' = IF ilock = i THEN None ELSE ilock
    /\ Goes(i, IF ilock = i /\ ~inst[i].bad THEN "done" ELSE "failed")
    /\ UNCHANGED <<disk, store, guard, owned>>

-----------------------------------------------------------------------------
\* The guard, of installers and launches.

\* A process goes on with pc.
Step(p, pc) ==
    /\ IF p \in Installers
       THEN /\ inst' = [inst EXCEPT ![p].pc = pc]
            /\ durable' = disk
            /\ UNCHANGED launch
       ELSE /\ launch' = [launch EXCEPT ![p].pc = pc]
            /\ UNCHANGED <<inst, durable>>
    /\ UNCHANGED <<disk, store, ilock, lease, counts>>

TakeGuard(p) ==
    /\ PcOf(p) = "guard" /\ guard = None
    /\ guard' = p /\ owned' = FALSE
    /\ Step(p, "owner")

Guarded(p) ==
    IF p \in Launches THEN "resolve" ELSE IF inst[p].why = "prune" THEN "prune" ELSE "cur"
WriteOwner(p) ==
    /\ PcOf(p) = "owner"
    /\ owned' = TRUE
    /\ Step(p, Guarded(p))
    /\ UNCHANGED guard

\* Mutant: a claim without an owner is taken for a dead one's.
DeadGuard_Ownerless == ~owned \/ Dead(guard)

\* reapDeadChannelRuntimeLock: only a complete claim of a dead process.
DeadGuard == owned /\ Dead(guard)
SeeDeadGuard(i) ==
    /\ inst[i].pc = "guard" /\ guard # None
    /\ DeadGuard
    /\ Step(i, "reap")
    /\ UNCHANGED <<guard, owned>>

\* Whatever is there is moved away.
ReapGuard(i) ==
    /\ inst[i].pc = "reap"
    /\ guard' = None /\ owned' = FALSE
    /\ Step(i, "guard")

\* 30 seconds are over.  A garbage collection is skipped, anything else fails.
GuardTimeout(p) ==
    /\ PcOf(p) = "guard" /\ guard # None
    /\ IF p \in Launches THEN Step(p, "failed")
       ELSE IF inst[p].why = "prune" THEN Step(p, "release")
       ELSE Throws(p) /\ UNCHANGED <<disk, store, ilock>>
    /\ UNCHANGED <<guard, owned>>

\* What follows the guard: the garbage collection follows a promotion.
After(i) ==
    IF inst[i].bad \/ inst[i].why = "prune" THEN "release"
    ELSE IF inst[i].why = "recover" THEN "plan"
    ELSE IF inst[i].plan = Rollback THEN "release" ELSE "collect"

Unguard(p) ==
    /\ PcOf(p) = "unguard" /\ guard = p
    /\ guard' = None /\ owned' = FALSE
    /\ Step(p, IF p \in Installers THEN After(p)
               ELSE IF launch[p].rel = None THEN "failed" ELSE "run")

-----------------------------------------------------------------------------
\* completeRollbackTransaction.

\* A record that is left is completed before anything else, or nothing is done.
Recover(i) ==
    /\ inst[i].pc = "recover"
    /\ \/ disk.tx = None /\ Goes(i, "plan")
       \/ /\ disk.tx # None /\ Completable(disk.tx)
          /\ inst' = [inst EXCEPT ![i].pc = "guard", ![i].want = disk.tx]
          /\ durable' = disk
          /\ UNCHANGED <<launch, lease, counts>>
       \/ disk.tx # None /\ ~Completable(disk.tx) /\ Throws(i)
    /\ UNCHANGED <<disk, store, locks>>

\* The same after a promotion or a rollback has written its record.
Apply(i) ==
    /\ inst[i].pc = "apply"
    /\ \/ Completable(inst[i].want) /\ Goes(i, "guard")
       \/ ~Completable(inst[i].want) /\ Throws(i)
    /\ UNCHANGED <<disk, store, locks>>

LinkCurrent(i) ==
    /\ inst[i].pc = "cur"
    /\ disk' = [disk EXCEPT !.cur = inst[i].want.cur]
    /\ Goes(i, "prev")
    /\ UNCHANGED <<store, locks>>

LinkPrevious(i) ==
    /\ inst[i].pc = "prev"
    /\ disk' = [disk EXCEPT !.prev = inst[i].want.prev]
    /\ Goes(i, "clear")
    /\ UNCHANGED <<store, locks>>

ClearRecord(i) ==
    /\ inst[i].pc = "clear"
    /\ disk' = [disk EXCEPT !.tx = None]
    /\ Goes(i, "unguard")
    /\ UNCHANGED <<store, locks>>

-----------------------------------------------------------------------------
\* rollbackChannel.
\* Mutant: a rollback does not ask for a previous release.
CanRollback_Always == TRUE

CanRollback == disk.cur # None /\ disk.prev # None /\ Valid(disk.prev) /\ Valid(disk.cur)

\* Both releases are validated, then the record is written.
RollBack(i) ==
    /\ inst[i].pc = "plan" /\ inst[i].plan = Rollback
    /\ IF CanRollback
       THEN LET back == [cur |-> disk.prev, prev |-> disk.cur] IN
            /\ disk' = [disk EXCEPT !.tx = back]
            /\ inst' = [inst EXCEPT ![i].pc = "apply", ![i].why = "apply", ![i].want = back]
            /\ durable' = disk
            /\ UNCHANGED <<launch, lease, counts>>
       ELSE Throws(i) /\ UNCHANGED disk
    /\ UNCHANGED <<store, locks>>

\* materializeRelease: a release that is there is verified, any other is built
\* aside and renamed into its place.
Materialize(i) ==
    /\ inst[i].pc = "plan" /\ inst[i].plan # Rollback
    /\ IF inst[i].plan \in drifted
       THEN Throws(i) /\ UNCHANGED dirs
       ELSE /\ dirs' = dirs \cup {inst[i].plan}
            /\ Goes(i, "mark")
    /\ UNCHANGED <<disk, drifted, marked, locks>>

\* promoteRelease, up to the marker of the first release that an open launcher
\* may reach.
Marks == disk.launcher # "guarded" /\ (disk.cur # None \/ disk.launcher # "missing")

\* Mutant: a release that is current already is left as it is.
Mark_Skips(i) ==
    /\ inst[i].pc = "mark"
    /\ marked' = IF Marks THEN marked \cup {inst[i].plan} ELSE marked
    /\ Goes(i, IF disk.cur = inst[i].plan THEN "collect" ELSE "record")
    /\ UNCHANGED <<disk, dirs, drifted, locks>>

Mark(i) ==
    /\ inst[i].pc = "mark"
    /\ marked' = IF Marks THEN marked \cup {inst[i].plan} ELSE marked
    /\ Goes(i, IF disk.cur = inst[i].plan THEN "launcher" ELSE "record")
    /\ UNCHANGED <<disk, dirs, drifted, locks>>

\* Mutant: the links are moved before their record is written.
WriteRecord_Late(i) ==
    /\ inst[i].pc = "record"
    /\ LET next == [cur |-> inst[i].plan, prev |-> disk.cur] IN
       /\ disk' = [disk EXCEPT !.cur = next.cur]
       /\ inst' = [inst EXCEPT ![i].pc = "launcher", ![i].why = "apply", ![i].want = next]
    /\ durable' = disk
    /\ UNCHANGED <<launch, lease, counts, store, locks>>

WriteRecord(i) ==
    /\ inst[i].pc = "record"
    /\ LET next == [cur |-> inst[i].plan, prev |-> disk.cur] IN
       /\ disk' = [disk EXCEPT !.tx = next]
       /\ inst' = [inst EXCEPT ![i].pc = "launcher", ![i].why = "apply", ![i].want = next]
    /\ durable' = disk
    /\ UNCHANGED <<launch, lease, counts, store, locks>>

\* A release that is current already has its launcher written again.
WriteLauncher(i) ==
    /\ inst[i].pc = "launcher"
    /\ disk' = [disk EXCEPT !.launcher = "guarded"]
    /\ Goes(i, IF inst[i].why = "apply" THEN "apply" ELSE "collect")
    /\ UNCHANGED <<store, locks>>

-----------------------------------------------------------------------------
\* pruneChannelReleases.

Collect(i) ==
    /\ inst[i].pc = "collect"
    /\ inst' = [inst EXCEPT ![i].pc = "guard", ![i].why = "prune"]
    /\ durable' = disk
    /\ UNCHANGED <<disk, store, locks, launch, lease, counts>>

\* What the links name is kept; a link that cannot be read ends the collection.
Protect(i) ==
    /\ inst[i].pc = "prune"
    /\ inst' = [inst EXCEPT ![i].pc = "collecting",
                  ![i].todo = IF {disk.cur, disk.prev} \ {None} \subseteq dirs
                              THEN dirs \ {disk.cur, disk.prev} ELSE {}]
    /\ durable' = disk
    /\ UNCHANGED <<disk, store, locks, launch, lease, counts>>

\* Mutant: a lease is not looked at.
InUse_Never(r) == FALSE

\* releaseIsInUse.
InUse(r) == \E p \in Runners : lease[p] = r /\ ~Dead(p)
Deletable(r) == r \notin marked /\ ~InUse(r)

\* The leases of the dead go in either case.
Examine(i, r) ==
    /\ inst[i].pc = "collecting" /\ r \in inst[i].todo
    /\ inst' = [inst EXCEPT ![i].todo = @ \ {r}]
    /\ lease' = [p \in Runners |-> IF lease[p] = r /\ Dead(p) /\ r \notin marked
                                   THEN None ELSE lease[p]]
    /\ IF Deletable(r)
       THEN dirs' = dirs \ {r} /\ drifted' = drifted \ {r}
       ELSE UNCHANGED <<dirs, drifted>>
    /\ durable' = disk
    /\ UNCHANGED <<disk, marked, locks, launch, counts>>

Collected(i) ==
    /\ inst[i].pc = "collecting" /\ inst[i].todo = {}
    /\ Step(i, "unguard")
    /\ UNCHANGED <<guard, owned>>

-----------------------------------------------------------------------------
\* A launch: the runner, or the shell of a launcher from before it.

Launch(p) ==
    /\ launch[p].pc = "idle"
    /\ disk.launcher = IF p \in Runners THEN "guarded" ELSE "open"
    /\ Step(p, IF p \in Runners THEN "guard" ELSE "resolve")
    /\ UNCHANGED <<guard, owned>>

Resolve(p) ==
    /\ launch[p].pc = "resolve"
    /\ IF disk.cur \in dirs
       THEN launch' = [launch EXCEPT ![p].rel = disk.cur,
                                     ![p].pc = IF p \in Runners THEN "lease" ELSE "run"]
       ELSE launch' = [launch EXCEPT ![p].pc = IF p \in Runners THEN "unguard" ELSE "failed"]
    /\ UNCHANGED <<disk, durable, store, locks, inst, lease, counts>>

WriteLease(p) ==
    /\ launch[p].pc = "lease"
    /\ lease' = [lease EXCEPT ![p] = launch[p].rel]
    /\ launch' = [launch EXCEPT ![p].pc = "unguard"]
    /\ UNCHANGED <<disk, durable, store, locks, inst, counts>>

Exit(p) ==
    /\ launch[p].pc = "run"
    /\ launch' = [launch EXCEPT ![p].pc = "done"]
    /\ lease' = IF p \in Runners THEN [lease EXCEPT ![p] = None] ELSE lease
    /\ UNCHANGED <<disk, durable, store, locks, inst, counts>>

-----------------------------------------------------------------------------
\* Faults.

\* A call fails: a build, a verification, a write.  The guard is given back.
StepFails(i) ==
    /\ fails < MaxFails
    /\ fails' = fails + 1
    /\ \/ /\ inst[i].pc \in {"plan", "mark", "record", "launcher"}
          /\ inst' = [inst EXCEPT ![i].pc = "release", ![i].bad = TRUE]
       \/ /\ inst[i].pc \in {"cur", "prev", "clear"}
          /\ inst' = [inst EXCEPT ![i].pc = "unguard", ![i].bad = TRUE]
    /\ durable' = disk
    /\ UNCHANGED <<disk, store, locks, launch, lease, crashes, drifts>>

\* Somebody changes the files of a release.
Drift(r) ==
    /\ drifts < MaxDrifts /\ r \in dirs \ drifted
    /\ drifts' = drifts + 1
    /\ drifted' = drifted \cup {r}
    /\ UNCHANGED <<disk, durable, dirs, marked, locks, inst, launch, lease, crashes, fails>>

Killed(p) == PcOf(p) # "idle" /\ ~Dead(p)
Die(p) ==
    /\ Killed(p) /\ crashes < MaxCrashes
    /\ crashes' = crashes + 1
    /\ IF p \in Installers
       THEN inst' = [inst EXCEPT ![p].pc = "dead"] /\ UNCHANGED launch
       ELSE launch' = [launch EXCEPT ![p].pc = "dead"] /\ UNCHANGED inst
    /\ UNCHANGED <<disk, durable, store, locks, lease, fails, drifts>>

PowerFails ==
    /\ crashes < MaxCrashes
    /\ crashes' = crashes + 1
    /\ \E p \in Procs : Killed(p)
    /\ inst' = [i \in Installers |-> IF Killed(i) THEN [inst[i] EXCEPT !.pc = "dead"] ELSE inst[i]]
    /\ launch' = [p \in Launches |->
                    IF Killed(p) THEN [launch[p] EXCEPT !.pc = "dead"] ELSE launch[p]]
    /\ disk' \in {disk, durable}
    /\ durable' = disk'
    /\ UNCHANGED <<store, locks, lease, fails, drifts>>

-----------------------------------------------------------------------------
Locking(i) == Publish(i) \/ JudgeLock(i) \/ ReclaimLock(i) \/ ReleaseLock(i)
Guarding(p) == TakeGuard(p) \/ WriteOwner(p) \/ GuardTimeout(p) \/ Unguard(p)
Installing(i) ==
    \/ SeeDeadGuard(i) \/ ReapGuard(i)
    \/ Recover(i) \/ Apply(i) \/ LinkCurrent(i) \/ LinkPrevious(i) \/ ClearRecord(i)
    \/ RollBack(i) \/ Materialize(i) \/ Mark(i) \/ WriteRecord(i) \/ WriteLauncher(i)
    \/ Collect(i) \/ Protect(i) \/ Collected(i) \/ \E r \in Releases : Examine(i, r)
Starting(p) == Launch(p) \/ Resolve(p) \/ Exit(p)

Next ==
    \/ \E i \in Installers :
         \/ \E plan \in Releases \cup {Rollback} : Begin(i, plan)
         \/ Locking(i) \/ Installing(i) \/ StepFails(i)
    \/ \E p \in Launches : Starting(p)
    \/ \E p \in Runners : WriteLease(p)
    \/ \E p \in Installers \cup Runners : Guarding(p)
    \/ \E r \in Releases : Drift(r)
    \/ \E p \in Procs : Die(p)
    \/ PowerFails

\* What runs goes on: the code has no wait without a deadline.
Fairness ==
    /\ \A i \in Installers : WF_vars(Locking(i) \/ Installing(i) \/ Guarding(i))
    /\ \A p \in Runners : WF_vars(Resolve(p) \/ WriteLease(p) \/ Guarding(p))

Spec == Init /\ [][Next]_vars

\* Nobody is about to move a live installer's lock away: the one race the lock
\* loses (see README), after which nothing else holds.
NoSteal == \A i \in Installers : inst[i].pc = "reclaim" => ilock = None \/ Dead(ilock)

\* A launcher that was read before the guard is through with `current' by the time
\* that a release it is not marked for is about to become current: the first
\* promotion after it marks its release, the second one no longer does.
Timely ==
    (\E p \in Shells : launch[p].pc = "resolve") =>
        \A i \in Installers : inst[i].pc = "record" => inst[i].plan \in marked

\* The behaviours in which neither race is lost.
OrderlySpec == Init /\ [][Next /\ NoSteal' /\ Timely']_vars

-----------------------------------------------------------------------------
\* Properties.

\* The phases in which a process has the lock, or the guard.
InLock(i) == inst[i].pc \notin {"idle", "publish", "judge", "reclaim", "republish"} /\ ~Dead(i)
InGuard(p) ==
    \/ PcOf(p) \in {"owner", "lease", "unguard", "cur", "prev", "clear", "prune", "collecting"}
    \/ PcOf(p) = "resolve" /\ p \in Runners

\* Every variable has its type; a record always names a release to go to.
TypeOK ==
    /\ {disk, durable} \subseteq
         [cur : Releases \cup {None}, prev : Releases \cup {None}, launcher : {"missing", "open", "guarded"},
          tx : {None} \cup [cur : Releases, prev : Releases \cup {None}]]
    /\ drifted \subseteq dirs /\ dirs \subseteq Releases /\ marked \subseteq Releases
    /\ ilock \in Installers \cup {None}
    /\ guard \in Installers \cup Runners \cup {None}
    /\ owned \in BOOLEAN /\ (owned => guard # None)
    /\ \A i \in Installers : inst[i].todo \subseteq Releases /\ inst[i].bad \in BOOLEAN
    /\ \A p \in Launches : launch[p].rel \in Releases \cup {None}
    /\ lease \in [Runners -> Releases \cup {None}]

\* Nothing that somebody may still need is deleted: a live process keeps the
\* directory it runs from, with its lease or without, from the moment it has
\* resolved `current'; and the links and the record name directories that are
\* there, or the channel could neither start nor be completed.
NothingPulledAway ==
    /\ \A p \in Launches : launch[p].rel # None /\ ~Dead(p) => launch[p].rel \in dirs
    /\ {disk.cur, disk.prev} \ {None} \subseteq dirs
    /\ disk.tx # None => {disk.tx.cur, disk.tx.prev} \ {None} \subseteq dirs

\* One installer changes the channel, and whoever resolves, moves or collects is
\* the guard's owner, although dead owners' locks and guards are taken away.
OneInside ==
    /\ \A i, j \in Installers : InLock(i) /\ InLock(j) => i = j
    /\ \A p \in Procs : InGuard(p) => guard = p

\* The channel as a user sees it: the pair of releases it is at, or on its way to.
Channel == INSTANCE ChannelPointers WITH
    current <- IF durable.tx = None THEN durable.cur ELSE durable.tx.cur,
    previous <- IF durable.tx = None THEN durable.prev ELSE durable.tx.prev

\* Every promotion and every rollback is one step, whatever dies in between: the
\* record decides, and whoever comes next completes it.
ImplementsPointers == Channel!Spec

\* Every installation ends, also behind the lock and the guard of the dead, and
\* none that reports success leaves the channel half way.
InstallsSettle ==
    /\ \A i \in Installers : inst[i].pc = "publish" ~> Dead(i)
    /\ [][\A i \in Installers : inst[i].pc = "release" /\ inst'[i].pc = "done" =>
            /\ disk.tx = None
            /\ disk.launcher = "guarded" \/ inst[i].plan = Rollback
            /\ inst[i].plan \in {Rollback, disk.cur}]_vars

-----------------------------------------------------------------------------
\* What the proofs rest on (InstallChannelProofs).

LockFree == {"idle", "publish", "judge", "reclaim", "republish"}
Ended == {"done", "failed", "dead"}
InstPcs == LockFree \cup Ended \cup
    {"recover", "plan", "apply", "mark", "record", "launcher", "guard", "owner", "reap",
     "cur", "prev", "clear", "unguard", "collect", "prune", "collecting", "release"}
ShellPcs == {"idle", "resolve", "run"} \cup Ended

InstallerStates ==
    [pc : InstPcs, plan : Releases \cup {Rollback, None}, why : {"recover", "apply", "prune"},
     want : Links, todo : SUBSET Releases, bad : BOOLEAN]
LaunchStates == [pc : ShellPcs \cup {"guard", "owner", "lease", "unguard"}, rel : Releases \cup {None}]

\* Every process is at a place of its program.
Placed ==
    /\ inst \in [Installers -> InstallerStates] /\ launch \in [Launches -> LaunchStates]
    /\ \A p \in Launches \ Runners : launch[p].pc \in ShellPcs
    /\ \A i \in Installers :
         /\ inst[i].plan = None => inst[i].pc = "idle"
         /\ inst[i].pc \in LockFree \cup {"recover", "plan", "mark", "record"} => inst[i].why = "recover"
         /\ inst[i].pc \in {"apply", "launcher"} => inst[i].why # "prune"

\* Who is inside has the lock; who is to move a guard away looks at a dead one's.
Held ==
    /\ \A i \in Installers : InLock(i) => ilock = i
    /\ \A p \in Procs : InGuard(p) => guard = p
    /\ \A i \in Installers : inst[i].pc = "reap" => guard # None /\ Dead(guard)

Exclusive == TypeOK /\ Placed /\ Held

\* The record is there from its writing until it is cleared, and the links follow it.
Completing(i) ==
    \/ inst[i].pc \in {"apply", "cur", "prev", "clear"}
    \/ inst[i].pc \in {"guard", "owner", "reap"} /\ inst[i].why # "prune"
    \/ inst[i].pc = "launcher" /\ inst[i].why = "apply"
Recordless(i) ==
    \/ inst[i].pc \in {"plan", "mark", "record", "collect", "prune", "collecting"}
    \/ inst[i].pc \in {"guard", "owner", "reap"} /\ inst[i].why = "prune"
    \/ inst[i].pc = "launcher" /\ inst[i].why # "apply"
RecordedAt(i) ==
    /\ Completing(i) => disk.tx # None /\ disk.tx = inst[i].want
    /\ Recordless(i) => disk.tx = None
    /\ inst[i].pc = "unguard" => inst[i].bad \/ disk.tx = None
    /\ inst[i].pc \in {"prev", "clear"} => disk.cur = inst[i].want.cur
    /\ inst[i].pc = "clear" => disk.prev = inst[i].want.prev
Recorded == \A i \in Installers : RecordedAt(i)

CurOf(d) == IF d.tx = None THEN d.cur ELSE d.tx.cur
PrevOf(d) == IF d.tx = None THEN d.prev ELSE d.tx.prev
Named(d) == {d.cur, d.prev, CurOf(d), PrevOf(d)} \ {None}

\* The channel is at the same pair on both disks, or one promotion or rollback on.
Ahead(d, e) ==
    \/ CurOf(e) = CurOf(d) /\ PrevOf(e) = PrevOf(d)
    \/ /\ PrevOf(e) = CurOf(d)
       /\ \/ CurOf(e) \in Releases /\ CurOf(e) # CurOf(d)
          \/ CurOf(e) = PrevOf(d) /\ PrevOf(d) # None

\* What is not synchronized is the last write of the installer inside.
Wrote == {"prev", "clear", "unguard", "launcher", "apply", "collect"}
Synchronized ==
    /\ \A i \in Installers : InLock(i) /\ inst[i].pc \notin Wrote => durable = disk
    /\ Ahead(durable, disk)

\* The directories that the links and the record name, also after a power failure,
\* and the one that is being installed.
KeptAt(i) ==
    /\ inst[i].pc \in {"mark", "record"} => inst[i].plan \in dirs
    /\ inst[i].pc = "collecting" => inst[i].todo \cap {disk.cur, disk.prev} = {}
    /\ inst[i].pc = "record" =>
         inst[i].plan # disk.cur /\ (disk.launcher = "open" => inst[i].plan \in marked)
Kept ==
    /\ Named(disk) \subseteq dirs /\ Named(durable) \subseteq dirs
    /\ \A i \in Installers : KeptAt(i)

\* A guarded launch is protected by the guard, then by its lease; one from before
\* the guard by the marker.
ProtectedAt(p) ==
    /\ launch[p].rel # None /\ ~Dead(p) => launch[p].rel \in dirs
    /\ launch[p].pc \in {"idle", "guard", "owner", "resolve"} => launch[p].rel = None
    /\ p \in Runners /\ launch[p].rel # None /\ launch[p].pc \in {"unguard", "run"} => lease[p] = launch[p].rel
    /\ p \notin Runners /\ launch[p].pc = "resolve" => Named(disk) \subseteq marked
    /\ p \notin Runners /\ launch[p].pc = "run" => launch[p].rel \in marked
Protected ==
    /\ disk.launcher = "open" => Named(disk) \subseteq marked
    /\ durable.launcher = "open" => Named(durable) \subseteq marked
    /\ \A p \in Launches : ProtectedAt(p)

Data == Recorded /\ Synchronized /\ Kept /\ Protected
Safe == Exclusive /\ Data
=============================================================================
