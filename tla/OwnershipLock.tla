--------------------------- MODULE OwnershipLock ---------------------------
(***************************************************************************)
(* src/workflows/ownership-lock.mjs: one inter-process lock file.           *)
(*                                                                          *)
(* Processes call acquireOwnershipLock on the same path.  Each call (an     *)
(* `attempt') writes a claim file of its own and hard-links it to the lock  *)
(* path; token and inode are the attempt's alone, so the lock file IS the   *)
(* attempt it was linked from.  A lock whose owner died is removed by an    *)
(* attempt that holds the reclaim gate, a directory published by rename.    *)
(* Every file-system call is a step of its own, because other processes run *)
(* between a read and the unlink that follows it.                           *)
(*                                                                          *)
(* The owner runs a backend tree while it holds the lock.  When the owner   *)
(* dies, the worker supervisor takes the tree down within ShutdownBound     *)
(* ticks; a tree it cannot confirm dead (`lost') is what fences are for.    *)
(***************************************************************************)
EXTENDS Naturals, FiniteSets

CONSTANTS
    Procs,          \* process instances: a reused pid is another instance
    Attempts,       \* calls of acquireOwnershipLock
    ProcOf,         \* the process that makes the call
    Fenced,         \* the calls with options.ownerDeathFence
    None,           \* no file at the path
    Grace,          \* deadOwnerGraceMs, in ticks
    ShutdownBound,  \* the supervisor's TERM/KILL/confirmation window, in ticks
    MaxCrashes,     \* bound: processes that die
    GateCrashes     \* may a process die while it is inside the gate?

ASSUME LockAssumption ==
    /\ ProcOf \in [Attempts -> Procs]
    /\ Fenced \subseteq Attempts
    /\ None \notin Attempts
    /\ Grace \in Nat /\ ShutdownBound \in Nat
    /\ ShutdownBound < Grace
    /\ MaxCrashes \in Nat
    /\ GateCrashes \in BOOLEAN

VARIABLES
    alive,       \* the processes that run
    crashes,     \* how many died
    pc,          \* where each call is
    lock,        \* the attempt whose inode the lock path names
    claims,      \* the claim files on disk
    fence,       \* the unconfirmed-<token> files on disk
    gate,        \* the attempt whose directory the gate path names
    moved,       \* [a]: the gate that a renamed to its .stale directory
    seen,        \* [a]: `occupied', the lock a read before it took the gate
    gseen,       \* [a]: `latest', the gate owner a judged dead
    graceAge,    \* [a]: ticks since a began its grace
    backend,     \* [a]: the process tree a's caller runs under the lock
    drainAge,    \* [a]: ticks since a's owner died with its tree running
    pending      \* releases of locks and gates that failed and are retried by the process

vars == <<alive, crashes, pc, lock, claims, fence, gate, moved, seen, gseen,
          graceAge, backend, drainAge, pending>>

Idle == {"idle"}
\* Between the call and the link that succeeds.
Loop == {"claim", "try", "inspect", "judge"}
\* In acquireReclaimGate.
AtGate == {"gate", "retire", "retired"}
\* The calls that hold the gate; those in the "abort" variants throw after
\* the release, the others go on with the loop.
InGate == {"entered", "grace", "confirm", "unlink", "ungate", "vacate",
           "ungateAbort", "vacateAbort"}
Owning == {"linked", "held", "releaseCheck", "releaseUnlink",
           "rollbackCheck", "rollbackUnlink"}
Unfencing == {"releaseFence", "rollbackFence"}
\* Failed, and the rollback failed too; or the gate release, before or after its
\* rename.
Lost == {"rollbackLost", "gateLost", "retiredLost"}
Over == {"released", "failed", "dead"} \cup Lost
PC == Idle \cup Loop \cup AtGate \cup InGate \cup Owning \cup Unfencing \cup Over

Init ==
    /\ alive = Procs
    /\ crashes = 0
    /\ pc = [a \in Attempts |-> "idle"]
    /\ lock = None
    /\ claims = {}
    /\ fence = {}
    /\ gate = None
    /\ moved = [a \in Attempts |-> None]
    /\ seen = [a \in Attempts |-> None]
    /\ gseen = [a \in Attempts |-> None]
    /\ graceAge = [a \in Attempts |-> 0]
    /\ backend = [a \in Attempts |-> "none"]
    /\ drainAge = [a \in Attempts |-> 0]
    /\ pending = {}

Alive(a) == ProcOf[a] \in alive

\* ownerIsDemonstrablyDead: the pid is gone, or belongs to another instance.
Dead(a) == ~Alive(a)

Goto(a, label) == pc' = [pc EXCEPT ![a] = label]

disk == <<lock, claims, fence, gate, moved>>
world == <<alive, crashes, backend, drainAge>>
memory == <<seen, gseen, graceAge, pending>>

-----------------------------------------------------------------------------
(* The loop of acquireOwnershipLock *)

\* The catch block, when the lock was not published: throw, without the claim.
Fail(a) == Goto(a, "failed") /\ claims' = claims \ {a}

\* Both retries come first, and either throws when a release still fails.
\* The claim file is created, and written in the next step.
Begin(a) ==
    /\ pc[a] = "idle" /\ Alive(a)
    /\ IF \E r \in pending : ProcOf[r[2]] = ProcOf[a]
       THEN Goto(a, "failed") /\ claims' = claims
       ELSE Goto(a, "claim") /\ claims' = claims \cup {a}
    /\ UNCHANGED <<lock, fence, gate, moved, world, memory>>

\* cleanupOrphanClaims, one claim at a time: not linked to the lock, and either
\* its owner is dead or it is a claim half written for five seconds.
Orphan(b) == b \in claims /\ lock # b /\ (Dead(b) \/ pc[b] = "claim")

CleanupOrphan(a, b) ==
    /\ pc[a] = "idle" /\ Alive(a) /\ a # b
    /\ Orphan(b)
    /\ claims' = claims \ {b}
    /\ UNCHANGED <<pc, lock, fence, gate, moved, world, memory>>

\* The claim is written; lstat throws when somebody cleaned it away.
WriteClaim(a) ==
    /\ pc[a] = "claim" /\ Alive(a)
    /\ Goto(a, IF a \in claims THEN "try" ELSE "failed")
    /\ UNCHANGED <<disk, world, memory>>

Link(a) ==
    /\ pc[a] = "try" /\ Alive(a)
    /\ IF lock = None
       THEN lock' = a /\ Goto(a, "linked")
       ELSE lock' = lock /\ Goto(a, "inspect")
    /\ UNCHANGED <<claims, fence, gate, moved, world, memory>>

Inspect(a) ==
    /\ pc[a] = "inspect" /\ Alive(a)
    /\ IF lock = None
       THEN Goto(a, "try") /\ seen' = seen
       ELSE Goto(a, "judge") /\ seen' = [seen EXCEPT ![a] = lock]
    /\ UNCHANGED <<disk, world, gseen, graceAge, pending>>

\* Mutant: a fence does not stop the reclaim.
UnconfirmedNever(a) == FALSE

\* WORKFLOW_LOCK_UNCONFIRMED
Unconfirmed(a) == seen[a] \in fence

\* The owner lives: wait 25 ms and try again.  It is dead: the fence stops the
\* call, otherwise it goes for the gate.
Judge(a) ==
    /\ pc[a] = "judge" /\ Alive(a)
    /\ \/ ~Dead(seen[a]) /\ Goto(a, "try") /\ claims' = claims
       \/ Dead(seen[a]) /\ Unconfirmed(a) /\ Fail(a)
       \/ Dead(seen[a]) /\ ~Unconfirmed(a) /\ Goto(a, "gate") /\ claims' = claims
    /\ UNCHANGED <<lock, fence, gate, moved, world, memory>>

\* The deadline passes or the signal aborts, where the code looks at them.
GiveUp(a) ==
    /\ pc[a] \in {"try", "judge", "gate"} /\ Alive(a)
    /\ pc[a] = "gate" => gate # None
    /\ Fail(a)
    /\ UNCHANGED <<lock, fence, gate, moved, world, memory>>

-----------------------------------------------------------------------------
(* acquireReclaimGate *)

\* rename(candidate, directory) succeeds only when no gate is there.
EnterGate(a) ==
    /\ pc[a] = "gate" /\ Alive(a)
    /\ gate = None
    /\ gate' = a
    /\ Goto(a, "entered")
    /\ UNCHANGED <<lock, claims, fence, moved, world, memory>>

\* Mutants: a gate held for some seconds is stale; no gate ever is.
GateStaleByAge == Dead(gate) \/ pc[gate] = "grace"
GateStaleNever == FALSE

GateStale == Dead(gate)

\* The gate is read twice and both reads find the same dead owner.  The second
\* repeats every test of the first, so it alone is a step.
JudgeGate(a) ==
    /\ pc[a] = "gate" /\ Alive(a)
    /\ gate # None /\ GateStale
    /\ gseen' = [gseen EXCEPT ![a] = gate]
    /\ Goto(a, "retire")
    /\ UNCHANGED <<disk, world, seen, graceAge, pending>>

\* rename(directory, retired) moves whatever gate is there by now.
RetireGate(a) ==
    /\ pc[a] = "retire" /\ Alive(a)
    /\ IF gate = None
       THEN Goto(a, "gate") /\ UNCHANGED <<gate, moved>>
       ELSE /\ Goto(a, "retired")
            /\ moved' = [moved EXCEPT ![a] = gate]
            /\ gate' = None
    /\ UNCHANGED <<lock, claims, fence, world, memory>>

MovedSame(a) == moved[a] = gseen[a]

\* Delete the stale gate; put back one that is not the gate judged dead, which
\* throws when another gate was published meanwhile.
SettleRetired(a) ==
    /\ pc[a] = "retired" /\ Alive(a)
    /\ \/ MovedSame(a) /\ Goto(a, "gate") /\ UNCHANGED <<gate, claims>>
       \/ ~MovedSame(a) /\ gate = None /\ gate' = moved[a] /\ Goto(a, "gate") /\ claims' = claims
       \/ ~MovedSame(a) /\ gate # None /\ gate' = gate /\ Fail(a)
    /\ moved' = [moved EXCEPT ![a] = None]
    /\ UNCHANGED <<lock, fence, world, memory>>

-----------------------------------------------------------------------------
(* Under the gate *)

\* Same inode, same token, still dead.
StillOccupied(a) == lock = seen[a] /\ Dead(seen[a])

Recheck(a) ==
    /\ pc[a] = "entered" /\ Alive(a)
    /\ Goto(a, IF StillOccupied(a) THEN "grace" ELSE "ungate")
    /\ graceAge' = [graceAge EXCEPT ![a] = 0]
    /\ UNCHANGED <<disk, world, seen, gseen, pending>>

\* Mutant: the grace is over at once.
GraceOverAtOnce(a) == TRUE

GraceOver(a) == graceAge[a] >= Grace

EndGrace(a) ==
    /\ pc[a] = "grace" /\ Alive(a)
    /\ GraceOver(a)
    /\ Goto(a, "confirm")
    /\ UNCHANGED <<disk, world, memory>>

\* The signal aborts, or the reclaim deadline comes before the end of the grace:
\* it is never before the call's own deadline, so the loop throws right away.
CutGrace(a) ==
    /\ pc[a] = "grace" /\ Alive(a)
    /\ Goto(a, "ungateAbort")
    /\ UNCHANGED <<disk, world, memory>>

Confirm(a) ==
    /\ pc[a] = "confirm" /\ Alive(a)
    /\ Goto(a, IF StillOccupied(a) THEN "unlink" ELSE "ungate")
    /\ UNCHANGED <<disk, world, memory>>

\* unlink(resolved) takes away whatever is at the path, then the claim that
\* the dead owner left.
UnlinkDead(a) ==
    /\ pc[a] = "unlink" /\ Alive(a)
    /\ lock' = None
    /\ claims' = claims \ {seen[a]}
    /\ Goto(a, "ungate")
    /\ UNCHANGED <<fence, gate, moved, world, memory>>

\* The release of the gate throws and is kept in pendingReclaimReleases.  The
\* ENOENT of a gate that is not there sends the loop round again.
GateLost(a, phase) ==
    /\ Goto(a, phase)
    /\ claims' = IF phase = "try" THEN claims ELSE claims \ {a}
    /\ pending' = pending \cup {<<"gate", a>>}

\* The release first reads the gate; one that is not a's own makes it throw.
CheckGate(a) ==
    /\ pc[a] \in {"ungate", "ungateAbort"} /\ Alive(a)
    /\ \/ /\ gate = a
          /\ Goto(a, IF pc[a] = "ungate" THEN "vacate" ELSE "vacateAbort")
          /\ UNCHANGED <<claims, pending>>
       \/ gate = None /\ GateLost(a, "try")
       \/ gate \notin {a, None} /\ GateLost(a, "gateLost")
    /\ UNCHANGED <<lock, fence, gate, moved, world, seen, gseen, graceAge>>

\* rename(directory, retired): again whatever gate is there, ENOENT when none.
\* Removing the renamed directory may fail.
VacateGate(a) ==
    /\ pc[a] \in {"vacate", "vacateAbort"} /\ Alive(a)
    /\ \/ /\ gate # None
          /\ gate' = None
          /\ pending' = pending
          /\ IF pc[a] = "vacate" THEN Goto(a, "try") /\ claims' = claims ELSE Fail(a)
       \/ gate = None /\ gate' = gate /\ GateLost(a, "try")
       \/ gate # None /\ gate' = None /\ GateLost(a, "retiredLost")
    /\ UNCHANGED <<lock, fence, moved, world, seen, gseen, graceAge>>

Owes(a) == <<"gate", a>> \in pending

\* A later acquire of the process tries the release again; the attempt's own
\* gate may be back at its path by then.
RetryGateRelease(a) ==
    /\ Owes(a) /\ Alive(a)
    /\ \E b \in Attempts : pc[b] = "idle" /\ ProcOf[b] = ProcOf[a]
    /\ IF pc[a] = "retiredLost" THEN gate' = gate ELSE gate = a /\ gate' = None
    /\ pending' = pending \ {<<"gate", a>>}
    /\ UNCHANGED <<pc, lock, claims, fence, moved, world, seen, gseen, graceAge>>

-----------------------------------------------------------------------------
(* Holding and releasing *)

Armed(a) == a \in Fenced

\* publishPersistentFence for the calls that ask for it, then return the
\* release function; an error in between rolls the lock back.
Arm(a) ==
    /\ pc[a] = "linked" /\ Alive(a)
    /\ \/ /\ fence' = IF Armed(a) THEN fence \cup {a} ELSE fence
          /\ Goto(a, "held")
       \/ /\ a \in Fenced
          /\ \E f \in {fence, fence \cup {a}} : fence' = f
          /\ Goto(a, "rollbackCheck")
    /\ UNCHANGED <<lock, claims, gate, moved, world, memory>>

\* The caller runs its backend under the lock, and stops it.
StartBackend(a) ==
    /\ pc[a] = "held" /\ Alive(a) /\ backend[a] = "none"
    /\ backend' = [backend EXCEPT ![a] = "running"]
    /\ UNCHANGED <<pc, alive, crashes, drainAge, disk, memory>>

StopBackend(a) ==
    /\ pc[a] = "held" /\ Alive(a) /\ backend[a] = "running"
    /\ backend' = [backend EXCEPT ![a] = "none"]
    /\ UNCHANGED <<pc, alive, crashes, drainAge, disk, memory>>

\* The tree cannot be confirmed dead: the caller poisons the lock and keeps it.
Poison(a) ==
    /\ pc[a] = "held" /\ Alive(a) /\ backend[a] = "running"
    /\ a \in Fenced /\ lock = a
    /\ fence' = fence \cup {a}
    /\ backend' = [backend EXCEPT ![a] = "lost"]
    /\ UNCHANGED <<pc, alive, crashes, drainAge, lock, claims, gate, moved, memory>>

\* The caller releases only after the confirmed end of its backend.
Release(a) ==
    /\ pc[a] = "held" /\ Alive(a) /\ backend[a] = "none"
    /\ Goto(a, "releaseCheck")
    /\ UNCHANGED <<disk, world, memory>>

Checks == {"releaseCheck", "rollbackCheck"}
AfterCheck == [releaseCheck |-> "releaseUnlink", rollbackCheck |-> "rollbackUnlink"]
AfterUnlink == [releaseUnlink |-> "releaseFence", rollbackUnlink |-> "rollbackFence"]

\* A lock that changed makes a release throw (and be retried) and a rollback
\* give up without touching anything.
CheckOwn(a) ==
    /\ pc[a] \in Checks /\ Alive(a)
    /\ \/ lock = a /\ Goto(a, AfterCheck[pc[a]]) /\ pending' = pending
       \/ lock # a /\ pc[a] = "releaseCheck" /\ UNCHANGED pc /\ pending' = pending \cup {<<"lock", a>>}
       \/ lock # a /\ pc[a] = "rollbackCheck" /\ Goto(a, "rollbackLost") /\ pending' = pending
    /\ UNCHANGED <<disk, world, seen, gseen, graceAge>>

UnlinkOwn(a) ==
    /\ pc[a] \in DOMAIN AfterUnlink /\ Alive(a)
    /\ lock' = None
    /\ Goto(a, AfterUnlink[pc[a]])
    /\ UNCHANGED <<claims, fence, gate, moved, world, memory>>

\* Mutant: the fence of a released lock stays.
DropFenceNever(a) == fence' = fence

DropFence(a) == fence' = fence \ {a}

\* Fence, directory sync, claim: the rest of the release.
Finish(a) ==
    /\ pc[a] \in Unfencing /\ Alive(a)
    /\ DropFence(a)
    /\ claims' = claims \ {a}
    /\ Goto(a, IF pc[a] = "releaseFence" THEN "released" ELSE "failed")
    /\ pending' = pending \ {<<"lock", a>>}
    /\ UNCHANGED <<lock, gate, moved, world, seen, gseen, graceAge>>

\* A file-system error in a phase of the release: the phase is retried later.
ReleaseFails(a) ==
    /\ pc[a] \in {"releaseCheck", "releaseUnlink", "releaseFence"} /\ Alive(a)
    /\ <<"lock", a>> \notin pending
    /\ pending' = pending \cup {<<"lock", a>>}
    /\ pc' = [pc EXCEPT ![a] = IF @ = "releaseFence" THEN @ ELSE "releaseCheck"]
    /\ UNCHANGED <<disk, world, seen, gseen, graceAge>>

\* The rollback fails too: AggregateError, and the lock stays published.
RollbackFails(a) ==
    /\ pc[a] \in {"rollbackUnlink", "rollbackFence"} /\ Alive(a)
    /\ Goto(a, "rollbackLost")
    /\ UNCHANGED <<disk, world, memory>>

-----------------------------------------------------------------------------
(* Death of a process, the supervisor, and time *)

Crash(p) ==
    /\ p \in alive
    /\ crashes < MaxCrashes
    /\ GateCrashes \/ \A a \in Attempts : ProcOf[a] = p => pc[a] \notin InGate
    /\ alive' = alive \ {p}
    /\ crashes' = crashes + 1
    /\ LET mine == {a \in Attempts : ProcOf[a] = p} IN
        /\ pc' = [a \in Attempts |-> IF a \in mine /\ pc[a] \notin {"idle", "released"}
                                     THEN "dead" ELSE pc[a]]
        /\ backend' = [a \in Attempts |-> IF a \in mine /\ backend[a] = "running"
                                          THEN "draining" ELSE backend[a]]
        /\ drainAge' = [a \in Attempts |-> IF a \in mine THEN 0 ELSE drainAge[a]]
        /\ moved' = [a \in Attempts |-> IF a \in mine THEN None ELSE moved[a]]
        /\ seen' = [a \in Attempts |-> IF a \in mine THEN None ELSE seen[a]]
        /\ gseen' = [a \in Attempts |-> IF a \in mine THEN None ELSE gseen[a]]
        /\ graceAge' = [a \in Attempts |-> IF a \in mine THEN 0 ELSE graceAge[a]]
        /\ pending' = {r \in pending : r[2] \notin mine}
    /\ UNCHANGED <<lock, claims, fence, gate>>

\* The supervisor saw the pipe close and confirmed the end of the tree.
Drained(a) ==
    /\ backend[a] = "draining"
    /\ backend' = [backend EXCEPT ![a] = "none"]
    /\ UNCHANGED <<pc, alive, crashes, drainAge, disk, memory>>

\* It could not: a descendant survives.  Only trees that change a repository
\* get this far, and their callers fence the lock before they start.
Survives(a) ==
    /\ backend[a] = "draining" /\ a \in Fenced
    /\ backend' = [backend EXCEPT ![a] = "lost"]
    /\ UNCHANGED <<pc, alive, crashes, drainAge, disk, memory>>

Draining(a) == backend[a] = "draining"

\* Mutant: the supervisor waits for the tree as long as it takes.
WithinBoundAlways(a) == TRUE

WithinBound(a) == Draining(a) => drainAge[a] < ShutdownBound

Tick ==
    /\ \E a \in Attempts : pc[a] = "grace" /\ ~GraceOver(a)
    /\ \A a \in Attempts : WithinBound(a)
    /\ drainAge' = [a \in Attempts |-> IF Draining(a) THEN drainAge[a] + 1 ELSE 0]
    /\ graceAge' = [a \in Attempts |-> IF pc[a] = "grace" /\ graceAge[a] < Grace
                                       THEN graceAge[a] + 1 ELSE graceAge[a]]
    /\ UNCHANGED <<alive, crashes, backend, pc, disk, seen, gseen, pending>>

Acquiring(a) ==
    \/ Begin(a) \/ WriteClaim(a) \/ Link(a) \/ Inspect(a) \/ Judge(a)
    \/ EnterGate(a) \/ JudgeGate(a) \/ RetireGate(a) \/ SettleRetired(a)
    \/ Recheck(a) \/ EndGrace(a) \/ Confirm(a) \/ UnlinkDead(a)
    \/ CheckGate(a) \/ VacateGate(a) \/ RetryGateRelease(a) \/ Arm(a)

Releasing(a) == CheckOwn(a) \/ UnlinkOwn(a) \/ Finish(a)

Faults(a) == GiveUp(a) \/ CutGrace(a) \/ ReleaseFails(a) \/ RollbackFails(a)

Caller(a) == StartBackend(a) \/ StopBackend(a) \/ Poison(a) \/ Release(a)

Next ==
    \/ \E a \in Attempts : Acquiring(a) \/ Releasing(a) \/ Faults(a) \/ Caller(a)
    \/ \E a, b \in Attempts : CleanupOrphan(a, b)
    \/ \E p \in Procs : Crash(p)
    \/ \E a \in Attempts : Drained(a) \/ Survives(a)
    \/ Tick

Spec == Init /\ [][Next]_vars
-----------------------------------------------------------------------------
TypeOK ==
    /\ alive \subseteq Procs
    /\ crashes \in 0..MaxCrashes
    /\ pc \in [Attempts -> PC]
    /\ lock \in Attempts \cup {None}
    /\ claims \subseteq Attempts
    /\ fence \subseteq Attempts
    /\ gate \in Attempts \cup {None}
    /\ moved \in [Attempts -> Attempts \cup {None}]
    /\ seen \in [Attempts -> Attempts \cup {None}]
    /\ gseen \in [Attempts -> Attempts \cup {None}]
    /\ graceAge \in [Attempts -> 0..Grace]
    /\ backend \in [Attempts -> {"none", "running", "draining", "lost"}]
    /\ drainAge \in [Attempts -> 0..ShutdownBound]
    /\ pending \subseteq {"lock", "gate"} \X Attempts

-----------------------------------------------------------------------------
Using(a) == pc[a] = "held" \/ backend[a] # "none"

\* At most one call at a time has the lock or a backend tree that it started
\* under the lock, also while trees outlive their dead owner.
ExclusiveUse ==
    \A a, b \in Attempts : Using(a) /\ Using(b) => a = b

\* The gate admits one reclaimer: every live call between its rename and its
\* release is the one the gate path names.
OneReclaimer ==
    \A a, b \in Attempts :
        Alive(a) /\ Alive(b) /\ pc[a] \in InGate /\ pc[b] \in InGate => a = b

\* One owner and one reclaimer: what is read of the dead lock inside the gate is
\* still true when it is unlinked by path.
OneAtATime == ExclusiveUse /\ OneReclaimer

\* Nothing of a live call is taken for a dead one's: a published lock
\* disappears only by its own release or rollback, or when its owner is dead and
\* left no fence; and a gate renamed away as stale is deleted only if it was a
\* dead reclaimer's, else it goes back to its path or the call throws.
OnlyDeadDiscarded ==
    [][\A a \in Attempts :
         /\ lock = a /\ lock' # a =>
              \/ pc[a] \in DOMAIN AfterUnlink
              \/ Dead(a) /\ a \notin fence
         /\ pc[a] = "retired" /\ pc'[a] = "gate" /\ gate' = gate => Dead(moved[a])]_vars

\* No exit of the call leaves its claim behind: a claim of a live process is of
\* a call that is under way or whose rollback failed.
ClaimsAccountedFor ==
    \A a \in claims : Alive(a) => pc[a] \notin Over \ {"rollbackLost"}

\* A fence of a live process belongs to a lock that is published or on its way
\* out; nothing leaves a fence behind that no file needs.
FencesAccountedFor ==
    \A a \in fence : Alive(a) => lock = a \/ pc[a] \in Unfencing \cup {"rollbackLost"}

\* Claims and fences left on disk have somebody who will remove them.
FilesAccountedFor == ClaimsAccountedFor /\ FencesAccountedFor

Running(a) == pc[a] \in Loop \cup AtGate \cup InGate \cup {"linked"}

Fairness ==
    /\ \A a \in Attempts : WF_vars(Acquiring(a)) /\ WF_vars(Releasing(a))
    /\ WF_vars(Tick)
    /\ \A a \in Attempts : WF_vars(Drained(a) \/ Survives(a))

\* The gate, or a lock, is in the hands of a live process that keeps it.
Blocked ==
    \/ lock # None /\ Alive(lock)
    \/ gate # None /\ Alive(gate) /\ pc[gate] \notin InGate

\* A call does not go round for ever: it gets the lock or fails, unless a live
\* owner has the lock.
AttemptsSettle ==
    \A a \in Attempts : Running(a) ~> (~Running(a) \/ Blocked)

-----------------------------------------------------------------------------
(* The lock while no two calls judge a gate stale at the same time *)

\* Two calls that have judged the same dead holder's gate are what the rename by
\* path cannot stand (see README); any other death, in the gate too, it can.
OneJudge ==
    \A a, b \in Attempts : pc[a] = "retire" /\ pc[b] = "retire" => a = b
QuietSpec == Init /\ [][Next /\ OneJudge']_vars

\* A call of a process that died has ended.
Ended(a) == Dead(a) => pc[a] \in {"idle", "released", "dead"}

\* The gate path names whoever is inside; one judged dead stays until it is moved.
Gated(a) ==
    /\ pc[a] \in InGate => gate = a
    /\ pc[a] = "retire" => gate # None /\ gate = gseen[a] /\ Dead(gate)
    /\ pc[a] = "retired" => moved[a] # None /\ moved[a] = gseen[a] /\ Dead(moved[a])
    /\ pc[a] # "gateLost"
    /\ Owes(a) => pc[a] = "retiredLost"

\* On the way to the unlink the lock that was read is a dead call's without a
\* fence, and its tree is gone when the grace is over.
Reclaiming == AtGate \cup {"entered", "grace", "confirm", "unlink"}
Judged(a) ==
    /\ pc[a] = "judge" => seen[a] # None
    /\ pc[a] \in Reclaiming => seen[a] # None /\ Dead(seen[a]) /\ seen[a] \notin fence
    /\ pc[a] = "grace" => (Draining(seen[a]) => graceAge[a] <= drainAge[seen[a]])
    /\ pc[a] \in {"confirm", "unlink"} => ~Draining(seen[a])
    /\ pc[a] = "unlink" => lock = seen[a]

\* Whoever owns the lock, or left a tree behind it, is at its path.
Held(a) ==
    /\ pc[a] \in Owning => lock = a
    /\ pc[a] = "held" /\ a \in Fenced => a \in fence
    /\ backend[a] # "none" =>
         /\ lock = a
         /\ a \in Fenced => a \in fence
         /\ IF Alive(a) THEN pc[a] = "held" /\ ~Draining(a) ELSE backend[a] # "running"
         /\ backend[a] = "lost" => a \in Fenced

IInv ==
    /\ TypeOK /\ OneJudge /\ FencesAccountedFor
    /\ \A a \in Attempts : Ended(a) /\ Gated(a) /\ Judged(a) /\ Held(a)
=============================================================================
