---------------------------- MODULE WorktreeApply ----------------------------
(***************************************************************************)
(* workflows/worktrees.mjs with applyWorktree of workflows/manager.mjs: the *)
(* checkout of one attempt, from `git worktree add' until its changes are   *)
(* in the project or it is removed.                                         *)
(*                                                                          *)
(* Any number of cc processes share the disk.  One of them has the run; the *)
(* others know it from its record, or from the marker beside the checkout   *)
(* that each of them reconciles when it starts.  A user may ask every one   *)
(* of them to apply the changes.  The record says whether that was done:    *)
(* `retained', `unconfirmed' before Git is let loose, `applied' after.      *)
(*                                                                          *)
(* The locks of a dead process are free: that they can be taken over, and   *)
(* how, is in OwnershipLock.  Every write is synchronized by the code.      *)
(***************************************************************************)
EXTENDS Naturals, FiniteSets

CONSTANTS
    Procs, Owner,  \* cc processes; the one that runs the workflow
    Ops,           \* applications that users ask for, used again and again
    NoOne,
    MaxCrashes, MaxFails, MaxEdits   \* bounds

ASSUME ApplyAssumption ==
    /\ Owner \in Procs /\ Procs \cap Ops = {}
    /\ NoOne \notin Procs \cup Ops
    /\ MaxCrashes \in Nat /\ MaxFails \in Nat /\ MaxEdits \in Nat

VARIABLES
    marker,      \* the marker beside the checkout
    checkout,    \* the checkout: absent, clean, or with changes
    registered,  \* Git's list of worktrees names it
    log,         \* the worktree in the run's journal of events
    snap,        \* the worktree in its last snapshot, or `unset'
    patch,       \* which changes the attempt has made; a user may edit them
    target,      \* the state of the project
    touched,     \* how often Git changed the project, wholly or partly
    landed,      \* the changes that Git applied wholly, or 0
    run,         \* running or ended in the owner, orphaned by its death, archived
    make,        \* where the attempt is
    proc,        \* where each process is: its startup recovery
    mem,         \* the worktree as each process knows it
    seen,        \* the marker as a recovery has read it
    op,          \* the applications
    repo,        \* the holder of the repository lock
    lease,       \* the holder of the run's lease
    meta,        \* the holder of the live run's metadata fence
    arch,        \* the holder of .archive-update.lock
    crashes, fails, edits

record == <<log, snap>>
files == <<marker, checkout, registered, record>>
project == <<patch, target, touched, landed>>
locks == <<repo, lease, meta, arch>>
counts == <<crashes, fails, edits>>
vars == <<files, project, run, make, proc, mem, seen, op, locks, counts>>

Known == {"none", "made", "retained", "unconfirmed", "applied"}
Idle == [pc |-> "idle", proc |-> Owner, live |-> FALSE, patch |-> 0, target |-> 0]
Going == run \in {"running", "ended"}
Live(p) == p = Owner /\ Going
Up(p) == proc[p] = "up"

Init ==
    /\ marker = "none" /\ checkout = "absent" /\ registered = FALSE
    /\ log = "none" /\ snap = "unset"
    /\ patch = 0 /\ target = 0 /\ touched = 0 /\ landed = 0
    /\ run = "running" /\ make = "idle"
    /\ proc = [p \in Procs |-> IF p = Owner THEN "up" ELSE "off"]
    /\ mem = [p \in Procs |-> "none"] /\ seen = [p \in Procs |-> "none"]
    /\ op = [a \in Ops |-> Idle]
    /\ repo = NoOne /\ lease = Owner /\ meta = NoOne /\ arch = NoOne
    /\ crashes = 0 /\ fails = 0 /\ edits = 0

\* What a reader of the whole journal knows, as far as there is no snapshot.
Disk == IF snap = "unset" THEN log ELSE snap

\* A running run records an event; any other writes its snapshot.
Record(live, known) ==
    IF live /\ run = "running"
    THEN log' = known /\ UNCHANGED snap
    ELSE snap' = known /\ UNCHANGED log

MayFail == fails < MaxFails /\ fails' = fails + 1 /\ UNCHANGED <<crashes, edits>>

-----------------------------------------------------------------------------
\* The attempt: create, the work of the agent, release.

Making(from, to) == run = "running" /\ make = from /\ make' = to

CreateLock ==
    /\ Making("idle", "mark")
    /\ repo = NoOne /\ repo' = Owner
    /\ UNCHANGED <<files, project, run, proc, mem, seen, op, lease, meta, arch, counts>>

\* The marker of intent is there before Git is called.
PreAdd ==
    /\ Making("mark", "add")
    /\ marker' = "preadd"
    /\ UNCHANGED <<checkout, registered, record, project, run, proc, mem, seen, op, locks, counts>>

Add ==
    /\ Making("add", "ready")
    /\ checkout' = "clean" /\ registered' = TRUE
    /\ UNCHANGED <<marker, record, project, run, proc, mem, seen, op, locks, counts>>

\* Git fails: nothing says how far it came.  The marker stays.
AddFails ==
    /\ Making("add", "lost") /\ MayFail
    /\ \/ UNCHANGED <<checkout, registered>>
       \/ registered' = TRUE /\ checkout' \in {"absent", "clean"}
    /\ repo' = NoOne
    /\ UNCHANGED <<marker, record, project, run, proc, mem, seen, op, lease, meta, arch>>

Ready ==
    /\ Making("ready", "made")
    /\ marker' = "ready" /\ repo' = NoOne
    /\ UNCHANGED <<checkout, registered, record, project, run, proc, mem, seen, op, lease, meta, arch, counts>>

\* `git worktree remove' is two steps everywhere: the tree goes first, the entry
\* in Git's list last.  The checkout is not what was asked for and is taken away,
\* if that succeeds.
Invalid ==
    /\ Making("ready", "undo") /\ MayFail
    /\ UNCHANGED <<files, project, run, proc, mem, seen, op, locks>>
UndoFails ==
    /\ Making("undo", "lost") /\ MayFail
    /\ repo' = NoOne
    /\ UNCHANGED <<files, project, run, proc, mem, seen, op, lease, meta, arch>>
Undo ==
    /\ Making("undo", "delist")
    /\ checkout' = "absent"
    /\ UNCHANGED <<marker, registered, record, project, run, proc, mem, seen, op, locks, counts>>
Delist ==
    /\ Making("delist", "unmark")
    /\ registered' = FALSE
    /\ UNCHANGED <<marker, checkout, record, project, run, proc, mem, seen, op, locks, counts>>
Unmark ==
    /\ run = "running" /\ make = "unmark"
    /\ make' = IF mem[Owner] = "none" THEN "lost" ELSE "over"
    /\ marker' = "none" /\ repo' = NoOne
    /\ UNCHANGED <<checkout, registered, record, project, run, proc, mem, seen, op, lease, meta, arch, counts>>

\* onWorktreeCreated: the worktree is known, and recorded before it is used.
Assign ==
    /\ Making("made", "works")
    /\ mem' = [mem EXCEPT ![Owner] = "made"] /\ log' = "made"
    /\ UNCHANGED <<snap, marker, checkout, registered, project, run, proc, seen, op, locks, counts>>

Work ==
    /\ Making("works", "works")
    /\ checkout' = "dirty" /\ patch' = 1
    /\ UNCHANGED <<marker, registered, record, target, touched, landed, run, proc, mem, seen, op, locks, counts>>

ReleaseLock ==
    /\ Making("works", "release")
    /\ repo = NoOne /\ repo' = Owner
    /\ UNCHANGED <<files, project, run, proc, mem, seen, op, lease, meta, arch, counts>>

ReleaseClean ==
    /\ Making("release", "delist") /\ checkout = "clean"
    /\ checkout' = "absent"
    /\ UNCHANGED <<marker, registered, record, project, run, proc, mem, seen, op, locks, counts>>

\* Changes are kept, and so is whatever could not be looked at.  The record that
\* says so may be lost with the journal.
Retain ==
    /\ Making("release", "over")
    /\ mem' = [mem EXCEPT ![Owner] = "retained"]
    /\ \/ checkout = "dirty" /\ log' = "retained" /\ UNCHANGED counts
       \/ log' \in {log, "retained"} /\ MayFail
    /\ repo' = NoOne
    /\ UNCHANGED <<snap, marker, checkout, registered, project, run, proc, seen, op, lease, meta, arch>>

\* A removal that fails when the tree is gone: as if nothing had been removed.
RemoveFails ==
    /\ run = "running" /\ make \in {"delist", "unmark"} /\ MayFail
    /\ \/ mem[Owner] = "none" /\ make' = "lost" /\ UNCHANGED <<mem, log>>
       \/ /\ mem[Owner] # "none" /\ make' = "over"
          /\ mem' = [mem EXCEPT ![Owner] = "retained"] /\ log' \in {log, "retained"}
    /\ repo' = NoOne
    /\ UNCHANGED <<snap, marker, checkout, registered, project, run, proc, seen, op, lease, meta, arch>>

\* executeRun: the run ends under the fence of its metadata, with a snapshot that
\* may fail; it is archived with one that has not.
End ==
    /\ run = "running" /\ make \in {"idle", "over", "lost"} /\ meta = NoOne
    /\ run' = "ended"
    /\ \/ snap' = mem[Owner] /\ UNCHANGED counts
       \/ UNCHANGED snap /\ MayFail
    /\ UNCHANGED <<marker, checkout, registered, log, project, make, proc, mem, seen, op, locks>>

Archive ==
    /\ run = "ended" /\ meta = NoOne
    /\ run' = "archived" /\ lease' = NoOne
    /\ snap' \in {snap, mem[Owner]} \ {"unset"}
    /\ UNCHANGED <<marker, checkout, registered, log, project, make, proc, mem, seen, op, repo, meta, arch, counts>>

-----------------------------------------------------------------------------
\* An application.

Op(a, pc) == op' = [op EXCEPT ![a].pc = pc]

\* It throws, or ends: what it holds is given back.
Gone(a) ==
    /\ op' = [op EXCEPT ![a] = Idle]
    /\ repo' = IF repo = a THEN NoOne ELSE repo
    /\ meta' = IF meta = a THEN NoOne ELSE meta
    /\ arch' = IF arch = a THEN NoOne ELSE arch
    /\ UNCHANGED lease

\* previewWorktree, without a lock: the user confirms what it shows.
Preview(a, p) ==
    /\ op[a].pc = "idle" /\ Up(p)
    /\ mem[p] = "retained" /\ checkout = "dirty"
    /\ op' = [op EXCEPT ![a] = [pc |-> "asked", proc |-> p, live |-> Live(p), patch |-> patch, target |-> target]]
    /\ UNCHANGED <<files, project, run, make, proc, mem, seen, locks, counts>>

\* A run that is live at the call waits for the run's metadata; it may have been
\* archived meanwhile.
Enter(a) ==
    /\ op[a].pc = "asked"
    /\ IF op[a].live
       THEN /\ meta = NoOne /\ meta' = a
            /\ op' = [op EXCEPT ![a].pc = IF Going THEN "check" ELSE "archive",
                                ![a].live = Going]
       ELSE Op(a, "archive") /\ UNCHANGED meta
    /\ UNCHANGED <<files, project, run, make, proc, mem, seen, repo, lease, arch, counts>>

EnterArchive(a) ==
    /\ op[a].pc = "archive"
    /\ arch = NoOne /\ arch' = a
    /\ Op(a, "check")
    /\ UNCHANGED <<files, project, run, make, proc, mem, seen, repo, lease, meta, counts>>

\* Mutant: the record on the disk is not read again.
State_InMemory(a) == mem[op[a].proc]

\* The snapshot of an archived run is read again; it counts if it has the worktree.
State(a) == IF op[a].live \/ snap \in {"unset", "none"} THEN mem[op[a].proc] ELSE snap

Check(a) ==
    /\ op[a].pc = "check"
    /\ IF State(a) = "retained"
       THEN Op(a, "lock") /\ UNCHANGED locks
       ELSE Gone(a)
    /\ UNCHANGED <<files, project, run, make, proc, mem, seen, counts>>

LockRepository(a) ==
    /\ op[a].pc = "lock"
    /\ repo = NoOne /\ repo' = a
    /\ Op(a, "validate")
    /\ UNCHANGED <<files, project, run, make, proc, mem, seen, lease, meta, arch, counts>>

\* The changes and the project are still those the user has seen.
AsShown(a) == target = op[a].target
Validate(a) ==
    /\ op[a].pc = "validate"
    /\ IF checkout = "dirty" /\ patch = op[a].patch /\ AsShown(a)
       THEN Op(a, "journal") /\ UNCHANGED locks
       ELSE Gone(a)
    /\ UNCHANGED <<files, project, run, make, proc, mem, seen, counts>>

\* onValidated.
Journal(a) ==
    /\ op[a].pc = "journal"
    /\ mem' = [mem EXCEPT ![op[a].proc] = "unconfirmed"]
    /\ Record(op[a].live, "unconfirmed")
    /\ Op(a, "recheck")
    /\ UNCHANGED <<marker, checkout, registered, project, run, make, proc, seen, locks, counts>>

\* A live run has changed its memory when the write fails.
JournalFails(a) ==
    /\ op[a].pc = "journal" /\ MayFail
    /\ mem' = IF op[a].live THEN [mem EXCEPT ![Owner] = "unconfirmed"] ELSE mem
    /\ Gone(a)
    /\ UNCHANGED <<files, project, run, make, proc, seen>>

\* onValidationInvalidated: the project changed while the intent was saved.
Recheck(a) ==
    /\ op[a].pc = "recheck"
    /\ \/ /\ AsShown(a)
          /\ Op(a, "git")
          /\ UNCHANGED <<record, mem, locks, counts>>
       \/ /\ ~AsShown(a)
          /\ mem' = [mem EXCEPT ![op[a].proc] = "retained"]
          /\ Record(op[a].live, "retained")
          /\ Gone(a) /\ UNCHANGED counts
       \/ /\ ~AsShown(a) /\ MayFail
          /\ mem' = IF op[a].live THEN [mem EXCEPT ![Owner] = "retained"] ELSE mem
          /\ UNCHANGED record
          /\ Gone(a)
    /\ UNCHANGED <<marker, checkout, registered, project, run, make, proc, seen>>

\* git apply: all of it, or as far as it came.
GitApply(a) ==
    /\ op[a].pc = "git"
    /\ touched' = touched + 1 /\ landed' = op[a].patch /\ target' = target + 1
    /\ repo' = NoOne
    /\ Op(a, "applied")
    /\ UNCHANGED <<files, patch, run, make, proc, mem, seen, lease, meta, arch, counts>>

GitFails(a) ==
    /\ op[a].pc = "git" /\ MayFail
    /\ \/ UNCHANGED <<touched, target>>
       \/ touched' = touched + 1 /\ target' = target + 1
    /\ Gone(a)
    /\ UNCHANGED <<files, patch, landed, run, make, proc, mem, seen>>

\* The result is in the memory of a live run before it is on the disk.
Confirm(a) ==
    /\ op[a].pc = "applied"
    /\ mem' = [mem EXCEPT ![op[a].proc] = "applied"]
    /\ Record(op[a].live, "applied")
    /\ Op(a, "finalize")
    /\ UNCHANGED <<marker, checkout, registered, project, run, make, proc, seen, locks, counts>>

ConfirmFails(a) ==
    /\ op[a].pc = "applied" /\ MayFail
    /\ mem' = IF op[a].live THEN [mem EXCEPT ![Owner] = "applied"] ELSE mem
    /\ Gone(a)
    /\ UNCHANGED <<files, project, run, make, proc, seen>>

\* finalizeApplied, under the repository lock again.  Whatever fails in it is a
\* warning.
FinalizeLock(a) ==
    /\ op[a].pc = "finalize"
    /\ repo = NoOne /\ repo' = a
    /\ Op(a, "mark")
    /\ UNCHANGED <<files, project, run, make, proc, mem, seen, lease, meta, arch, counts>>

MarkApplied(a) ==
    /\ op[a].pc = "mark"
    /\ marker' = "applied"
    /\ Op(a, "remove")
    /\ UNCHANGED <<checkout, registered, record, project, run, make, proc, mem, seen, locks, counts>>

RemoveApplied(a) ==
    /\ op[a].pc = "remove"
    /\ IF checkout = "absent" THEN Gone(a)
       ELSE Op(a, "delist") /\ UNCHANGED locks
    /\ checkout' = "absent"
    /\ UNCHANGED <<marker, registered, record, project, run, make, proc, mem, seen, counts>>

DelistApplied(a) ==
    /\ op[a].pc = "delist"
    /\ registered' = FALSE
    /\ Op(a, "unmark")
    /\ UNCHANGED <<marker, checkout, record, project, run, make, proc, mem, seen, locks, counts>>

UnmarkApplied(a) ==
    /\ op[a].pc = "unmark"
    /\ marker' = "none"
    /\ Gone(a)
    /\ UNCHANGED <<checkout, registered, record, project, run, make, proc, mem, seen, counts>>

\* Any Git call or wait for a lock fails or is over its time.
OpFails(a) ==
    /\ op[a].pc \in {"archive", "lock", "validate", "recheck", "finalize", "mark", "remove", "delist", "unmark"}
    /\ MayFail
    /\ Gone(a)
    /\ UNCHANGED <<files, project, run, make, proc, mem, seen>>

-----------------------------------------------------------------------------
\* The start of a process: loadHistory, then reconcileOrphans.

Recovering(p, from, to) == proc[p] = from /\ proc' = [proc EXCEPT ![p] = to]

\* A run that is not archived is recovered by whoever gets its lease; one that has
\* a live owner is left alone.  One that had ended in its journal gets a snapshot.
Load(p) ==
    /\ proc[p] = "off"
    /\ IF run = "archived"
       THEN /\ Recovering(p, "off", "read")
            /\ mem' = [mem EXCEPT ![p] = Disk]
            /\ UNCHANGED <<run, lease, snap>>
       ELSE IF lease = NoOne
       THEN /\ Recovering(p, "off", "read")
            /\ mem' = [mem EXCEPT ![p] = Disk]
            /\ run' = "archived" /\ lease' = p
            /\ snap' \in {snap} \cup (IF make \in {"over", "lost"} THEN {Disk} ELSE {})
       ELSE /\ Recovering(p, "off", "up")
            /\ UNCHANGED <<run, lease, mem, snap>>
    /\ UNCHANGED <<marker, checkout, registered, log, project, make, seen, op, repo, meta, arch, counts>>

\* The journals are larger than the budget of a start, or this one is corrupt: its
\* run is known by name only, or not at all.
LoadSkips(p) ==
    /\ Recovering(p, "off", "read")
    /\ run = "archived" \/ lease = NoOne
    /\ run' \in {run, "archived"}
    /\ lease' = IF run = "archived" THEN lease ELSE p
    /\ UNCHANGED <<files, project, make, mem, seen, op, repo, meta, arch, counts>>

\* The recovery of this worktree is over; its leases are given back.
Started(p) ==
    /\ proc' = [proc EXCEPT ![p] = "up"]
    /\ lease' = IF lease = p THEN NoOne ELSE lease
    /\ repo' = IF repo = p THEN NoOne ELSE repo
    /\ UNCHANGED <<meta, arch>>

\* A run whose lease another process has is skipped.
ReadMarker(p) ==
    /\ proc[p] = "read"
    /\ seen' = [seen EXCEPT ![p] = marker]
    /\ IF marker # "none" /\ lease \in {NoOne, p}
       THEN /\ proc' = [proc EXCEPT ![p] = "wait"]
            /\ lease' = p /\ UNCHANGED <<repo, meta, arch>>
       ELSE Started(p)
    /\ UNCHANGED <<files, project, run, make, mem, op, counts>>

RecoveryLock(p) ==
    /\ Recovering(p, "wait", "look")
    /\ repo = NoOne /\ repo' = p
    /\ UNCHANGED <<files, project, run, make, mem, seen, op, lease, meta, arch, counts>>

\* recoverPreValidationMarker: the checkout that Git may have made is adopted.
Adopt(p) ==
    /\ proc[p] = "look" /\ seen[p] = "preadd" /\ checkout # "absent"
    /\ marker' = "ready" /\ seen' = [seen EXCEPT ![p] = "ready"]
    /\ UNCHANGED <<checkout, registered, record, project, run, make, proc, mem, op, locks, counts>>

\* Mutant: a checkout whose application was begun is taken for applied.
AppliedAt_Begun(p) == seen[p] = "applied" \/ mem[p] \in {"unconfirmed", "applied"}

\* What the marker, as it was read, or the history says.
AppliedAt(p) == seen[p] = "applied" \/ mem[p] = "applied"

\* An applied checkout is marked as such and removed with its changes.
Discard(p) ==
    /\ Recovering(p, "look", "remove")
    /\ seen[p] # "preadd" /\ AppliedAt(p)
    /\ marker' = "applied"
    /\ UNCHANGED <<checkout, registered, record, project, run, make, mem, seen, op, locks, counts>>

\* One without changes goes.
LooksClean(p) ==
    /\ Recovering(p, "look", "remove")
    /\ seen[p] # "preadd" /\ ~AppliedAt(p) /\ checkout = "clean"
    /\ UNCHANGED <<files, project, run, make, mem, seen, op, locks, counts>>

\* One that is not there may still be in Git's list, which is looked at: past its
\* creation that is done by the handler of the error, without the lock.
LooksMissing(p) ==
    /\ proc[p] \in {"look", "remove"} /\ proc' = [proc EXCEPT ![p] = "delist"]
    /\ checkout = "absent" /\ (seen[p] = "preadd" \/ ~AppliedAt(p))
    /\ repo' = IF seen[p] = "preadd" THEN repo ELSE NoOne
    /\ UNCHANGED <<files, project, run, make, mem, seen, op, lease, meta, arch, counts>>

\* Mutant: what the history knows is taken as it is.
Attach_AsRead(p) ==
    \E known \in {mem[p]} \cup (IF mem[p] = "none" THEN {snap} ELSE {}) :
        mem' = [mem EXCEPT ![p] = known]

\* #attachRecoveredWorktree: what the history knows of an application is kept.  A
\* snapshot that was not loaded is loaded now, if it fits the budget.
Attach(p) ==
    \E known \in {mem[p]} \cup (IF mem[p] = "none" THEN {snap} ELSE {}) :
        mem' = [mem EXCEPT ![p] = IF known \in {"unconfirmed", "applied"} THEN known ELSE "retained"]

LooksDirty(p) ==
    /\ proc[p] = "look" /\ seen[p] # "preadd" /\ ~AppliedAt(p) /\ checkout = "dirty"
    /\ Attach(p)
    /\ Started(p)
    /\ UNCHANGED <<files, project, run, make, seen, op, counts>>

\* Whatever fails leaves the worktree to the user.
RecoveryFails(p) ==
    /\ proc[p] \in {"wait", "look", "remove", "delist", "unmark"} /\ MayFail
    /\ Attach(p)
    /\ Started(p)
    /\ UNCHANGED <<files, project, run, make, seen, op>>

RecoveryRemove(p) ==
    /\ Recovering(p, "remove", "delist")
    /\ checkout # "absent" /\ checkout' = "absent"
    /\ UNCHANGED <<marker, registered, record, project, run, make, mem, seen, op, locks, counts>>

\* An applied one that is gone already: Git's list is not looked at.
RecoveryGone(p) ==
    /\ Recovering(p, "remove", "unmark")
    /\ checkout = "absent" /\ AppliedAt(p)
    /\ UNCHANGED <<files, project, run, make, mem, seen, op, locks, counts>>

RecoveryDelist(p) ==
    /\ Recovering(p, "delist", "unmark")
    /\ registered' = FALSE
    /\ UNCHANGED <<marker, checkout, record, project, run, make, mem, seen, op, locks, counts>>

RecoveryUnmark(p) ==
    /\ proc[p] = "unmark"
    /\ marker' = "none"
    /\ Started(p)
    /\ UNCHANGED <<checkout, registered, record, project, run, make, mem, seen, op, counts>>

-----------------------------------------------------------------------------
\* The world.

\* A user changes the project, or the changes that were kept.
Edit ==
    /\ edits < MaxEdits /\ edits' = edits + 1
    /\ \/ target' = target + 1 /\ UNCHANGED patch
       \/ checkout = "dirty" /\ make # "works" /\ patch' = patch + 1 /\ UNCHANGED target
    /\ UNCHANGED <<files, touched, landed, run, make, proc, mem, seen, op, locks, crashes, fails>>

\* Whoever holds a lock in process p.
Of(p) == {p} \cup {a \in Ops : op[a].pc # "idle" /\ op[a].proc = p}
Freed(lock, p) == IF lock \in Of(p) THEN NoOne ELSE lock

\* A process dies, in the middle of git apply perhaps.  It may be started again.
Die(p) ==
    /\ proc[p] # "off" /\ crashes < MaxCrashes
    /\ crashes' = crashes + 1
    /\ proc' = [proc EXCEPT ![p] = "off"]
    /\ mem' = [mem EXCEPT ![p] = "none"]
    /\ run' = IF Live(p) THEN "orphaned" ELSE run
    /\ \/ UNCHANGED <<touched, target>>
       \/ /\ \E a \in Ops : op[a].pc = "git" /\ op[a].proc = p
          /\ touched' = touched + 1 /\ target' = target + 1
    /\ op' = [a \in Ops |-> IF op[a].proc = p THEN Idle ELSE op[a]]
    /\ repo' = Freed(repo, p) /\ lease' = Freed(lease, p)
    /\ meta' = Freed(meta, p) /\ arch' = Freed(arch, p)
    /\ UNCHANGED <<files, patch, landed, make, seen, fails, edits>>

-----------------------------------------------------------------------------
Attempting ==
    \/ CreateLock \/ PreAdd \/ Add \/ AddFails \/ Ready \/ Invalid \/ UndoFails \/ Undo \/ Delist \/ Unmark
    \/ Assign \/ Work \/ ReleaseLock \/ ReleaseClean \/ RemoveFails \/ Retain \/ End \/ Archive
Applying(a) ==
    \/ \E p \in Procs : Preview(a, p)
    \/ Enter(a) \/ EnterArchive(a) \/ Check(a) \/ LockRepository(a) \/ Validate(a)
    \/ Journal(a) \/ JournalFails(a) \/ Recheck(a) \/ GitApply(a) \/ GitFails(a)
    \/ Confirm(a) \/ ConfirmFails(a)
    \/ FinalizeLock(a) \/ MarkApplied(a) \/ RemoveApplied(a) \/ DelistApplied(a) \/ UnmarkApplied(a)
    \/ OpFails(a)
Starting(p) ==
    \/ Load(p) \/ LoadSkips(p) \/ ReadMarker(p) \/ RecoveryLock(p) \/ Adopt(p) \/ Discard(p)
    \/ LooksClean(p) \/ LooksMissing(p) \/ LooksDirty(p) \/ RecoveryFails(p)
    \/ RecoveryRemove(p) \/ RecoveryGone(p) \/ RecoveryDelist(p) \/ RecoveryUnmark(p)

Next ==
    \/ Attempting
    \/ \E a \in Ops : Applying(a)
    \/ \E p \in Procs : Starting(p) \/ Die(p)
    \/ Edit

Spec == Init /\ [][Next]_vars

\* A start that skips a run can read its snapshot when it is asked to apply.  The
\* code does not see to that (OnceOnly).
Snapped == \A p \in Procs : LoadSkips(p) => Load(p) \/ snap # "unset"
SnappedSpec == Init /\ [][Next /\ Snapped]_vars

\* Nobody edits a checkout whose changes are being applied, or were: such an edit
\* goes with the checkout (see README).
NoLateEdit ==
    patch' > 1 /\ patch' # patch =>
        touched = 0 /\ \A a \in Ops : op[a].pc \in {"idle", "asked", "check", "archive", "lock", "validate"}
QuietSpec == Init /\ [][Next /\ Snapped /\ NoLateEdit]_vars

-----------------------------------------------------------------------------
\* Properties.

\* Every variable has its type.
TypeOK ==
    /\ marker \in {"none", "preadd", "ready", "applied"}
    /\ checkout \in {"absent", "clean", "dirty"} /\ registered \in BOOLEAN
    /\ log \in Known /\ snap \in Known \cup {"unset"} /\ mem \in [Procs -> Known]
    /\ patch \in Nat /\ target \in Nat /\ touched \in Nat /\ landed \in Nat
    /\ run \in {"running", "ended", "orphaned", "archived"}
    /\ make \in {"idle", "mark", "add", "ready", "undo", "delist", "unmark", "made", "works",
                "release", "over", "lost"}
    /\ proc \in [Procs -> {"off", "read", "wait", "look", "remove", "delist", "unmark", "up"}]
    /\ op \in [Ops -> [pc : {"idle", "asked", "archive", "check", "lock", "validate", "journal", "recheck", "git",
                              "applied", "finalize", "mark", "remove", "delist", "unmark"},
                       proc : Procs, live : BOOLEAN, patch : Nat, target : Nat]]
    /\ repo \in Procs \cup Ops \cup {NoOne} /\ lease \in Procs \cup {NoOne}
    /\ meta \in Ops \cup {NoOne} /\ arch \in Ops \cup {NoOne}
    /\ crashes \in Nat /\ fails \in Nat /\ edits \in Nat

\* The project is changed by one application at most, whoever asks for it and
\* whatever dies or fails in between.
OnceOnly == touched <= 1

\* What is on the disk never says that the changes were not applied when Git may
\* have begun to, nor that they were when it has not ended.
DiskTruthful ==
    /\ Disk \in {"none", "made", "retained"} => touched = 0
    /\ Disk = "applied" => landed # 0
AppliedOnce == OnceOnly /\ DiskTruthful

\* Changes are in the checkout until they are in the project: neither a recovery
\* with a stale marker or history, nor the end of an attempt, nor of another
\* application removes them.  A checkout that exists has a marker beside it, so that
\* the next start finds it, and so has an entry in Git's list, unless it is what the
\* removal of an applied checkout has left (see README).
NothingLost ==
    /\ patch # 0 /\ checkout # "dirty" => landed = patch
    /\ checkout # "absent" => marker # "none"
    /\ registered /\ marker = "none" => landed # 0

-----------------------------------------------------------------------------
\* The invariant that AppliedOnce is proved with.

\* An application between its reading of the state and its end, where Git has not
\* begun, and where it may have.
Before(a) == op[a].pc \in {"lock", "validate", "journal"}
Begun(a) == op[a].pc \in {"recheck", "git", "applied"}
Inside(a) == Before(a) \/ Begun(a)

\* The run is the owner's as long as it goes on, and so are its lease and whatever
\* is known of it.
Owned ==
    /\ run = "running" => snap = "unset"
    /\ Going => lease = Owner /\ proc[Owner] = "up"
    /\ Going => \A p \in Procs \ {Owner} : mem[p] = "none" /\ proc[p] \in {"off", "up"}
    /\ Going /\ make \notin {"over", "lost"} => mem[Owner] \in {"none", "made"}

\* An application is under a fence: of the live run, or of its archive.
Fenced == \A a \in Ops : op[a].pc # "idle" =>
    /\ op[a].live =>
         /\ op[a].proc = Owner
         /\ op[a].pc # "asked" => meta = a /\ Going /\ op[a].pc # "archive"
    /\ ~op[a].live =>
         /\ ~Going
         /\ Inside(a) \/ op[a].pc = "check" => arch = a

Staged ==
    /\ \A a \in Ops : Before(a) =>
         /\ touched = 0
         /\ op[a].live => mem[Owner] = "retained"
    /\ \A a \in Ops : Begun(a) =>
         /\ Disk = "unconfirmed"
         /\ IF op[a].live THEN mem[Owner] = "unconfirmed" ELSE snap = "unconfirmed"
         /\ IF op[a].pc = "applied" THEN landed # 0 ELSE touched = 0
    /\ \A a \in Ops : op[a].pc \in {"journal", "recheck", "git"} => op[a].patch # 0
    /\ checkout = "dirty" => patch # 0

\* What a process may go by when it is asked to apply.
Remembered ==
    /\ Going /\ mem[Owner] \in {"none", "made", "retained"} => touched = 0
    /\ Going /\ mem[Owner] = "applied" => landed # 0
    /\ ~Going /\ snap \in {"unset", "none"} =>
         \A p \in Procs :
             mem[p] = "retained" \/ (proc[p] \notin {"off", "up"} /\ mem[p] \in {"none", "made"}) =>
                 touched = 0

Safe == TypeOK /\ AppliedOnce /\ Owned /\ Fenced /\ Staged /\ Remembered

-----------------------------------------------------------------------------
\* What NothingLost is proved with, besides.

\* The attempt has its marker beside it and its changes to itself.
AttemptAlone == run = "running" =>
    /\ make \notin {"over", "lost"} => \A a \in Ops : op[a].pc = "idle"
    /\ make \in {"idle", "mark", "add", "ready", "undo", "made"} => patch = 0
    /\ make \in {"add", "ready", "undo", "delist", "made", "works", "release"} => marker # "none"
    /\ make = "delist" => checkout = "absent"
    /\ make = "unmark" => checkout = "absent" /\ ~registered

\* Whatever says that the changes were applied says so of those in the checkout.
AppliedIsLanded ==
    /\ landed # 0 => touched # 0 /\ landed = patch
    /\ "applied" \in {marker, log, snap} => landed # 0
    /\ \A p \in Procs : "applied" \in {mem[p], seen[p]} => landed # 0
    /\ \A a \in Ops :
         /\ op[a].pc \in {"applied", "finalize", "mark", "remove", "delist", "unmark"} => landed # 0
         /\ op[a].pc \in {"journal", "recheck", "git"} => op[a].patch = patch

\* Who removes a checkout has nothing to lose, and takes the marker away last.
RemovesNothing ==
    /\ checkout = "clean" => patch = 0
    /\ \A p \in Procs :
         /\ proc[p] = "remove" => patch = 0 \/ landed # 0
         /\ proc[p] \in {"delist", "unmark"} => checkout = "absent"
         /\ proc[p] = "unmark" => ~registered \/ landed # 0
    /\ \A a \in Ops :
         /\ op[a].pc \in {"delist", "unmark"} => checkout = "absent"
         /\ op[a].pc = "unmark" => ~registered

Kept == NothingLost /\ AttemptAlone /\ AppliedIsLanded /\ RemovesNothing
=============================================================================
