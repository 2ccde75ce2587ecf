------------------------- MODULE WorktreeApplyProofs -------------------------
(***************************************************************************)
(* Theorems about WorktreeApply, for any processes, applications and bounds. *)
(*                                                                          *)
(* That Git changes the project once is not inductive: an application looks  *)
(* at the record, and changes the project five steps later.  Safe adds what  *)
(* holds in between.  Both kinds of application are under a fence of their   *)
(* own, of the live run or of its archive, and a run does not pass from one  *)
(* to the other while an application is under way (Fenced); the record says  *)
(* `unconfirmed' before Git begins (Staged); what a process remembers is no  *)
(* older than the record it may be compared with (Remembered), because       *)
(* nobody but its owner knows a run that goes on (Owned).                    *)
(***************************************************************************)
EXTENDS WorktreeApply, TLAPS

USE ApplyAssumption DEF ApplyAssumption

\* The invariant and the small definitions of the actions are expanded everywhere.
USE DEF Safe, TypeOK, AppliedOnce, OnceOnly, DiskTruthful, Owned, Fenced, Staged, Remembered,
        Known, Idle, Going, Live, Disk, Before, Begun, Inside,
        vars, files, record, project, locks, counts,
        Making, MayFail, Op, Gone, Record, Recovering, Started

-----------------------------------------------------------------------------
\* The invariant holds before the run has done anything.
LEMMA InitSafe == Init => Safe
<1> SUFFICES ASSUME Init PROVE Safe  OBVIOUS
<1> USE DEF Init
<1>1. registered \in BOOLEAN  BY Zenon
<1>2. op \in [Ops -> {Idle}] /\ \A a \in Ops : op[a].pc = "idle"  OBVIOUS
<1>3. TypeOK  BY <1>1, <1>2
<1> QED BY <1>2, <1>3

\* No step of the attempt breaks it.
LEMMA AttemptKeeps == Safe /\ Attempting => Safe'
<1> SUFFICES ASSUME Safe, Attempting PROVE Safe'  OBVIOUS
<1>1. CASE CreateLock  BY <1>1 DEF CreateLock
<1>2. CASE PreAdd  BY <1>2 DEF PreAdd
<1>3. CASE Add  BY <1>3 DEF Add
<1>4. CASE AddFails
  <2>1. registered' \in BOOLEAN  BY <1>4, Zenon DEF AddFails
  <2> QED BY <1>4, <2>1 DEF AddFails
<1>5. CASE Ready  BY <1>5 DEF Ready
<1>6. CASE Invalid  BY <1>6 DEF Invalid
<1>7. CASE UndoFails  BY <1>7 DEF UndoFails
<1>8. CASE Undo  BY <1>8 DEF Undo
<1>9. CASE Unmark  BY <1>9 DEF Unmark
<1>10. CASE Assign  BY <1>10 DEF Assign
<1>11. CASE Work  BY <1>11 DEF Work
<1>12. CASE ReleaseLock  BY <1>12 DEF ReleaseLock
<1>13. CASE ReleaseClean  BY <1>13 DEF ReleaseClean
<1>14. CASE Retain  BY <1>14 DEF Retain
<1>15. CASE End  BY <1>15 DEF End
<1>16. CASE Archive  BY <1>16 DEF Archive
<1>17. CASE Delist
  <2>1. registered' \in BOOLEAN  BY <1>17, Zenon DEF Delist
  <2> QED BY <1>17, <2>1 DEF Delist
<1>18. CASE RemoveFails
  <2>1. CASE mem[Owner] = "none"  BY <1>18, <2>1 DEF RemoveFails
  <2>2. CASE mem[Owner] # "none"  BY <1>18, <2>2 DEF RemoveFails
  <2> QED BY <2>1, <2>2
<1> QED BY <1>1, <1>2, <1>3, <1>4, <1>5, <1>6, <1>7, <1>8, <1>9, <1>10, <1>11, <1>12, <1>13, <1>14, <1>15, <1>16, <1>17, <1>18 DEF Attempting

\* No step of an application does.
LEMMA ApplicationKeeps == ASSUME NEW a \in Ops PROVE Safe /\ Applying(a) => Safe'
<1> SUFFICES ASSUME Safe, Applying(a) PROVE Safe'  OBVIOUS
<1>1. ASSUME NEW p \in Procs, Preview(a, p) PROVE Safe'
  <2>1. CASE Live(p)
    <3>1. op' = [op EXCEPT ![a] = [pc |-> "asked", proc |-> p, live |-> TRUE, patch |-> patch, target |-> target]]
      BY <1>1, <2>1 DEF Preview
    <3> QED BY <1>1, <2>1, <3>1 DEF Preview
  <2>2. CASE ~Live(p)
    <3>1. op' = [op EXCEPT ![a] = [pc |-> "asked", proc |-> p, live |-> FALSE, patch |-> patch, target |-> target]]
      BY <1>1, <2>2 DEF Preview
    <3> QED BY <1>1, <2>2, <3>1 DEF Preview
  <2> QED BY <2>1, <2>2
<1>2. CASE Enter(a)
  <2>1. CASE op[a].live /\ Going
    <3>1. op' = [op EXCEPT ![a].pc = "check", ![a].live = TRUE]  BY <1>2, <2>1 DEF Enter
    <3> QED BY <1>2, <2>1, <3>1 DEF Enter
  <2>2. CASE op[a].live /\ ~Going
    <3>1. op' = [op EXCEPT ![a].pc = "archive", ![a].live = FALSE]  BY <1>2, <2>2 DEF Enter
    <3> QED BY <1>2, <2>2, <3>1 DEF Enter
  <2>3. CASE ~op[a].live  BY <1>2, <2>3 DEF Enter
  <2> QED BY <2>1, <2>2, <2>3
<1>3. CASE EnterArchive(a)  BY <1>3 DEF EnterArchive
<1>4. CASE Check(a)
  <2>1. CASE State(a) = "retained"
    <3>1. op' = [op EXCEPT ![a].pc = "lock"] /\ UNCHANGED locks  BY <1>4, <2>1 DEF Check
    <3>2. touched = 0 /\ (op[a].live => mem[Owner] = "retained")  BY <1>4, <2>1 DEF Check, State
    <3> QED BY <1>4, <3>1, <3>2 DEF Check
  <2>2. CASE State(a) # "retained"
    <3>1. Gone(a)  BY <1>4, <2>2 DEF Check
    <3> QED BY <1>4, <3>1 DEF Check
  <2> QED BY <2>1, <2>2
<1>5. CASE LockRepository(a)  BY <1>5 DEF LockRepository
<1>6. CASE Validate(a)
  <2>1. CASE checkout = "dirty" /\ patch = op[a].patch /\ AsShown(a)
    <3>1. op' = [op EXCEPT ![a].pc = "journal"] /\ UNCHANGED locks  BY <1>6, <2>1 DEF Validate
    <3> QED BY <1>6, <2>1, <3>1 DEF Validate
  <2>2. CASE ~(checkout = "dirty" /\ patch = op[a].patch /\ AsShown(a))
    <3>1. Gone(a)  BY <1>6, <2>2 DEF Validate
    <3> QED BY <1>6, <3>1 DEF Validate
  <2> QED BY <2>1, <2>2
<1>7. CASE Journal(a)  BY <1>7 DEF Journal
<1>8. CASE JournalFails(a)  BY <1>8 DEF JournalFails
<1>9. CASE Recheck(a)
  <2>1. CASE Op(a, "git") /\ UNCHANGED <<record, mem, locks, counts>>
    BY <1>9, <2>1 DEF Recheck
  <2>2. CASE mem' = [mem EXCEPT ![op[a].proc] = "retained"] /\ Record(op[a].live, "retained") /\ Gone(a) /\ UNCHANGED counts
    BY <1>9, <2>2 DEF Recheck
  <2>3. CASE /\ MayFail
             /\ mem' = IF op[a].live THEN [mem EXCEPT ![Owner] = "retained"] ELSE mem
             /\ UNCHANGED record /\ Gone(a)
    BY <1>9, <2>3 DEF Recheck
  <2> QED BY <1>9, <2>1, <2>2, <2>3 DEF Recheck
<1>10. CASE GitApply(a)  BY <1>10 DEF GitApply
<1>11. CASE GitFails(a)  BY <1>11 DEF GitFails
<1>12. CASE Confirm(a)  BY <1>12 DEF Confirm
<1>13. CASE ConfirmFails(a)  BY <1>13 DEF ConfirmFails
<1>14. CASE FinalizeLock(a)  BY <1>14 DEF FinalizeLock
<1>15. CASE MarkApplied(a)  BY <1>15 DEF MarkApplied
<1>16. CASE RemoveApplied(a)
  <2>1. CASE checkout = "absent"
    <3>1. Gone(a) /\ UNCHANGED checkout  BY <1>16, <2>1 DEF RemoveApplied
    <3> QED BY <1>16, <3>1 DEF RemoveApplied
  <2>2. CASE checkout # "absent"  BY <1>16, <2>2 DEF RemoveApplied
  <2> QED BY <2>1, <2>2
<1>17. CASE UnmarkApplied(a)  BY <1>17 DEF UnmarkApplied
<1>18. CASE OpFails(a)  BY <1>18 DEF OpFails
<1>19. CASE DelistApplied(a)
  <2>1. registered' \in BOOLEAN  BY <1>19, Zenon DEF DelistApplied
  <2> QED BY <1>19, <2>1 DEF DelistApplied
<1> QED BY <1>1, <1>2, <1>3, <1>4, <1>5, <1>6, <1>7, <1>8, <1>9, <1>10, <1>11, <1>12, <1>13, <1>14, <1>15, <1>16, <1>17, <1>18, <1>19 DEF Applying

\* No step of a start does, if it can read the snapshot of a run it skips.
LEMMA StartKeeps == ASSUME NEW p \in Procs PROVE Safe /\ Starting(p) /\ Snapped => Safe'
<1> SUFFICES ASSUME Safe, Starting(p), Snapped PROVE Safe'  OBVIOUS
<1>1. CASE Load(p)  BY <1>1 DEF Load
<1>2. CASE LoadSkips(p)
  <2>1. CASE Load(p)  BY <1>1, <2>1
  <2>2. CASE snap # "unset"  BY <1>2, <2>2 DEF LoadSkips
  <2> QED BY <1>2, <2>1, <2>2 DEF Snapped
<1>3. CASE ReadMarker(p)  BY <1>3 DEF ReadMarker
<1>4. CASE RecoveryLock(p)  BY <1>4 DEF RecoveryLock
<1>5. CASE Adopt(p)  BY <1>5 DEF Adopt
<1>6. CASE Discard(p)  BY <1>6 DEF Discard, AppliedAt
<1>7. CASE LooksClean(p)  BY <1>7 DEF LooksClean, AppliedAt
<1>8. CASE LooksDirty(p)
  <2>1. PICK known \in {mem[p], snap} :
          /\ known = snap => mem[p] = "none" \/ known = mem[p]
          /\ mem' = [mem EXCEPT ![p] = IF known \in {"unconfirmed", "applied"} THEN known ELSE "retained"]
    BY <1>8 DEF LooksDirty, Attach
  <2>2. ~Going  BY <1>8 DEF LooksDirty
  <2> QED BY <1>8, <2>1, <2>2 DEF LooksDirty
<1>9. CASE RecoveryFails(p)
  <2>1. PICK known \in {mem[p], snap} :
          /\ known = snap => mem[p] = "none" \/ known = mem[p]
          /\ mem' = [mem EXCEPT ![p] = IF known \in {"unconfirmed", "applied"} THEN known ELSE "retained"]
    BY <1>9 DEF RecoveryFails, Attach
  <2>2. ~Going  BY <1>9 DEF RecoveryFails
  <2> QED BY <1>9, <2>1, <2>2 DEF RecoveryFails
<1>10. CASE RecoveryRemove(p)  BY <1>10 DEF RecoveryRemove
<1>11. CASE RecoveryUnmark(p)  BY <1>11 DEF RecoveryUnmark
<1>12. CASE LooksMissing(p)  BY <1>12 DEF LooksMissing
<1>13. CASE RecoveryGone(p)  BY <1>13 DEF RecoveryGone
<1>14. CASE RecoveryDelist(p)
  <2>1. registered' \in BOOLEAN  BY <1>14, Zenon DEF RecoveryDelist
  <2> QED BY <1>14, <2>1 DEF RecoveryDelist
<1> QED BY <1>1, <1>2, <1>3, <1>4, <1>5, <1>6, <1>7, <1>8, <1>9, <1>10, <1>11, <1>12, <1>13, <1>14 DEF Starting

\* Nor does a death, in the middle of git apply even, or a user.
LEMMA WorldKeeps == ASSUME Safe, Edit \/ \E p \in Procs : Die(p) PROVE Safe'
<1>1. CASE Edit  BY <1>1 DEF Edit
<1>2. ASSUME NEW p \in Procs, Die(p) PROVE Safe'  BY <1>2 DEF Die, Of, Freed
<1> QED BY <1>1, <1>2

-----------------------------------------------------------------------------
\* The invariant holds in every reachable state of every instance.
THEOREM SafeAlways == SnappedSpec => []Safe
<1>1. Init => Safe  BY InitSafe
<1>2. Safe /\ [Next /\ Snapped]_vars => Safe'
  <2> SUFFICES ASSUME Safe, [Next /\ Snapped]_vars PROVE Safe'  OBVIOUS
  <2>1. CASE Attempting  BY <2>1, AttemptKeeps
  <2>2. ASSUME NEW a \in Ops, Applying(a) PROVE Safe'  BY <2>2, ApplicationKeeps
  <2>3. ASSUME NEW p \in Procs, Starting(p), Snapped PROVE Safe'  BY <2>3, StartKeeps
  <2>4. CASE Edit \/ \E p \in Procs : Die(p)  BY <2>4, WorldKeeps
  <2>5. CASE UNCHANGED vars
    BY <2>5
  <2> HIDE DEF Safe, vars
  <2> QED BY <2>1, <2>2, <2>3, <2>4, <2>5 DEF Next
<1> HIDE DEF Safe, vars
<1> QED BY <1>1, <1>2, PTL DEF SnappedSpec

\* Every variable has its type, whoever asks, dies and recovers (worktrees.mjs,
\* applyWorktree).
THEOREM TypeCorrect == SnappedSpec => []TypeOK
<1>1. Safe => TypeOK  OBVIOUS
<1> HIDE DEF Safe, TypeOK
<1> QED BY <1>1, SafeAlways, PTL

\* However many processes and applications there are, and whatever dies in between,
\* Git changes the project once at most, and the record on the disk never says the
\* opposite of what Git did (applyWorktree).
THEOREM ApplyOnce == SnappedSpec => []AppliedOnce
<1>1. Safe => AppliedOnce  OBVIOUS
<1> HIDE DEF Safe, AppliedOnce
<1> QED BY <1>1, SafeAlways, PTL

-----------------------------------------------------------------------------
\* The changes themselves.  That they are in the checkout or in the project is an
\* invariant beside Safe: what anybody removes a checkout by, its marker, the
\* record or what a process remembers, says of the changes in that checkout that
\* they are in the project, or there are none (AppliedIsLanded, RemovesNothing).

USE DEF Kept, NothingLost, AttemptAlone, AppliedIsLanded, RemovesNothing

LEMMA InitKept == Init => Kept
BY DEF Init

LEMMA AttemptKeepsChanges == ASSUME Safe, Kept, Attempting PROVE Kept'
<1>1. CASE CreateLock  BY <1>1 DEF CreateLock
<1>2. CASE PreAdd  BY <1>2 DEF PreAdd
<1>3. CASE Add  BY <1>3 DEF Add
<1>4. CASE AddFails  BY <1>4 DEF AddFails
<1>5. CASE Ready  BY <1>5 DEF Ready
<1>6. CASE Invalid  BY <1>6 DEF Invalid
<1>7. CASE UndoFails  BY <1>7 DEF UndoFails
<1>8. CASE Undo  BY <1>8 DEF Undo
<1>9. CASE Unmark  BY <1>9 DEF Unmark
<1>10. CASE Assign  BY <1>10 DEF Assign
<1>11. CASE Work  BY <1>11 DEF Work
<1>12. CASE ReleaseLock  BY <1>12 DEF ReleaseLock
<1>13. CASE ReleaseClean  BY <1>13 DEF ReleaseClean
<1>14. CASE Retain  BY <1>14 DEF Retain
<1>15. CASE End  BY <1>15 DEF End
<1>16. CASE Archive  BY <1>16 DEF Archive
<1>17. CASE Delist  BY <1>17 DEF Delist
<1>18. CASE RemoveFails  BY <1>18 DEF RemoveFails
<1> QED BY <1>1, <1>2, <1>3, <1>4, <1>5, <1>6, <1>7, <1>8, <1>9, <1>10, <1>11, <1>12, <1>13, <1>14, <1>15, <1>16, <1>17, <1>18 DEF Attempting

LEMMA ApplicationKeepsChanges == ASSUME NEW a \in Ops, Safe, Kept, Applying(a) PROVE Kept'
<1>1. ASSUME NEW p \in Procs, Preview(a, p) PROVE Kept'  BY <1>1 DEF Preview
<1>2. CASE Enter(a)  BY <1>2 DEF Enter
<1>3. CASE EnterArchive(a)  BY <1>3 DEF EnterArchive
<1>4. CASE Check(a)  BY <1>4 DEF Check
<1>5. CASE LockRepository(a)  BY <1>5 DEF LockRepository
<1>6. CASE Validate(a)  BY <1>6 DEF Validate
<1>7. CASE Journal(a)  BY <1>7 DEF Journal
<1>8. CASE JournalFails(a)  BY <1>8 DEF JournalFails
<1>9. CASE Recheck(a)  BY <1>9 DEF Recheck
<1>10. CASE GitApply(a)  BY <1>10 DEF GitApply
<1>11. CASE GitFails(a)  BY <1>11 DEF GitFails
<1>12. CASE Confirm(a)  BY <1>12 DEF Confirm
<1>13. CASE ConfirmFails(a)  BY <1>13 DEF ConfirmFails
<1>14. CASE FinalizeLock(a)  BY <1>14 DEF FinalizeLock
<1>15. CASE MarkApplied(a)  BY <1>15 DEF MarkApplied
<1>16. CASE RemoveApplied(a)  BY <1>16 DEF RemoveApplied
<1>17. CASE UnmarkApplied(a)  BY <1>17 DEF UnmarkApplied
<1>18. CASE OpFails(a)  BY <1>18 DEF OpFails
<1>19. CASE DelistApplied(a)  BY <1>19 DEF DelistApplied
<1> QED BY <1>1, <1>2, <1>3, <1>4, <1>5, <1>6, <1>7, <1>8, <1>9, <1>10, <1>11, <1>12, <1>13, <1>14, <1>15, <1>16, <1>17, <1>18, <1>19 DEF Applying

LEMMA StartKeepsChanges == ASSUME NEW p \in Procs, Safe, Kept, Starting(p) PROVE Kept'
<1>1. CASE Load(p)  BY <1>1 DEF Load
<1>2. CASE LoadSkips(p)  BY <1>2 DEF LoadSkips
<1>3. CASE ReadMarker(p)  BY <1>3 DEF ReadMarker
<1>4. CASE RecoveryLock(p)  BY <1>4 DEF RecoveryLock
<1>5. CASE Adopt(p)  BY <1>5 DEF Adopt
<1>6. CASE Discard(p)  BY <1>6 DEF Discard, AppliedAt
<1>7. CASE LooksClean(p)  BY <1>7 DEF LooksClean, AppliedAt
<1>8. CASE LooksDirty(p)  BY <1>8 DEF LooksDirty, Attach
<1>9. CASE RecoveryFails(p)  BY <1>9 DEF RecoveryFails, Attach
<1>10. CASE RecoveryRemove(p)  BY <1>10 DEF RecoveryRemove
<1>11. CASE RecoveryUnmark(p)  BY <1>11 DEF RecoveryUnmark
<1>12. CASE LooksMissing(p)  BY <1>12 DEF LooksMissing
<1>13. CASE RecoveryGone(p)  BY <1>13 DEF RecoveryGone, AppliedAt
<1>14. CASE RecoveryDelist(p)  BY <1>14 DEF RecoveryDelist
<1> QED BY <1>1, <1>2, <1>3, <1>4, <1>5, <1>6, <1>7, <1>8, <1>9, <1>10, <1>11, <1>12, <1>13, <1>14 DEF Starting

LEMMA WorldKeepsChanges ==
    ASSUME Safe, Kept, (Edit /\ NoLateEdit) \/ \E p \in Procs : Die(p) PROVE Kept'
<1>1. CASE Edit /\ NoLateEdit  BY <1>1 DEF Edit, NoLateEdit
<1>2. ASSUME NEW p \in Procs, Die(p) PROVE Kept'  BY <1>2 DEF Die, Of, Freed
<1> QED BY <1>1, <1>2

\* Nothing that an attempt has made is removed from its checkout before it is in
\* the project, whoever applies it, dies, or recovers from a stale marker or
\* history.  No checkout is left without the marker by which the next start finds it,
\* nor is an entry in Git's list, but for that of an applied checkout whose removal
\* was cut short (applyWorktree, finalizeApplied, reconcileOrphans).
THEOREM ChangesAreKept == QuietSpec => []NothingLost
<1>1. Init => Kept  BY InitKept
<1>2. Safe /\ Kept /\ [Next /\ Snapped /\ NoLateEdit]_vars => Kept'
  <2> SUFFICES ASSUME Safe, Kept, [Next /\ Snapped /\ NoLateEdit]_vars PROVE Kept'  OBVIOUS
  <2>1. CASE Attempting  BY <2>1, AttemptKeepsChanges
  <2>2. ASSUME NEW a \in Ops, Applying(a) PROVE Kept'  BY <2>2, ApplicationKeepsChanges
  <2>3. ASSUME NEW p \in Procs, Starting(p) PROVE Kept'  BY <2>3, StartKeepsChanges
  <2>4. CASE (Edit /\ NoLateEdit) \/ \E p \in Procs : Die(p)  BY <2>4, WorldKeepsChanges
  <2>5. CASE UNCHANGED vars  BY <2>5
  <2> HIDE DEF Safe, Kept, vars
  <2> QED BY <2>1, <2>2, <2>3, <2>4, <2>5 DEF Next
<1>3. Kept => NothingLost  OBVIOUS
<1>4. [Next /\ Snapped /\ NoLateEdit]_vars => [Next /\ Snapped]_vars  OBVIOUS
<1> HIDE DEF Safe, Kept, NothingLost, vars
<1>5. QuietSpec => SnappedSpec  BY <1>4, PTL DEF QuietSpec, SnappedSpec
<1> QED BY <1>1, <1>2, <1>3, <1>5, SafeAlways, PTL DEF QuietSpec
=============================================================================
