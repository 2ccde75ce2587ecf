------------------------ MODULE OwnershipLockProofs ------------------------
(***************************************************************************)
(* Theorems about OwnershipLock, for any processes, calls, deaths and times. *)
(***************************************************************************)
EXTENDS OwnershipLock, TLAPS

USE LockAssumption DEF LockAssumption

-----------------------------------------------------------------------------
\* Types.

USE DEF Alive, Dead, disk, world, memory, Goto, Fail, GateLost

LEMMA PlacesKnown ==
       {"idle", "claim", "try", "inspect", "judge", "gate", "retire", "retired", "entered", "grace",
        "confirm", "unlink", "ungate", "vacate", "ungateAbort", "vacateAbort", "linked", "held",
        "releaseCheck", "releaseUnlink", "rollbackCheck", "rollbackUnlink", "releaseFence",
        "rollbackFence", "rollbackLost", "gateLost", "retiredLost", "released", "failed", "dead"} = PC
  BY DEF PC, Idle, Loop, AtGate, InGate, Owning, Unfencing, Over, Lost

LEMMA Jump == ASSUME TypeOK, NEW a \in Attempts, NEW l \in PC, pc' = [pc EXCEPT ![a] = l]
              PROVE  pc' \in [Attempts -> PC] /\ pc'[a] = l /\ \A j \in Attempts : j # a => pc'[j] = pc[j]
  BY DEF TypeOK

LEMMA AcquiringTyped == ASSUME TypeOK, NEW a \in Attempts, Acquiring(a) PROVE TypeOK'
<1> USE DEF TypeOK
<1>1. pc' \in [Attempts -> PC]
  <2> USE PlacesKnown
  <2>1. CASE Begin(a) \/ WriteClaim(a) \/ Link(a) \/ Inspect(a) \/ Judge(a)
    BY <2>1 DEF Begin, WriteClaim, Link, Inspect, Judge
  <2>2. CASE EnterGate(a) \/ JudgeGate(a) \/ RetireGate(a) \/ SettleRetired(a)
    BY <2>2 DEF EnterGate, JudgeGate, RetireGate, SettleRetired
  <2>3. CASE Recheck(a) \/ EndGrace(a) \/ Confirm(a) \/ UnlinkDead(a)
    BY <2>3 DEF Recheck, EndGrace, Confirm, UnlinkDead
  <2>4. CASE CheckGate(a) \/ VacateGate(a) \/ RetryGateRelease(a) \/ Arm(a)
    BY <2>4 DEF CheckGate, VacateGate, RetryGateRelease, Arm
  <2> QED BY <2>1, <2>2, <2>3, <2>4 DEF Acquiring
<1>2. CASE Begin(a) \/ WriteClaim(a) \/ Link(a) \/ Inspect(a) \/ Judge(a)
  BY <1>1, <1>2 DEF Begin, WriteClaim, Link, Inspect, Judge
<1>3. CASE EnterGate(a) \/ JudgeGate(a) \/ RetireGate(a) \/ SettleRetired(a)
  BY <1>1, <1>3 DEF EnterGate, JudgeGate, RetireGate, SettleRetired
<1>4. CASE Recheck(a) \/ EndGrace(a) \/ Confirm(a) \/ UnlinkDead(a)
  BY <1>1, <1>4 DEF Recheck, EndGrace, Confirm, UnlinkDead
<1>5. CASE CheckGate(a) \/ VacateGate(a) \/ RetryGateRelease(a) \/ Arm(a)
  BY <1>1, <1>5 DEF CheckGate, VacateGate, RetryGateRelease, Arm
<1> QED BY <1>2, <1>3, <1>4, <1>5 DEF Acquiring

LEMMA OthersTyped ==
    ASSUME TypeOK, NEW a \in Attempts, Releasing(a) \/ Faults(a) \/ Caller(a) \/ Drained(a) \/ Survives(a)
    PROVE  TypeOK'
<1> USE DEF TypeOK
<1>1. pc' \in [Attempts -> PC]
  <2> USE PlacesKnown
  <2>1. CASE Releasing(a)  BY <2>1 DEF Releasing, CheckOwn, UnlinkOwn, Finish, Checks, AfterCheck, AfterUnlink
  <2>2. CASE Faults(a)  BY <2>2 DEF Faults, GiveUp, CutGrace, ReleaseFails, RollbackFails
  <2>3. CASE Caller(a) \/ Drained(a) \/ Survives(a)
    BY <2>3 DEF Caller, StartBackend, StopBackend, Poison, Release, Drained, Survives
  <2> QED BY <2>1, <2>2, <2>3
<1>2. CASE Releasing(a)  BY <1>1, <1>2 DEF Releasing, CheckOwn, UnlinkOwn, Finish, DropFence
<1>3. CASE Faults(a)  BY <1>1, <1>3 DEF Faults, GiveUp, CutGrace, ReleaseFails, RollbackFails
<1>4. CASE Caller(a) \/ Drained(a) \/ Survives(a)
  BY <1>1, <1>4 DEF Caller, StartBackend, StopBackend, Poison, Release, Drained, Survives
<1> QED BY <1>2, <1>3, <1>4

LEMMA CrashTyped == ASSUME TypeOK, NEW p \in Procs, Crash(p) PROVE TypeOK'
<1> USE DEF TypeOK
<1>1. alive' \subseteq Procs /\ crashes' \in 0..MaxCrashes  BY DEF Crash
<1>2. pc' \in [Attempts -> PC] /\ backend' \in [Attempts -> {"none", "running", "draining", "lost"}]
  BY PlacesKnown DEF Crash
<1>3. /\ drainAge' \in [Attempts -> 0..ShutdownBound] /\ graceAge' \in [Attempts -> 0..Grace]
      /\ moved' \in [Attempts -> Attempts \cup {None}] /\ pending' \subseteq {"lock", "gate"} \X Attempts
  BY DEF Crash
<1>4. /\ seen' \in [Attempts -> Attempts \cup {None}] /\ gseen' \in [Attempts -> Attempts \cup {None}]
  BY DEF Crash
<1> QED BY <1>1, <1>2, <1>3, <1>4 DEF Crash

LEMMA TickTyped == ASSUME TypeOK, Tick PROVE TypeOK'
<1> USE DEF TypeOK
<1>1. drainAge' \in [Attempts -> 0..ShutdownBound]
  BY DEF Tick, WithinBound, Draining
<1>2. graceAge' \in [Attempts -> 0..Grace]  BY DEF Tick
<1> QED BY <1>1, <1>2 DEF Tick

LEMMA NextTyped == ASSUME TypeOK, [Next]_vars PROVE TypeOK'
<1>1. ASSUME NEW a \in Attempts, Acquiring(a) \/ Releasing(a) \/ Faults(a) \/ Caller(a) \/ Drained(a) \/ Survives(a)
      PROVE  TypeOK'
  BY <1>1, AcquiringTyped, OthersTyped
<1>2. ASSUME NEW a \in Attempts, NEW b \in Attempts, CleanupOrphan(a, b) PROVE TypeOK'
  BY <1>2 DEF CleanupOrphan, TypeOK
<1>3. ASSUME NEW p \in Procs, Crash(p) PROVE TypeOK'  BY <1>3, CrashTyped
<1>4. CASE Tick  BY <1>4, TickTyped
<1>5. CASE UNCHANGED vars  BY <1>5 DEF vars, TypeOK
<1> QED BY <1>1, <1>2, <1>3, <1>4, <1>5 DEF Next

LEMMA InitTyped == Init => TypeOK
  BY PlacesKnown DEF Init, TypeOK

\* Every variable keeps to its values, the ages to their bounds.
THEOREM TypeCorrect == Spec => []TypeOK
<1>1. TypeOK /\ [Next]_vars => TypeOK'  BY NextTyped
<1> QED BY <1>1, InitTyped, PTL DEF Spec

-----------------------------------------------------------------------------
\* Claims: whatever happens in the gate, a claim left behind is a dead call's or
\* waits for a rollback (acquireOwnershipLock's catch block).
Begun == \A a \in claims : pc[a] # "idle"

LEMMA ClaimsKept == ASSUME TypeOK, Begun, ClaimsAccountedFor, [Next]_vars PROVE ClaimsAccountedFor' /\ Begun'
<1> SUFFICES ASSUME NEW j \in Attempts, j \in claims'
             PROVE  pc'[j] # "idle" /\ (ProcOf[j] \in alive' => pc'[j] \notin Over \ {"rollbackLost"})
  BY NextTyped DEF ClaimsAccountedFor, Begun, TypeOK
<1> DEFINE Claimed == pc'[j] # "idle" /\ (ProcOf[j] \in alive' => pc'[j] \notin Over \ {"rollbackLost"})
<1> USE DEF TypeOK, ClaimsAccountedFor, Begun, Over, Lost
<1>1. ASSUME NEW a \in Attempts, Acquiring(a) PROVE Claimed
  <2>1. CASE Begin(a) \/ WriteClaim(a) \/ Link(a) \/ Inspect(a) \/ Judge(a)
    BY <2>1 DEF Begin, WriteClaim, Link, Inspect, Judge
  <2>2. CASE EnterGate(a) \/ JudgeGate(a) \/ RetireGate(a) \/ SettleRetired(a)
    BY <2>2 DEF EnterGate, JudgeGate, RetireGate, SettleRetired
  <2>3. CASE Recheck(a) \/ EndGrace(a) \/ Confirm(a) \/ UnlinkDead(a)
    BY <2>3 DEF Recheck, EndGrace, Confirm, UnlinkDead
  <2>4. CASE CheckGate(a) \/ VacateGate(a) \/ RetryGateRelease(a) \/ Arm(a)
    BY <2>4 DEF CheckGate, VacateGate, RetryGateRelease, Arm
  <2> QED BY <1>1, <2>1, <2>2, <2>3, <2>4 DEF Acquiring
<1>2. ASSUME NEW a \in Attempts, Releasing(a) \/ Faults(a) PROVE Claimed
  <2>1. CASE CheckOwn(a) \/ UnlinkOwn(a)
    BY <2>1 DEF CheckOwn, UnlinkOwn, Checks, AfterCheck, AfterUnlink
  <2>2. CASE Finish(a)  BY <2>2 DEF Finish
  <2>3. CASE Faults(a)  BY <2>3 DEF Faults, GiveUp, CutGrace, ReleaseFails, RollbackFails
  <2> QED BY <1>2, <2>1, <2>2, <2>3 DEF Releasing
<1>3. ASSUME NEW a \in Attempts, Caller(a) \/ Drained(a) \/ Survives(a) PROVE Claimed
  BY <1>3 DEF Caller, StartBackend, StopBackend, Poison, Release, Drained, Survives
<1>4. ASSUME NEW a \in Attempts, NEW b \in Attempts, CleanupOrphan(a, b) PROVE Claimed
  BY <1>4 DEF CleanupOrphan
<1>5. ASSUME NEW p \in Procs, Crash(p) PROVE Claimed
  BY <1>5 DEF Crash
<1>6. CASE Tick  BY <1>6 DEF Tick
<1>7. CASE UNCHANGED vars  BY <1>7 DEF vars
<1> QED BY <1>1, <1>2, <1>3, <1>4, <1>5, <1>6, <1>7 DEF Next

\* For any deaths, in the gate too: no claim of a live process is left behind.
THEOREM ClaimsAreRemoved == Spec => []ClaimsAccountedFor
<1>1. Init => ClaimsAccountedFor /\ Begun  BY DEF Init, ClaimsAccountedFor, Begun
<1>2. TypeOK /\ ClaimsAccountedFor /\ Begun /\ [Next]_vars => ClaimsAccountedFor' /\ Begun'  BY ClaimsKept
<1> QED BY <1>1, <1>2, TypeCorrect, PTL DEF Spec

-----------------------------------------------------------------------------
\* The inductive invariant of the lock.
Sound(a) == Ended(a) /\ Gated(a) /\ Judged(a) /\ Held(a)

USE DEF Draining

LEMMA Unfolded ==
    IInv <=> TypeOK /\ OneJudge /\ FencesAccountedFor /\ \A a \in Attempts : Sound(a)
  BY DEF IInv, Sound

\* What a call that does not move sees of the one that does.
Apart(j) ==
    /\ pc'[j] = pc[j] /\ seen'[j] = seen[j] /\ gseen'[j] = gseen[j] /\ moved'[j] = moved[j]
    /\ graceAge'[j] = graceAge[j] /\ backend'[j] = backend[j] /\ alive' = alive
    /\ Owes(j)' => Owes(j)

\* The shared files while no lock and no gate changes hands.
Still == UNCHANGED <<alive, lock, gate, fence, backend, drainAge>>

LEMMA StillApart ==
    ASSUME NEW j \in Attempts, TypeOK, Sound(j), Apart(j), Still PROVE Sound(j)'
<1> USE DEF Still, Apart, TypeOK
<1>1. Ended(j)'  BY DEF Sound, Ended
<1>2. Gated(j)'  BY DEF Sound, Gated
<1>3. Judged(j)'  BY DEF Sound, Judged
<1>4. Held(j)'  BY DEF Sound, Held
<1> QED BY <1>1, <1>2, <1>3, <1>4 DEF Sound

USE DEF AtGate, InGate, Reclaiming, Owning

\* The call reads, judges and decides.
LEMMA ReadsKeep ==
    ASSUME IInv, NEW a \in Attempts, OneJudge',
           \/ Begin(a) \/ WriteClaim(a) \/ Inspect(a) \/ Judge(a) \/ JudgeGate(a)
           \/ Recheck(a) \/ EndGrace(a) \/ Confirm(a)
           \/ GiveUp(a) \/ CutGrace(a) \/ Release(a)
    PROVE  IInv'
<1>1. TypeOK /\ \A j \in Attempts : Sound(j)  BY Unfolded
<1>2. TypeOK'  BY <1>1, AcquiringTyped, OthersTyped DEF Acquiring, Faults, Caller
<1>3. /\ Still /\ UNCHANGED moved /\ Alive(a)
      /\ \A j \in Attempts : j # a => Apart(j)
  <2> USE DEF Still, Apart, TypeOK, Owes
  <2>1. CASE Begin(a) \/ WriteClaim(a) \/ Inspect(a) \/ Judge(a) \/ JudgeGate(a)
    BY <1>1, <2>1 DEF Begin, WriteClaim, Inspect, Judge, JudgeGate
  <2>2. CASE Recheck(a) \/ EndGrace(a) \/ Confirm(a) \/ GiveUp(a) \/ CutGrace(a) \/ Release(a)
    BY <1>1, <2>2 DEF Recheck, EndGrace, Confirm, GiveUp, CutGrace, Release
  <2> QED BY <2>1, <2>2
<1>4. Sound(a)'
  <2>1. Sound(a) /\ a \in Attempts  BY <1>1
  <2> USE <1>1, <1>2, <1>3, <2>1 DEF Sound, Ended, Gated, Judged, Held, TypeOK, Still, Owes
  <2>2. CASE Begin(a) \/ WriteClaim(a) \/ Inspect(a)  BY <2>2 DEF Begin, WriteClaim, Inspect
  <2>3. CASE Judge(a)  BY <2>3 DEF Judge, Unconfirmed
  <2>4. CASE JudgeGate(a)  BY <2>4 DEF JudgeGate, GateStale
  <2>5. CASE Recheck(a)  BY <2>5 DEF Recheck, StillOccupied
  <2>6. CASE EndGrace(a)  BY <2>6 DEF EndGrace, GraceOver
  <2>7. CASE Confirm(a)  BY <2>7 DEF Confirm, StillOccupied
  <2>8. CASE GiveUp(a) \/ CutGrace(a) \/ Release(a)  BY <2>8 DEF GiveUp, CutGrace, Release
  <2> QED BY <2>2, <2>3, <2>4, <2>5, <2>6, <2>7, <2>8
<1>5. FencesAccountedFor'
  <2>1. pc[a] \notin Unfencing \cup {"rollbackLost"}
    BY DEF Begin, WriteClaim, Inspect, Judge, JudgeGate, Recheck, EndGrace, Confirm, GiveUp, CutGrace, Release, Unfencing
  <2>2. fence \subseteq Attempts /\ FencesAccountedFor  BY Unfolded DEF TypeOK
  <2> QED BY <1>3, <2>1, <2>2 DEF FencesAccountedFor, Still, Apart
<1> QED BY <1>1, <1>2, <1>3, <1>4, <1>5, StillApart DEF IInv, Sound

\* A claim is cleaned away, or time passes.
LEMMA CleanupKeeps ==
    ASSUME IInv, NEW a \in Attempts, NEW b \in Attempts, CleanupOrphan(a, b), OneJudge' PROVE IInv'
<1>1. TypeOK /\ FencesAccountedFor /\ \A j \in Attempts : Sound(j)  BY Unfolded
<1>2. TypeOK'  BY <1>1 DEF CleanupOrphan, TypeOK
<1>3. Still /\ UNCHANGED <<pc, seen, gseen, moved, graceAge, pending>>  BY DEF CleanupOrphan, Still
<1>4. \A j \in Attempts : Apart(j)  BY <1>3 DEF Apart, Still, Owes
<1>5. FencesAccountedFor'  BY <1>1, <1>3 DEF FencesAccountedFor, Still
<1> QED BY <1>1, <1>2, <1>3, <1>4, <1>5, StillApart DEF IInv, Sound

LEMMA TickKeeps == ASSUME IInv, Tick, OneJudge' PROVE IInv'
<1>1. TypeOK /\ FencesAccountedFor /\ \A j \in Attempts : Sound(j)  BY Unfolded
<1>2. TypeOK'  BY <1>1, TickTyped
<1>3. /\ UNCHANGED <<alive, crashes, backend, pc, lock, claims, fence, gate, moved, seen, gseen, pending>>
      /\ drainAge' = [a \in Attempts |-> IF Draining(a) THEN drainAge[a] + 1 ELSE 0]
      /\ graceAge' = [a \in Attempts |-> IF pc[a] = "grace" /\ graceAge[a] < Grace
                                         THEN graceAge[a] + 1 ELSE graceAge[a]]
  BY DEF Tick
<1>4. ASSUME NEW j \in Attempts PROVE Sound(j)'
  <2>1. Ended(j)' /\ Gated(j)' /\ Held(j)'  BY <1>1, <1>3 DEF Sound, Ended, Gated, Held, Owes
  <2>2. Judged(j)'
    <3>1. Judged(j)  BY <1>1 DEF Sound
    <3>2. CASE pc[j] = "grace" /\ Draining(seen[j])
      <4>1. seen[j] \in Attempts /\ graceAge[j] <= drainAge[seen[j]] /\ drainAge[seen[j]] \in Nat /\ graceAge[j] \in Nat
        BY <1>1, <3>1, <3>2 DEF Judged, TypeOK
      <4>2. drainAge'[seen[j]] = drainAge[seen[j]] + 1 /\ graceAge'[j] <= graceAge[j] + 1
        BY <1>3, <3>2, <4>1
      <4> QED BY <1>3, <3>1, <3>2, <4>1, <4>2 DEF Judged, TypeOK
    <3>3. CASE ~(pc[j] = "grace" /\ Draining(seen[j]))  BY <1>3, <3>1, <3>3 DEF Judged
    <3> QED BY <3>2, <3>3
  <2> QED BY <2>1, <2>2 DEF Sound
<1>5. FencesAccountedFor'  BY <1>1, <1>3 DEF FencesAccountedFor
<1> QED BY <1>2, <1>4, <1>5 DEF IInv, Sound

\* The lock is linked, or its owner's release and rollback end.
LEMMA OwnerKeeps ==
    ASSUME IInv, NEW a \in Attempts, OneJudge',
           Link(a) \/ Arm(a) \/ CheckOwn(a) \/ UnlinkOwn(a) \/ Finish(a) \/ ReleaseFails(a) \/ RollbackFails(a)
    PROVE  IInv'
<1>1. TypeOK /\ FencesAccountedFor /\ (\A j \in Attempts : Sound(j)) /\ a \in Attempts  BY Unfolded
<1>2. TypeOK'  BY <1>1, AcquiringTyped, OthersTyped DEF Acquiring, Releasing, Faults
<1>3. /\ UNCHANGED <<alive, gate, backend, drainAge, moved, seen, gseen, graceAge>> /\ Alive(a)
      /\ \A j \in Attempts : j # a => Apart(j) /\ (j \in fence' <=> j \in fence)
      /\ lock' = lock \/ lock = None \/ lock = a
      /\ pc[a] \in Owning \cup Unfencing \cup {"try"}
      /\ pc'[a] \in Owning \cup Unfencing \cup {"inspect", "released", "failed", "rollbackLost"}
  <2> USE <1>1 DEF Apart, TypeOK, Unfencing, Checks, AfterCheck, AfterUnlink, Sound, Held, Owes
  <2>1. CASE Link(a) \/ Arm(a)  BY <2>1 DEF Link, Arm, Armed
  <2>2. CASE CheckOwn(a)  BY <2>2 DEF CheckOwn
  <2>3. CASE UnlinkOwn(a)  BY <2>3 DEF UnlinkOwn
  <2>4. CASE Finish(a) \/ ReleaseFails(a) \/ RollbackFails(a)
    BY <2>4 DEF Finish, DropFence, ReleaseFails, RollbackFails
  <2> QED BY <2>1, <2>2, <2>3, <2>4
<1>4. Sound(a)'
  <2> USE <1>1, <1>2, <1>3 DEF Sound, Ended, Gated, Judged, Held, TypeOK, Unfencing, Owes
  <2>1. CASE Link(a)  BY <2>1 DEF Link
  <2>2. CASE Arm(a)  BY <2>2 DEF Arm, Armed
  <2>3. CASE CheckOwn(a)  BY <2>3 DEF CheckOwn, Checks, AfterCheck
  <2>4. CASE UnlinkOwn(a)  BY <2>4 DEF UnlinkOwn, AfterUnlink
  <2>5. CASE Finish(a)  BY <2>5 DEF Finish, DropFence
  <2>6. CASE ReleaseFails(a) \/ RollbackFails(a)  BY <2>6 DEF ReleaseFails, RollbackFails
  <2> QED BY <2>1, <2>2, <2>3, <2>4, <2>5, <2>6
<1>5. ASSUME NEW j \in Attempts, j # a PROVE Sound(j)'
  <2>1. Sound(j) /\ Apart(j) /\ (j \in fence' <=> j \in fence)  BY <1>1, <1>3, <1>5
  <2>2. Ended(j)' /\ Gated(j)'  BY <1>3, <2>1 DEF Sound, Ended, Gated, Apart
  <2>3. Judged(j)'
    <3>1. pc[j] = "unlink" => lock' = lock  BY <1>1, <1>3, <2>1 DEF Sound, Judged
    <3>2. pc[j] \in Reclaiming => seen[j] # a  BY <1>3, <2>1 DEF Sound, Judged
    <3>3. pc[j] \in Reclaiming => seen[j] \in Attempts /\ (seen[j] \in fence' <=> seen[j] \in fence)
      BY <1>1, <1>3, <2>1, <3>2 DEF Sound, Judged, TypeOK
    <3> QED BY <1>3, <2>1, <3>1, <3>3 DEF Sound, Judged, Apart
  <2>4. Held(j)'
    <3>1. lock = j => lock' = lock  BY <1>1, <1>3, <1>5 DEF TypeOK
    <3> QED BY <1>3, <2>1, <3>1 DEF Sound, Held, Apart
  <2> QED BY <2>2, <2>3, <2>4 DEF Sound
<1>6. FencesAccountedFor'
  <2> USE DEF FencesAccountedFor, Unfencing
  <2> SUFFICES ASSUME NEW j \in Attempts, j \in fence', Alive(j)
               PROVE  lock' = j \/ pc'[j] \in Unfencing \cup {"rollbackLost"}
    BY <1>2, <1>3 DEF TypeOK
  <2>1. CASE j # a  BY <1>1, <1>3, <2>1 DEF Apart, TypeOK
  <2>2. CASE j = a
    <3> USE <1>1, <2>2 DEF TypeOK, Sound, Held
    <3>1. CASE Link(a)  BY <3>1 DEF Link
    <3>2. CASE Arm(a)  BY <3>2 DEF Arm, Armed
    <3>3. CASE CheckOwn(a)  BY <3>3 DEF CheckOwn, Checks, AfterCheck
    <3>4. CASE UnlinkOwn(a)  BY <3>4 DEF UnlinkOwn, AfterUnlink
    <3>5. CASE Finish(a)  BY <3>5 DEF Finish, DropFence
    <3>6. CASE ReleaseFails(a) \/ RollbackFails(a)  BY <3>6 DEF ReleaseFails, RollbackFails
    <3> QED BY <3>1, <3>2, <3>3, <3>4, <3>5, <3>6
  <2> QED BY <2>1, <2>2
<1> QED BY <1>2, <1>4, <1>5, <1>6 DEF IInv, Sound

\* The gate changes hands.
LEMMA GateKeeps ==
    ASSUME IInv, NEW a \in Attempts, OneJudge',
           \/ EnterGate(a) \/ RetireGate(a) \/ SettleRetired(a)
           \/ CheckGate(a) \/ VacateGate(a) \/ RetryGateRelease(a)
    PROVE  IInv'
<1>1. TypeOK /\ OneJudge /\ FencesAccountedFor /\ (\A j \in Attempts : Sound(j)) /\ a \in Attempts  BY Unfolded
<1>2. TypeOK'  BY <1>1, AcquiringTyped DEF Acquiring
<1>3. /\ UNCHANGED <<alive, lock, fence, backend, drainAge, seen, gseen, graceAge>> /\ Alive(a)
      /\ \A j \in Attempts : j # a => Apart(j)
      /\ \/ gate' = gate
         \/ gate = None /\ gate' = a /\ pc[a] = "gate"
         \/ gate' = None /\ (gate = a \/ gate = None \/ pc[a] = "retire")
      /\ pc[a] \notin {"retired", "gateLost"} \cup Unfencing \cup {"rollbackLost"} \/ gate' = gate
      /\ pc[a] \notin Unfencing \cup {"rollbackLost"}
  <2> USE <1>1 DEF Apart, TypeOK, Unfencing, Sound, Gated, Owes
  <2>1. CASE EnterGate(a)  BY <2>1 DEF EnterGate
  <2>2. CASE RetireGate(a)  BY <2>2 DEF RetireGate
  <2>3. CASE SettleRetired(a)  BY <2>3 DEF SettleRetired, MovedSame
  <2>4. CASE CheckGate(a)  BY <2>4 DEF CheckGate
  <2>5. CASE VacateGate(a)  BY <2>5 DEF VacateGate
  <2>6. CASE RetryGateRelease(a)  BY <2>6 DEF RetryGateRelease
  <2> QED BY <2>1, <2>2, <2>3, <2>4, <2>5, <2>6
<1>4. Sound(a)'
  <2> USE <1>1, <1>2, <1>3 DEF Sound, Ended, Gated, Judged, Held, TypeOK, Owes
  <2>1. CASE EnterGate(a)  BY <2>1 DEF EnterGate
  <2>2. CASE RetireGate(a)  BY <2>2 DEF RetireGate
  <2>3. CASE SettleRetired(a)  BY <2>3 DEF SettleRetired, MovedSame
  <2>4. CASE CheckGate(a)  BY <2>4 DEF CheckGate
  <2>5. CASE VacateGate(a)  BY <2>5 DEF VacateGate
  <2>6. CASE RetryGateRelease(a)  BY <2>6 DEF RetryGateRelease
  <2> QED BY <2>1, <2>2, <2>3, <2>4, <2>5, <2>6
<1>5. ASSUME NEW j \in Attempts, j # a PROVE Sound(j)'
  <2>1. Sound(j) /\ Sound(a) /\ Apart(j)  BY <1>1, <1>3, <1>5
  <2>2. Ended(j)' /\ Judged(j)' /\ Held(j)'
    BY <1>1, <1>3, <2>1 DEF Sound, Ended, Judged, Held, Apart, TypeOK
  <2>3. pc[j] \in InGate => gate' = gate
    BY <1>1, <1>3, <1>5, <2>1 DEF Sound, Gated, Ended, TypeOK
  <2>4. pc[j] = "retire" => gate' = gate
    BY <1>1, <1>3, <1>5, <2>1 DEF Sound, Gated, OneJudge
  <2> QED BY <1>3, <2>1, <2>2, <2>3, <2>4 DEF Sound, Gated, Apart
<1>6. FencesAccountedFor'  BY <1>1, <1>3 DEF FencesAccountedFor, Apart, TypeOK
<1> QED BY <1>2, <1>4, <1>5, <1>6 DEF IInv, Sound

\* The dead owner's lock is unlinked: no call owns it and no tree is left.
LEMMA UnlinkDeadKeeps == ASSUME IInv, NEW a \in Attempts, OneJudge', UnlinkDead(a) PROVE IInv'
<1>1. TypeOK /\ FencesAccountedFor /\ (\A j \in Attempts : Sound(j)) /\ a \in Attempts  BY Unfolded
<1>2. TypeOK'  BY <1>1, AcquiringTyped DEF Acquiring
<1>3. /\ UNCHANGED <<alive, fence, gate, backend, drainAge, seen, gseen, graceAge, moved, pending>> /\ Alive(a)
      /\ lock' = None /\ pc[a] = "unlink" /\ pc' = [pc EXCEPT ![a] = "ungate"]
  BY DEF UnlinkDead
<1>4. /\ lock = seen[a] /\ lock \in Attempts /\ Dead(lock) /\ lock \notin fence /\ backend[lock] = "none"
      /\ pc[lock] \notin Owning /\ gate = a
  <2>1. lock = seen[a] /\ lock \in Attempts /\ Dead(lock) /\ lock \notin fence /\ ~Draining(lock) /\ gate = a
    BY <1>1, <1>3 DEF Sound, Judged, Gated, TypeOK
  <2>2. Sound(lock)  BY <1>1, <2>1
  <2> QED BY <1>1, <2>1, <2>2 DEF Sound, Held, Ended, TypeOK
<1>5. ASSUME NEW j \in Attempts PROVE Sound(j)'
  <2>1. Sound(j)  BY <1>1
  <2>2. pc[j] # "unlink" \/ j = a  BY <1>3, <1>4, <2>1 DEF Sound, Gated
  <2>3. Ended(j)' /\ Gated(j)' /\ Judged(j)'
    BY <1>1, <1>3, <1>4, <2>1, <2>2 DEF Sound, Ended, Gated, Judged, TypeOK, Owes
  <2>4. Held(j)'  BY <1>1, <1>3, <1>4, <2>1 DEF Sound, Held, TypeOK
  <2> QED BY <2>3, <2>4 DEF Sound
<1>6. FencesAccountedFor'
  BY <1>1, <1>3, <1>4 DEF FencesAccountedFor, TypeOK, Unfencing
<1> QED BY <1>2, <1>5, <1>6 DEF IInv, Sound

\* The backend starts, stops, is poisoned, is drained or survives its owner.
LEMMA BackendKeeps ==
    ASSUME IInv, NEW a \in Attempts, OneJudge',
           StartBackend(a) \/ StopBackend(a) \/ Poison(a) \/ Drained(a) \/ Survives(a)
    PROVE  IInv'
<1>1. TypeOK /\ FencesAccountedFor /\ (\A j \in Attempts : Sound(j)) /\ a \in Attempts  BY Unfolded
<1>2. TypeOK'  BY <1>1, OthersTyped DEF Caller
<1>3. /\ UNCHANGED <<alive, lock, gate, drainAge, seen, gseen, graceAge, moved, pc, pending>>
      /\ \A j \in Attempts : j # a => backend'[j] = backend[j] /\ (j \in fence' <=> j \in fence)
      /\ fence' = fence \/ (Alive(a) /\ lock = a)
      /\ backend'[a] # "draining"
  <2> USE <1>1 DEF TypeOK
  <2>1. CASE StartBackend(a) \/ StopBackend(a)  BY <2>1 DEF StartBackend, StopBackend
  <2>2. CASE Poison(a)  BY <2>2 DEF Poison
  <2>3. CASE Drained(a) \/ Survives(a)  BY <2>3 DEF Drained, Survives
  <2> QED BY <2>1, <2>2, <2>3
<1>4. ASSUME NEW j \in Attempts PROVE Sound(j)'
  <2>1. Sound(j)  BY <1>1
  <2>2. Ended(j)' /\ Gated(j)'  BY <1>3, <2>1 DEF Sound, Ended, Gated, Owes
  <2>3. Judged(j)'
    <3>1. pc[j] \in Reclaiming => seen[j] \in Attempts /\ (Draining(seen[j])' => Draining(seen[j]))
                                  /\ (seen[j] \in fence' <=> seen[j] \in fence)
      BY <1>1, <1>3, <2>1 DEF Sound, Judged, TypeOK
    <3> QED BY <1>3, <2>1, <3>1 DEF Sound, Judged
  <2>4. Held(j)'
    <3>1. CASE j # a  BY <1>1, <1>3, <2>1, <3>1 DEF Sound, Held, TypeOK
    <3>2. CASE j = a
      <4> USE <1>1, <1>3, <2>1, <3>2 DEF Sound, Held, TypeOK
      <4>1. CASE StartBackend(a) \/ StopBackend(a)  BY <4>1 DEF StartBackend, StopBackend
      <4>2. CASE Poison(a)  BY <4>2 DEF Poison
      <4>3. CASE Drained(a) \/ Survives(a)  BY <4>3 DEF Drained, Survives
      <4> QED BY <4>1, <4>2, <4>3
    <3> QED BY <3>1, <3>2
  <2> QED BY <2>2, <2>3, <2>4 DEF Sound
<1>5. FencesAccountedFor'  BY <1>1, <1>2, <1>3 DEF FencesAccountedFor, TypeOK
<1> QED BY <1>2, <1>4, <1>5 DEF IInv, Sound

\* A process dies, wherever its calls are.
LEMMA CrashKeeps == ASSUME IInv, NEW p \in Procs, OneJudge', Crash(p) PROVE IInv'
<1>1. TypeOK /\ FencesAccountedFor /\ (\A j \in Attempts : Sound(j))  BY Unfolded
<1>2. TypeOK'  BY <1>1, CrashTyped
<1>3. p \in alive /\ alive' = alive \ {p} /\ UNCHANGED <<lock, claims, fence, gate>>
  BY DEF Crash
<1>4. ASSUME NEW j \in Attempts, ProcOf[j] # p
      PROVE  /\ pc'[j] = pc[j] /\ backend'[j] = backend[j] /\ drainAge'[j] = drainAge[j] /\ moved'[j] = moved[j]
             /\ seen'[j] = seen[j] /\ gseen'[j] = gseen[j] /\ graceAge'[j] = graceAge[j]
             /\ Owes(j)' => Owes(j)
  BY <1>4 DEF Crash, Owes
<1>5. ASSUME NEW j \in Attempts, ProcOf[j] = p
      PROVE  /\ pc'[j] = (IF pc[j] \notin {"idle", "released"} THEN "dead" ELSE pc[j])
             /\ backend'[j] = (IF backend[j] = "running" THEN "draining" ELSE backend[j])
             /\ ~Owes(j)'
  BY <1>5 DEF Crash, Owes
<1>6. ASSUME NEW j \in Attempts PROVE Sound(j)'
  <2>1. Sound(j)  BY <1>1
  <2>2. CASE ProcOf[j] = p
    <3>1. pc'[j] \in {"idle", "released", "dead"} /\ ~Alive(j)'  BY <1>3, <1>5, <2>2
    <3>2. Ended(j)' /\ Gated(j)' /\ Judged(j)'  BY <1>5, <2>2, <3>1 DEF Ended, Gated, Judged
    <3>3. Held(j)'  BY <1>3, <1>5, <2>1, <2>2, <3>1 DEF Sound, Held
    <3> QED BY <3>2, <3>3 DEF Sound
  <2>3. CASE ProcOf[j] # p
    <3>1. Ended(j)' /\ Held(j)'  BY <1>3, <1>4, <2>1, <2>3 DEF Sound, Ended, Held
    <3>2. Gated(j)'  BY <1>3, <1>4, <2>1, <2>3 DEF Sound, Gated
    <3>3. Judged(j)'
      <4>1. pc[j] \in Reclaiming => seen[j] \in Attempts /\ ProcOf[seen[j]] # p
        BY <1>1, <1>3, <2>1 DEF Sound, Judged, TypeOK
      <4>2. pc[j] \in Reclaiming => backend'[seen[j]] = backend[seen[j]] /\ drainAge'[seen[j]] = drainAge[seen[j]]
        BY <1>4, <4>1
      <4> QED BY <1>3, <1>4, <2>1, <2>3, <4>1, <4>2 DEF Sound, Judged
    <3> QED BY <3>1, <3>2, <3>3 DEF Sound
  <2> QED BY <2>2, <2>3
<1>7. FencesAccountedFor'  BY <1>1, <1>3, <1>4 DEF FencesAccountedFor, TypeOK
<1> QED BY <1>2, <1>6, <1>7 DEF IInv, Sound

-----------------------------------------------------------------------------
LEMMA QuietKeeps == ASSUME IInv, [Next /\ OneJudge']_vars PROVE IInv'
<1>1. CASE UNCHANGED vars
  <2>1. TypeOK /\ OneJudge /\ FencesAccountedFor /\ \A j \in Attempts : Sound(j)  BY Unfolded
  <2>2. /\ Still /\ UNCHANGED <<pc, seen, gseen, moved, graceAge, pending>> /\ TypeOK'
    BY <1>1, <2>1, NextTyped DEF vars, Still
  <2>3. \A j \in Attempts : Apart(j)  BY <2>2 DEF Apart, Still, Owes
  <2>4. FencesAccountedFor' /\ OneJudge'  BY <2>1, <2>2 DEF FencesAccountedFor, Still, OneJudge
  <2> QED BY <2>1, <2>2, <2>3, <2>4, StillApart DEF IInv, Sound
<1>2. CASE Next /\ OneJudge'
  <2>1. ASSUME NEW a \in Attempts, Acquiring(a) PROVE IInv'
    BY <1>2, <2>1, ReadsKeep, OwnerKeeps, GateKeeps, UnlinkDeadKeeps DEF Acquiring
  <2>2. ASSUME NEW a \in Attempts, Releasing(a) \/ Faults(a) PROVE IInv'
    BY <1>2, <2>2, OwnerKeeps, ReadsKeep DEF Releasing, Faults
  <2>3. ASSUME NEW a \in Attempts, Caller(a) \/ Drained(a) \/ Survives(a) PROVE IInv'
    BY <1>2, <2>3, BackendKeeps, ReadsKeep DEF Caller
  <2> QED BY <1>2, <2>1, <2>2, <2>3, CleanupKeeps, CrashKeeps, TickKeeps DEF Next
<1> QED BY <1>1, <1>2

LEMMA InitSound == Init => IInv
<1> SUFFICES ASSUME Init PROVE IInv  OBVIOUS
<1>1. TypeOK  BY InitTyped
<1>2. OneJudge /\ FencesAccountedFor  BY DEF Init, OneJudge, FencesAccountedFor
<1>3. \A a \in Attempts : Ended(a) /\ Gated(a) /\ Judged(a) /\ Held(a)
  BY DEF Init, Ended, Gated, Judged, Held, Owes
<1> QED BY <1>1, <1>2, <1>3 DEF IInv

\* The invariant of the lock file, the gate and the fences: for any number of
\* processes and calls that die anywhere, as long as no two calls have judged
\* the same gate stale.
THEOREM LockConsistent == QuietSpec => []IInv
<1>1. Init => IInv  BY InitSound
<1>2. IInv /\ [Next /\ OneJudge']_vars => IInv'  BY QuietKeeps
<1> QED BY <1>1, <1>2, PTL DEF QuietSpec

LEMMA Exclusive == IInv => OneAtATime
<1> SUFFICES ASSUME IInv PROVE ExclusiveUse /\ OneReclaimer  BY DEF OneAtATime
<1>1. \A a \in Attempts : Gated(a) /\ Held(a)  BY DEF IInv
<1> QED BY <1>1 DEF ExclusiveUse, Using, OneReclaimer, Gated, Held

\* One call at a time has the lock or a tree under it, and one is in the gate.
THEOREM LockIsExclusive == QuietSpec => []OneAtATime
<1>1. IInv => OneAtATime  BY Exclusive
<1> QED BY <1>1, LockConsistent, PTL

\* No claim and no fence is left behind by a live process that does not need it.
THEOREM FilesAreRemoved == QuietSpec => []FilesAccountedFor
<1>1. IInv => FencesAccountedFor  BY DEF IInv
<1>2. [Next /\ OneJudge']_vars => [Next]_vars  OBVIOUS
<1>3. QuietSpec => Spec  BY <1>2, PTL DEF QuietSpec, Spec
<1> QED BY <1>1, <1>3, LockConsistent, ClaimsAreRemoved, PTL DEF FilesAccountedFor

\* What disappears from the lock path is a dead call's without a fence, or its
\* own owner's to remove; what is deleted as a stale gate was a dead call's.
THEOREM OnlyTheDeadAreReclaimed == QuietSpec => OnlyDeadDiscarded
<1>1. ASSUME IInv, [Next /\ OneJudge']_vars
      PROVE  [\A a \in Attempts :
                /\ lock = a /\ lock' # a =>
                     \/ pc[a] \in DOMAIN AfterUnlink
                     \/ Dead(a) /\ a \notin fence
                /\ pc[a] = "retired" /\ pc'[a] = "gate" /\ gate' = gate => Dead(moved[a])]_vars
  <2>1. TypeOK /\ \A a \in Attempts : Judged(a) /\ Held(a) /\ Gated(a)  BY <1>1 DEF IInv
  <2>2. \/ UNCHANGED vars \/ UNCHANGED lock
        \/ \E a \in Attempts : Link(a) \/ UnlinkDead(a) \/ UnlinkOwn(a)
    <3>1. ASSUME NEW a \in Attempts, Acquiring(a) PROVE UNCHANGED lock \/ Link(a) \/ UnlinkDead(a)
      BY <3>1 DEF Acquiring, Begin, WriteClaim, Inspect, Judge, EnterGate, JudgeGate, RetireGate, SettleRetired,
                  Recheck, EndGrace, Confirm, CheckGate, VacateGate, RetryGateRelease, Arm
    <3>2. ASSUME NEW a \in Attempts, Releasing(a) \/ Faults(a) PROVE UNCHANGED lock \/ UnlinkOwn(a)
      BY <3>2 DEF Releasing, CheckOwn, Finish, Faults, GiveUp, CutGrace, ReleaseFails, RollbackFails
    <3>3. ASSUME NEW a \in Attempts, Caller(a) \/ Drained(a) \/ Survives(a) PROVE UNCHANGED lock
      BY <3>3 DEF Caller, StartBackend, StopBackend, Poison, Release, Drained, Survives
    <3> QED BY <1>1, <3>1, <3>2, <3>3 DEF Next, CleanupOrphan, Crash, Tick
  <2>3. ASSUME NEW a \in Attempts, lock = a, lock' # a
        PROVE  pc[a] \in DOMAIN AfterUnlink \/ (Dead(a) /\ a \notin fence)
    <3>1. CASE UNCHANGED vars \/ UNCHANGED lock  BY <2>3, <3>1 DEF vars
    <3>2. ASSUME NEW b \in Attempts, Link(b) PROVE FALSE  BY <2>3, <3>2 DEF Link
    <3>3. ASSUME NEW b \in Attempts, UnlinkDead(b) PROVE Dead(a) /\ a \notin fence
      BY <2>1, <2>3, <3>3 DEF UnlinkDead, Judged
    <3>4. ASSUME NEW b \in Attempts, UnlinkOwn(b) PROVE pc[a] \in DOMAIN AfterUnlink
      BY <2>1, <2>3, <3>4 DEF UnlinkOwn, AfterUnlink, Held
    <3> QED BY <2>2, <3>1, <3>2, <3>3, <3>4
  <2>4. \A a \in Attempts : pc[a] = "retired" => Dead(moved[a])  BY <2>1 DEF Gated
  <2> QED BY <2>3, <2>4
<1> QED BY <1>1, LockConsistent, PTL DEF QuietSpec, OnlyDeadDiscarded

-----------------------------------------------------------------------------
\* While nobody dies inside the gate, no gate is stale and nobody judges one.
LiveGate ==
    /\ gate # None => pc[gate] \in InGate
    /\ \A a \in Attempts : pc[a] \notin {"retire", "retired"}

LEMMA LiveGateKept == ASSUME ~GateCrashes, IInv, LiveGate, [Next]_vars PROVE LiveGate'
<1>1. TypeOK /\ \A a \in Attempts : Ended(a) /\ Gated(a)  BY DEF IInv
<1> USE <1>1 DEF TypeOK, LiveGate
<1>2. ASSUME NEW a \in Attempts, Acquiring(a) PROVE LiveGate'
  <2>1. CASE Begin(a) \/ WriteClaim(a) \/ Link(a) \/ Inspect(a) \/ Judge(a)
    BY <2>1 DEF Begin, WriteClaim, Link, Inspect, Judge
  <2>2. CASE EnterGate(a) \/ RetireGate(a) \/ SettleRetired(a)
    BY <2>2 DEF EnterGate, RetireGate, SettleRetired
  <2>3. CASE JudgeGate(a)  BY <2>3 DEF JudgeGate, GateStale, Ended
  <2>4. CASE Recheck(a) \/ EndGrace(a) \/ Confirm(a) \/ UnlinkDead(a)
    BY <2>4 DEF Recheck, EndGrace, Confirm, UnlinkDead
  <2>5. CASE CheckGate(a) \/ VacateGate(a) \/ RetryGateRelease(a) \/ Arm(a)
    BY <2>5 DEF CheckGate, VacateGate, RetryGateRelease, Arm, Gated
  <2> QED BY <1>2, <2>1, <2>2, <2>3, <2>4, <2>5 DEF Acquiring
<1>3. ASSUME NEW a \in Attempts, Releasing(a) PROVE LiveGate'
  BY <1>3 DEF Releasing, CheckOwn, UnlinkOwn, Finish, Checks, AfterCheck, AfterUnlink, Unfencing
<1>4. ASSUME NEW a \in Attempts, Faults(a) PROVE LiveGate'
  BY <1>4 DEF Faults, GiveUp, CutGrace, ReleaseFails, RollbackFails
<1>5. ASSUME NEW a \in Attempts, Caller(a) \/ Drained(a) \/ Survives(a) PROVE LiveGate'
  BY <1>5 DEF Caller, StartBackend, StopBackend, Poison, Release, Drained, Survives
<1>6. ASSUME NEW a \in Attempts, NEW b \in Attempts, CleanupOrphan(a, b) PROVE LiveGate'  BY <1>6 DEF CleanupOrphan
<1>7. ASSUME NEW p \in Procs, Crash(p) PROVE LiveGate'
  <2>1. \A a \in Attempts : ProcOf[a] = p => pc[a] \notin InGate  BY <1>7 DEF Crash
  <2>2. \A a \in Attempts : pc'[a] = pc[a] \/ (ProcOf[a] = p /\ pc'[a] = "dead")  BY <1>7 DEF Crash
  <2> QED BY <1>7, <2>1, <2>2 DEF Crash
<1>8. CASE Tick  BY <1>8 DEF Tick
<1>9. CASE UNCHANGED vars  BY <1>9 DEF vars
<1> QED BY <1>2, <1>3, <1>4, <1>5, <1>6, <1>7, <1>8, <1>9 DEF Next

\* The lock is exclusive for any calls, deaths and times if nobody dies inside
\* the gate; the counterexample with such a death is OwnershipLockSteal's.
THEOREM ExclusiveWithoutGateDeaths == ~GateCrashes => (Spec => []OneAtATime)
<1> SUFFICES ASSUME ~GateCrashes PROVE Spec => []OneAtATime  OBVIOUS
<1>1. Init => LiveGate  BY DEF Init, LiveGate
<1>2. IInv /\ LiveGate /\ [Next]_vars => LiveGate' /\ IInv'
  <2> SUFFICES ASSUME IInv, LiveGate, [Next]_vars PROVE LiveGate' /\ IInv'  OBVIOUS
  <2>1. LiveGate'  BY LiveGateKept
  <2>2. OneJudge'  BY <2>1 DEF LiveGate, OneJudge
  <2>3. [Next /\ OneJudge']_vars  BY <2>2
  <2> QED BY <2>1, <2>3, QuietKeeps
<1>3. Init => IInv  BY InitSound
<1>4. IInv => OneAtATime  BY Exclusive
<1> QED BY <1>1, <1>2, <1>3, <1>4, PTL DEF Spec
=============================================================================
