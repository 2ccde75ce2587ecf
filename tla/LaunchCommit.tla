---------------------------- MODULE LaunchCommit ----------------------------
(***************************************************************************)
(* The launch of a dynamic workflow: src/workflows/manager.mjs (start,      *)
(* acceptStart, commitStart, rollbackStart, stop, stopAll, loadHistory),    *)
(* the broker's acknowledged response (broker.mjs), the MCP bridge of the   *)
(* agent (mcp-server.mjs), and the run's files (journal.mjs).               *)
(*                                                                          *)
(* A launch allocates its lease, journal and index entry, answers the       *)
(* bridge over a socket that may break, and executes only after             *)
(* launch-committed.json is durable.  The host may crash or lose power      *)
(* between any two steps; another cc process may run startup recovery over  *)
(* the same state root meanwhile.  Between two awaits JavaScript runs       *)
(* without interruption, so an action is the code between two awaits.       *)
(***************************************************************************)
EXTENDS Naturals, Sequences, FiniteSets

CONSTANTS
    Launches,       \* calls of the Workflow tool, or /workflow commands
    Human,          \* those that a person makes: no bridge, not deferred
    MaxLive,        \* WORKFLOW_LIMITS.maxLiveRuns
    MaxCrashes,     \* bound: host crashes and power failures
    MaxFails,       \* bound: failed file-system calls
    MaxRecoveries   \* bound: startups of a cc process on this state root

ASSUME LaunchAssumption ==
    /\ Human \subseteq Launches
    /\ IsFiniteSet(Launches)
    /\ {MaxLive, MaxCrashes, MaxFails, MaxRecoveries} \subseteq Nat

VARIABLES
    client,      \* [l]: the bridge's call(), or what the person was told
    clientOpen, hostOpen,   \* [l]: the two ends of the call's socket
    toHost, toClient,       \* [l]: frames under way
    pc,          \* [l]: the broker request, or the /workflow command
    ctrl,        \* [l]: the request's AbortController has aborted
    appr,        \* [l]: approvalController has aborted
    revoked,     \* [l]: the grant of the bridge is gone
    runs,        \* this.runs
    acc,         \* [l]: responseAcceptanceState
    commit,      \* [l]: the commit transaction (commitPromise)
    exec,        \* [l]: run.execution
    runAborted,  \* [l]: run.abortController has aborted
    ran,         \* launches whose source has begun, ever
    roll,        \* [l]: rollbackPromise
    clean,       \* [l][who]: #cleanupUncommittedRun under way
    cleanups,    \* this.failedStartCleanups
    fence,       \* this.restartRequiredFailure
    stopPc, awaited,        \* stopAll, and the rollbacks it waits for
    hist,        \* this.history
    dir, idx, mark, lease,  \* [l]: run directory, index entry, marker, lease
    rstep,       \* [l]: loadHistory of another process, on the candidate l
    crashes, fails, recoveries

clientVars == <<client, clientOpen>>
netVars == <<hostOpen, toHost, toClient>>
callVars == <<pc, ctrl, revoked>>
runVars == <<runs, acc, commit, exec, ran>>
cleanVars == <<roll, clean, cleanups>>
fenceVars == <<fence, appr, runAborted>>
hostVars == <<stopPc, awaited, hist>>
diskVars == <<dir, idx, mark, lease>>
counts == <<crashes, fails, recoveries>>
vars == <<clientVars, netVars, callVars, runVars, cleanVars, fenceVars,
          hostVars, diskVars, rstep, counts>>

Agents == Launches \ Human
Cleaners == {"start", "roll", "stop"}

\* Steps of start(); from "mkdir" on the run and its lease exist.
Allocating == {"mkdir", "meta", "index", "record"}
Starting == {"approve", "lease"} \cup Allocating
Waiting == {"awaitAck", "awaitConfirm"}
\* Accepted by nobody yet, so that a stop rolls the launch back.
Committing == {"committing", "published", "commit-cancelled"}
Unaccepted == {"awaiting", "accepted"} \cup Committing
Told == {"started", "failed", "unresolved"}

Init ==
    /\ client = [l \in Launches |-> "idle"]
    /\ clientOpen = [l \in Launches |-> FALSE]
    /\ hostOpen = [l \in Launches |-> FALSE]
    /\ toHost = [l \in Launches |-> <<>>]
    /\ toClient = [l \in Launches |-> <<>>]
    /\ pc = [l \in Launches |-> "idle"]
    /\ ctrl = [l \in Launches |-> FALSE]
    /\ appr = [l \in Launches |-> FALSE]
    /\ revoked = [l \in Launches |-> FALSE]
    /\ runs = {} /\ ran = {} /\ hist = {} /\ cleanups = {}
    /\ awaited = {}
    /\ acc = [l \in Launches |-> "none"]
    /\ commit = [l \in Launches |-> "idle"]
    /\ exec = [l \in Launches |-> "none"]
    /\ runAborted = [l \in Launches |-> FALSE]
    /\ roll = [l \in Launches |-> "idle"]
    /\ clean = [l \in Launches |-> [w \in Cleaners |-> "no"]]
    /\ fence = FALSE
    /\ stopPc = "no"
    /\ dir = [l \in Launches |-> "none"]
    /\ idx = [l \in Launches |-> "no"]
    /\ mark = [l \in Launches |-> "none"]
    /\ lease = [l \in Launches |-> "free"]
    /\ rstep = [l \in Launches |-> "no"]
    /\ crashes = 0 /\ fails = 0 /\ recoveries = 0

-----------------------------------------------------------------------------
\* The restart fence, and the checks that consult it.

\* #requireRestart: sticky; aborts pending approvals and unfinished runs.
InStart(l) == pc[l] \in Starting \/ (l \in Human /\ pc[l] \in {"commit", "clean"})
Fenced(l) == ~fence /\ l \in runs /\ exec[l] # "over"
RequireRestart ==
    /\ fence' = TRUE
    /\ appr' = [l \in Launches |-> appr[l] \/ (~fence /\ InStart(l))]
    /\ runAborted' = [l \in Launches |-> runAborted[l] \/ Fenced(l)]

RestartRefusal == fence \/ cleanups # {}
Stopping == stopPc # "no"
PendingStarts == {l \in Launches : InStart(l) \/ pc[l] = "clean"}

\* ensureLaunchActive().
Active(l) == ~appr[l] /\ ~RestartRefusal /\ ~Stopping

Admitted ==
    /\ ~RestartRefusal /\ ~Stopping
    /\ Cardinality(runs) + Cardinality(PendingStarts) < MaxLive

\* #sendResponse: nothing is written to a destroyed socket.
Send(l, frame) ==
    toClient' = [toClient EXCEPT ![l] = IF hostOpen[l] THEN Append(@, frame) ELSE @]

\* Mutant: the error frame is written by the catch and by the finally.
Reject_Twice(l) ==
    /\ pc' = [pc EXCEPT ![l] = "done"]
    /\ toClient' = [toClient EXCEPT ![l] = IF hostOpen[l] THEN @ \o <<"error", "error">> ELSE @]
    /\ client' = [client EXCEPT ![l] = IF l \in Human THEN "failed" ELSE @]
    /\ UNCHANGED <<clientOpen, hostOpen, toHost>>

\* The rejection of a call that owns nothing (any more).
Reject(l) ==
    /\ pc' = [pc EXCEPT ![l] = "done"]
    /\ Send(l, "error")
    /\ client' = [client EXCEPT ![l] = IF l \in Human THEN "failed" ELSE @]
    /\ UNCHANGED <<clientOpen, hostOpen, toHost>>

-----------------------------------------------------------------------------
\* rollbackStart, as called for every launch of L in one step.

\* Mutant: an ambiguous commit is rolled back like any other.
CanRoll_Ambiguous(l) == l \in runs /\ roll[l] = "idle"

CanRoll(l) == l \in runs /\ roll[l] = "idle" /\ acc[l] # "commit-ambiguous"
Await(l) == CanRoll(l) /\ acc[l] \in Committing
CleanNow(l) == CanRoll(l) /\ acc[l] \notin Committing
Rollback(L) ==
    LET waits == {l \in L : Await(l)}
        cleans == {l \in L : CleanNow(l)}
    IN  /\ acc' = [l \in Launches |-> IF l \in waits THEN "commit-cancelled"
                                      ELSE IF l \in cleans THEN "rolled-back" ELSE acc[l]]
        /\ runAborted' = [l \in Launches |-> runAborted[l] \/ l \in waits]
        /\ roll' = [l \in Launches |-> IF l \in waits THEN "waiting"
                                       ELSE IF l \in cleans THEN "cleaning" ELSE roll[l]]
        /\ clean' = [l \in Launches |->
                        IF l \in cleans THEN [clean[l] EXCEPT !["roll"] = "index"] ELSE clean[l]]
        /\ cleanups' = cleanups \cup cleans
        /\ UNCHANGED <<runs, commit, exec, ran, fence>>

\* The broker's catch: responseFailure().
Fail(l) == pc' = [pc EXCEPT ![l] = "rollback"] /\ Rollback({l})

\* #cleanupUncommittedRun, one file-system call at a time; any may fail.
CleanDisk(l, w) ==
    /\ dir' = [dir EXCEPT ![l] = CASE clean[l][w] = "dir" /\ @ = "full" -> "unlinked"
                                   [] clean[l][w] = "dir" /\ @ = "bare" -> "none"
                                   [] clean[l][w] = "sync" /\ @ = "unlinked" -> "none"
                                   [] OTHER -> @]
    /\ idx' = [idx EXCEPT ![l] = IF clean[l][w] = "index" THEN "no" ELSE @]
    /\ mark' = [mark EXCEPT ![l] = IF clean[l][w] = "dir" THEN "none" ELSE @]
    /\ lease' = [lease EXCEPT ![l] = IF clean[l][w] = "lease" /\ @ = "live" THEN "free" ELSE @]
AfterClean(step) ==
    CASE step = "index" -> "dir" [] step = "dir" -> "sync"
      [] step = "sync" -> "lease" [] step = "lease" -> "no"
Removed(l, w) == w = "roll" \/ (w = "stop" /\ acc[l] = "rolled-back" /\ exec[l] = "none")
CleanStep(l, w) ==
    /\ clean[l][w] # "no"
    /\ CleanDisk(l, w)
    /\ clean' = [clean EXCEPT ![l][w] = AfterClean(@)]
    /\ IF clean[l][w] = "lease"
       THEN /\ cleanups' = cleanups \ {l}
            /\ roll' = [roll EXCEPT ![l] = IF w = "roll" THEN "idle" ELSE @]
            /\ runs' = IF Removed(l, w) THEN runs \ {l} ELSE runs
       ELSE UNCHANGED <<cleanups, roll, runs>>
    /\ UNCHANGED <<clientVars, netVars, callVars, acc, commit, exec, ran, fenceVars,
                   hostVars, rstep, counts>>

\* A call may fail after it has taken effect.
CleanFails(l, w) ==
    /\ clean[l][w] # "no" /\ fails < MaxFails
    /\ fails' = fails + 1
    /\ clean' = [clean EXCEPT ![l][w] = "no"]
    /\ roll' = [roll EXCEPT ![l] = IF w = "roll" THEN "idle" ELSE @]
    /\ RequireRestart
    /\ UNCHANGED diskVars \/ (clean[l][w] # "lease" /\ CleanDisk(l, w))
    /\ UNCHANGED <<clientVars, netVars, callVars, runVars, cleanups, hostVars, rstep,
                   crashes, recoveries>>

-----------------------------------------------------------------------------
\* The bridge: call() and reconcileCommittedLaunch().

Call(l) ==
    /\ l \in Agents /\ client[l] = "idle"
    /\ client' = [client EXCEPT ![l] = "requested"]
    /\ clientOpen' = [clientOpen EXCEPT ![l] = TRUE]
    /\ hostOpen' = [hostOpen EXCEPT ![l] = TRUE]
    /\ toHost' = [toHost EXCEPT ![l] = <<"request">>]
    /\ UNCHANGED <<toClient, callVars, runVars, cleanVars, fenceVars, hostVars,
                   diskVars, rstep, counts>>

\* The call ends, or, once the confirmation is acknowledged, the outcome has
\* to be asked for: a failure may no longer be reported.
CallFails(l) ==
    /\ client' = [client EXCEPT ![l] = IF @ = "confirmed" THEN "reconciling" ELSE "failed"]
    /\ clientOpen' = [clientOpen EXCEPT ![l] = FALSE]
    /\ UNCHANGED toHost

Answers(l, answer, next) ==
    /\ client' = [client EXCEPT ![l] = next]
    /\ toHost' = [toHost EXCEPT ![l] = Append(@, answer)]
    /\ UNCHANGED clientOpen

ClientRead(l) ==
    /\ clientOpen[l] /\ toClient[l] # <<>>
    /\ toClient' = [toClient EXCEPT ![l] = Tail(@)]
    /\ LET frame == Head(toClient[l]) IN
         CASE frame = "response" /\ client[l] = "requested" ->
                  Answers(l, "ack", "acked")
           [] frame = "confirmation" /\ client[l] = "acked" ->
                  Answers(l, "confirm", "confirmed")
           [] frame = "committed" /\ client[l] = "confirmed" ->
                  /\ client' = [client EXCEPT ![l] = "started"]
                  /\ clientOpen' = [clientOpen EXCEPT ![l] = FALSE]
                  /\ UNCHANGED toHost
           [] OTHER -> CallFails(l)
    /\ UNCHANGED <<hostOpen, callVars, runVars, cleanVars, fenceVars, hostVars,
                   diskVars, rstep, counts>>

\* The adapter cancels the tool call, or the write of an answer fails.
ClientAbort(l) ==
    /\ clientOpen[l]
    /\ CallFails(l)
    /\ UNCHANGED <<hostOpen, toClient, callVars, runVars, cleanVars, fenceVars,
                   hostVars, diskVars, rstep, counts>>

\* `close' or `error'; frames not yet read are gone with the socket.
ClientClosed(l) ==
    /\ clientOpen[l] /\ ~hostOpen[l]
    /\ CallFails(l)
    /\ UNCHANGED <<hostOpen, toClient, callVars, runVars, cleanVars, fenceVars,
                   hostVars, diskVars, rstep, counts>>

\* WorkflowStatus with requireCommitted: isStartCommitted.
Committed(l) == (l \in runs /\ acc[l] = "committed" /\ exec[l] # "none") \/ l \in hist

Reconciled(l) ==
    /\ client[l] = "reconciling" /\ ~revoked[l] /\ Committed(l)
    /\ client' = [client EXCEPT ![l] = "started"]
    /\ UNCHANGED <<clientOpen, netVars, callVars, runVars, cleanVars, fenceVars,
                   hostVars, diskVars, rstep, counts>>

\* An answer that is not retried, or COMMIT_RECONCILIATION_DEADLINE_MS.
Unresolved(l) ==
    /\ client[l] = "reconciling"
    /\ client' = [client EXCEPT ![l] = "unresolved"]
    /\ UNCHANGED <<clientOpen, netVars, callVars, runVars, cleanVars, fenceVars,
                   hostVars, diskVars, rstep, counts>>

-----------------------------------------------------------------------------
\* start(): from admission to the registered run.

\* #admitStart; a person's command has no socket.
Begin(l) ==
    /\ pc' = [pc EXCEPT ![l] = IF Admitted THEN "approve" ELSE "done"]
    /\ IF l \in Human
       THEN /\ client' = [client EXCEPT ![l] = IF Admitted THEN "requested" ELSE "failed"]
            /\ UNCHANGED toClient
       ELSE /\ IF Admitted THEN UNCHANGED toClient ELSE Send(l, "error")
            /\ UNCHANGED client

HumanStart(l) ==
    /\ l \in Human /\ client[l] = "idle"
    /\ Begin(l)
    /\ UNCHANGED <<clientOpen, hostOpen, toHost, ctrl, revoked, runVars, cleanVars,
                   fenceVars, hostVars, diskVars, rstep, counts>>

\* start() fails with a run of its own: its catch cleans the run up.
CleanStart(l) ==
    /\ pc' = [pc EXCEPT ![l] = "clean"]
    /\ clean' = [clean EXCEPT ![l]["start"] = "index"]
    /\ cleanups' = cleanups \cup {l}

\* Approved; the approval may also be refused, or be cancelled.
Approve(l) ==
    /\ pc[l] = "approve"
    /\ \/ /\ Active(l)
          /\ pc' = [pc EXCEPT ![l] = "lease"]
          /\ UNCHANGED <<clientVars, netVars>>
       \/ Reject(l)
    /\ UNCHANGED <<ctrl, revoked, runVars, cleanVars, fenceVars, hostVars,
                   diskVars, rstep, counts>>

\* Mutant: the run is initialized without its lease.
TakeLease_None(l) ==
    /\ pc[l] = "lease"
    /\ IF appr[l]
       THEN Reject(l)
       ELSE pc' = [pc EXCEPT ![l] = "mkdir"] /\ UNCHANGED <<clientVars, netVars>>
    /\ UNCHANGED <<ctrl, revoked, runVars, cleanVars, fenceVars, hostVars,
                   diskVars, rstep, counts>>

TakeLease(l) ==
    /\ pc[l] = "lease"
    /\ IF appr[l]
       THEN Reject(l) /\ UNCHANGED lease
       ELSE /\ pc' = [pc EXCEPT ![l] = "mkdir"]
            /\ lease' = [lease EXCEPT ![l] = "live"]
            /\ UNCHANGED <<clientVars, netVars>>
    /\ UNCHANGED <<ctrl, revoked, runVars, cleanVars, fenceVars, hostVars,
                   dir, idx, mark, rstep, counts>>

\* journal.initialize and the recovery capsule.
AfterStep(step) ==
    CASE step = "mkdir" -> "meta" [] step = "meta" -> "index" [] step = "index" -> "record"
Write(l) ==
    /\ dir' = [dir EXCEPT ![l] = CASE pc[l] = "mkdir" -> "bare" [] pc[l] = "meta" -> "full"
                                   [] OTHER -> @]
    /\ idx' = [idx EXCEPT ![l] = IF pc[l] = "index" THEN "live" ELSE @]
Allocate(l) ==
    /\ pc[l] \in Allocating \ {"record"}
    /\ Write(l)
    /\ IF pc[l] = "index" /\ ~Active(l)
       THEN CleanStart(l)
       ELSE /\ pc' = [pc EXCEPT ![l] = AfterStep(@)]
            /\ UNCHANGED <<clean, cleanups>>
    /\ UNCHANGED <<clientVars, netVars, ctrl, revoked, runVars, roll, fenceVars,
                   hostVars, mark, lease, rstep, counts>>

\* A call may fail after it has taken effect; an index that was conclusively
\* not published takes the directory with it.
AllocateFails(l) ==
    /\ pc[l] \in Allocating /\ fails < MaxFails
    /\ fails' = fails + 1
    /\ \/ UNCHANGED <<dir, idx>>
       \/ Write(l)
       \/ pc[l] = "index" /\ dir' = [dir EXCEPT ![l] = "none"] /\ UNCHANGED idx
    /\ CleanStart(l)
    /\ UNCHANGED <<clientVars, netVars, ctrl, revoked, runVars, roll, fenceVars,
                   hostVars, mark, lease, rstep, crashes, recoveries>>

\* run_created is durable: the run is registered; the bridge is answered, or
\* the commit begins at once.
Register(l) ==
    /\ pc[l] = "record"
    /\ IF ~Active(l)
       THEN /\ CleanStart(l)
            /\ UNCHANGED <<toClient, runs, acc, commit, roll, runAborted>>
       ELSE /\ runs' = runs \cup {l}
            /\ IF l \in Human
               THEN /\ acc' = [acc EXCEPT ![l] = "committing"]
                    /\ commit' = [commit EXCEPT ![l] = "writing"]
                    /\ pc' = [pc EXCEPT ![l] = "commit"]
                    /\ UNCHANGED toClient
               ELSE /\ acc' = [acc EXCEPT ![l] = "awaiting"]
                    /\ pc' = [pc EXCEPT ![l] = "awaitAck"]
                    /\ Send(l, "response")
                    /\ UNCHANGED commit
            /\ UNCHANGED <<clean, cleanups, roll, runAborted>>
    /\ UNCHANGED <<clientVars, hostOpen, toHost, ctrl, revoked, exec, ran, fence, appr,
                   hostVars, diskVars, rstep, counts>>

\* The catch of start() has cleaned up, or failed to.
FinishClean(l) ==
    /\ pc[l] = "clean" /\ clean[l]["start"] = "no"
    /\ Reject(l)
    /\ UNCHANGED <<ctrl, revoked, runVars, cleanVars, fenceVars, hostVars,
                   diskVars, rstep, counts>>

-----------------------------------------------------------------------------
\* The broker: #connection and #request.

\* The request's controller aborts; start() listens to it.
AbortCall(l) ==
    /\ ctrl' = [ctrl EXCEPT ![l] = TRUE]
    /\ appr' = [appr EXCEPT ![l] = @ \/ InStart(l)]

\* The socket closes or is destroyed; a pending acknowledgement is rejected.
Disconnect(l) ==
    /\ hostOpen' = [hostOpen EXCEPT ![l] = FALSE]
    /\ toHost' = [toHost EXCEPT ![l] = <<>>]
    /\ AbortCall(l)
    /\ IF pc[l] \in Waiting
       THEN Fail(l)
       ELSE UNCHANGED <<pc, runVars, cleanVars, fence, runAborted>>
    /\ UNCHANGED <<clientVars, toClient, revoked, hostVars, diskVars,
                   rstep, counts>>

HostClose(l) == hostOpen[l] /\ Disconnect(l)

\* An ACK: acceptStart, then the confirmation.
Acceptable(l) ==
    l \in runs /\ acc[l] = "awaiting" /\ ~RestartRefusal /\ ~Stopping /\ ~runAborted[l]
OnAck(l) ==
    IF ~ctrl[l] /\ Acceptable(l)
    THEN /\ acc' = [acc EXCEPT ![l] = "accepted"]
         /\ pc' = [pc EXCEPT ![l] = "awaitConfirm"]
         /\ Send(l, "confirmation")
         /\ UNCHANGED <<runs, commit, exec, ran, cleanVars, fenceVars>>
    ELSE /\ Fail(l)
         /\ UNCHANGED <<toClient, appr>>

\* The final ACK: commitStart.
Committable(l) == l \in runs /\ acc[l] = "accepted" /\ ~RestartRefusal /\ ~runAborted[l]
OnConfirm(l) ==
    IF ~ctrl[l] /\ Committable(l)
    THEN /\ acc' = [acc EXCEPT ![l] = "committing"]
         /\ commit' = [commit EXCEPT ![l] = "writing"]
         /\ pc' = [pc EXCEPT ![l] = "commit"]
         /\ UNCHANGED <<runs, exec, ran, cleanVars, fence, runAborted>>
    ELSE /\ Fail(l)

HostRead(l) ==
    /\ hostOpen[l] /\ toHost[l] # <<>>
    /\ LET frame == Head(toHost[l])
           read == toHost' = [toHost EXCEPT ![l] = Tail(@)]
       IN  CASE frame = "request" ->
                    read /\ Begin(l) /\ UNCHANGED <<hostOpen, ctrl, runVars, cleanVars, fenceVars>>
             [] frame = "ack" /\ pc[l] = "awaitAck" ->
                    read /\ OnAck(l) /\ UNCHANGED <<client, hostOpen, ctrl>>
             [] frame = "confirm" /\ pc[l] = "awaitConfirm" ->
                    read /\ OnConfirm(l)
                         /\ UNCHANGED <<client, hostOpen, toClient, ctrl, appr>>
             [] OTHER -> \* an acknowledgement that is not awaited (any more)
                    /\ hostOpen' = [hostOpen EXCEPT ![l] = FALSE]
                    /\ toHost' = [toHost EXCEPT ![l] = <<>>]
                    /\ AbortCall(l)
                    /\ UNCHANGED <<client, toClient, pc, runVars, cleanVars,
                                   fence, runAborted>>
    /\ UNCHANGED <<clientOpen, revoked, hostVars, diskVars, rstep, counts>>

\* The 5 s timer of an acknowledgement.
AckTimeout(l) ==
    /\ pc[l] \in Waiting
    /\ Fail(l)
    /\ UNCHANGED <<clientVars, netVars, ctrl, revoked, appr, hostVars,
                   diskVars, rstep, counts>>

\* A retired session's token; in-flight requests of the grant are aborted.
Revoke(l) ==
    /\ l \in Agents /\ client[l] # "idle" /\ ~revoked[l]
    /\ revoked' = [revoked EXCEPT ![l] = TRUE]
    /\ IF pc[l] \in {"idle", "done"} THEN UNCHANGED <<ctrl, appr>> ELSE AbortCall(l)
    /\ UNCHANGED <<clientVars, netVars, pc, runVars, cleanVars, fence,
                   runAborted, hostVars, diskVars, rstep, counts>>

\* The rollback has settled: the error frame.
FinishRollback(l) ==
    /\ pc[l] = "rollback" /\ roll[l] = "idle"
    /\ Reject(l)
    /\ UNCHANGED <<ctrl, revoked, runVars, cleanVars, fenceVars, hostVars,
                   diskVars, rstep, counts>>

-----------------------------------------------------------------------------
\* The commit transaction: write, rename, fsync of the directory.

\* Mutant: the execution is released before the directory is synchronized.
CommitPublish_Early(l) ==
    /\ commit[l] = "writing"
    /\ commit' = [commit EXCEPT ![l] = "published"]
    /\ mark' = [mark EXCEPT ![l] = "visible"]
    /\ acc' = [acc EXCEPT ![l] = IF @ = "committing" THEN "published" ELSE @]
    /\ exec' = [exec EXCEPT ![l] = "starting"]
    /\ UNCHANGED <<clientVars, netVars, callVars, runs, ran, cleanVars, fenceVars,
                   hostVars, dir, idx, lease, rstep, counts>>

CommitPublish(l) ==
    /\ commit[l] = "writing"
    /\ commit' = [commit EXCEPT ![l] = "published"]
    /\ mark' = [mark EXCEPT ![l] = "visible"]
    /\ acc' = [acc EXCEPT ![l] = IF @ = "committing" THEN "published" ELSE @]
    /\ UNCHANGED <<clientVars, netVars, callVars, runs, exec, ran, cleanVars, fenceVars,
                   hostVars, dir, idx, lease, rstep, counts>>

\* releaseCommittedExecution; #executeRun throws at once on an aborted signal,
\* so that a rollback that waits has nothing left to stop.
CommitDone(l) ==
    /\ commit[l] = "published"
    /\ commit' = [commit EXCEPT ![l] = "idle"]
    /\ mark' = [mark EXCEPT ![l] = "durable"]
    /\ acc' = [acc EXCEPT ![l] = "committed"]
    /\ roll' = [roll EXCEPT ![l] = "idle"]
    /\ runAborted' = [runAborted EXCEPT ![l] = @ \/ fence]
    /\ exec' = [exec EXCEPT ![l] = IF runAborted'[l] THEN "over" ELSE "starting"]
    /\ UNCHANGED <<clientVars, netVars, callVars, runs, ran, clean, cleanups, fence, appr,
                   hostVars, dir, idx, lease, rstep, counts>>

\* After the rename the outcome is ambiguous; before it a rollback that waits
\* goes on to clean up.
CommitFails(l) ==
    /\ commit[l] # "idle" /\ fails < MaxFails
    /\ fails' = fails + 1
    /\ commit' = [commit EXCEPT ![l] = "idle"]
    /\ CASE commit[l] = "published" ->
                /\ acc' = [acc EXCEPT ![l] = "commit-ambiguous"]
                /\ roll' = [roll EXCEPT ![l] = "idle"]
                /\ RequireRestart
                /\ UNCHANGED <<clean, cleanups>>
         [] commit[l] = "writing" /\ roll[l] = "idle" ->
                /\ acc' = [acc EXCEPT ![l] = "accepted"]
                /\ UNCHANGED <<cleanVars, fenceVars>>
         [] commit[l] = "writing" /\ roll[l] = "waiting" ->
                /\ acc' = [acc EXCEPT ![l] = "rolled-back"]
                /\ roll' = [roll EXCEPT ![l] = "cleaning"]
                /\ clean' = [clean EXCEPT ![l]["roll"] = "index"]
                /\ cleanups' = cleanups \cup {l}
                /\ UNCHANGED fenceVars
    /\ UNCHANGED <<clientVars, netVars, callVars, runs, exec, ran, hostVars,
                   diskVars, rstep, crashes, recoveries>>

\* commitStart has settled: the broker reports the commit, or rolls back.
BrokerCommitted(l) ==
    /\ l \in Agents /\ pc[l] = "commit" /\ commit[l] = "idle"
    /\ IF acc[l] = "committed"
       THEN /\ pc' = [pc EXCEPT ![l] = "done"]
            /\ Send(l, "committed")
            /\ UNCHANGED <<runVars, cleanVars, fence, runAborted>>
       ELSE Fail(l) /\ UNCHANGED toClient
    /\ UNCHANGED <<clientVars, hostOpen, toHost, ctrl, revoked, appr, hostVars,
                   diskVars, rstep, counts>>

\* start() of a person: an ambiguous marker is kept, anything else is cleaned.
HumanCommitted(l) ==
    /\ l \in Human /\ pc[l] = "commit" /\ commit[l] = "idle"
    /\ IF acc[l] \in {"committed", "commit-ambiguous"}
       THEN /\ pc' = [pc EXCEPT ![l] = "done"]
            /\ client' = [client EXCEPT ![l] =
                   IF acc[l] = "committed" THEN "started" ELSE "unresolved"]
            /\ UNCHANGED <<runs, clean, cleanups>>
       ELSE /\ pc' = [pc EXCEPT ![l] = "clean"]
            /\ runs' = runs \ {l}
            /\ clean' = [clean EXCEPT ![l]["start"] = "index"]
            /\ cleanups' = cleanups \cup {l}
            /\ UNCHANGED client
    /\ UNCHANGED <<clientOpen, netVars, ctrl, revoked, acc, commit, exec, ran,
                   roll, fenceVars, hostVars, diskVars, rstep, counts>>

-----------------------------------------------------------------------------
\* The run, from the release of its execution to the archive.

\* Mutant: the source begins although its signal has aborted.
RunSource_Aborted(l) ==
    /\ exec[l] = "starting"
    /\ exec' = [exec EXCEPT ![l] = "running"] /\ ran' = ran \cup {l}
    /\ UNCHANGED <<clientVars, netVars, callVars, runs, acc, commit, cleanVars, fenceVars,
                   hostVars, diskVars, rstep, counts>>

RunSource(l) ==
    /\ exec[l] = "starting"
    /\ IF runAborted[l]
       THEN exec' = [exec EXCEPT ![l] = "over"] /\ UNCHANGED ran
       ELSE exec' = [exec EXCEPT ![l] = "running"] /\ ran' = ran \cup {l}
    /\ UNCHANGED <<clientVars, netVars, callVars, runs, acc, commit, cleanVars, fenceVars,
                   hostVars, diskVars, rstep, counts>>

EndRun(l) ==
    /\ exec[l] = "running"
    /\ exec' = [exec EXCEPT ![l] = "over"]
    /\ UNCHANGED <<clientVars, netVars, callVars, runs, acc, commit, ran, cleanVars,
                   fenceVars, hostVars, diskVars, rstep, counts>>

\* #archiveIfSettled.
Archive(l) ==
    /\ l \in runs /\ exec[l] = "over" /\ lease[l] = "live"
    /\ idx' = [idx EXCEPT ![l] = "archived"]
    /\ lease' = [lease EXCEPT ![l] = "free"]
    /\ runs' = runs \ {l}
    /\ hist' = hist \cup {l}
    /\ UNCHANGED <<clientVars, netVars, callVars, acc, commit, exec, ran, cleanVars,
                   fenceVars, stopPc, awaited, dir, mark, rstep, counts>>

\* stop(id) by the person or the tool.
Stop(l) ==
    /\ l \in runs /\ exec[l] # "over"
    /\ IF exec[l] = "none"
       THEN /\ acc[l] \in Unaccepted /\ roll[l] = "idle"
            /\ Rollback({l})
       ELSE /\ ~runAborted[l]
            /\ runAborted' = [runAborted EXCEPT ![l] = TRUE]
            /\ UNCHANGED <<runVars, cleanVars, fence>>
    /\ UNCHANGED <<clientVars, netVars, callVars, appr, hostVars, diskVars, rstep, counts>>

\* Another part of the manager loses control of a process or of a file.
FenceElsewhere ==
    /\ ~fence /\ fails < MaxFails
    /\ fails' = fails + 1
    /\ RequireRestart
    /\ UNCHANGED <<clientVars, netVars, callVars, runVars, cleanVars, hostVars,
                   diskVars, rstep, crashes, recoveries>>

-----------------------------------------------------------------------------
\* stopAll, one phase after the other.

NotExecuting == {l \in runs : exec[l] = "none"}
\* Mutant: shutdown does not roll back the launches nobody has accepted.
StopAll_NoRollback ==
    /\ stopPc = "no"
    /\ stopPc' = "rolling"
    /\ appr' = [l \in Launches |-> appr[l] \/ InStart(l)]
    /\ UNCHANGED <<clientVars, netVars, callVars, runVars, cleanVars, fence, runAborted,
                   awaited, hist, diskVars, rstep, counts>>

\* Mutant: shutdown does not cancel the approvals that are pending.
StopAll_NoAbort ==
    /\ stopPc = "no"
    /\ stopPc' = "rolling"
    /\ awaited' = {l \in NotExecuting : acc[l] \in Unaccepted}
    /\ Rollback(awaited')
    /\ UNCHANGED <<clientVars, netVars, callVars, appr, hist, diskVars, rstep, counts>>

StopAll ==
    /\ stopPc = "no"
    /\ stopPc' = "rolling"
    /\ appr' = [l \in Launches |-> appr[l] \/ InStart(l)]
    /\ awaited' = {l \in NotExecuting : acc[l] \in Unaccepted}
    /\ Rollback(awaited')
    /\ UNCHANGED <<clientVars, netVars, callVars, hist, diskVars, rstep, counts>>

\* The rollbacks have settled: every run is asked to stop.
StopRuns ==
    /\ stopPc = "rolling"
    /\ \A l \in awaited : roll[l] = "idle"
    /\ stopPc' = "stopping"
    /\ runAborted' = [l \in Launches |-> runAborted[l] \/ (l \in runs /\ exec[l] # "none")]
    /\ UNCHANGED <<clientVars, netVars, callVars, runVars, cleanVars, fence, appr, awaited, hist,
                   diskVars, rstep, counts>>

\* No start is pending: the failed cleanups are tried again.
RetryCleanups ==
    /\ stopPc = "stopping" /\ PendingStarts = {}
    /\ stopPc' = "cleaning"
    /\ clean' = [l \in Launches |->
                   IF l \in cleanups THEN [clean[l] EXCEPT !["stop"] = "index"] ELSE clean[l]]
    /\ UNCHANGED <<clientVars, netVars, callVars, runVars, roll, cleanups, fenceVars, awaited, hist,
                   diskVars, rstep, counts>>

StopDone ==
    /\ stopPc = "cleaning"
    /\ \A l \in Launches : clean[l]["stop"] = "no"
    /\ \A l \in runs : exec[l] \in {"none", "over"}
    /\ stopPc' = "done"
    /\ UNCHANGED <<clientVars, netVars, callVars, runVars, cleanVars, fenceVars, awaited, hist,
                   diskVars, rstep, counts>>

-----------------------------------------------------------------------------
\* The host dies (power: the machine does) and a new one takes its place.

Unsettled(l) == client[l] \notin Told \cup {"idle"}
Crash(power) ==
    /\ crashes < MaxCrashes
    /\ crashes' = crashes + 1
    /\ hostOpen' = [l \in Launches |-> FALSE]
    /\ toHost' = [l \in Launches |-> <<>>]
    /\ pc' = [l \in Launches |-> IF client[l] = "idle" THEN "idle" ELSE "done"]
    /\ revoked' = [l \in Launches |-> revoked[l] \/ (l \in Agents /\ client[l] # "idle")]
    /\ ctrl' = [l \in Launches |-> FALSE]
    /\ appr' = [l \in Launches |-> FALSE]
    /\ runs' = {} /\ hist' = {} /\ cleanups' = {}
    /\ acc' = [l \in Launches |-> "none"]
    /\ commit' = [l \in Launches |-> "idle"]
    /\ exec' = [l \in Launches |-> "none"]
    /\ runAborted' = [l \in Launches |-> FALSE]
    /\ roll' = [l \in Launches |-> "idle"]
    /\ clean' = [l \in Launches |-> [w \in Cleaners |-> "no"]]
    /\ fence' = FALSE /\ stopPc' = "no" /\ awaited' = {}
    /\ client' = [l \in Launches |->
                    IF (power \/ l \in Human) /\ Unsettled(l) THEN "unresolved" ELSE client[l]]
    /\ clientOpen' = [l \in Launches |-> clientOpen[l] /\ ~power]
    /\ toClient' = [l \in Launches |-> IF power THEN <<>> ELSE toClient[l]]
    /\ lease' = [l \in Launches |->
                   IF lease[l] = "live" \/ (power /\ lease[l] = "recovery") THEN "dead" ELSE lease[l]]
    /\ IF power
       THEN \E M \in SUBSET {l \in Launches : mark[l] = "visible"},
               D \in SUBSET {l \in Launches : dir[l] = "unlinked"} :
              /\ mark' = [l \in Launches |-> IF l \in M THEN "durable"
                              ELSE IF mark[l] = "visible" THEN "none" ELSE mark[l]]
              /\ dir' = [l \in Launches |-> IF l \in D THEN "full"
                              ELSE IF dir[l] = "unlinked" THEN "none" ELSE dir[l]]
              /\ rstep' = [l \in Launches |-> "no"]
       ELSE /\ dir' = [l \in Launches |-> IF dir[l] = "unlinked" THEN "none" ELSE dir[l]]
            /\ UNCHANGED <<mark, rstep>>
    /\ UNCHANGED <<ran, idx, fails, recoveries>>

-----------------------------------------------------------------------------
\* loadHistory of a cc process that starts, this host's successor or another.

Idle == \A l \in Launches : rstep[l] = "no"

\* Under .history-recovery.lock: the index as read, and the directories that
\* it does not name.
Missing(l) == idx[l] = "no" /\ dir[l] \in {"bare", "full"}
RecoverList ==
    /\ Idle /\ recoveries < MaxRecoveries
    /\ recoveries' = recoveries + 1
    /\ rstep' = [l \in Launches |-> IF idx[l] = "live" THEN "listed"
                                    ELSE IF Missing(l) THEN "missing" ELSE "no"]
    /\ rstep' # rstep
    /\ UNCHANGED <<clientVars, netVars, callVars, runVars, cleanVars, fenceVars, hostVars,
                   diskVars, crashes, fails>>

\* A missing run is leased at once, or still has a live owner and is put back
\* into the index.  ensureWorkflowPrivateDirectory makes a directory that has
\* gone since.
Gone(l) == dir[l] \in {"none", "unlinked"}
Protected(l) == lease[l] \in {"live", "recovery"}
RecoverMissing(l) ==
    /\ rstep[l] = "missing"
    /\ dir' = [dir EXCEPT ![l] = IF Gone(l) THEN "bare" ELSE @]
    /\ rstep' = [rstep EXCEPT ![l] = IF Protected(l) THEN "owned" ELSE "leased"]
    /\ lease' = [lease EXCEPT ![l] = IF Protected(l) THEN @ ELSE "recovery"]
    /\ UNCHANGED <<clientVars, netVars, callVars, runVars, cleanVars, fenceVars, hostVars,
                   idx, mark, counts>>

RecoverReindex(l) ==
    /\ rstep[l] = "owned"
    /\ idx' = [idx EXCEPT ![l] = "live"]
    /\ rstep' = [rstep EXCEPT ![l] = "listed"]
    /\ UNCHANGED <<clientVars, netVars, callVars, runVars, cleanVars, fenceVars, hostVars,
                   dir, mark, lease, counts>>

RecoverVisit(l) ==
    /\ rstep[l] = "listed"
    /\ rstep' = [rstep EXCEPT ![l] = "visited"]
    /\ dir' = [dir EXCEPT ![l] = IF Gone(l) THEN "bare" ELSE @]
    /\ UNCHANGED <<clientVars, netVars, callVars, runVars, cleanVars, fenceVars, hostVars,
                   idx, mark, lease, counts>>

\* A lease of a live process protects the run.
RecoverLease(l) ==
    /\ rstep[l] = "visited"
    /\ IF Protected(l)
       THEN rstep' = [rstep EXCEPT ![l] = "no"] /\ UNCHANGED lease
       ELSE /\ rstep' = [rstep EXCEPT ![l] = "leased"]
            /\ lease' = [lease EXCEPT ![l] = "recovery"]
    /\ UNCHANGED <<clientVars, netVars, callVars, runVars, cleanVars, fenceVars, hostVars,
                   dir, idx, mark, counts>>

\* A journal that requires a marker and has none is discarded; a committed
\* one, and a directory without a journal, are archived as interrupted.
RecoverJudge(l) ==
    /\ rstep[l] = "leased"
    /\ IF dir[l] = "full" /\ mark[l] = "none"
       THEN /\ idx' = [idx EXCEPT ![l] = "no"]
            /\ rstep' = [rstep EXCEPT ![l] = "unindexed"]
       ELSE /\ idx' = [idx EXCEPT ![l] = "archived"]
            /\ rstep' = [rstep EXCEPT ![l] = "settled"]
    /\ UNCHANGED <<clientVars, netVars, callVars, runVars, cleanVars, fenceVars, hostVars,
                   dir, mark, lease, counts>>

RecoverDiscard(l) ==
    /\ rstep[l] = "unindexed"
    /\ dir' = [dir EXCEPT ![l] = "none"]
    /\ mark' = [mark EXCEPT ![l] = "none"]
    /\ rstep' = [rstep EXCEPT ![l] = "settled"]
    /\ UNCHANGED <<clientVars, netVars, callVars, runVars, cleanVars, fenceVars, hostVars,
                   idx, lease, counts>>

\* Every lease is kept to the end of loadHistory.
RecoverEnd ==
    /\ ~Idle
    /\ \A l \in Launches : rstep[l] \in {"no", "settled"}
    /\ lease' = [l \in Launches |-> IF rstep[l] = "settled" THEN "free" ELSE lease[l]]
    /\ rstep' = [l \in Launches |-> "no"]
    /\ UNCHANGED <<clientVars, netVars, callVars, runVars, cleanVars, fenceVars, hostVars,
                   dir, idx, mark, counts>>

RecoverDies ==
    /\ ~Idle /\ crashes < MaxCrashes
    /\ crashes' = crashes + 1
    /\ rstep' = [l \in Launches |-> "no"]
    /\ lease' = [l \in Launches |-> IF lease[l] = "recovery" THEN "dead" ELSE lease[l]]
    /\ UNCHANGED <<clientVars, netVars, callVars, runVars, cleanVars, fenceVars, hostVars,
                   dir, idx, mark, fails, recoveries>>

-----------------------------------------------------------------------------
Bridge(l) == Call(l) \/ ClientRead(l) \/ ClientAbort(l) \/ ClientClosed(l)
             \/ Reconciled(l) \/ Unresolved(l)
Start(l) == HumanStart(l) \/ Approve(l) \/ TakeLease(l) \/ Allocate(l)
            \/ AllocateFails(l) \/ Register(l) \/ FinishClean(l)
Broker(l) == HostRead(l) \/ HostClose(l) \/ AckTimeout(l) \/ Revoke(l)
             \/ FinishRollback(l) \/ BrokerCommitted(l) \/ HumanCommitted(l)
Commit(l) == CommitPublish(l) \/ CommitDone(l) \/ CommitFails(l)
Clean(l) == \E w \in Cleaners : CleanStep(l, w) \/ CleanFails(l, w)
Execute(l) == RunSource(l) \/ EndRun(l) \/ Archive(l) \/ Stop(l)
Shutdown == StopAll \/ StopRuns \/ RetryCleanups \/ StopDone
Recover == RecoverList \/ RecoverEnd \/ RecoverDies \/ \E l \in Launches :
             RecoverMissing(l) \/ RecoverReindex(l) \/ RecoverVisit(l) \/ RecoverLease(l)
             \/ RecoverJudge(l) \/ RecoverDiscard(l)

Next ==
    \/ \E l \in Launches : Bridge(l) \/ Start(l) \/ Broker(l) \/ Commit(l) \/ Clean(l)
                           \/ Execute(l)
    \/ FenceElsewhere \/ Shutdown \/ Recover
    \/ \E power \in BOOLEAN : Crash(power)

Spec == Init /\ [][Next]_vars

\* What the code and its event loop do without being asked again: frames,
\* timers and I/O complete; a person's dialog, an approval that nobody
\* cancels and a run that nobody stops may take for ever.
Progress(l) ==
    \/ ClientRead(l) \/ ClientClosed(l)
    \/ HostRead(l) \/ (~clientOpen[l] /\ HostClose(l)) \/ AckTimeout(l)
    \/ (appr[l] /\ Approve(l)) \/ TakeLease(l) \/ Allocate(l) \/ Register(l) \/ FinishClean(l)
    \/ FinishRollback(l) \/ BrokerCommitted(l) \/ HumanCommitted(l)
Fairness ==
    /\ \A l \in Launches :
         /\ WF_vars(Progress(l))
         /\ WF_vars(Unresolved(l))
         /\ WF_vars(CommitPublish(l) \/ CommitDone(l))
         /\ \A w \in Cleaners : WF_vars(CleanStep(l, w))
         /\ WF_vars(RunSource(l)) /\ WF_vars(runAborted[l] /\ EndRun(l))
    /\ WF_vars(StopRuns \/ RetryCleanups \/ StopDone)

-----------------------------------------------------------------------------
\* Properties.

\* Every variable has its type.
TypeOK ==
    /\ client \in [Launches -> {"idle", "requested", "acked", "confirmed", "reconciling"} \cup Told]
    /\ {clientOpen, hostOpen, ctrl, appr, revoked, runAborted} \subseteq [Launches -> BOOLEAN]
    /\ toHost \in [Launches -> Seq({"request", "ack", "confirm"})]
    /\ toClient \in [Launches -> Seq({"response", "confirmation", "committed", "error"})]
    /\ \A l \in Launches : Len(toHost[l]) <= 1 /\ Len(toClient[l]) <= 2
    /\ pc \in [Launches -> Starting \cup Waiting
                             \cup {"idle", "commit", "rollback", "clean", "done"}]
    /\ {runs, ran, cleanups, awaited, hist} \subseteq SUBSET Launches
    /\ acc \in [Launches -> Unaccepted \cup {"none", "committed", "commit-ambiguous",
                                             "rolled-back"}]
    /\ commit \in [Launches -> {"idle", "writing", "published"}]
    /\ exec \in [Launches -> {"none", "starting", "running", "over"}]
    /\ roll \in [Launches -> {"idle", "waiting", "cleaning"}]
    /\ clean \in [Launches -> [Cleaners -> {"no", "index", "dir", "sync", "lease"}]]
    /\ fence \in BOOLEAN
    /\ stopPc \in {"no", "rolling", "stopping", "cleaning", "done"}
    /\ dir \in [Launches -> {"none", "bare", "full", "unlinked"}]
    /\ idx \in [Launches -> {"no", "live", "archived"}]
    /\ mark \in [Launches -> {"none", "visible", "durable"}]
    /\ lease \in [Launches -> {"free", "live", "dead", "recovery"}]
    /\ rstep \in [Launches -> {"no", "missing", "owned", "listed", "visited", "leased",
                             "unindexed", "settled"}]
    /\ crashes \in 0..MaxCrashes /\ fails \in 0..MaxFails
    /\ recoveries \in 0..MaxRecoveries

\* A live lease has somebody who will release it: a start, a registered run,
\* or a cleanup, under way or kept for shutdown behind the restart fence.
Owned(l) == lease[l] = "live" =>
    \/ pc[l] \in Allocating
    \/ l \in runs
    \/ l \in cleanups /\ (fence \/ \E w \in Cleaners : clean[l][w] # "no")
LeaseOwned == \A l \in Launches : Owned(l)

\* A marker whose rename or fsync failed may or may not survive a power loss.
\* Behind the fence everything recovery needs to tell is kept: nothing that the
\* owner still does (rollback, stop, shutdown) deletes the index entry, the
\* journal, the marker or the lease.
AmbiguousKept == \A l \in runs : mark[l] = "visible" /\ commit[l] = "idle" =>
    fence /\ idx[l] = "live" /\ dir[l] = "full" /\ lease[l] = "live"

\* No launch is left without somebody who will settle it, in this process or
\* in the one that recovers after it: cleanupUncommittedRun's failures keep
\* what commitStart's ambiguity needs.
NothingOrphaned == LeaseOwned /\ AmbiguousKept

\* Recovery works on no launch that a live host still works on.
RecoveryExclusive == \A l \in Launches : rstep[l] \in {"leased", "unindexed", "settled"} =>
    l \notin runs /\ pc[l] \notin Allocating /\ exec[l] \in {"none", "over"}

\* Shutdown leaves no launch that is neither executed nor deleted, unless it
\* raises the restart fence.
ShutdownConverges == stopPc = "done" =>
    \A l \in Launches : l \in runs \cup cleanups /\ exec[l] # "over" => fence

\* No source begins behind the restart fence, nor once stopAll has stopped the
\* runs (#executeRun after #requireRestart); and a lease outlives the journal
\* it protects: it is released only once the run is archived or its journal is
\* gone, whoever releases it.
FencesHold == [][
    /\ ran' # ran => ~fence /\ stopPc \in {"no", "rolling"}
    /\ \A l \in Launches : lease[l] # "free" /\ lease'[l] = "free" =>
          idx'[l] = "archived" \/ dir'[l] # "full"]_vars

\* tests/dynamic_workflows.test.mjs:4801: startup discards a launch that
\* never crossed the durable commit marker, so history shows none.
StartupDiscards == \A l \in Launches : idx[l] = "archived" => mark[l] # "none"

\* The caller's view, as LaunchContract promises it: what call() and start()
\* report binds disk and execution across crashes.
Contract == INSTANCE LaunchContract WITH
    kept <- {l \in Launches : mark[l] = "durable"},
    told <- [l \in Launches |-> IF client[l] \in Told THEN client[l] ELSE "nothing"]
ContractHolds == Contract!Spec

\* A bridge that has acknowledged gets its answer, and stopAll ends, whatever
\* was under way.
LaunchesSettle ==
    /\ \A l \in Agents :
         client[l] \in {"acked", "confirmed", "reconciling"} ~> client[l] \in Told
    /\ stopPc # "no" ~> stopPc \in {"done", "no"}

-----------------------------------------------------------------------------
\* What the proofs rest on (LaunchCommitProofs).

\* A launch that has no run yet, and one whose run is not committed.
Early == {"idle", "approve", "lease"}
Undecided == {"awaiting", "accepted", "rolled-back"}
Late == {"confirmed", "reconciling", "started", "unresolved"}

\* What may be under way to the bridge, by the step of the call.
Calls == {<<>>, <<"response">>, <<"confirmation">>}
FramesTo(step) ==
    CASE step = "awaitAck" -> {<<>>, <<"response">>}
      [] step = "awaitConfirm" -> {<<>>, <<"confirmation">>}
      [] step = "rollback" -> Calls
      [] step = "done" -> Calls \cup {<<"error">>, <<"response", "error">>,
                                      <<"confirmation", "error">>, <<"committed">>}
      [] OTHER -> {<<>>}
Wire(l) ==
    /\ toClient[l] \in FramesTo(pc[l])
    /\ toHost[l] \in {<<>>, <<"request">>, <<"ack">>, <<"confirm">>}
    /\ toHost[l] = <<"request">> => pc[l] = "idle" /\ client[l] # "idle"
    /\ toHost[l] = <<>> \/ toClient[l] \in {<<>>, <<"error">>, <<"committed">>}
    /\ pc[l] \in Starting => toHost[l] = <<>>
    /\ toHost[l] = <<"confirm">> => client[l] \in Late
    /\ clientOpen[l] => client[l] \in {"requested", "acked", "confirmed"}
    /\ client[l] = "idle" => pc[l] = "idle" /\ toHost[l] = <<>>
    /\ l \in Human =>
         /\ ~clientOpen[l] /\ ~hostOpen[l] /\ toHost[l] = <<>> /\ toClient[l] = <<>>
         /\ pc[l] = "idle" => client[l] = "idle"
         /\ pc[l] \notin {"idle", "done"} => client[l] = "requested"
         /\ pc[l] \notin Waiting \cup {"rollback"}

\* What pc, the acceptance, the commit transaction, the run and the marker say
\* of one launch agrees.
AccOf(step) ==
    CASE step = "awaitAck" -> {"awaiting", "rolled-back"}
      [] step = "awaitConfirm" -> {"accepted", "rolled-back"}
      [] step = "commit" -> Committing \cup {"accepted", "rolled-back", "committed", "commit-ambiguous"}
      [] step = "rollback" -> {"rolled-back", "commit-ambiguous"}
      [] step = "clean" -> {"none", "accepted", "rolled-back"}
      [] step = "done" -> {"none", "accepted", "rolled-back", "committed", "commit-ambiguous"}
      [] OTHER -> {"none"}
Decided(l) ==
    /\ acc[l] \in AccOf(pc[l])
    /\ acc[l] \in Undecided => commit[l] = "idle" /\ mark[l] = "none"
    /\ acc[l] = "none" => commit[l] = "idle"
    /\ acc[l] = "committing" => commit[l] = "writing"
    /\ acc[l] = "published" => commit[l] = "published"
    /\ acc[l] = "commit-cancelled" <=> roll[l] = "waiting"
    /\ acc[l] = "commit-cancelled" => commit[l] # "idle"
    /\ commit[l] = "writing" => mark[l] = "none"
    /\ commit[l] = "published" => mark[l] = "visible"
    /\ acc[l] = "committed" => commit[l] = "idle" /\ mark[l] = "durable" /\ exec[l] # "none"
    /\ acc[l] = "commit-ambiguous" => commit[l] = "idle" /\ mark[l] = "visible" /\ fence
    /\ exec[l] # "none" => acc[l] = "committed"
    /\ exec[l] \in {"starting", "running"} => l \in runs
    /\ roll[l] = "cleaning" <=> clean[l]["roll"] # "no"
    /\ roll[l] = "cleaning" => acc[l] = "rolled-back"

\* Who has the launch: a start, the runs, or cleanups; with its lease.
Registered(l) ==
    /\ l \in runs => acc[l] # "none" /\ lease[l] = "live"
    /\ acc[l] \in Committing \cup {"commit-ambiguous"} =>
         l \in runs /\ l \notin cleanups /\ idx[l] = "live" /\ dir[l] = "full"
    /\ acc[l] = "awaiting" \/ (acc[l] = "accepted" /\ l \in Agents) => l \in runs
    /\ l \in runs /\ acc[l] \in {"awaiting", "accepted"} => l \notin cleanups /\ idx[l] = "live" /\ dir[l] = "full"
    /\ l \in runs /\ acc[l] = "rolled-back" => l \in cleanups
    /\ l \in cleanups => acc[l] \in {"none", "accepted", "rolled-back"} /\ pc[l] \notin Starting \cup {"idle"}
    /\ pc[l] \in Allocating => lease[l] = "live" /\ mark[l] = "none"
    /\ pc[l] \in {"index", "record"} => dir[l] = "full"
    /\ pc[l] = "record" => idx[l] = "live"
    /\ pc[l] = "clean" => l \notin runs /\ mark[l] = "none"
    /\ pc[l] = "commit" /\ acc[l] \in {"accepted", "rolled-back"} /\ l \notin runs => dir[l] # "full"
    /\ pc[l] \in Early =>
         lease[l] = "free" /\ dir[l] = "none" /\ idx[l] = "no" /\ mark[l] = "none" /\ rstep[l] = "no"

\* A cleanup deletes nothing that is committed, and the lease goes last.
Cleaned(l) ==
    /\ l \in cleanups => mark[l] = "none" /\ (lease[l] = "live" \/ dir[l] # "full")
    /\ clean[l]["start"] # "no" => pc[l] = "clean"
    /\ \A w \in Cleaners : clean[l][w] # "no" =>
         /\ acc[l] \in {"none", "accepted", "rolled-back"} /\ mark[l] = "none"
         /\ acc[l] = "accepted" => l \notin runs
         /\ pc[l] \notin Starting \cup {"idle"}
         /\ lease[l] = "live" \/ dir[l] # "full"
         /\ clean[l][w] \in {"sync", "lease"} => dir[l] # "full"
         /\ lease[l] = "live" => l \in cleanups

\* What a recovery has taken the lease of is nobody else's.
Recovered(l) ==
    /\ lease[l] = "recovery" <=> rstep[l] \in {"leased", "unindexed", "settled"}
    /\ rstep[l] = "unindexed" => mark[l] = "none"
    /\ rstep[l] = "settled" => idx[l] = "archived" \/ dir[l] # "full"

\* What the caller is or may yet be told.
Promised(l) ==
    /\ l \in Agents /\ (mark[l] # "none" \/ acc[l] \in Committing) => client[l] \in Late
    /\ mark[l] # "none" => client[l] # "failed"
    /\ toClient[l] = <<"committed">> => mark[l] = "durable"
    /\ l \in hist => mark[l] = "durable"

\* Nothing executes behind the fence or once the runs are stopped, and each phase
\* of stopAll leaves less to the next.
Quiet(l) ==
    /\ fence \/ stopPc \notin {"no", "rolling"} =>
         (exec[l] \in {"starting", "running"} => runAborted[l])
    /\ l \in runs /\ acc[l] \in Unaccepted /\ stopPc # "no" =>
         stopPc = "rolling" /\ l \in awaited /\ roll[l] = "waiting"
    /\ stopPc \in {"cleaning", "done"} => pc[l] \notin Starting \cup {"clean"} /\ ~(l \in Human /\ pc[l] = "commit")
    /\ stopPc \in {"cleaning", "done"} /\ l \in cleanups => fence \/ clean[l]["stop"] # "no"
    /\ stopPc = "done" => clean[l]["stop"] = "no"
    /\ stopPc = "done" /\ l \in runs => exec[l] \in {"none", "over"}

LaunchOK(l) ==
    /\ Wire(l) /\ Decided(l) /\ Owned(l) /\ Registered(l) /\ Cleaned(l) /\ Recovered(l)
    /\ Promised(l) /\ Quiet(l)
IInv == TypeOK /\ \A l \in Launches : LaunchOK(l)
=============================================================================
