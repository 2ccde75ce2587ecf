---------------------------- MODULE RunDelivery ----------------------------
(***************************************************************************)
(* What becomes of a finished run's result: src/workflows/manager.mjs       *)
(* (#executeRun's finally, markDelivery, #archiveIfSettled, stopAll,        *)
(* loadHistory) and the prompt queue of src/pi-harness.mjs                  *)
(* (deliverWorkflowCompletion, flushPromptQueue, activateWorkflowDeliveries,*)
(* the delivery retirements, stopAndExit).                                  *)
(*                                                                          *)
(* A completion is a prompt for the session that launched the run, queued   *)
(* among the user's own prompts.  Its delivery state is durable and is      *)
(* written under the run's metadata lock; between the request for the lock  *)
(* and the end of the write the session may be replaced, the queue cleared, *)
(* the process told to stop, or killed.  An action is the code from one     *)
(* await to the next; a write and what follows it are one action.           *)
(***************************************************************************)
EXTENDS Naturals, Sequences, FiniteSets, SequencesExt

CONSTANTS
    Runs,       \* runs launched by the main session
    User,       \* a prompt that the user typed (none is told from another)
    MaxEvents,  \* bound: prompts typed, session changes and failed writes together
    MayCrash    \* TRUE: the process may be killed, once

ASSUME DeliveryAssumption ==
    /\ IsFiniteSet(Runs) /\ User \notin Runs
    /\ MaxEvents \in Nat
    /\ MayCrash \in BOOLEAN

VARIABLES
    phase,     \* [r]: #executeRun
    mem, disk, \* [r]: run.delivery.state, and what the journal has of it
    reg,       \* this.runs
    arch,      \* runs archived, their lease released
    lockq,     \* [r]: the calls that hold or await the metadata lock, in order
    queue,       \* promptQueue
    pend,        \* workflowPendingDeliveries: they wait for their session
    ret, tried,  \* [r]: workflowPendingDeliveryRetirements: the state to write,
                 \* and the one that this pass over them has attempted
    flush, hand, \* flushPromptQueue, and the prompt it works on
    busy,        \* this.busy
    userTurn,    \* the backend answers a typed prompt
    target,      \* the session that launched the runs
    reset,       \* startNewSession, deferNewSessionUntilIdle
    stage, round, \* stopAndExit
    sends,       \* [r]: how often the completion has been given to a backend
    lost,        \* completions that left the queue in place of another prompt
    events, fails   \* what MaxEvents bounds, and the failed writes among it

runVars == <<phase, mem, disk, reg, arch>>
retryVars == <<ret, tried>>
storeVars == <<queue, pend>>
flushVars == <<flush, hand, sends, lost>>
turnVars == <<busy, userTurn>>
sessionVars == <<target, reset>>
stopVars == <<stage, round>>
counts == <<events, fails>>
vars == <<runVars, lockq, storeVars, retryVars, flushVars, turnVars, sessionVars,
          stopVars, counts>>

Final == {"delivered", "origin-retired", "ambiguous", "failed-to-queue", "failed-to-persist",
          "not-delivered-after-restart"}
States == Final \cup {"not-ready", "pending", "queued", "waiting-for-session", "sending"}
Up == stage # "crashed"
Stopping == stage # "up"
Event == events < MaxEvents /\ events' = events + 1
WriteFails == Event /\ fails' = fails + 1

Init ==
    /\ phase = [r \in Runs |-> "running"]
    /\ mem = [r \in Runs |-> "not-ready"] /\ disk = mem
    /\ reg = Runs /\ arch = {}
    /\ lockq = [r \in Runs |-> <<>>]
    /\ queue = <<>> /\ pend = {}
    /\ ret = [r \in Runs |-> "no"] /\ tried = ret
    /\ flush = "idle" /\ hand = User
    /\ busy = FALSE /\ userTurn = FALSE
    /\ target = "current" /\ reset = "no"
    /\ stage = "up" /\ round = 1
    /\ sends = [r \in Runs |-> 0] /\ lost = {}
    /\ events = 0 /\ fails = 0

-----------------------------------------------------------------------------
\* Calls that want the metadata lock of a run.

Call(by, state, sure) == [by |-> by, state |-> state, sure |-> sure]
Asks(r, call) == lockq' = [lockq EXCEPT ![r] = Append(@, call)]
InLock(by) == {r \in Runs : \E i \in DOMAIN lockq[r] : lockq[r][i].by = by}

\* retireQueuedMainWorkflowDeliveries: queued completions become retirements.
RetireQueued ==
    ret' = [r \in Runs |->
              IF ret[r] = "no" /\ Contains(queue, r) THEN "origin-retired" ELSE ret[r]]

\* The queue keeps the prompts at these places, in their order (filter).
Keeps(places) ==
    \E at \in Bijection(1..Cardinality(places), places) :
       /\ \A i, j \in DOMAIN at : i < j => at[i] < at[j]
       /\ queue' = [i \in DOMAIN at |-> queue[at[i]]]
KeepsTyped == Keeps({i \in DOMAIN queue : queue[i] = User})
KeepsCompletions == Keeps({i \in DOMAIN queue : queue[i] # User})

-----------------------------------------------------------------------------
\* deliverWorkflowCompletion, called when the run's outcome is durable.

Exact == target = "current"
DeliveryCall ==
    Call("deliver", IF Stopping \/ target = "gone" THEN "origin-retired"
                    ELSE IF Exact THEN "queued" ELSE "waiting-for-session", FALSE)

\* The source has ended; the first write of the delivery record, and what it
\* leads to: onComplete, or the last block of #executeRun.
EndRun(r) ==
    /\ Up /\ phase[r] = "running"
    /\ phase' = [phase EXCEPT ![r] = "complete"]
    /\ \/ /\ mem' = [mem EXCEPT ![r] = "pending"]
          /\ disk' = [disk EXCEPT ![r] = "pending"]
          /\ Asks(r, DeliveryCall)
          /\ UNCHANGED counts
       \/ /\ WriteFails
          /\ mem' = [mem EXCEPT ![r] = "failed-to-persist"]
          /\ disk' \in {disk, [disk EXCEPT ![r] = "pending"]}
          /\ Asks(r, Call("run", "pending", FALSE))
    /\ UNCHANGED <<reg, arch, storeVars, retryVars, flushVars, turnVars, sessionVars,
                   stopVars>>

-----------------------------------------------------------------------------
\* markDelivery, and the last block of #executeRun, under the lock.

\* Mutant: a retirement overwrites `sending' without proof.
Refuses_NotSending(r, call) ==
    \/ r \notin reg
    \/ mem[r] \in {"delivered", "ambiguous"} /\ call.state # mem[r]

Refuses(r, call) ==
    \/ r \notin reg
    \/ mem[r] = "sending" /\ call.state = "origin-retired" /\ ~call.sure
    \/ mem[r] \in {"delivered", "ambiguous"} /\ call.state # mem[r]

\* #executeRun resolves only its own, still pending, state.
Written(r, call) ==
    IF call.by # "run" THEN call.state
    ELSE IF mem[r] = "pending" THEN "failed-to-queue" ELSE mem[r]

Archivable(r, call) ==
    (phase[r] = "settled" \/ call.by = "run") /\ Written(r, call) \in Final

Settles(r, call) ==
    phase' = [phase EXCEPT ![r] = IF call.by = "run" THEN "settled" ELSE @]

\* #archiveIfSettled is part of the call that settles the run.
Succeeds(r, call) ==
    /\ ~Refuses(r, call)
    /\ mem' = [mem EXCEPT ![r] = Written(r, call)]
    /\ disk' = [disk EXCEPT ![r] = Written(r, call)]
    /\ Settles(r, call)
    /\ arch' = IF Archivable(r, call) THEN arch \cup {r} ELSE arch
    /\ reg' = IF Archivable(r, call) THEN reg \ {r} ELSE reg
    /\ UNCHANGED counts

\* The archive fails, the delivery state does not; or the write fails, with or
\* without effect.
Throws(r, call) ==
    /\ ~Refuses(r, call) /\ WriteFails
    /\ \/ /\ Archivable(r, call)
          /\ mem' = [mem EXCEPT ![r] = Written(r, call)]
          /\ disk' = [disk EXCEPT ![r] = Written(r, call)]
          /\ Settles(r, call)
       \/ /\ disk' \in {disk, [disk EXCEPT ![r] = Written(r, call)]}
          /\ mem' = [mem EXCEPT ![r] = IF call.by = "run" THEN Written(r, call) ELSE @]
          /\ phase' = [phase EXCEPT ![r] = IF call.by = "run" THEN "stuck" ELSE @]
    /\ UNCHANGED <<reg, arch>>

Outcome(r, call, result) ==
    CASE result = "true" -> Succeeds(r, call)
      [] result = "false" -> Refuses(r, call) /\ UNCHANGED <<runVars, counts>>
      [] result = "throws" -> Throws(r, call)

Left(r) == [lockq EXCEPT ![r] = Tail(@)]

\* After deliverWorkflowCompletion's write: enqueue, or wait for the session;
\* #executeRun goes on to its last block either way.
Deliver(r, call, result) ==
    /\ call.by = "deliver"
    /\ queue' = IF result = "true" /\ call.state = "queued" THEN Append(queue, r) ELSE queue
    /\ pend' = IF result = "true" /\ call.state = "waiting-for-session"
               THEN pend \cup {r} ELSE pend
    /\ lockq' = [Left(r) EXCEPT ![r] = Append(@, Call("run", "pending", FALSE))]
    /\ UNCHANGED <<retryVars, flushVars, turnVars>>

Finish(r, call) ==
    /\ call.by = "run"
    /\ lockq' = Left(r)
    /\ UNCHANGED <<storeVars, retryVars, flushVars, turnVars>>

-----------------------------------------------------------------------------
\* activateWorkflowDeliveries.

\* Only the form that shutdown uses minds a refusal.
Activated(r, call, result) ==
    /\ call.by \in {"activate", "activate-stop"}
    /\ pend' = IF result = "true" \/ (result = "false" /\ call.by = "activate")
               THEN pend \ {r} ELSE pend
    /\ lockq' = Left(r)
    /\ UNCHANGED <<queue, retryVars, flushVars, turnVars>>

Activating == InLock("activate") \cup InLock("activate-stop")

\* Called from many places when the program is idle again.
Activate(r) ==
    /\ stage = "up" /\ r \in pend
    /\ \/ /\ Exact
          /\ pend' = pend \ {r}
          /\ queue' = Append(queue, r)
          /\ UNCHANGED lockq
       \/ /\ target = "gone" /\ r \notin Activating
          /\ Asks(r, Call("activate", "origin-retired", FALSE))
          /\ UNCHANGED storeVars
    /\ UNCHANGED <<runVars, retryVars, flushVars, turnVars, sessionVars, stopVars, counts>>

-----------------------------------------------------------------------------
\* retryWorkflowDeliveryRetirements: one pass at a time, which takes up entries
\* that appear meanwhile and attempts none twice.

\* Mutant: the pass does not remember what it has attempted.
Attempt_Again(r) ==
    /\ Up /\ ret[r] # "no" /\ r \notin InLock("retry")
    /\ tried' = [tried EXCEPT ![r] = ret[r]]
    /\ Asks(r, Call("retry", ret[r], FALSE))
    /\ UNCHANGED <<runVars, storeVars, ret, flushVars, turnVars, sessionVars, stopVars, counts>>

Attempt(r) ==
    /\ Up /\ ret[r] \notin {"no", tried[r]} /\ r \notin InLock("retry")
    /\ tried' = [tried EXCEPT ![r] = ret[r]]
    /\ Asks(r, Call("retry", ret[r], FALSE))
    /\ UNCHANGED <<runVars, storeVars, ret, flushVars, turnVars, sessionVars, stopVars, counts>>

Retried(r, call, result) ==
    /\ call.by = "retry"
    /\ LET done == result = "true" /\ ret[r] = call.state IN
       /\ ret' = IF done THEN [ret EXCEPT ![r] = "no"] ELSE ret
       /\ tried' = IF done THEN [tried EXCEPT ![r] = "no"] ELSE tried
    /\ lockq' = Left(r)
    /\ UNCHANGED <<storeVars, flushVars, turnVars>>

PassEnded == InLock("retry") = {} /\ \A r \in Runs : ret[r] \in {"no", tried[r]}

\* The timer starts another pass over what is left.
RetryTimer ==
    /\ stage = "up" /\ PassEnded /\ \E r \in Runs : ret[r] # "no"
    /\ tried' = [r \in Runs |-> "no"]
    /\ UNCHANGED <<runVars, lockq, storeVars, ret, flushVars, turnVars, sessionVars,
                   stopVars, counts>>

-----------------------------------------------------------------------------
\* flushPromptQueue.

FlushAsks(r, state, sure) == Asks(r, Call("flush", state, sure))
Shifted == IF queue = <<>> THEN queue ELSE Tail(queue)
Taken == IF queue = <<>> \/ Head(queue) = hand THEN lost ELSE lost \cup {Head(queue)}
Switching == reset \in {"deferred", "switching"}

FlushNext ==
    /\ stage = "up" /\ flush = "idle" /\ ~busy /\ ~Switching /\ queue # <<>>
    /\ hand' = Head(queue)
    /\ \/ /\ hand' = User
          /\ busy' = TRUE /\ userTurn' = TRUE
          /\ queue' = Tail(queue)
          /\ flush' = "user"
          /\ UNCHANGED lockq
       \/ /\ hand' # User
          /\ flush' = IF Exact THEN "sending" ELSE "retiring"
          /\ FlushAsks(hand', IF Exact THEN "sending" ELSE "origin-retired", FALSE)
          /\ UNCHANGED <<turnVars, queue>>
    /\ UNCHANGED <<runVars, pend, retryVars, sends, lost, sessionVars, stopVars, counts>>

\* Mutant: the session is not looked at again after the write of `sending'.
StillExact_Assumed == TRUE
StillExact == Exact

\* The completion goes to the backend; the queue loses its first prompt.
Send(r) ==
    /\ sends' = [sends EXCEPT ![r] = @ + 1]
    /\ busy' = TRUE
    /\ queue' = Shifted
    /\ lost' = Taken
    /\ flush' = "turn"
    /\ lockq' = Left(r)
    /\ UNCHANGED <<ret, tried>>

\* The step to another write about the same completion.
FlushGoesOn(r, pc, state, sure) ==
    /\ flush' = pc
    /\ lockq' = [Left(r) EXCEPT ![r] = Append(@, Call("flush", state, sure))]
    /\ UNCHANGED <<queue, lost, ret, tried, sends, busy>>

FlushDone(r) == flush' = "idle" /\ lockq' = Left(r) /\ UNCHANGED <<sends, busy>>

\* What follows each write of the loop.
Flushed(r, call, result) ==
    /\ call.by = "flush"
    /\ UNCHANGED <<hand, userTurn, pend>>
    /\ \/ /\ flush = "retiring" /\ result # "throws"
          /\ FlushDone(r)
          /\ queue' = Shifted /\ lost' = Taken
          /\ UNCHANGED retryVars
       \/ /\ \/ flush = "retiring" /\ result = "throws"
             \/ flush = "sending" /\ result # "true"
             \/ flush \in {"delivering", "ambiguating"} /\ result # "throws"
          /\ FlushDone(r)
          /\ UNCHANGED <<queue, lost, retryVars>>
       \/ /\ flush = "sending" /\ result = "true" /\ StillExact
          /\ Send(r)
       \/ /\ flush = "sending" /\ result = "true" /\ ~StillExact
          /\ FlushGoesOn(r, "unsending", "origin-retired", TRUE)
       \/ /\ flush = "unsending" /\ result # "throws"
          /\ FlushDone(r)
          /\ queue' = Shifted /\ lost' = Taken
          /\ UNCHANGED retryVars
       \/ /\ flush = "unsending" /\ result = "throws"
          /\ flush' = "ambiguating"
          /\ queue' = IF queue # <<>> /\ Head(queue) = r THEN Tail(queue) ELSE queue
          /\ lockq' = [Left(r) EXCEPT ![r] = Append(@, Call("flush", "ambiguous", FALSE))]
          /\ UNCHANGED <<lost, retryVars, sends, busy>>
       \/ /\ flush = "delivering" /\ result = "throws"
          /\ FlushGoesOn(r, "ambiguating", "ambiguous", FALSE)
       \/ /\ flush = "ambiguating" /\ result = "throws"
          /\ FlushDone(r)
          /\ ret' = [ret EXCEPT ![r] = "ambiguous"]
          /\ UNCHANGED <<queue, lost, tried>>

\* The call at the head of a run's lock writes, and what awaits it goes on.
Step(r) ==
    /\ Up /\ lockq[r] # <<>>
    /\ LET call == Head(lockq[r]) IN
       \E result \in {"true", "false", "throws"} :
          /\ Outcome(r, call, result)
          /\ \/ (Deliver(r, call, result) /\ UNCHANGED flushVars)
             \/ (Finish(r, call) /\ UNCHANGED flushVars)
             \/ (Activated(r, call, result) /\ UNCHANGED flushVars)
             \/ (Retried(r, call, result) /\ UNCHANGED flushVars)
             \/ Flushed(r, call, result)
    /\ UNCHANGED <<sessionVars, stopVars>>

-----------------------------------------------------------------------------
\* Turns, and the user.

\* sendPrompt settles.  A /new that waited for the end of the turn comes first,
\* and the turn then counts as a success whatever became of it.
TurnEnds ==
    /\ Up /\ flush = "turn"
    /\ IF target = "gone"
       THEN /\ flush' = "ambiguating"
            /\ FlushAsks(hand, "ambiguous", FALSE)
            /\ UNCHANGED <<busy, reset>>
       ELSE /\ busy' = FALSE
            /\ IF reset = "deferred"
               THEN flush' = "switched" /\ reset' = "switching" /\ UNCHANGED lockq
               ELSE /\ \/ flush' = "delivering" /\ FlushAsks(hand, "delivered", FALSE)
                       \/ flush' = "ambiguating" /\ FlushAsks(hand, "ambiguous", FALSE)
                    /\ UNCHANGED reset
    /\ UNCHANGED <<runVars, storeVars, retryVars, hand, sends, lost, userTurn, target,
                   stopVars, counts>>

UserTurnEnds ==
    /\ Up /\ userTurn
    /\ userTurn' = FALSE
    /\ busy' = FALSE
    /\ reset' = IF reset = "deferred" THEN "switching" ELSE reset
    /\ flush' = IF flush = "user" THEN "idle" ELSE flush
    /\ UNCHANGED <<runVars, lockq, storeVars, retryVars, hand, sends, lost, target, stopVars,
                   counts>>

\* submit: answered at once when nothing is under way, even if flush awaits a write.
Type ==
    /\ stage = "up" /\ Event
    /\ \/ /\ ~busy /\ ~Switching /\ ~userTurn
          /\ busy' = TRUE /\ userTurn' = TRUE
          /\ UNCHANGED queue
       \/ /\ busy \/ Switching
          /\ queue' = Append(queue, User)
          /\ UNCHANGED turnVars
    /\ UNCHANGED <<runVars, lockq, pend, retryVars, flushVars, sessionVars, stopVars,
                   fails>>

Moves == stage = "up" /\ Event

\* /new and /clear.
New ==
    /\ Moves /\ reset = "no"
    /\ RetireQueued
    /\ queue' = <<>>
    /\ reset' = IF busy THEN "deferred" ELSE "retiring"
    /\ UNCHANGED <<runVars, lockq, pend, tried, flushVars, turnVars, target, stopVars, fails>>

\* The queue has been discarded durably; then the backend opens the session, or
\* fails to, and what was typed meanwhile goes back to the composer.
NewSession ==
    /\ Up /\ reset \in {"retiring", "switching"}
    /\ \/ /\ reset = "retiring" /\ PassEnded
          /\ reset' = "switching"
          /\ UNCHANGED <<target, queue, flush, lockq>>
       \/ /\ reset = "switching"
          /\ reset' = "no"
          /\ \/ target' = (IF Exact THEN "away" ELSE target) /\ UNCHANGED queue
             \/ KeepsCompletions /\ UNCHANGED target
          /\ IF flush = "switched"
             THEN flush' = "delivering" /\ FlushAsks(hand, "delivered", FALSE)
             ELSE UNCHANGED <<flush, lockq>>
    /\ UNCHANGED <<runVars, pend, retryVars, hand, sends, lost, turnVars, stopVars, counts>>

\* /resume, while idle: to another session, or back.
Resume ==
    /\ Moves /\ ~busy /\ ~Switching /\ target # "gone"
    /\ target' = IF Exact THEN "away" ELSE "current"
    /\ UNCHANGED <<runVars, lockq, storeVars, retryVars, flushVars, turnVars, reset, stopVars,
                   fails>>

\* Another agent, or this one anew: the session cannot come back.
Replace ==
    /\ Moves /\ reset = "no" /\ target # "gone"
    /\ target' = "gone"
    /\ busy' = FALSE /\ userTurn' = FALSE
    /\ flush' = IF flush = "user" THEN "idle" ELSE flush
    /\ UNCHANGED <<runVars, lockq, storeVars, retryVars, hand, sends, lost, reset, stopVars,
                   fails>>

-----------------------------------------------------------------------------
\* stopAndExit: retire, stop the runs, retire again, stop again.

Stop ==
    /\ stage = "up"
    /\ stage' = "retire"
    /\ RetireQueued
    /\ KeepsTyped
    /\ UNCHANGED <<runVars, lockq, pend, tried, flushVars, turnVars, sessionVars, round, counts>>

ActivateAll ==
    /\ stage = "retire" /\ PassEnded
    /\ stage' = "activate"
    /\ lockq' = [r \in Runs |-> IF r \in pend \ Activating
                   THEN Append(lockq[r], Call("activate-stop", "origin-retired", FALSE))
                   ELSE lockq[r]]
    /\ UNCHANGED <<runVars, storeVars, retryVars, flushVars, turnVars, sessionVars, round, counts>>

\* One more pass over all that is retained.
RetryAll ==
    /\ stage = "activate" /\ InLock("activate-stop") = {} /\ PassEnded
    /\ stage' = "retry"
    /\ tried' = [r \in Runs |-> "no"]
    /\ UNCHANGED <<runVars, lockq, storeVars, ret, flushVars, turnVars, sessionVars, round, counts>>

Retired ==
    /\ stage = "retry" /\ PassEnded
    /\ stage' = "stop-runs"
    /\ UNCHANGED <<runVars, lockq, storeVars, retryVars, flushVars, turnVars, sessionVars, round,
                   counts>>

\* Mutant: an archived run stays registered.
StopRuns_Kept ==
    /\ stage = "stop-runs" /\ \A r \in reg : phase[r] \in {"settled", "stuck"}
    /\ arch' = arch \cup {r \in reg : phase[r] = "settled" /\ mem[r] \in Final}
    /\ stage' = IF round = 1 THEN "drain" ELSE "down"
    /\ UNCHANGED <<phase, mem, disk, reg, lockq, storeVars, retryVars, flushVars, turnVars,
                   sessionVars, round, counts>>

\* stopAll: every run has ended; what is settled and final is archived.
StopRuns ==
    /\ stage = "stop-runs" /\ \A r \in reg : phase[r] \in {"settled", "stuck"}
    /\ LET done == {r \in reg : phase[r] = "settled" /\ mem[r] \in Final} IN
       arch' = arch \cup done /\ reg' = reg \ done
    /\ stage' = IF round = 1 THEN "drain" ELSE "down"
    /\ UNCHANGED <<phase, mem, disk, lockq, storeVars, retryVars, flushVars, turnVars,
                   sessionVars, round, counts>>

\* Mutant: shutdown does not look at the queue again.
Drain_Once ==
    /\ stage = "drain" /\ flush = "idle"
    /\ stage' = "retire" /\ round' = 2
    /\ UNCHANGED <<runVars, lockq, storeVars, retryVars, flushVars, turnVars, sessionVars, counts>>

Drain ==
    /\ stage = "drain" /\ flush = "idle"
    /\ RetireQueued
    /\ KeepsTyped
    /\ stage' = "retire" /\ round' = 2
    /\ UNCHANGED <<runVars, lockq, pend, tried, flushVars, turnVars, sessionVars, counts>>

-----------------------------------------------------------------------------
\* The process dies; loadHistory of a later one.

Crash ==
    /\ MayCrash /\ stage \notin {"down", "crashed"}
    /\ stage' = "crashed"
    /\ mem' = disk /\ reg' = {}
    /\ lockq' = [r \in Runs |-> <<>>]
    /\ queue' = <<>> /\ pend' = {}
    /\ ret' = [r \in Runs |-> "no"] /\ tried' = ret'
    /\ flush' = "idle" /\ busy' = FALSE /\ userTurn' = FALSE
    /\ target' = "gone" /\ reset' = "no"
    /\ UNCHANGED <<phase, disk, arch, hand, sends, lost, round, counts>>

Recovered(state) ==
    CASE state = "sending" -> "ambiguous"
      [] state \in Final -> state
      [] OTHER -> "not-delivered-after-restart"

\* The record is made final, and then the run is archived.
Recover(r) ==
    /\ stage = "crashed" /\ r \notin arch
    /\ \/ disk[r] \notin Final /\ disk' = [disk EXCEPT ![r] = Recovered(@)] /\ UNCHANGED arch
       \/ disk[r] \in Final /\ arch' = arch \cup {r} /\ UNCHANGED disk
    /\ mem' = disk'
    /\ UNCHANGED <<phase, reg, lockq, storeVars, retryVars, flushVars, turnVars, sessionVars,
                   stopVars, counts>>

-----------------------------------------------------------------------------
Ended == stage = "down" \/ (stage = "crashed" /\ arch = Runs)
Terminated == Ended /\ UNCHANGED vars

Shutdown == ActivateAll \/ RetryAll \/ Retired \/ StopRuns \/ Drain

Next ==
    \/ \E r \in Runs : EndRun(r) \/ Activate(r) \/ Attempt(r) \/ Step(r) \/ Recover(r)
    \/ RetryTimer \/ FlushNext \/ TurnEnds \/ UserTurnEnds \/ Type
    \/ New \/ NewSession \/ Resume \/ Replace
    \/ Stop \/ Shutdown \/ Crash \/ Terminated

\* Sources end because stopAll aborts them, turns because their backend is being
\* stopped, writes and timers because the event loop runs.
Fairness ==
    /\ \A r \in Runs : WF_vars(EndRun(r)) /\ WF_vars(Step(r)) /\ WF_vars(Attempt(r))
    /\ WF_vars(TurnEnds) /\ WF_vars(UserTurnEnds) /\ WF_vars(NewSession) /\ WF_vars(Shutdown)

Spec == Init /\ [][Next]_vars /\ Fairness

-----------------------------------------------------------------------------
\* Properties.

\* Every variable keeps to its values; a call waits in the lock of its run only,
\* one at most for the loop over the queue.
TypeOK ==
    /\ phase \in [Runs -> {"running", "complete", "settled", "stuck"}]
    /\ {mem, disk} \subseteq [Runs -> States]
    /\ reg \subseteq Runs /\ arch \subseteq Runs /\ reg \cap arch = {}
    /\ lockq \in [Runs -> Seq([by : {"deliver", "run", "activate", "activate-stop", "retry", "flush"},
                              state : States, sure : BOOLEAN])]
    /\ \A r \in Runs : \A i \in DOMAIN lockq[r] : lockq[r][i].by = "flush" => hand = r
    /\ queue \in Seq(Runs \cup {User})
    /\ pend \subseteq Runs
    /\ {ret, tried} \subseteq [Runs -> {"no", "origin-retired", "ambiguous"}]
    /\ flush \in {"idle", "user", "retiring", "sending", "unsending", "turn", "switched",
                  "delivering", "ambiguating"}
    /\ hand \in Runs \cup {User}
    /\ {busy, userTurn} \subseteq BOOLEAN
    /\ target \in {"current", "away", "gone"}
    /\ reset \in {"no", "retiring", "deferred", "switching"}
    /\ lost \subseteq Runs \cup {User}

\* A completion is given to a backend once at most, and from then on its durable
\* record never says that it was not sent; `delivered' is recorded of nothing that
\* was not sent.  Over failed writes, retirements, switches, a death and recovery.
SentTruth ==
    \A r \in Runs :
       /\ sends[r] <= 1
       /\ sends[r] = 1 => disk[r] \in {"sending", "delivered", "ambiguous"}
       /\ disk[r] = "delivered" => sends[r] = 1

\* What the archive keeps: a final record, or the `sending' of a completion that was
\* retired before and not sent, over two failed writes at least (see README).
FinalRecord(r) == disk[r] \in Final \/ (disk[r] = "sending" /\ sends[r] = 0 /\ fails > 1)

\* Only the session that launched a run is ever sent its completion, although the
\* write of `sending' gives the user time to leave it; and an archived run's
\* record is final: no late caller of the metadata lock changes it.
NothingLate ==
    [][/\ \A r \in Runs : sends'[r] # sends[r] => target = "current"
       /\ \A r \in arch : FinalRecord(r) /\ disk'[r] = disk[r] /\ r \in arch']_vars

\* A settled run whose delivery is still open is in somebody's hands: the queue,
\* the deliveries that wait for their session, the retirements or the loop.  (Or a
\* prompt was shifted in place of another: see `lost'.)
NotStranded ==
    \A r \in Runs :
       (Up /\ r \in reg /\ phase[r] = "settled" /\ mem[r] \notin Final) =>
          \/ Contains(queue, r) \/ r \in pend \/ ret[r] # "no" \/ r \in lost
          \/ hand = r /\ flush \notin {"idle", "user"}

\* With no failed write, a shutdown leaves a run unarchived only when a retirement
\* that was begun before it, and that nothing awaits, has still not been written.
ShutdownArchives ==
    (stage = "down" /\ fails = 0) => Runs \subseteq arch \cup lost \cup InLock("activate")

\* No completion is forgotten, before a shutdown or by it.
NothingForgotten == NotStranded /\ ShutdownArchives

\* A completion enters the queue like any prompt: it waits for the end of the turn
\* that is under way.
WaitsItsTurn == [][\A r \in Runs : sends'[r] # sends[r] => ~busy]_vars

\* A shutdown comes to its end whatever the writes do.
ShutdownEnds == (stage = "retire") ~> (stage \in {"down", "crashed"})

-----------------------------------------------------------------------------
\* The inductive invariant.

Queued(r) == \E i \in DOMAIN queue : queue[i] = r
InHand(r) == hand = r /\ flush \notin {"idle", "user"}

\* What the loop over the queue has asked for, as it awaits a write.
Writing == {"retiring", "sending", "unsending", "delivering", "ambiguating"}
Asked ==
    Call("flush",
         IF flush \in {"retiring", "unsending"} THEN "origin-retired"
         ELSE IF flush = "sending" THEN "sending"
         ELSE IF flush = "delivering" THEN "delivered" ELSE "ambiguous",
         flush = "unsending")

\* Whoever waits for the lock of r: #executeRun, one activation, one retry and the
\* loop, each once at most.
Kind(call) == IF call.by \in {"deliver", "run"} THEN "own"
              ELSE IF call.by \in {"activate", "activate-stop"} THEN "activate" ELSE call.by
CallSound(r, call) ==
    /\ Kind(call) = "own" => phase[r] = "complete"
    /\ call.by = "run" => call = Call("run", "pending", FALSE)
    /\ call.by = "deliver" =>
         /\ \E state \in {"origin-retired", "queued", "waiting-for-session"} : call = Call("deliver", state, FALSE)
         /\ mem[r] = "pending" /\ sends[r] = 0 /\ ret[r] = "no"
         /\ ~Queued(r) /\ r \notin pend /\ ~InHand(r)
    /\ Kind(call) = "activate" =>
         /\ call = Call(call.by, "origin-retired", FALSE)
         /\ r \in pend /\ (target = "gone" \/ stage # "up")
    /\ call.by = "retry" => call = Call("retry", tried[r], FALSE) /\ tried[r] # "no"
    /\ call.by = "flush" => hand = r /\ flush \in Writing /\ call = Asked
Locked(r) ==
    /\ \A i, j \in DOMAIN lockq[r] : Kind(lockq[r][i]) = Kind(lockq[r][j]) => i = j
    /\ \A i \in DOMAIN lockq[r] : CallSound(r, lockq[r][i])
    /\ \A i, j \in DOMAIN lockq[r] :
         i < j /\ lockq[r][i].by = "retry" /\ lockq[r][j].by = "flush" => flush \notin {"retiring", "sending"}
    /\ hand = r /\ flush \in Writing => \E i \in DOMAIN lockq[r] : lockq[r][i].by = "flush"

\* A retirement whose archive failed leaves its completion in the queue.
Unsent(r) ==
    mem[r] \in {"queued", "waiting-for-session"} \/ (mem[r] = "origin-retired" /\ fails > 0)

\* Where a completion is: in one place, and with what was done with it.
Placed(r) ==
    /\ phase[r] = "running" => sends[r] = 0 /\ ret[r] = "no" /\ ~Queued(r) /\ r \notin pend /\ ~InHand(r)
    /\ ret[r] = "no" => tried[r] = "no"
    /\ tried[r] = "ambiguous" => ret[r] = "ambiguous"
    /\ Queued(r) => /\ r \notin pend /\ sends[r] = 0 /\ ret[r] = "no"
                    /\ Unsent(r) \/ InHand(r)
    /\ r \in pend => /\ sends[r] = 0 /\ ret[r] = "no" /\ ~InHand(r)
                     /\ target # "gone" /\ stage = "up" => mem[r] = "waiting-for-session"
    /\ InHand(r) /\ flush \in {"retiring", "sending", "unsending"} =>
         /\ sends[r] = 0 /\ ret[r] # "ambiguous"
         /\ Queued(r) => queue[1] = r
         /\ IF flush = "unsending" THEN mem[r] = "sending"
            ELSE Unsent(r) /\ (Queued(r) \/ ret[r] # "no")
    /\ InHand(r) /\ flush \in {"turn", "switched", "delivering"} => sends[r] = 1
    /\ InHand(r) /\ flush = "ambiguating" => ~Queued(r)

\* What the record says of it.
Recorded(r) ==
    /\ sends[r] = 1 => {mem[r], disk[r]} \subseteq {"sending", "delivered", "ambiguous"}
    /\ "delivered" \in {mem[r], disk[r]} => sends[r] = 1
    /\ r \in arch => FinalRecord(r)
    /\ phase[r] = "settled" /\ mem[r] \in Final => FinalRecord(r)
    /\ Up => /\ r \in reg \cup arch /\ (phase[r] \in {"running", "complete"} => r \in reg)
             /\ mem[r] = "not-ready" => phase[r] = "running"
             /\ mem[r] = "pending" => phase[r] = "complete"
    /\ r \in reg /\ mem[r] = "sending" =>
         ret[r] = "ambiguous" \/ (InHand(r) /\ flush \notin {"retiring", "sending"})
    /\ r \in reg /\ mem[r] \in {"queued", "waiting-for-session"} =>
         Queued(r) \/ r \in pend \/ ret[r] # "no" \/ r \in lost \/ InHand(r)

\* How far a shutdown without a failed write has come with it.
Open(r) == r \in reg /\ mem[r] \notin Final
Settling(r) ==
    /\ fails = 0 =>
         /\ phase[r] # "stuck" /\ ret[r] # "ambiguous"
         /\ r \in reg /\ tried[r] # "no" /\ r \notin InLock("retry") =>
              mem[r] \in {"sending", "origin-retired", "delivered", "ambiguous"}
    /\ (stage = "drain" \/ round = 2) /\ r \in reg => phase[r] \in {"settled", "stuck"}
    /\ round = 2 => ~Queued(r)
    /\ round = 2 /\ fails = 0 =>
         /\ stage = "activate" /\ Open(r) => r \in lost \cup Activating
         /\ stage \in {"retry", "stop-runs", "down"} /\ Open(r) => r \in lost \cup InLock("activate")
         /\ stage \in {"stop-runs", "down"} => ret[r] \in {"no", tried[r]} /\ r \notin InLock("retry")
         /\ stage = "down" /\ r \in reg => mem[r] \notin Final

Sound(r) == Locked(r) /\ Placed(r) /\ Recorded(r) /\ Settling(r)

IInv ==
    /\ TypeOK
    /\ sends \in [Runs -> 0..1] /\ events \in Nat /\ fails \in Nat
    /\ stage \in {"up", "retire", "activate", "retry", "stop-runs", "drain", "down", "crashed"}
    /\ round \in {1, 2} /\ (round = 2 => flush = "idle" /\ stage # "up") /\ (stage = "down" => round = 2)
    /\ flush \notin {"idle", "user"} => hand # User
    /\ \A i, j \in DOMAIN queue : queue[i] = queue[j] /\ queue[i] # User => i = j
    /\ ~Up => /\ reg = {} /\ queue = <<>> /\ pend = {} /\ flush = "idle" /\ mem = disk
              /\ \A r \in Runs : lockq[r] = <<>>
    /\ \A r \in Runs : Sound(r)
============================================================================
