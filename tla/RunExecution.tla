---------------------------- MODULE RunExecution ----------------------------
(***************************************************************************)
(* One workflow run: its script in the sandbox (sandbox-parent.mjs), the   *)
(* agents it asks for (manager.mjs, #sandboxRequest and #runAgent), their  *)
(* attempts (adapter-executor.mjs, execute and #runAdapter), and the locks *)
(* on the repository that attempts take (#acquireMutation).                *)
(*                                                                         *)
(* A step of an agent ends at the next await.  What may happen at an await *)
(* besides its success: the attempt was aborted (by a restart, a stop, the *)
(* run), or its timer fired or the call failed, which costs one of         *)
(* MaxEvents; so do the commands of a person.                              *)
(***************************************************************************)
EXTENDS Naturals, Sequences, FiniteSets, SequencesExt, FiniteSetsExt

CONSTANTS
    Agents,         \* the agent calls of the script
    Kind,           \* Kind[a]: works in the project, in a worktree, or reads
    Nobody,         \* the owner of a free lock
    Keys,           \* lock keys of repositories
    SetupLocks,     \* lock keys, in order, of an attempt and of `create'
    CleanupLocks,   \* lock keys, in order, of the removal of a worktree
    Slots,          \* slots of the scheduler
    Budget,         \* token budget of the run, in prompts
    MaxAttempts,    \* WORKFLOW_LIMITS.maxAttemptsPerAgent
    MaxEvents       \* bound on commands, failures and timers

ASSUME RunAssumption ==
    /\ IsFiniteSet(Agents) /\ Nobody \notin Agents
    /\ Kind \in [Agents -> {"shared", "worktree", "reader"}]
    /\ {SetupLocks, CleanupLocks} \subseteq Seq(Keys) \ {<<>>}
    /\ Slots \in Nat \ {0} /\ Budget \in Nat \ {0}
    /\ MaxAttempts \in Nat \ {0} /\ MaxEvents \in Nat

VARIABLES
    agent,      \* agent[a]: the call, its current attempt and its place
    run,        \* the run: phase of #executeRun, abort reason, sandbox
    slots,      \* agents that hold a scheduler slot
    tails,      \* tails[k]: unresolved tails of a lock, oldest first
    seen,       \* seen[k]: mutationTails has an entry for the lock
    owner,      \* owner[k]: who holds the ownership lock
    retained,   \* locks kept for good beside a tree that may be alive
    unreleased, \* locks whose release failed (failedMutationReleases)
    spent,      \* run.usage.tokens
    prompts,    \* prompts sent to adapters: what the run really costs
    journal,    \* "ok" or "broken": journal.writeFailure is latched
    failures,   \* executor.terminationFailures.length
    events      \* events so far

vars == <<agent, run, slots, tails, seen, owner, retained, unreleased, spent,
          prompts, journal, failures, events>>

locks == <<tails, seen, owner, retained, unreleased>>

Final == {"completed", "failed", "stopped"}

\* Places of an agent call at which its attempt may be aborted, those at which
\* the timer of withTimeout runs, and all in which #runAgent is under way.
Timed == {"admit", "lock", "create", "launch", "connect", "prompt",
          "stopping", "cleanup", "unlock"}
Abortable == Timed \cup {"slot"}
Executing == Abortable \cup {"recDone", "recFail", "recRestart"}

NewAgent == [pc |-> "none", status |-> "queued", stop |-> FALSE,
             restart |-> FALSE, attempt |-> 0, tries |-> <<>>, ctl |-> FALSE,
             timedOut |-> FALSE, late |-> FALSE, stage |-> "setup", held |-> <<>>,
             tree |-> "none", git |-> "none", worktree |-> "none",
             prompted |-> FALSE,
             published |-> FALSE, failuresAt |-> 0,
             result |-> "none", answer |-> "none"]

Init ==
    /\ agent = [a \in Agents |-> NewAgent]
    /\ run = [phase |-> "start", aborted |-> "no", stopping |-> FALSE,
              committed |-> FALSE, sandbox |-> "off", final |-> "none"]
    /\ slots = {}
    /\ tails = [k \in Keys |-> <<>>]
    /\ seen = [k \in Keys |-> FALSE]
    /\ owner = [k \in Keys |-> Nobody]
    /\ retained = {} /\ unreleased = {}
    /\ spent = 0 /\ prompts = 0 /\ journal = "ok" /\ failures = 0 /\ events = 0

Event == events < MaxEvents /\ events' = events + 1
NoEvent == UNCHANGED events

(***************************************************************************)
(* Aborting.  The run's controller aborts that of every agent that         *)
(* listens; its sandboxes are stopped.  A script that has not returned may *)
(* still call until its process is gone.                                   *)
(***************************************************************************)
Stopped(s) ==
    CASE s = "up" -> "failing"
      [] s \in {"result", "closing"} -> "killing"
      [] OTHER -> s

RunAborted(r, why) ==
    [r EXCEPT !.aborted = IF @ = "no" THEN why ELSE @, !.sandbox = Stopped(@)]

AgentsAborted(f) ==
    [a \in Agents |-> IF f[a].pc \in Abortable
                      THEN [f[a] EXCEPT !.ctl = TRUE] ELSE f[a]]

\* The next value of agent and run when the run is aborted, or is not.
Continue(f, r, abort, why) ==
    IF abort THEN agent' = AgentsAborted(f) /\ run' = RunAborted(r, why)
             ELSE agent' = f /\ run' = r

Aborted(a) == agent[a].ctl \/ agent[a].timedOut

(***************************************************************************)
(* The chain of tails of one lock in this process (#acquireMutation).  A   *)
(* ticket is open until released; a tail is resolved when its ticket and   *)
(* all before it are closed.  A new call that sees no tail does not wait.  *)
(***************************************************************************)
Ticket(a, waits) == [who |-> a, open |-> TRUE, waits |-> waits]

Resolved(chain) ==
    LET open == {i \in DOMAIN chain : chain[i].open}
    IN IF open = {} THEN <<>> ELSE SubSeq(chain, Min(open), Len(chain))

Closed(chain, a) ==
    [i \in DOMAIN chain |-> IF chain[i].who = a
                            THEN [chain[i] EXCEPT !.open = FALSE] ELSE chain[i]]

\* Queue for lock k behind the tail that mutationTails shows.
TakeTicket(a, k) ==
    /\ tails' = [tails EXCEPT ![k] = Append(@, Ticket(a, seen[k]))]
    /\ seen' = [seen EXCEPT ![k] = TRUE]

\* Close the tickets of a on the locks K.  A tail is forgotten by whoever
\* owns the newest one, once everything before it has been resolved.
ChainsWithout(a, K) ==
    [k \in Keys |-> IF k \in K THEN Resolved(Closed(tails[k], a)) ELSE tails[k]]

\* Mutant: the newest tail is forgotten when its call gives up, whoever is ahead.
SeenWithout_Early(a, K) ==
    [k \in Keys |-> IF k \in K /\ tails[k] # <<>> /\ Last(tails[k]).who = a
                    THEN FALSE ELSE seen[k]]

SeenWithout(a, K) ==
    [k \in Keys |-> IF k \in K /\ ChainsWithout(a, K)[k] = <<>>
                    THEN FALSE ELSE seen[k]]

InTurn(a, k) ==
    \A i \in DOMAIN tails[k] : tails[k][i].who = a /\ tails[k][i].open =>
        \/ ~tails[k][i].waits
        \/ \A j \in 1..(i - 1) : ~tails[k][j].open

Wanted(a) == IF agent[a].stage = "setup" THEN SetupLocks ELSE CleanupLocks
NextKey(a) == Wanted(a)[Len(agent[a].held) + 1]

Waits(a) ==
    agent[a].pc = "lock" /\ (~InTurn(a, NextKey(a)) \/ owner[NextKey(a)] # Nobody)

\* Give back the locks K held by a; those in Bad cannot be released, stay
\* owned and keep their ticket (failedMutationReleases).
Release(a, K, Bad) ==
    /\ tails' = ChainsWithout(a, K \ Bad)
    /\ seen' = SeenWithout(a, K \ Bad)
    /\ owner' = [k \in Keys |-> IF k \in K \ Bad /\ owner[k] = a
                              THEN Nobody ELSE owner[k]]
    /\ unreleased' = unreleased \cup (K \cap Bad)
    /\ UNCHANGED retained

\* Keep them for the life of the process (poison, retainedMutationFences).
Poison(K) ==
    retained' = retained \cup K /\ UNCHANGED <<tails, seen, owner, unreleased>>

\* A release may fail, at the price of an event.
MayFail(K, Bad) == Bad \subseteq K /\ (IF Bad = {} THEN NoEvent ELSE Event)

(***************************************************************************)
(* The agent call (#sandboxRequest, then the loop of #runAgent).           *)
(***************************************************************************)
\* The script calls agent(): refused when the run was aborted or its budget
\* is spent, otherwise `agent_queued' is being recorded.
RequestAgent(a) ==
    /\ agent[a].pc = "none" /\ run.sandbox \in {"up", "failing"}
    /\ LET refused == run.aborted # "no" \/ spent >= Budget IN
       agent' = [agent EXCEPT ![a].pc = IF refused THEN "done" ELSE "queuedRec",
                              ![a].answer = IF refused THEN "error" ELSE @]
    /\ UNCHANGED <<run, slots, locks, spent, prompts, journal, failures, events>>

\* The head of the loop of #runAgent: a stopped call ends, another begins an
\* attempt with a controller of its own.
LoopHead(r) ==
    IF r.stop THEN [r EXCEPT !.status = "stopped", !.pc = "recFail"]
    ELSE IF r.attempt >= MaxAttempts
    THEN [r EXCEPT !.pc = "done", !.answer = "error"]
    ELSE [r EXCEPT !.restart = FALSE, !.ctl = run.aborted # "no",
                   !.timedOut = FALSE, !.late = FALSE, !.published = FALSE, !.stage = "setup",
                   !.prompted = FALSE, !.result = "none", !.worktree = "none",
                   !.pc = "slot"]

QueuedRecorded(a) ==
    /\ agent[a].pc = "queuedRec"
    /\ agent' = [agent EXCEPT ![a] =
                    IF journal = "ok" THEN LoopHead(@)
                    ELSE [@ EXCEPT !.pc = "done", !.answer = "error"]]
    /\ UNCHANGED <<run, slots, locks, spent, prompts, journal, failures, events>>

\* Mutant: an answer counts although the attempt was aborted before its end.
Settled_Late(r, runAborted) ==
    LET n == r.attempt
        ended(s) == IF r.published THEN [r.tries EXCEPT ![n] = s] ELSE r.tries
        over == [r EXCEPT !.ctl = FALSE, !.timedOut = FALSE, !.late = FALSE]
    IN  IF r.result = "ok"
        THEN [over EXCEPT !.status = "completed", !.tries = ended("completed"),
                          !.pc = "recDone"]
        ELSE [over EXCEPT !.status = "failed", !.tries = ended("failed"),
                          !.pc = "recFail"]

\* How the attempt of r ends once execute has settled with r.result: the rest
\* of the try block of #runAgent, or its catch block.
Settled(r, runAborted) ==
    LET n == r.attempt
        ended(s) == IF r.published THEN [r.tries EXCEPT ![n] = s] ELSE r.tries
        bad == IF r.stop THEN "stopped" ELSE "failed"
        over == [r EXCEPT !.ctl = FALSE, !.timedOut = FALSE, !.late = FALSE]
    IN  IF r.result = "ok" /\ ~r.ctl
        THEN [over EXCEPT !.status = "completed", !.tries = ended("completed"),
                       !.pc = "recDone"]
        ELSE IF r.published /\ r.restart /\ ~r.stop /\ ~runAborted
        THEN [over EXCEPT !.tries = ended("restarted"), !.pc = "recRestart"]
        ELSE [over EXCEPT !.status = bad, !.tries = ended(bad), !.pc = "recFail"]

\* The check of the project and the wait in the scheduler's queue: an abort or
\* a failure ends the attempt before it is published.
LeaveQueue(a) ==
    /\ agent[a].pc = "slot"
    /\ IF agent[a].ctl THEN NoEvent ELSE Event
    /\ agent' = [agent EXCEPT ![a] =
                    Settled([@ EXCEPT !.result = "error"], run.aborted # "no")]
    /\ UNCHANGED <<run, slots, locks, spent, prompts, journal, failures>>

\* Mutant: a restarted attempt has no record of its own.
Granted_Reused(a) ==
    /\ agent[a].pc = "slot" /\ ~agent[a].ctl /\ Cardinality(slots) < Slots
    /\ slots' = slots \cup {a}
    /\ agent' = [agent EXCEPT ![a].pc = "admit", ![a].published = TRUE,
                    ![a].attempt = @ + 1, ![a].status = "running",
                    ![a].tries = <<"running">>, ![a].failuresAt = failures]
    /\ UNCHANGED <<run, locks, spent, prompts, journal, failures, events>>

\* A slot is granted; publishAttempt makes the attempt visible at once and
\* then records it.
Granted(a) ==
    /\ agent[a].pc = "slot" /\ ~agent[a].ctl /\ Cardinality(slots) < Slots
    /\ slots' = slots \cup {a}
    /\ agent' = [agent EXCEPT ![a].pc = "admit", ![a].published = TRUE,
                    ![a].attempt = @ + 1, ![a].status = "running",
                    ![a].tries = Append(@, "running"),
                    ![a].failuresAt = failures]
    /\ UNCHANGED <<run, locks, spent, prompts, journal, failures, events>>

\* The record of the attempt is durable, the schema compiled, and the budget
\* is checked once more (admit) before the locks or the adapter.
Admitted(a) ==
    /\ agent[a].pc = "admit"
    /\ \/ /\ journal = "ok" /\ ~Aborted(a) /\ spent < Budget
          /\ IF Kind[a] = "reader"
             THEN /\ agent' = [agent EXCEPT ![a].pc = "launch"]
                  /\ UNCHANGED <<tails, seen>>
             ELSE /\ agent' = [agent EXCEPT ![a].pc = "lock"]
                  /\ TakeTicket(a, SetupLocks[1])
       \/ /\ journal # "ok" \/ Aborted(a) \/ spent >= Budget
          /\ agent' = [agent EXCEPT ![a].pc = "unlock", ![a].result = "error"]
          /\ UNCHANGED <<tails, seen>>
    /\ UNCHANGED <<run, slots, owner, retained, unreleased, spent, prompts,
                   journal, failures, events>>

(***************************************************************************)
(* Locks of the repository (#acquireRepositoryMutation).                   *)
(***************************************************************************)
\* Mutant: a removal waits for its locks for ever.
LockAborted_Deaf(a) == agent[a].stage = "setup" /\ Aborted(a)

\* The removal of a worktree has a timer of its own and heeds no other signal.
LockAborted(a) == IF agent[a].stage = "setup" THEN Aborted(a) ELSE agent[a].late

\* What the locks were taken for.
AllLocked(a) ==
    IF agent[a].stage = "cleanup" THEN "cleanup"
    ELSE IF Kind[a] = "worktree" THEN "create" ELSE "launch"

\* Its turn has come and it takes the ownership lock, which other processes
\* respect as well; then the next lock, or the work.
Owned(a) ==
    /\ agent[a].pc = "lock" /\ ~Waits(a)
    /\ ~LockAborted(a)
    /\ owner' = [owner EXCEPT ![NextKey(a)] = a]
    /\ LET held == Append(agent[a].held, NextKey(a)) IN
       IF Len(held) < Len(Wanted(a))
       THEN /\ agent' = [agent EXCEPT ![a].held = held, ![a].pc = "lock"]
            /\ TakeTicket(a, Wanted(a)[Len(held) + 1])
       ELSE /\ agent' = [agent EXCEPT ![a].held = held, ![a].pc = AllLocked(a)]
            /\ UNCHANGED <<tails, seen>>
    /\ UNCHANGED <<run, slots, retained, unreleased, spent, prompts, journal,
                   failures, events>>

\* After the removal of a worktree: a failure of it does not count, an abort
\* that came meanwhile does.
AfterCleanup(r) ==
    [r EXCEPT !.pc = "unlock", !.held = <<>>, !.worktree = "none",
              !.result = IF @ = "ok" /\ (r.ctl \/ r.timedOut) THEN "error" ELSE @]

\* The wait for a lock is aborted, or the lock cannot be taken: those already
\* held go back.
GiveUpLocks(a) ==
    /\ agent[a].pc = "lock" /\ LockAborted(a)
    /\ \E Bad \in SUBSET Range(agent[a].held) :
         /\ MayFail(Range(agent[a].held), Bad)
         /\ Release(a, Range(agent[a].held) \cup {NextKey(a)}, Bad)
         /\ LET failed == [agent[a] EXCEPT !.pc = "unlock", !.held = <<>>,
                                           !.result = "error"] IN
            Continue([agent EXCEPT ![a] = IF @.stage = "setup" THEN failed
                                          ELSE AfterCleanup(@)],
                     run, Bad # {}, "fence")
    /\ UNCHANGED <<slots, spent, prompts, journal, failures>>

(***************************************************************************)
(* The worktree and the adapter.                                           *)
(***************************************************************************)
\* Git may leave a process tree that cannot be confirmed dead: the locks stay
\* (withRepositoryMutation) and no workflow work goes on.
GitLost(a, r) ==
    /\ Event
    /\ Poison(Range(agent[a].held))
    /\ failures' = failures + 1
    /\ Continue([agent EXCEPT ![a] = [r EXCEPT !.git = "lost", !.held = <<>>,
                                   !.pc = "unlock", !.result = "error"]],
                run, TRUE, "fence")

Created(a) ==
    /\ agent[a].pc = "create"
    /\ \/ \E Bad \in SUBSET Range(agent[a].held) :
            /\ MayFail(Range(agent[a].held), Bad)
            /\ Release(a, Range(agent[a].held), Bad)
            /\ Continue([agent EXCEPT ![a].held = <<>>,
                           ![a].worktree = IF Bad = {} THEN "live" ELSE @,
                           ![a].result = IF Bad = {} THEN @ ELSE "error",
                           ![a].pc = IF Bad = {} THEN "launch" ELSE "unlock"],
                        run, Bad # {}, "fence")
            /\ UNCHANGED failures
       \/ /\ Aborted(a)
          /\ Release(a, Range(agent[a].held), {})
          /\ agent' = [agent EXCEPT ![a].held = <<>>, ![a].result = "error",
                                    ![a].pc = "unlock"]
          /\ UNCHANGED <<run, failures, events>>
       \/ GitLost(a, agent[a])
    /\ UNCHANGED <<slots, spent, prompts, journal>>

\* The adapter is gone: a worktree is removed under the locks, everything
\* else has only its locks and its slot to give back.
AfterAdapter(a, r, abort) ==
    LET next == IF r.worktree = "live"
                THEN [r EXCEPT !.stage = "cleanup", !.pc = "lock"]
                ELSE [r EXCEPT !.pc = "unlock"]
    IN  /\ Continue([agent EXCEPT ![a] = next], run, abort, "fence")
        /\ IF r.worktree = "live" THEN TakeTicket(a, CleanupLocks[1])
                                  ELSE UNCHANGED <<tails, seen>>
        /\ UNCHANGED <<owner, retained, unreleased>>

\* The record of its worktree is waited for.
Unrecorded(a) == Kind[a] = "worktree" /\ journal # "ok"

Launched(a) ==
    /\ agent[a].pc = "launch"
    /\ \/ /\ ~Aborted(a) /\ ~Unrecorded(a)
          /\ agent' = [agent EXCEPT ![a].pc = "connect", ![a].tree = "up"]
          /\ UNCHANGED <<run, locks>>
       \/ /\ Aborted(a) \/ Unrecorded(a)
          /\ AfterAdapter(a, [agent[a] EXCEPT !.result = "error"], FALSE)
    /\ UNCHANGED <<slots, spent, prompts, journal, failures, events>>

\* Connected and configured, the adapter is prompted; what it does from here
\* on is paid for.
Connected(a) ==
    /\ agent[a].pc = "connect"
    /\ \/ /\ ~Aborted(a)
          /\ agent' = [agent EXCEPT ![a].pc = "prompt", ![a].prompted = TRUE]
          /\ prompts' = prompts + 1
       \/ /\ Aborted(a)
          /\ agent' = [agent EXCEPT ![a].pc = "stopping", ![a].result = "error"]
          /\ UNCHANGED prompts
    /\ UNCHANGED <<run, slots, locks, spent, journal, failures, events>>

Answered(a) ==
    /\ agent[a].pc = "prompt"
    /\ \/ /\ ~Aborted(a)
          /\ agent' = [agent EXCEPT ![a].pc = "stopping", ![a].result = "ok"]
       \/ /\ Aborted(a)
          /\ agent' = [agent EXCEPT ![a].pc = "stopping", ![a].result = "error"]
    /\ UNCHANGED <<run, slots, locks, spent, prompts, journal, failures, events>>

\* stopAndWait: the tree is confirmed dead, or it is not and everything stops.
AdapterStopped(a) ==
    /\ agent[a].pc = "stopping"
    /\ \/ /\ NoEvent /\ UNCHANGED failures
          /\ AfterAdapter(a, [agent[a] EXCEPT !.tree = "none"], FALSE)
       \/ /\ Event /\ failures' = failures + 1
          /\ AfterAdapter(a, [agent[a] EXCEPT !.tree = "lost",
                                             !.result = "error"], TRUE)
    /\ UNCHANGED <<slots, spent, prompts, journal>>

CleanedUp(a) ==
    /\ agent[a].pc = "cleanup"
    /\ \/ \E Bad \in SUBSET Range(agent[a].held) :
            /\ MayFail(Range(agent[a].held), Bad)
            /\ Release(a, Range(agent[a].held), Bad)
            /\ Continue([agent EXCEPT ![a] = AfterCleanup(@)],
                        run, Bad # {}, "fence")
            /\ UNCHANGED failures
       \/ GitLost(a, [agent[a] EXCEPT !.worktree = "none"])
    /\ UNCHANGED <<slots, spent, prompts, journal>>

(***************************************************************************)
(* The end of an attempt.                                                  *)
(***************************************************************************)
\* Mutant: only an answer is charged.
Charge_Answer(r) == IF r.prompted /\ r.result = "ok" THEN 1 ELSE 0

\* beforeRelease: an attempt that was prompted is charged, once.
Charge(r) == IF r.prompted THEN 1 ELSE 0

\* The usage is charged, the locks of a shared attempt go back or, if any tree
\* could not be confirmed dead meanwhile, stay; then the slot goes back.
Unlocked(a) ==
    /\ agent[a].pc = "unlock"
    /\ spent' = spent + Charge(agent[a])
    /\ slots' = slots \ {a}
    /\ \E Bad \in SUBSET Range(agent[a].held) :
         LET kept == failures > agent[a].failuresAt
             r == [agent[a] EXCEPT !.held = <<>>, !.prompted = FALSE,
                        !.result = IF Bad = {} THEN @ ELSE "error"]
         IN /\ IF kept THEN Bad = {} /\ NoEvent /\ Poison(Range(agent[a].held))
                       ELSE /\ MayFail(Range(agent[a].held), Bad)
                            /\ Release(a, Range(agent[a].held), Bad)
            /\ Continue([agent EXCEPT ![a] =
                            Settled(r, run.aborted # "no" \/ Bad # {})],
                        run, Bad # {}, "fence")
    /\ UNCHANGED <<prompts, journal, failures>>

\* The record of the outcome; a restart goes round the loop.
OutcomeRecorded(a) ==
    /\ agent[a].pc \in {"recDone", "recFail", "recRestart"}
    /\ LET r == agent[a]
           over(answer) == [r EXCEPT !.pc = "done", !.answer = answer]
       IN agent' = [agent EXCEPT ![a] =
            CASE r.pc = "recDone" /\ journal = "ok" -> over("ok")
              [] r.pc = "recDone" /\ journal # "ok" ->
                    [over("error") EXCEPT !.status = "failed",
                                          !.tries[r.attempt] = "failed"]
              [] r.pc = "recRestart" /\ journal = "ok" -> LoopHead(r)
              [] OTHER -> over("error")]
    /\ UNCHANGED <<run, slots, locks, spent, prompts, journal, failures, events>>

(***************************************************************************)
(* Commands, timers and failures.                                          *)
(***************************************************************************)
\* stopAgent and stop mark a call; an attempt that has not ended is marked
\* as well.
MarkedStopped(r) ==
    [r EXCEPT !.stop = TRUE, !.restart = FALSE, !.status = "stopping",
              !.tries = [n \in DOMAIN @ |-> IF n = r.attempt /\ @[n] = "running"
                                           THEN "stopping" ELSE @[n]],
              !.ctl = @ \/ r.pc \in Abortable]

RestartAgent(a) ==
    /\ Event
    /\ agent[a].status = "running" /\ agent[a].attempt < MaxAttempts
    /\ agent' = [agent EXCEPT ![a].restart = TRUE, ![a].ctl = TRUE,
                              ![a].status = "restarting"]
    /\ UNCHANGED <<run, slots, locks, spent, prompts, journal, failures>>

StopAgent(a) ==
    /\ Event
    /\ agent[a].pc # "none"
    /\ agent[a].status \in {"queued", "running", "restarting"}
    /\ agent' = [agent EXCEPT ![a] = MarkedStopped(@)]
    /\ UNCHANGED <<run, slots, locks, spent, prompts, journal, failures>>

\* stop: every call that has not ended is marked, the run is aborted.
StopRun ==
    /\ Event
    /\ ~run.committed /\ ~run.stopping
    /\ run.phase # "settled"
    /\ LET marked == [a \in Agents |->
                IF agent[a].pc = "none" \/ agent[a].status \in Final THEN agent[a]
                ELSE MarkedStopped(agent[a])]
       IN Continue(marked, [run EXCEPT !.stopping = TRUE], TRUE, "stop")
    /\ UNCHANGED <<slots, locks, spent, prompts, journal, failures>>

\* The timer of withTimeout, and that of the removal of a worktree; a call of
\* the attempt that fails is not told from a timer that fires during it.  In a
\* wait for somebody else's lock it costs no event: such a wait always ends.
Timeout(a) ==
    /\ IF Waits(a) THEN NoEvent ELSE Event
    /\ \/ /\ agent[a].pc \in Timed /\ ~agent[a].timedOut
          /\ agent' = [agent EXCEPT ![a].timedOut = TRUE]
       \/ /\ agent[a].pc \in {"lock", "cleanup"}
          /\ agent[a].stage = "cleanup" /\ ~agent[a].late
          /\ agent' = [agent EXCEPT ![a].late = TRUE]
    /\ UNCHANGED <<run, slots, locks, spent, prompts, journal, failures>>

JournalBreaks ==
    /\ Event
    /\ journal = "ok" /\ run.phase # "settled"
    /\ journal' = "broken"
    /\ UNCHANGED <<agent, run, slots, locks, spent, prompts, failures>>

\* An event of an adapter cannot be recorded, or is one too many
\* (#recordDetached, #agentEvent): the run is aborted.
EventRefused(a) ==
    /\ agent[a].pc \in {"connect", "prompt"} /\ run.aborted = "no"
    /\ IF journal = "ok" THEN Event ELSE NoEvent
    /\ Continue(agent, run, TRUE, "fail")
    /\ UNCHANGED <<slots, locks, spent, prompts, journal, failures>>

\* stopAll tries the failed releases again.
RetryReleases ==
    /\ Event
    /\ unreleased # {} /\ run.phase = "settled"
    /\ \E K \in SUBSET unreleased :
         /\ K # {}
         /\ tails' = [k \in Keys |-> IF k \in K
                        THEN Resolved(Closed(tails[k], owner[k])) ELSE tails[k]]
         /\ seen' = [k \in Keys |-> IF k \in K /\ tails'[k] = <<>>
                                    THEN FALSE ELSE seen[k]]
         /\ owner' = [k \in Keys |-> IF k \in K THEN Nobody ELSE owner[k]]
         /\ unreleased' = unreleased \ K
    /\ UNCHANGED <<agent, run, slots, retained, spent, prompts, journal, failures>>

(***************************************************************************)
(* The run (#executeRun) and its sandbox (WorkflowSandbox.run).            *)
(***************************************************************************)
\* The catch block of #executeRun.  A stop gives a stopped run, unless the
\* journal is what failed.
Caught(r, journalFailed) ==
    LET aborted == RunAborted(r, "fail")
    IN [aborted EXCEPT !.phase = "recFailed",
            !.final = IF aborted.aborted = "stop" /\ ~journalFailed
                      THEN "stopped" ELSE "failed"]

RunStarted ==
    /\ run.phase = "start"
    /\ IF journal = "ok" /\ run.aborted = "no"
       THEN run' = [run EXCEPT !.phase = "script", !.sandbox = "up"]
       ELSE run' = Caught(run, journal # "ok")
    /\ UNCHANGED <<agent, slots, locks, spent, prompts, journal, failures, events>>

\* The result of the script has arrived; requests may still be pending.
ScriptReturns ==
    /\ run.sandbox = "up"
    /\ run' = [run EXCEPT !.sandbox = "result"]
    /\ UNCHANGED <<agent, slots, locks, spent, prompts, journal, failures, events>>

\* A fatal message, a limit, the heartbeat, the wall clock, the memory check.
ScriptFails ==
    /\ Event
    /\ run.sandbox \in {"up", "result", "closing"}
    /\ run' = [run EXCEPT !.sandbox = Stopped(@)]
    /\ UNCHANGED <<agent, slots, locks, spent, prompts, journal, failures>>

Running == {"up", "failing", "result", "closing", "killing"}
Pending == {a \in Agents : agent[a].pc \notin {"none", "done"}}

\* Nothing is pending and the quiet period is over: the child is told to end.
Quiesce ==
    /\ run.sandbox = "result" /\ Pending = {}
    /\ run' = [run EXCEPT !.sandbox = "closing"]
    /\ UNCHANGED <<agent, slots, locks, spent, prompts, journal, failures, events>>

\* The child has exited: executeSource returns the result if this is what the
\* child was told, and throws otherwise.
SandboxExits ==
    /\ run.sandbox \in {"closing", "failing", "killing"}
    /\ LET gone == [run EXCEPT !.sandbox = "gone"] IN
       IF run.sandbox = "closing" /\ run.aborted = "no"
       THEN run' = [gone EXCEPT !.phase = "recDone"] /\ agent' = agent
       ELSE /\ run' = Caught(gone, FALSE)
            /\ agent' = AgentsAborted(agent)
    /\ UNCHANGED <<slots, locks, spent, prompts, journal, failures, events>>

\* No exit after SIGKILL: the process is fenced.
SandboxLost ==
    /\ Event
    /\ run.sandbox \in {"closing", "failing", "killing"}
    /\ run' = Caught([run EXCEPT !.sandbox = "lost",
                                 !.aborted = IF @ = "no" THEN "fence" ELSE @], FALSE)
    /\ agent' = AgentsAborted(agent)
    /\ UNCHANGED <<slots, locks, spent, prompts, journal, failures>>

RunCompleted ==
    /\ run.phase = "recDone"
    /\ IF journal = "ok" /\ run.aborted = "no"
       THEN run' = [run EXCEPT !.phase = "drain", !.committed = TRUE,
                              !.final = "completed"]
       ELSE run' = Caught(run, journal # "ok")
    /\ UNCHANGED <<agent, slots, locks, spent, prompts, journal, failures, events>>

\* The journal writes in order: an `agent_queued' before it is written first,
\* and its call has begun when run_failed is.
FailureRecorded ==
    /\ run.phase = "recFailed"
    /\ \A a \in Agents : agent[a].pc # "queuedRec"
    /\ run' = [run EXCEPT !.phase = "drain"]
    /\ UNCHANGED <<agent, slots, locks, spent, prompts, journal, failures, events>>

\* Mutant: the run settles without its agents.
Drained_AtOnce ==
    /\ run.phase = "drain"
    /\ run' = [run EXCEPT !.phase = "settled"]
    /\ UNCHANGED <<agent, slots, locks, spent, prompts, journal, failures, events>>

\* The executions have settled; closeRun, then the delivery record.
Drained ==
    /\ run.phase = "drain"
    /\ \A a \in Agents : agent[a].pc \notin Executing
    /\ run' = [run EXCEPT !.phase = "settled"]
    /\ UNCHANGED <<agent, slots, locks, spent, prompts, journal, failures, events>>

AgentStep(a) ==
    \/ QueuedRecorded(a) \/ LeaveQueue(a) \/ Granted(a)
    \/ Admitted(a) \/ Owned(a) \/ GiveUpLocks(a)
    \/ Created(a) \/ Launched(a) \/ Connected(a) \/ Answered(a)
    \/ AdapterStopped(a) \/ CleanedUp(a) \/ Unlocked(a) \/ OutcomeRecorded(a)

RunStep ==
    \/ RunStarted \/ Quiesce \/ SandboxExits \/ RunCompleted
    \/ FailureRecorded \/ Drained

Next ==
    \/ \E a \in Agents :
          \/ RequestAgent(a) \/ AgentStep(a) \/ Timeout(a)
          \/ RestartAgent(a) \/ StopAgent(a) \/ EventRefused(a)
    \/ RunStep \/ ScriptReturns \/ ScriptFails \/ SandboxLost
    \/ StopRun \/ JournalBreaks \/ RetryReleases

\* Timers fire, calls return, and the wall clock ends a script that does not
\* return by itself.
Fairness ==
    /\ \A a \in Agents : WF_vars(AgentStep(a)) /\ WF_vars(Timeout(a))
    /\ WF_vars(RunStep) /\ WF_vars(ScriptReturns)

Spec == Init /\ [][Next]_vars /\ Fairness

(***************************************************************************)
(* Properties.                                                             *)
(***************************************************************************)
TypeOK ==
    /\ \A a \in Agents :
         /\ agent[a].pc \in Executing \cup {"none", "queuedRec", "done"}
         /\ agent[a].attempt \in 0..MaxAttempts
         /\ Len(agent[a].tries) = agent[a].attempt
         /\ agent[a].answer \in {"none", "ok", "error"}
    /\ slots \subseteq Agents
    /\ \A k \in Keys : owner[k] \in Agents \cup {Nobody}
    /\ retained \subseteq Keys /\ unreleased \subseteq Keys
    /\ spent \in Nat /\ prompts \in Nat /\ failures \in Nat /\ events \in 0..MaxEvents

\* Who may be writing under lock k: an attempt in the project whose tree is
\* alive or not known to be dead, Git at work for a worktree, or a Git tree
\* that was lost.
Writers(k) ==
    {a \in Agents :
        \/ Kind[a] = "shared" /\ agent[a].tree # "none" /\ k \in Range(SetupLocks)
        \/ agent[a].pc = "create" /\ k \in Range(SetupLocks)
        \/ agent[a].pc = "cleanup" /\ k \in Range(CleanupLocks)
        \/ /\ agent[a].git = "lost"
           /\ k \in Range(IF agent[a].stage = "setup" THEN SetupLocks
                                                      ELSE CleanupLocks)}

\* At most one actor writes to a repository at a time, a process tree that
\* could not be confirmed dead counting as one for ever; and a lock's queue is
\* never forgotten while anybody is in it, whoever gave up in between: who comes
\* next waits behind it.
RepositoryExclusive ==
    \A k \in Keys :
        /\ Cardinality(Writers(k)) <= 1
        /\ \A a \in Writers(k) : owner[k] = a
        /\ tails[k] # <<>> => seen[k]

\* Every attempt that was prompted is charged before its slot is free, so the
\* budget is exceeded by the attempts under way and by nothing else.
BudgetHeld == prompts <= Budget - 1 + Slots

\* The answer of a call is that of its last attempt; those before it were
\* restarted, and a call that was stopped has no answer.
AnswerRight ==
    \A a \in Agents : agent[a].answer = "ok" =>
        /\ ~agent[a].stop /\ agent[a].status = "completed"
        /\ Last(agent[a].tries) = "completed"
        /\ \A n \in 1..(agent[a].attempt - 1) : agent[a].tries[n] = "restarted"

\* A settled run leaves no slot taken, no call waiting, no lock that is not
\* accounted for, and no tree alive but one that fenced the process.
SettledQuiet ==
    run.phase = "settled" =>
        /\ slots = {} /\ Pending = {}
        /\ \A k \in Keys : owner[k] # Nobody => k \in retained \cup unreleased
        /\ \A a \in Agents : agent[a].tree # "up"
        /\ (\E a \in Agents : agent[a].tree = "lost" \/ agent[a].git = "lost")
              => failures > 0 /\ run.final # "completed"
        /\ run.final = "completed" => \A a \in Agents : agent[a].answer # "none"
                                                       \/ agent[a].pc = "none"

\* Every run settles, whatever fails and whoever holds its locks.
RunSettles == <>(run.phase = "settled")
-----------------------------------------------------------------------------
(***************************************************************************)
(* The inductive invariant.  Its parts about one call take the record of   *)
(* the call and what they need of the locks as arguments.                  *)
(***************************************************************************)
Attempts ==
    [pc : Executing \cup {"none", "queuedRec", "done"},
     status : Final \cup {"queued", "running", "restarting", "stopping"},
     stop : BOOLEAN, restart : BOOLEAN, attempt : 0..MaxAttempts,
     tries : Seq(Final \cup {"running", "stopping", "restarted"}),
     ctl : BOOLEAN, timedOut : BOOLEAN, late : BOOLEAN,
     stage : {"setup", "cleanup"}, held : Seq(Keys),
     tree : {"none", "up", "lost"}, git : {"none", "lost"},
     worktree : {"none", "live"}, prompted : BOOLEAN,
     published : BOOLEAN, failuresAt : Nat,
     result : {"none", "ok", "error"}, answer : {"none", "ok", "error"}]

Runs ==
    [phase : {"start", "script", "recDone", "recFailed", "drain", "settled"},
     aborted : {"no", "stop", "fail", "fence"}, stopping : BOOLEAN,
     committed : BOOLEAN,
     sandbox : {"off", "up", "result", "closing", "failing", "killing", "gone", "lost"},
     final : Final \cup {"none"}]

Typed ==
    /\ agent \in [Agents -> Attempts] /\ run \in Runs
    /\ slots \subseteq Agents
    /\ DOMAIN tails = Keys /\ seen \in [Keys -> BOOLEAN]
    /\ owner \in [Keys -> Agents \cup {Nobody}]
    /\ retained \subseteq Keys /\ unreleased \subseteq Keys
    /\ spent \in Nat /\ failures \in Nat /\ events \in 0..MaxEvents

\* The attempts of a call, each with its record: only a restarted one is
\* followed by another, and nothing completes after a stop.
Tried(r) ==
    /\ Len(r.tries) = r.attempt
    /\ r.pc \in {"none", "queuedRec", "slot", "recRestart"} =>
         \A n \in 1..r.attempt : r.tries[n] = "restarted"
    /\ r.pc \in Timed \cup {"recDone"} \/ r.answer = "ok" =>
         /\ r.attempt > 0
         /\ \A n \in 1..(r.attempt - 1) : r.tries[n] = "restarted"
    /\ r.pc = "slot" => r.attempt < MaxAttempts /\ ~r.published
    /\ r.pc \in Timed => r.published
    /\ r.pc \in Abortable /\ r.stop => r.ctl
    /\ r.pc = "recDone" \/ r.answer = "ok" =>
         /\ ~r.stop /\ r.status = "completed"
         /\ r.tries[r.attempt] = "completed"
    /\ r.pc = "done" <=> r.answer # "none"

\* What runs for the call at each place.
AdapterUp == {"connect", "prompt", "stopping"}

Working(a, r) ==
    /\ r.pc \in {"slot", "admit", "create", "launch"} \cup AdapterUp => r.stage = "setup"
    /\ r.stage = "cleanup" => Kind[a] = "worktree"
    /\ r.pc = "lock" => Kind[a] # "reader"
    /\ r.pc = "create" => Kind[a] = "worktree"
    /\ r.pc = "cleanup" => r.stage = "cleanup"
    /\ r.worktree = "live" =>
         /\ Kind[a] = "worktree"
         /\ \/ r.pc \in {"launch"} \cup AdapterUp
            \/ r.pc \in {"lock", "cleanup"} /\ r.stage = "cleanup"
    /\ r.tree = "up" <=> r.pc \in AdapterUp

\* The locks in its hands: own[k] is the owner of lock k, and the locks in
\* fixed are in nobody's hands.
LocksOf(r) == IF r.stage = "setup" THEN SetupLocks ELSE CleanupLocks

Held(a, r, own, fixed) ==
    /\ r.pc = "lock" =>
         /\ Len(r.held) < Len(LocksOf(r))
         /\ \A i \in 1..Len(r.held) : r.held[i] = LocksOf(r)[i]
    /\ r.pc \in {"create", "cleanup"} => r.held = LocksOf(r)
    /\ Kind[a] = "shared" /\ r.pc \in {"launch"} \cup AdapterUp => r.held = SetupLocks
    /\ Kind[a] = "shared" /\ r.pc = "unlock" => r.held \in {SetupLocks, <<>>}
    /\ \/ r.pc \in {"lock", "create", "cleanup"}
       \/ Kind[a] = "shared" /\ r.pc \in {"launch", "unlock"} \cup AdapterUp
       \/ r.held = <<>>
    /\ \A k \in Range(r.held) : own[k] = a /\ k \notin fixed

\* A tree that could not be confirmed dead keeps its locks for good; before
\* that, an attempt in the project still holds them.
Ended == {"unlock", "recDone", "recFail", "done"}

Lost(a, r, own, kept, n) ==
    LET Keeps(s) == \A k \in Range(s) : own[k] = a /\ k \in kept IN
    /\ r.failuresAt <= n
    /\ r.tree = "lost" \/ r.git = "lost" => n > 0
    /\ r.tree = "lost" =>
         r.pc \in Ended \/ (r.pc \in {"lock", "cleanup"} /\ r.stage = "cleanup")
    /\ r.git = "lost" => r.pc \in Ended /\ Keeps(LocksOf(r))
    /\ Kind[a] = "shared" /\ r.tree = "lost" =>
         IF r.pc = "unlock" THEN r.held = SetupLocks /\ n > r.failuresAt
                            ELSE Keeps(SetupLocks)

Sound(a, r, own, kept, failed, n) ==
    /\ Tried(r) /\ Working(a, r)
    /\ Held(a, r, own, kept \cup failed) /\ Lost(a, r, own, kept, n)

\* A lock is owned by the call that holds it, or by one that ended without
\* giving it back.
Owners ==
    \A k \in Keys :
       /\ owner[k] # Nobody =>
            \/ k \in Range(agent[owner[k]].held)
            \/ k \in retained \cup unreleased /\ agent[owner[k]].pc \in Ended
       /\ k \in retained \cup unreleased => owner[k] # Nobody
       /\ ~(k \in retained /\ k \in unreleased)

Queued == \A k \in Keys : tails[k] # <<>> => seen[k]

Ran ==
    /\ failures > 0 \/ retained \cup unreleased # {} => run.aborted # "no"
    /\ run.sandbox = "off" => \A a \in Agents : agent[a].pc = "none"
    /\ run.phase = "start" => run.sandbox = "off"
    /\ run.phase = "script" <=> run.sandbox \in Running
    /\ run.phase = "recDone" \/ run.sandbox = "closing" \/ run.final = "completed"
         => Pending = {}
    /\ run.phase \in {"drain", "settled"} => \A a \in Agents : agent[a].pc # "queuedRec"
    /\ run.phase = "settled" => Pending = {}
    /\ run.final = "completed" => failures = 0 /\ run.committed
    /\ run.final # "none" <=> run.phase \in {"recFailed", "drain", "settled"}

Seated(a) ==
    /\ a \in slots <=> agent[a].pc \in Timed
    /\ agent[a].pc = "slot" /\ run.aborted # "no" => agent[a].ctl

IInv ==
    /\ Typed /\ Owners /\ Queued /\ Ran
    /\ \A a \in Agents :
         Seated(a) /\ Sound(a, agent[a], owner, retained, unreleased, failures)

\* The places of an attempt that was prompted and is not charged yet; such
\* attempts, and all that were admitted: each may still cost one.
Paying(r) ==
    \/ r.pc \in {"prompt", "stopping", "cleanup", "unlock"}
    \/ r.pc = "lock" /\ r.stage = "cleanup"

Prompted == {a \in Agents : agent[a].prompted}
AtWork ==
    {a \in Agents : \/ agent[a].pc \in Timed \ {"admit", "unlock"}
                    \/ agent[a].pc = "unlock" /\ agent[a].prompted}

Budgeted ==
    /\ \A a \in Prompted : Paying(agent[a])
    /\ Cardinality(slots) <= Slots
    /\ prompts = spent + Cardinality(Prompted)
    /\ spent + Cardinality(AtWork) <= Budget - 1 + Slots
=============================================================================
