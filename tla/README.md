# Verification of cc

`cc` (the npm package of this repository) drives Claude, Codex, Cursor, Pi,
OpenCode and other coding agents over ACP from one terminal program, and runs
*dynamic workflows*: scripts, written by an agent or a person, that launch many
agents, hold locks on repositories, and report back to the session that started
them. This directory holds TLA+ models of the parts where the order of steps
matters, the TLC configurations that check them, and proofs that the TLA+ proof
system checks.

All paths below are relative to the repository. `manager.mjs:2000` means
`src/workflows/manager.mjs`, line 2000, and so on for the other files of
`src/workflows`.

Run a model with `tlc -config X.cfg M`, the proofs of a component with
`tlapm MProofs.tla` (eight modules; the longest takes about seven minutes).

## 1. Inventory

One Node process is the host. JavaScript runs to the next `await` without
interruption, so every hazard sits at an `await`, a callback, a timer, another
process or the disk.

| Part | State | Operations | Meets | What makes it hard, and what would make it correct |
| --- | --- | --- | --- | --- |
| Scheduler (`scheduler.mjs`) | queue per run, round-robin cursor, counters of active slots | configure, acquire, release, pause, resume, cancel, close, abort | executor (release callback), manager | A release can come twice or after close; a change that makes a call eligible must drain. Counters exact, limits kept, no lost wake-up, order within a run. |
| Ownership locks (`ownership-lock.mjs`) | lock file, claim files, reclaim gate, persistent fences, pending releases | acquire, reclaim of a dead owner, release, poison | executor, registry, every other `cc` on the machine | Death at any file-system call; steps on paths that another process replaces. One owner at a time, also beside a dead owner's surviving agent. |
| Mutation locks (`adapter-executor.mjs`) | chain of local tails, locks taken in order | acquire, release, poison | ownership locks, worktrees | Cancelled waiters, half-acquired sets. |
| Launch (`manager.mjs`, `broker.mjs`, `mcp-server.mjs`) | stage of each start, lease, journal, index, launch marker, socket | start, accept, commit, roll back, clean up, stop, stop all | agent's MCP bridge, journal, scheduler | A socket that breaks between acknowledgements; a rename whose fsync fails; shutdown in the middle. What the caller is told must bind what is on disk and what runs. |
| Startup recovery (`manager.mjs`, `journal.mjs`) | index, run directories, leases | list, lease, judge, discard, archive | other live hosts | Works beside a live owner; must neither discard a started launch nor keep one that was never committed. |
| Run execution (`manager.mjs`, `adapter-executor.mjs`) | run, agents, attempts, budgets | pause, resume, stop, restart of one agent, retry | scheduler, sandbox, supervisor | Restart against a late answer of the attempt it replaces; stops, timers, failed writes at every `await`. The right answer, the budget, exclusive repositories, a run that settles. |
| Completion and delivery (`manager.mjs`, `pi-harness.mjs`) | delivery record, prompt queue, waiting deliveries, retirements | complete, queue, send, retire, retry, archive | session changes, shutdown, recovery | Durable writes between the decision to send and the send. The record must be true, the right session must get it, nothing may be forgotten. |
| Sandbox, supervisor (`sandbox-parent.mjs`, `worker-supervisor.mjs`) | child processes, tracked descendants | run, terminate, confirm | executor, locks | Event order of pipe end and exit; a tree that cannot be confirmed dead. |
| Journal, worktrees (`journal.mjs`, `worktrees.mjs`) | event log, snapshot, markers, Git worktrees | record, index, archive, create, apply, retain, clean | manager, recovery | Torn writes; an apply that is interrupted. Changes land once at most, and the record never denies it. |
| Registry (`registry.mjs`) | saved workflows, approvals | save, approve, resolve | launch | Files replaced between check and use. |
| Interactive host (`pi-harness.mjs`) | composer, queue, busy and cancel flags, session switch, connection, menus, side thread | submit, Escape, unqueue, `/new`, `/harness`, reconnect, rewind, exit | everything | Some twenty flags guard one queue. Input is never lost or doubled, one prompt at a time reaches the session it was typed for, the queue is not stranded. |
| ACP runtime and adapters (`src/harness`) | pending requests, buffered updates, stores | request, prompt, cancel, load, fork | agent processes | Late answers, process exit, permission requests across a cancellation. |
| Installer (`scripts/install-channel.mjs`) | links `current` and `previous`, transaction record, install lock, launch guard, leases of launches | install, roll back, launch, collect | other installers, every launch | Death or power failure between the steps of a swap; a collection that deletes what a launch has just resolved. The pair of links moves in one step, whoever completes it. |

Interaction: the agent calls the `Workflow` tool → MCP bridge → socket → broker →
manager `start`; the committed run executes its source in the sandbox, which asks
the executor for agents; the executor waits for a scheduler slot, takes the
repository locks, runs an agent under the supervisor; when the run ends the
manager writes its delivery record and calls the host, which queues the
completion for the session that launched it. `PROJECT.json` lists every part with
what is and is not modelled, and every hazard at its line.

## 2. Plan

Order of work, most important behaviour first. Each module has its constants and
their assumptions, one action per operation, and no recursive operator, so that it can be proved about.

| # | Module | Abstract specification | State |
| --- | --- | --- | --- |
| 1 | `Scheduler` | `SlotPool` | checked; safety, order and refinement proved |
| 2 | `OwnershipLock` | – | checked; safety proved, without its one race |
| 3 | `LaunchCommit` | `LaunchContract` | checked; safety and contract proved |
| 4 | `RunDelivery` | – | checked; safety proved |
| 5 | `RunExecution`: calls, attempts, sandbox, mutation locks | – | checked; safety proved |
| 6 | `InstallChannel` | `ChannelPointers` | checked; safety and refinement proved, without its two races |
| 7 | `WorktreeApply` | – | checked; safety proved |
| 8 | `HostSession` | – | checked; safety proved |
| 9 | supervisor termination (`worker-supervisor.mjs`) | stopped, or fenced | planned |
| 10 | ACP requests against process exit and cancellation; command cache; checkpoints; background-task stores | – | planned |
| 11 | journal reader on torn logs; permission rule matcher | reference definitions over bounded inputs | planned |

Every safety invariant and every action property that a run checks, and each of
the refinements, is now also a theorem (section 7). What is left of the plan is
the modules 9 to 11, and whatever theorems they will ask for.

## 3. Modules

### Scheduler, SlotPool, SchedulerProofs

`Scheduler` has one action per method of `WorkflowScheduler`; the loop of
`#drain` is `DrainGrant` (one grant) and `DrainReturn`. A method that calls
`#drain` leaves `draining` set, so that no other method interleaves, as in the
code. The release function is `Release`, guarded by the `released` flag.
`SlotPool` is the promise: a request waits, is granted while its run is open and
run, harness and pool have room, holds one slot, gives it back once. The
refinement maps queued calls to `waiting`, running calls to `holding`, paused
runs to `shut`.

### OwnershipLock, OwnershipLockProofs

State: the lock link, claim files, the gate, moved-away gates, fences, and for
each call its place in `acquireOwnershipLock` or in the release. A read and the
unlink that rests on it are separate steps. A process may die at any of them;
the agent tree it started drains within the supervisor's bound or survives it,
and then only a fence written before the start tells. `Grace` and
`ShutdownBound` are in ticks. Left out: a gate from an older version without an
owner file, a lock file that does not parse, and how Darwin and Windows determine
that a pid is the same process (`Dead` is one predicate).

### LaunchCommit, LaunchContract, LaunchCommitProofs

Bridge, socket (one frame queue each way, either end may close), broker,
manager, run directory, index entry, lease and marker. Failures: any file-system
call (`MaxFails`), death or power loss (`MaxCrashes`; after a power loss a rename
that was not synced may be undone), startups of another `cc` (`MaxRecoveries`).
`LaunchContract` has three variables, what is durably kept, what ran and what the
caller was told, and the steps allowed on them. Left out: the re-reading of
archived entries and the byte budget of the history, damaged markers and
capsules, the redundant second rollback of the request handler, evicted history;
`Archive` joins `markArchived`, the release of the lease and the removal from `runs`,
and leaves out the refusal after a termination failure (`manager.mjs:1608`), since
what fails to terminate is in `RunExecution`; one recovery is under way at a time. A stop that cannot be persisted acts as `FenceElsewhere`.

### RunDelivery, RunDeliveryProofs

State: per run the phase of `#executeRun`, the delivery record in memory and on
disk, and the queue of calls for the run's metadata lock, each with its caller
and the state it wants to write. `Step` is the call at the head of a lock: it is
refused, succeeds or throws (`Outcome`, which is `markDelivery` with
`#archiveIfSettled`), and what awaits it goes on in the same action
(`Deliver`, `Finish`, `Activated`, `Retried`, `Flushed`). `flush` is the program
counter of the loop of `flushPromptQueue` and `hand` its `prompt`. The session
that launched the runs is current, away (another session of the same agent
process) or gone. `stage` and `round` follow `stopAndExit`. Left out: `/btw`
side threads, switching workflows off at run time, queued shell output, Escape,
and the set that rejects a delivery id seen before (on this path a run completes
once, so it never rejects). The check in `sendPrompt` that the agent is ready is
covered by a turn that fails.

`lost` is a history variable: prompts that `promptQueue.shift()` removed in place
of the one the loop works on (see observation 3).

### RunExecution, RunExecutionProofs

One run: `#executeRun` and the sandbox it starts (`run`), the calls of its script
(`agent`, one record per call: status, attempt, place of the attempt in
`#runAgent`, `execute` or `#runAdapter`), and the locks that attempts take
(`tails` is the chain of `mutationTails`, `owner` the ownership lock behind it,
`retained` and `unreleased` what can no longer be given back). An action ends at
the next `await`. At each of them the attempt may find that it was aborted, that
its timer fired, or that the call failed; each of these costs one of `MaxEvents`,
as do commands of a person, except that the timer of an attempt that waits for
somebody else's lock costs nothing. The removal of a worktree has a timer of its
own (`late`). `Keys` are the repositories' lock keys, `Nobody` the owner of a free
one. `prompts` counts, for the run, the prompts sent to adapters. What is charged to the budget is what the attempt's answer or its
error carries. Left out: nested workflows, pause and resume (in `Scheduler`),
the projection of events to the page, and the limits on the number of requests.

### InstallChannel, ChannelPointers, InstallChannelProofs

Calls of `installChannel` (install or roll back), runs of the guarded launcher and
of a launcher from before the guard, on one channel: the two links, the
transaction record, the installer's lock, the launch guard, leases, the unguarded
mark, the directories of releases and the collection. `durable` is the disk
without the last write that is not synchronized. A process dies at any step, and
the power may fail. `ChannelPointers` is the user's view: a pair of releases that
a promotion or a rollback moves in one step; the refinement reads the pair off the
record when there is one, else off the links. Left out: dangling links, Windows,
the checks of a candidate before it is promoted, staging directories, claims and
tombstones (nobody reads them).

### WorktreeApply, WorktreeApplyProofs

The checkout of one attempt in one process, and any number of `cc` processes that
share its disk: `git worktree add`, the marker beside the checkout, the record in
the journal of events (`log`) and in the snapshot (`snap`), release of a clean
checkout, retention of a changed one, an application by the live run or from the
archive (`op`, by its place in `applyWorktree`), the recovery of the marker at a
start. A process may die anywhere, also in the middle of `git apply`; then the
project holds the changes wholly, partly or not at all. `mem` is what each
process knows of the worktree, `seen` what a recovery has read before it waits for
the lock. `Snapped` says that a start which does not read a run's journal can read
its snapshot; the run `worktree_apply_blind` drops it. `git worktree remove`
is two steps, the tree and then Git's list, and it may fail or die between them; a
tree deleted in part counts as still there. A missing checkout that recovery finds
is taken off the list while the lock is still held (the code does it after the lock
is released). Left out: previews, which read only, and several worktrees of one run.

### HostSession, HostSessionProofs

The main conversation of `pi-harness.mjs`. State: the composer, `promptQueue`, the
flags of a turn (`busy`, `cancel`, `steer`, `grace`, `unsend`, `tool`), the flags of
a session switch (`pendingNew`, `switching`), the backend's process and `ready`,
the calls of `sendPrompt`, `startNewSession` and `flushPromptQueue` that have not
returned (`tasks`), the calls of `switchAgent` (`conn`: the first runs, the others
wait), the reconnect, the drain timer and the watchdog. A continuation whose
promise has settled runs before the next key, timer or frame (`Due`), which is how
the event loop works and what several tests of `busy` rest on. `epoch` in a queue
entry or a task is a history field: the number of `/new` commands typed before the
prompt; `session` is the number that the backend's session comes after. The backend
may refuse a session, fail to start, die in two stages (it cannot be written to;
then its last frames are read and what it owes is rejected), or leave a tree that
cannot be confirmed dead. Finished runs' completions travel in the same queue and
are in `RunDelivery`; without them the discard of `/new` is one step (with them it
awaits writes, observation 9). Left out: `/btw` threads, deferred local commands,
pickers, menus and foreground operations, loaded and forked sessions,
authentication, shell output, and `/harness` while a connection is being made.

## 4. Runs

| Run | Instance | Question |
| --- | --- | --- |
| `scheduler` | 3 runs, 2 harnesses of 1 slot, 5 calls, pool of 2, queue bound 3 | Are counters, limits and queues right in every interleaving of all methods, is no wake-up lost, is the order in a lane kept, is it a slot pool? |
| `ownership_lock` | 3 calls, of three processes or two of one, 2 deaths, grace 2, bound 1 | One user and one reclaimer at a time, no file left by the living, nothing of the living discarded, every call settles? |
| `ownership_lock_steal` (violated) | 6 calls, 2 deaths, the gate's races only | One user at a time when the holder of the gate dies too? |
| `launch_commit` | a person's launch with 2 deaths, 2 recoveries, 1 failed call; or both launches and room for 1; or an agent's with 1 death and 1 failed call | Is it `LaunchContract`, is every launch on disk in somebody's care, does recovery stay away from a live owner, does every call and shutdown end? |
| `launch_phantom` (violated) | 1 launch, 1 recovery | Does startup discard what was never committed? |
| `run_delivery` | 2 runs, any 2 of typed prompt, session change, failed write; 1 death; shutdown | Is the record true, the right session served, nothing forgotten, shutdown complete? |
| `run_delivery_turn` (violated) | 1 run, 1 typed prompt | Does a completion wait for the turn under way? |
| `run_execution` | a call in the project and one in a worktree, 2 attempts each, budget 2, 2 events | Are repositories exclusive and the budget held, is the answer that of the last attempt, does a settled run leave nothing behind, does it settle? |
| `install_channel` | 2 installers, a guarded and an unguarded launch, 3 releases, every initial channel, 1 fault | Does the channel move as one pair, is nothing in use deleted, is one installer inside, does every call end? |
| `worktree_apply` | 2 processes, 2 applications used again and again, 3 of deaths, failures, edits | Does Git change the project once, is the record true, is no change lost? |
| `worktree_apply_blind` (violated) | the same, with starts that read neither journal nor snapshot | Does Git change the project once? |
| `host_session` | 3 prompts and 1 event, or 2 and 2, of `/new`, `/harness`, deaths and failed starts; any number of Escapes, timers, frames and refused sessions; 2 calls of `switchAgent` | Is input kept, one prompt at a time in the right session, the queue never stranded? |

Why the bounds suffice. The scheduler's limits are compared with sums over at
most two levels, and three runs that cross two harnesses reach every combination
of full and free; proofs cover the rest. The lock's races need a dead owner, a
reclaimer that dies, and one that finds both, hence three calls; the gate's
restore needs more. A launch's stages do not depend on other launches except
through capacity and the fence. In `RunDelivery` two completions are needed for
one to be shifted in place of the other; any behaviour listed in section 6 needs
two events at most. In `RunExecution` one call of each kind meets the other at
every lock, and a second attempt is the first that can be confused with another. An
installer needs a predecessor that died and a launch on each side of the guard;
three releases are the two of the channel and a new one (a release that leaves the
channel is collected). Two processes and two applications are needed for a stale
reader of a marker; the proofs cover the rest. In `HostSession` three prompts are
one that runs, one that waits and one that is being typed, and two events are a
death during a switch.

Restrictions of the instances, all in the MC modules: `Scope` (`launch_commit`)
and `ThreeCalls` (`ownership_lock`) choose the combinations above; `Canonical`,
`Ordered` name interchangeable things in one order; `OneFault`, `Faults` and `Few`
bound faults together. Three more are conditions that the code does not ensure, and
stand with the component's own specification: `NoSteal` and `Timely`
(`InstallChannel`) exclude the races of observations 12 and 14, `NoLateEdit`
(`WorktreeApply`) that of observation 15.

Deadlock is checked in `scheduler`, `run_delivery` and `run_delivery_turn`. In the
others the system may stop: every call has settled, a process that has died leaves
nothing to do, or the user does nothing.

### Properties that deserve a word

* `WorkConserving`: outside a method no queued call is eligible, which is the
  same as that no wake-up is lost.
* `OneAtATime`: nobody uses the lock together with another owner *or with the
  agent tree of a dead one*, and one reclaimer is inside the gate.
* `ContractHolds`: told "started" means committed; told "failed" means it is not
  kept and never runs, also after a death and a recovery.
* `NothingOrphaned`: a lease of a live host is always held by something that will
  release it, or the restart fence is up; and a marker of uncertain fate keeps
  all that recovery needs.
* `SentTruth`: after a send the record says `sending`, `delivered` or
  `ambiguous`, whoever else wrote to it meanwhile; at most one send.
* `NothingForgotten`: an open delivery of a settled run is always held by the
  queue, the waiting deliveries, the retirements or the loop; and a shutdown
  without failed writes leaves runs unarchived only in the two ways of
  observations 3 and 5.
* `RepositoryExclusive`: also with trees that could not be confirmed dead, which
  count as writers for ever, and with waiters that gave up in the middle of a chain.
* `ImplementsPointers`: a half-moved channel is, for its user, at the pair of its
  record; any later install, rollback or launch leads there.
* `AppliedOnce`: counts what Git did to the project, not what was recorded, and
  says that the record never shows less.
* `InputKept`: a prompt is in one place, once. Two exceptions: a prompt that Escape
  took back counts as the editor's although it may still be sent (observation 8), and
  one whose backend dies while it waits for the saved settings counts as given to the
  session although the backend refuses it.
* `NothingLost` (`WorktreeApply`): changes are in their checkout until they are in the
  project, a checkout has its marker, and one that Git lists without a marker beside it is
  one whose changes have landed. "Every checkout that Git lists has a marker" would be
  false (observation 17).
* `OneConversation`: the prompt under way was typed after the last `/new` that its
  session obeys and before the next one.

## 5. Fairness

Every liveness property is checked under weak fairness of steps that the event
loop or a timer takes: the continuation of an `await`, the clock tick, the
drain of a supervised tree (its supervisor has a deadline), the stages of
shutdown. Not assumed: that a person answers or types, that an agent ends its
turn by itself (in `ShutdownEnds` of `RunDelivery` turns end because shutdown
stops their agent, `pi-harness.mjs:17319`), that a call succeeds, that a process
recovers. `AttemptsSettle` excuses calls that wait for a live process that keeps
the lock or the gate: the code waits for it as well. `RunSettles` assumes the
timers of attempts and the wall clock of the run. `InstallsSettle` assumes only
that a process which runs goes on: the code has no wait without a deadline.
`QueueMoves` assumes the watchdog of the queue and the bound on stopping a process;
not the drain timer, so what it shows is that the watchdog alone suffices.

## 6. Findings and observations

Four runs are violated by the code and have an entry under "findings":

* `ownership_lock_steal`: retiring a stale gate by `rename` can move a live
  reclaimer's gate away; until it is put back two reclaimers are inside and the
  later one unlinks a live owner's lock.
* `launch_phantom`: recovery makes the directory of a rolled-back launch anew
  and archives it as an interrupted run.
* `run_delivery_turn`: a prompt typed while `sending` is being written starts a
  turn, and the completion is sent into it.
* `worktree_apply_blind`: a start that cannot read the journal of a run without a
  snapshot attaches its worktree from the marker, as retained, and Git is let
  loose on the project a second time.

Seen while modelling, described by no run of their own:

1. Scheduler. `cancelRun` and `#remove` (`scheduler.mjs:53`, `:97`) take a run out
   of `runOrder` without moving the cursor, unlike `#drain`; the run whose turn is
   next is then skipped once. The cursor also moves past runs that were skipped
   only because their harness was full (`:112`), so that two harnesses can starve
   a run; `docs/dynamic-workflows-plan.md:279` asks for "FIFO fairness across runs".
2. `manager.mjs:477-484`: recovery re-indexes from a list that is older than the
   index; a run its owner finished meanwhile gets a live entry again, until the
   next recovery. `manager.mjs:898`: a launch is refused with "requires a
   restart" also while a cleanup that will succeed is in progress.
3. `pi-harness.mjs:7866`, `:7909`, `:7920` shift the first prompt of the queue
   after an `await`. When `/new` has emptied the queue meanwhile, a prompt typed
   since, or another completion, is removed unsent. Such a completion stays
   `queued` with nobody to send or retire it, and its run is unarchived at
   shutdown. (The catch block, line 7928, does compare.)
4. `sendPrompt` returns from its `finally` when a `/new` waits for the turn
   (lines 7789-7794), which drops the turn's error: the completion is recorded
   `delivered` although the prompt failed. In the model, `TurnEnds` with
   `reset = "deferred"`.
5. `activateWorkflowDeliveries` skips a retirement that is in flight without
   awaiting it (line 7989), so a shutdown right after the replacement of the
   agent may report, and leave unarchived, a run whose record is still being
   written.
6. A completion that the loop retires while `/new` also hands it to the
   retirements leaves an entry behind that nothing can settle, since
   `markDelivery` answers `false` for an archived run: it is retried every
   second and makes the shutdown report a failure.
7. A completion already in the queue is retired, not retained, when the user
   resumes another session (lines 7855-7869), unlike one that arrives later.
8. Host. `prompt()` first waits up to 2 s for saved settings (`:3600`, `:3831`).
   Escape in that time sends the cancellation before the prompt, and
   `forceResolvePrompt` finds nothing to settle: a prompt that went back to the
   editor is sent all the same. A second Escape clears the grace timer and
   settles nothing, although the comment at `:8377` says that the page can never
   get stuck in canceling.
9. `startNewSession` awaits the discard of the queue before it sets
   `sessionSwitchInProgress` (`:15140`, `:15180`), contrary to the comment at
   `:15126`; a prompt typed while a completion is being retired goes to the old
   session.
10. After Escape, prompts typed while the turn is being cancelled are sent as soon
    as it has ended, by the loop of the submit (`:7286`), although the comment at
    `:7777` says that they must not be; and a submit between the end of a turn and
    the drain timer overtakes the queue. Each submit while the connecting process
    is dead calls `switchAgent` once more.
11. Run execution. A restart whose `agent_restarting` record fails leaves
    `restarting` in the final snapshot; an attempt that is aborted after its answer
    has the run charged and its own usage `unknown`; when the release of the setup
    locks fails after the worktree was created, the worktree is assigned to nobody
    until the next reconciliation; a worktree is removed also when its worker tree
    could not be confirmed dead.
12. Installer. Two installers that both judge a dead `.install-lock` can lose
    exclusivity: `renameSync` (`install-channel.mjs:1940`) moves whatever is at the
    path. `tests/channel_installer.test.mjs:121` expects that a live replacement
    is not reclaimed. `NoSteal` keeps the run free of it.
13. `promoteRelease` writes its record before it validates what `previous` will
    be; a current release whose content has changed leaves a record that every
    later install and rollback refuses. A crashed `--rollback` that is tried again
    is completed and then rolled back once more.
14. A launcher that was opened before the guard and resolves `current` only after
    the second promotion since gets a release that has neither marker nor lease,
    and two more promotions collect it from under the launch.
    `install-channel.mjs:1759` says "permanently preserve the first release
    exposed across that migration boundary. Subsequent guarded launchers all
    lease", which does not cover an unguarded one that is that late. With four
    installations, more than the run has, TLC's counterexample to
    `NothingPulledAway` has 68 states; `Timely` excludes it. The rename of a tombstone is not synchronized; a guard without an
    owner file is never reaped; staging directories of dead installers stay.
15. Worktrees. Edits in a kept checkout after its patch was taken go with
    `worktree remove --force` (`NoLateEdit` keeps the run free of it). A worktree
    whose cleanup could not confirm its Git tree is persisted without `retained`;
    after a restart it is shown as retained and refused by apply. A failed
    `git apply` stays `unconfirmed` for ever, which errs on the safe side.
16. `markArchived` (`manager.mjs:1608`) writes the index only, and the record on disk
    may be behind the one in memory when a write fails after it has taken effect.
    A completion that is retired while its archiving fails, is resumed, fails in
    the write of `sending` and is retired again is archived with `sending` on disk
    though nothing was sent, and the next start shows it as such. That needs more
    failed writes than the run has; the proof of `NothingLate` found it, and
    `FinalRecord` states what holds.
17. `git worktree remove` deletes the tree before the entry in Git's list. When it
    fails or dies between them in the removal of an applied checkout
    (`worktrees.mjs:777`, `:856`), the next start finds no checkout, swallows the
    `ENOENT` (`:858`) and drops the marker without a look at the list (`:860`); the
    entry stays, with nothing that knows of it. The branch for checkouts that were
    not applied does look, and says why: "Checkout absence alone is insufficient"
    (`:893`). No change is lost by it, which is what `NothingLost` now says.

## 7. Proofs

Every safety invariant and action property of a passing run, and the three
refinements (`ImplementsPool`, `ContractHolds`, `ImplementsPointers`), is a theorem
for every value of the constants. The assumptions are those that each module states
of its constants: sets are finite where something is counted, names are distinct,
bounds are natural numbers, the supervisor's bound is shorter than the grace. The
bounds on events and faults are constants too, so nothing is said about two
failures only, but about any number. Three components have a race that the code
can lose (section 6); what is proved of them is proved of the behaviours in which
it is not lost, and the specification that says so is named below.

Each proof has the same frame. An invariant `IInv` (`Safe` in two modules)
strengthens the properties until one step keeps it; one lemma per action, then
`Next`, then the temporal step. Where a component has many calls or runs, the
invariant is a conjunction over them, its parts are operators that take what they
read as arguments, and one frame lemma says that a step of one leaves the others
sound. The invariants were checked with TLC before they were proved.

### SchedulerProofs, of `Spec`

`TypeCorrect`, `BooksCorrect` (with `AccountingCorrect`, `QueuesCorrect` and
`CapacityCorrect` as steps to it), `NoLostWakeup`, `LanesAreFifo`,
`SchedulerImplementsPool`.

`IInv == TypeOK /\ AccountingExact /\ QueuesHoldQueued /\ RunOrderExact`. None of
the four is inductive alone: a release keeps `active` a natural number only
because the released slot is counted; a grant counts a slot once only because the
picked call is queued and stands in one place of one queue; a run leaves
`runOrder` exactly when its queue becomes empty only because both list the same
calls. Capacity and wake-ups are second inductions above `IInv`. `LanesAreFifo`
holds because the search of a queue stops at the first eligible call, and calls of
one run for one harness are eligible together. The refinement has one step per
action: `DrainGrant` is the pool's grant, `Release` its return, the rest request,
withdraw, shut or stutter.

### OwnershipLockProofs, of `QuietSpec`

`TypeCorrect` and `ClaimsAreRemoved` (of `Spec`), `LockConsistent`,
`LockIsExclusive`, `FilesAreRemoved`, `OnlyTheDeadAreReclaimed`, and
`ExclusiveWithoutGateDeaths` (of `Spec`, when `GateCrashes` is false).

`QuietSpec` is `Spec` while no two calls have judged the same gate stale
(`OneJudge`). That is the condition which the counterexample of
`ownership_lock_steal` breaks, and the corollary shows that a death inside the gate
is needed to break it. `IInv` says of each call what its place
implies: the gate path names whoever is inside, a dead owner was seen dead and has
no fence, a lock is its owner's. That a dead owner's agents are gone when its lock
is unlinked is an argument about time: while its tree drains, the reclaimer has
waited no longer than the tree has drained, and `ShutdownBound < Grace`.

### LaunchCommitProofs, of `Spec`

`LaunchConsistent`, `TypeCorrect`, `NothingIsOrphaned`, `RecoveryIsExclusive`,
`ShutdownIsComplete`, `FencesAreHeld`, `ContractIsKept`.

`IInv` has, per launch, what is on its socket (`Wire`), what was decided and is not
told yet (`Decided`), who has the lease (`Owned`), the tables of the manager
(`Registered`), a cleanup (`Cleaned`) and a recovery (`Recovered`) under way, what
the caller was promised (`Promised`) and what a shutdown has stopped (`Quiet`). The
facts that carry it: a registered launch has its lease; while a cleaner is at work
there is no marker, and the lease is live or the directory is not complete; behind
the fence every run is aborted; a rollback whose launch is still registered has its
cleanup registered as well; a committed frame, or an entry in the history, means a
durable marker. The refinement maps each step to one of the contract or to a stutter.

### RunDeliveryProofs, of `Spec`

`DeliveryConsistent`, `TypeCorrect`, `RecordsTellTheTruth`, `EveryCompletionIsKept`,
`NothingComesLate`.

`IInv` has, per run, who waits in its metadata lock and with what call (`Locked`),
where the completion is (`Placed`), what memory and disk may say (`Recorded`) and
how far a shutdown has come (`Settling`). The truth of the record rests on the
loop: it alone writes `sending`, it has the completion in hand until the write
returns, and after a send only `delivered` and `ambiguous` are still in a lock's
queue.

### RunExecutionProofs, of `Spec`

`RunConsistent`, `TypeCorrect`, `RepositoryIsExclusive`, `AnswersAreRight`,
`SettledIsQuiet`; above it `BudgetConsistent`, `BudgetIsHeld`.

`Owners` and `Queued` say whom each lock belongs to and in which order calls wait;
`Ran` what the run's phases leave; `Seated` and `Sound` where a call may stand with
what it has tried, holds and lost. A writer owns its lock, and an owner changes only
from `Nobody`, by the release of what is held, or when a kept lock is tried again;
any failure or kept lock aborts the run, and an aborted run grants, restarts and
completes nothing. For the budget, `Budgeted` counts three ways to the same sum:
what was prompted is what was charged and the attempts that were prompted and are
not charged yet, of which there is at most one for each slot; an admission finds the
budget not spent. (The proof also found that two guards of `AllLocked` overlapped in
the model for a removal under locks; they are exclusive in the code and now here.)

### InstallChannelProofs, of `OrderlySpec`

`SafeAlways`, `TypeCorrect`, `Exclusion`, `NothingLost`, `PointersImplemented`.

`OrderlySpec` is `Spec` while neither race is lost (`NoSteal`, `Timely`).
`Safe` is `Exclusive` (types, where each process is, what it owns) and `Data`: what
the record and both disks say at each place of the transaction (`Recorded`,
`Synchronized`), which directories are there (`Kept`), and which releases a
collection must keep and why it does (`Protected`). The record names both ends of a
promotion, so the pair that `ChannelPointers` sees moves when the record becomes
durable and not when the links do.

### WorktreeApplyProofs, of `SnappedSpec`, and of `QuietSpec`

`TypeCorrect`, `ApplyOnce` (of `SnappedSpec`), `ChangesAreKept` (of `QuietSpec`, that
is with `NoLateEdit`).

An application reads the record and changes the project five steps later, so the
property is not inductive. `Safe` adds what holds in between: an application is
inside the fence of the live run or that of its archive, and a run does not pass
from one to the other meanwhile (`Fenced`); the record says `unconfirmed` before
Git begins (`Staged`); what a process remembers is no older than the record it may
be compared with (`Remembered`); nobody but its owner knows a run that goes on
(`Owned`). `StartKeeps` is where `Snapped` is needed, and `worktree_apply_blind`
shows that it is. For `ChangesAreKept`, a running attempt has its checkout to itself
(`AttemptAlone`), a record of an application means that the changes in the
checkout are in the project (`AppliedIsLanded`), and a release that removes a
checkout finds nothing in it and takes it off Git's list before the marker goes
(`RemovesNothing`); only the removal of an applied checkout can leave an entry
without its marker.

### HostSessionProofs, of `Spec`

`HostConsistent`, `TypeCorrect`, `InputIsKept`, `OneConversationAtATime`.

`IInv == Input /\ Plain /\ Connection /\ Callers`: where each prompt is; the flags
of turn, switch, wake-up and backend; the line of `switchAgent` calls, of which only
the first has begun; and of every call what the rest of the state must be for it
(`Fits`) and what it may be beside another (`Besides`). Most steps change flags only
and keep all calls by one lemma (`Calm`); a step of a call moves that one
(`Progress`). The argument for one conversation: a prompt is sent only to a live
backend that is neither busy nor being switched, and then no call has it and
its session is the one of every queued prompt; a call that has the backend needs
it `busy`, a switch takes the backend from every call, and while it connects no
call has one. The argument for the input moves texts between editor, queue and
session, and needs facts about `FlattenSeq`, which is defined by recursion.
They are proved by induction over a set of numbers (`LeastNumber`, from the
library's theorem on well-founded orders that takes no operator; `SetInduction`,
`AppendInduction`).

### Only model-checked

* Liveness, because fairness and `ENABLED` are out of the prover's reach:
  `AttemptsSettle`, `LaunchesSettle`, `ShutdownEnds`, `RunSettles`,
  `InstallsSettle`, `QueueMoves`. They hold on the bounded instances of section 4.
* The four properties that the code violates. A counterexample needs no proof.
* `OneAtATime`, `FilesAccountedFor` and `OnlyDeadDiscarded` with deaths inside the
  gate: the run has them, with three calls, which are too few for the race;
  the theorems have any number, without the race.

Induction theorems of the library that take an operator as parameter cannot be
used with the installed provers; induction over sets, as above, can.

## 8. Not modelled

See `PROJECT.json` for each part and the reason. In short: rendering, parsing and
formatting, which make up most of the lines of `pi-harness.mjs`; protocol
translation in the adapters; Git, the sandboxed program and the agents themselves,
which are external. Planned but not written: the supervisor's own event loop
(`OwnershipLock` and `RunExecution` know its outcomes), the ACP runtime, the
permission flow, the command cache, checkpoints, the readers of the journal, and
of the host the side threads, deferred commands and pickers.
