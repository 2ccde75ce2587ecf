----------------------------- MODULE Scheduler -----------------------------
(***************************************************************************)
(* src/workflows/scheduler.mjs: the slots that workflow agents run in.      *)
(*                                                                          *)
(* Every method of WorkflowScheduler runs on the one JavaScript thread and  *)
(* is atomic, but several end in the private #drain loop, which may grant   *)
(* many slots.  The loop body is DrainGrant, the loop's exit DrainReturn;   *)
(* while `draining' is TRUE the method has not returned and nothing else    *)
(* may happen, so the loop is part of the method that called it.            *)
(*                                                                          *)
(* An entry of `Entries' is one agent call.  It may ask for a slot again    *)
(* once it is done: agents restart, and a run makes many calls.             *)
(***************************************************************************)
EXTENDS Naturals, Sequences, FiniteSets, FiniteSetsExt

CONSTANTS
    Runs,            \* run ids
    Harnesses,       \* harness names
    Entries,         \* agent calls
    RunOf,           \* entry.runId
    HarnessOf,       \* entry.harness
    RunLimit,        \* the limit each run is configured with
    GlobalLimit,     \* options.globalLimit
    HarnessLimit,    \* options.harnessLimit
    MaxPending       \* options.maxPending

ASSUME SchedulerAssumption ==
    /\ IsFiniteSet(Entries)
    /\ IsFiniteSet(Runs)
    /\ RunOf \in [Entries -> Runs]
    /\ HarnessOf \in [Entries -> Harnesses]
    /\ RunLimit \in [Runs -> Nat \ {0}]
    /\ GlobalLimit \in Nat \ {0}
    /\ HarnessLimit \in Nat \ {0}
    /\ MaxPending \in Nat \ {0}

VARIABLES
    active,          \* slots held
    activeByRun,     \* [Runs -> Nat], 0 when the map has no key
    activeByHarness, \* [Harnesses -> Nat], 0 when the map has no key
    gate,            \* runLimits and runGates: "absent", "open" or "shut"
    queues,          \* [Runs -> Seq(Entries)], <<>> when the map has no key
    runOrder,        \* the runs with a queue, in round-robin order
    nextRunIndex,    \* where the next search of runOrder starts (from 0)
    status,          \* what has become of each call: see Status
    draining         \* TRUE while a method is inside #drain

vars == <<active, activeByRun, activeByHarness, gate, queues, runOrder,
          nextRunIndex, status, draining>>

counters == <<active, activeByRun, activeByHarness>>

\* "idle": no promise, or rejected; "held": resolved with a release function
\* that was not called yet; "released": that function was called.
Status == {"idle", "queued", "held", "released"}

Held == {e \in Entries : status[e] = "held"}
Queued == {e \in Entries : status[e] = "queued"}

EffectiveLimit(r) == IF RunLimit[r] < GlobalLimit THEN RunLimit[r] ELSE GlobalLimit

-----------------------------------------------------------------------------
Init ==
    /\ active = 0
    /\ activeByRun = [r \in Runs |-> 0]
    /\ activeByHarness = [h \in Harnesses |-> 0]
    /\ gate = [r \in Runs |-> "absent"]
    /\ queues = [r \in Runs |-> <<>>]
    /\ runOrder = <<>>
    /\ nextRunIndex = 0
    /\ status = [e \in Entries |-> "idle"]
    /\ draining = FALSE

\* The manager configures a run once, before its first agent call.
ConfigureRun(r) ==
    /\ ~draining
    /\ gate[r] = "absent"
    /\ gate' = [gate EXCEPT ![r] = "open"]
    /\ UNCHANGED <<counters, queues, runOrder, nextRunIndex, status, draining>>

Pause(r) ==
    /\ ~draining
    /\ gate[r] # "absent"
    /\ gate' = [gate EXCEPT ![r] = "shut"]
    /\ UNCHANGED <<counters, queues, runOrder, nextRunIndex, status, draining>>

Resume(r) ==
    /\ ~draining
    /\ gate' = IF gate[r] = "absent" THEN gate ELSE [gate EXCEPT ![r] = "open"]
    /\ draining' = TRUE
    /\ UNCHANGED <<counters, queues, runOrder, nextRunIndex, status>>

Delete(s, i) == SubSeq(s, 1, i - 1) \o SubSeq(s, i + 1, Len(s))

\* runOrder.filter((id) => id !== runId); an id occurs at most once.
Without(order, r) ==
    IF \E i \in DOMAIN order : order[i] = r
    THEN Delete(order, CHOOSE i \in DOMAIN order : order[i] = r)
    ELSE order

\* The part cancelRun and closeRun share.  The cursor is left where it is.
DropQueue(r) ==
    /\ queues' = [queues EXCEPT ![r] = <<>>]
    /\ runOrder' = Without(runOrder, r)
    /\ status' = [e \in Entries |->
                    IF \E i \in DOMAIN queues[r] : queues[r][i] = e
                    THEN "idle" ELSE status[e]]

CancelRun(r) ==
    /\ ~draining
    /\ DropQueue(r)
    /\ UNCHANGED <<counters, gate, nextRunIndex, draining>>

\* Slots of the run that are still held stay counted until they come back.
CloseRun(r) ==
    /\ ~draining
    /\ DropQueue(r)
    /\ gate' = [gate EXCEPT ![r] = "absent"]
    /\ UNCHANGED <<counters, nextRunIndex, draining>>

Pending == MapThenSumSet(LAMBDA r : Len(queues[r]), Runs)

\* acquire: an aborted signal or a full queue rejects at once.
AcquireRejected(e) ==
    /\ ~draining
    /\ status[e] \in {"idle", "released"}
    /\ gate[RunOf[e]] # "absent"
    /\ status' = [status EXCEPT ![e] = "idle"]
    /\ UNCHANGED <<counters, gate, queues, runOrder, nextRunIndex, draining>>

Acquire(e) ==
    /\ ~draining
    /\ status[e] \in {"idle", "released"}
    /\ gate[RunOf[e]] # "absent"
    /\ Pending < MaxPending
    /\ runOrder' = IF queues[RunOf[e]] = <<>> THEN Append(runOrder, RunOf[e]) ELSE runOrder
    /\ queues' = [queues EXCEPT ![RunOf[e]] = Append(@, e)]
    /\ status' = [status EXCEPT ![e] = "queued"]
    /\ draining' = TRUE
    /\ UNCHANGED <<counters, gate, nextRunIndex>>

\* The abort listener of a queued call: #remove, then reject.
Abort(e) ==
    /\ ~draining
    /\ status[e] = "queued"
    /\ \E i \in DOMAIN queues[RunOf[e]] :
         /\ queues[RunOf[e]][i] = e
         /\ queues' = [queues EXCEPT ![RunOf[e]] = Delete(@, i)]
         /\ runOrder' = IF Len(queues[RunOf[e]]) = 1
                        THEN Without(runOrder, RunOf[e]) ELSE runOrder
    /\ status' = [status EXCEPT ![e] = "idle"]
    /\ UNCHANGED <<counters, gate, nextRunIndex, draining>>

\* The release function a held slot was resolved with.  Its `released' flag is
\* the guard: a second call returns at once.
\* Mutants: the flag is not looked at; the last slot of a key is kept.
MayRelease(e) == status[e] \in {"held", "released"}
DecrementKeepsLast(n) == IF n > 1 THEN n - 1 ELSE n

NotReleased(e) == status[e] = "held"
Decrement(n) == IF n > 0 THEN n - 1 ELSE 0

Release(e) ==
    /\ ~draining
    /\ NotReleased(e)
    /\ status' = [status EXCEPT ![e] = "released"]
    /\ active' = active - 1
    /\ activeByRun' = [activeByRun EXCEPT ![RunOf[e]] = Decrement(@)]
    /\ activeByHarness' = [activeByHarness EXCEPT ![HarnessOf[e]] = Decrement(@)]
    /\ draining' = TRUE
    /\ UNCHANGED <<gate, queues, runOrder, nextRunIndex>>

-----------------------------------------------------------------------------
\* Mutant: the gate is not checked.
EligibleIgnoresGate(e) ==
    /\ activeByRun[RunOf[e]] < EffectiveLimit(RunOf[e])
    /\ activeByHarness[HarnessOf[e]] < HarnessLimit
    /\ active < GlobalLimit

Eligible(e) ==
    /\ gate[RunOf[e]] # "shut"
    /\ activeByRun[RunOf[e]] <
         IF gate[RunOf[e]] = "absent" THEN 1 ELSE EffectiveLimit(RunOf[e])
    /\ activeByHarness[HarnessOf[e]] < HarnessLimit
    /\ active < GlobalLimit

\* Mutant: only the head of a queue is looked at.
HeadEligible(r) == queues[r] # <<>> /\ Eligible(queues[r][1])

HasEligible(r) == \E i \in DOMAIN queues[r] : Eligible(queues[r][i])

\* Mutant: the last eligible call of the queue instead of the first.
LastEligible(r, i) ==
    /\ Eligible(queues[r][i])
    /\ \A j \in DOMAIN queues[r] : j > i => ~Eligible(queues[r][j])

FirstEligible(r, i) ==
    /\ Eligible(queues[r][i])
    /\ \A j \in 1 .. i - 1 : ~Eligible(queues[r][j])

\* (nextRunIndex + offset) % runOrder.length, as an index from 1.
IndexAt(offset) ==
    LET start == nextRunIndex % Len(runOrder)
    IN  IF start + offset < Len(runOrder)
        THEN start + offset + 1
        ELSE start + offset + 1 - Len(runOrder)

\* Grant the i-th entry of the run at index p of runOrder.
Pick(p, i) ==
    LET r == runOrder[p]
        e == queues[r][i]
        last == Len(queues[r]) = 1
        left == IF last THEN Len(runOrder) - 1 ELSE Len(runOrder)
        \* the successor's index from 0, before the wrap
        next == IF last THEN p - 1 ELSE p
    IN  /\ queues' = [queues EXCEPT ![r] = Delete(@, i)]
        /\ runOrder' = IF last THEN Delete(runOrder, p) ELSE runOrder
        /\ nextRunIndex' = IF next < left THEN next ELSE 0
        /\ active' = active + 1
        /\ activeByRun' = [activeByRun EXCEPT ![r] = @ + 1]
        /\ activeByHarness' = [activeByHarness EXCEPT ![HarnessOf[e]] = @ + 1]
        /\ status' = [status EXCEPT ![e] = "held"]

\* One round of the loop: the first run at or after the cursor that has an
\* eligible entry, and the first such entry of its queue.
DrainGrant ==
    /\ draining
    /\ active < GlobalLimit
    /\ \E offset \in 0 .. Len(runOrder) - 1 :
         LET p == IndexAt(offset) IN
         /\ \A before \in 0 .. offset - 1 : ~HasEligible(runOrder[IndexAt(before)])
         /\ \E i \in DOMAIN queues[runOrder[p]] :
              /\ FirstEligible(runOrder[p], i)
              /\ Pick(p, i)
    /\ UNCHANGED <<gate, draining>>

DrainReturn ==
    /\ draining
    /\ \/ active >= GlobalLimit
       \/ \A offset \in 0 .. Len(runOrder) - 1 : ~HasEligible(runOrder[IndexAt(offset)])
    /\ draining' = FALSE
    /\ UNCHANGED <<counters, gate, queues, runOrder, nextRunIndex, status>>

Next ==
    \/ \E r \in Runs : \/ ConfigureRun(r) \/ Pause(r) \/ Resume(r)
                       \/ CancelRun(r) \/ CloseRun(r)
    \/ \E e \in Entries : \/ AcquireRejected(e) \/ Acquire(e) \/ Abort(e) \/ Release(e)
    \/ DrainGrant
    \/ DrainReturn

Spec == Init /\ [][Next]_vars

-----------------------------------------------------------------------------
TypeOK ==
    /\ active \in Nat
    /\ activeByRun \in [Runs -> Nat]
    /\ activeByHarness \in [Harnesses -> Nat]
    /\ gate \in [Runs -> {"absent", "open", "shut"}]
    /\ queues \in [Runs -> Seq(Entries)]
    /\ runOrder \in Seq(Runs)
    /\ nextRunIndex \in Nat
    /\ status \in [Entries -> Status]
    /\ draining \in BOOLEAN

HeldByRun(r) == {e \in Held : RunOf[e] = r}
HeldByHarness(h) == {e \in Held : HarnessOf[e] = h}

\* The three counters are kept apart from each other and from the release
\* closures: at every moment they equal the number of slots really out, also
\* after a run was closed under its running agents.
AccountingExact ==
    /\ active = Cardinality(Held)
    /\ \A r \in Runs : activeByRun[r] = Cardinality(HeldByRun(r))
    /\ \A h \in Harnesses : activeByHarness[h] = Cardinality(HeldByHarness(h))

\* No interleaving of grants, releases, pauses and closes hands out more slots
\* than the global, the per-harness and the per-run limit allow.
CapacityRespected ==
    /\ Cardinality(Held) <= GlobalLimit
    /\ \A h \in Harnesses : Cardinality(HeldByHarness(h)) <= HarnessLimit
    /\ \A r \in Runs : Cardinality(HeldByRun(r)) <= EffectiveLimit(r)

\* A queued call is in the queue of its own run, once; a queue holds nothing
\* else; and only a configured run has a queue.
QueuesHoldQueued ==
    /\ \A r \in Runs : \A i \in DOMAIN queues[r] :
         /\ status[queues[r][i]] = "queued"
         /\ RunOf[queues[r][i]] = r
         /\ gate[r] # "absent"
         /\ \A j \in DOMAIN queues[r] : queues[r][i] = queues[r][j] => i = j
    /\ \A e \in Queued : \E i \in DOMAIN queues[RunOf[e]] : queues[RunOf[e]][i] = e

\* runOrder lists exactly the runs with a queue, each once: a run missing from
\* it would never be searched, a stale one would be searched for ever.
RunOrderExact ==
    /\ \A i, j \in DOMAIN runOrder : runOrder[i] = runOrder[j] => i = j
    /\ \A i \in DOMAIN runOrder : queues[runOrder[i]] # <<>>
    /\ \A r \in Runs : queues[r] # <<>> => \E i \in DOMAIN runOrder : runOrder[i] = r

\* The queues and the order of the runs agree with the calls that wait.
QueuesExact == QueuesHoldQueued /\ RunOrderExact

\* The three books the scheduler keeps (slots, limits, queues) agree with what
\* really happened to every call, in every interleaving of its methods.
BooksExact == AccountingExact /\ CapacityRespected /\ QueuesExact

\* When a method has returned, no queued call could have been granted: no
\* wake-up is lost, although pause, abort, cancelRun and closeRun do not drain.
WorkConserving == draining \/ \A e \in Queued : ~Eligible(e)

\* A call overtakes another of its own run only when the two differ in harness:
\* between calls of one run for one harness the queue is first in, first out.
FifoWithinLane ==
    [][\A r \in Runs : \A i, j \in DOMAIN queues[r] :
         (/\ i < j
          /\ HarnessOf[queues[r][i]] = HarnessOf[queues[r][j]]
          /\ status'[queues[r][j]] = "held")
         => status'[queues[r][i]] # "queued"]_vars

\* The pool of slots the scheduler promises, read off its state.
Pool == INSTANCE SlotPool WITH
    RunCap <- [r \in Runs |-> EffectiveLimit(r)],
    HarnessCap <- HarnessLimit,
    PoolSize <- GlobalLimit,
    waiting <- Queued,
    holding <- Held,
    shut <- {r \in Runs : gate[r] = "shut"}

\* Every method, and every round of #drain, is a step of the slot pool or
\* leaves it unchanged.
ImplementsPool == Pool!PoolSpec
=============================================================================
