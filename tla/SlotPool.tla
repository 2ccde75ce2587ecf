------------------------------ MODULE SlotPool ------------------------------
(***************************************************************************)
(* What the workflow scheduler promises, without queues, cursors, counters *)
(* or drain loop: a pool of agent slots.  A request waits, is granted only  *)
(* while its run is not shut and while its run, its harness and the whole   *)
(* pool each have a free slot, holds its slot once, and gives it back once. *)
(* Scheduler.tla is shown to implement this module.                         *)
(***************************************************************************)
EXTENDS Naturals, FiniteSets

CONSTANTS
    Runs,          \* workflow runs
    Harnesses,     \* agent harnesses (Claude, Codex, ...)
    Entries,       \* agent calls that ask for a slot
    RunOf,         \* [Entries -> Runs]
    HarnessOf,     \* [Entries -> Harnesses]
    RunCap,        \* [Runs -> Nat]: slots one run may hold
    HarnessCap,    \* slots one harness may give out
    PoolSize       \* slots in all

VARIABLES
    waiting,       \* requests without a slot
    holding,       \* requests with a slot
    shut           \* runs that are paused

poolVars == <<waiting, holding, shut>>

HeldByRun(r) == {e \in holding : RunOf[e] = r}
HeldByHarness(h) == {e \in holding : HarnessOf[e] = h}

PoolInit == waiting = {} /\ holding = {} /\ shut = {}

Request(e) ==
    /\ e \notin waiting \cup holding
    /\ waiting' = waiting \cup {e}
    /\ UNCHANGED <<holding, shut>>

Withdraw(S) ==
    /\ S \subseteq waiting
    /\ waiting' = waiting \ S
    /\ UNCHANGED holding

Grant(e) ==
    /\ e \in waiting
    /\ RunOf[e] \notin shut
    /\ Cardinality(HeldByRun(RunOf[e])) < RunCap[RunOf[e]]
    /\ Cardinality(HeldByHarness(HarnessOf[e])) < HarnessCap
    /\ Cardinality(holding) < PoolSize
    /\ waiting' = waiting \ {e}
    /\ holding' = holding \cup {e}
    /\ UNCHANGED shut

GiveBack(e) ==
    /\ e \in holding
    /\ holding' = holding \ {e}
    /\ UNCHANGED <<waiting, shut>>

Shut(r) == shut' = shut \cup {r} /\ UNCHANGED <<waiting, holding>>
Open(r) == shut' = shut \ {r} /\ UNCHANGED <<waiting, holding>>

\* A run that ends withdraws its requests and stops being shut.
Retire(r) ==
    /\ Withdraw({e \in waiting : RunOf[e] = r})
    /\ shut' = shut \ {r}

PoolNext ==
    \/ \E e \in Entries : Request(e) \/ Grant(e) \/ GiveBack(e)
    \/ \E S \in SUBSET Entries : Withdraw(S) /\ UNCHANGED shut
    \/ \E r \in Runs : Shut(r) \/ Open(r) \/ Retire(r)

PoolSpec == PoolInit /\ [][PoolNext]_poolVars
=============================================================================
