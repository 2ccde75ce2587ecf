------------------------- MODULE RunExecutionProofs -------------------------
(***************************************************************************)
(* Theorems about RunExecution, for any calls, locks, slots and bounds.    *)
(* A step of one call leaves the others as they are but for an abort; what *)
(* it must keep of the locks, the run and its own record is collected in   *)
(* Moves, MovesTo and GoesOn, and every action is an instance of one.      *)
(***************************************************************************)
EXTENDS RunExecution, FiniteSetTheorems, SequenceTheorems, TLAPS

USE DEF Running

-----------------------------------------------------------------------------
(***************************************************************************)
(* The calls that a step does not touch.                                   *)
(***************************************************************************)
\* What a record may become in a step of another call: it hears of an abort.
Near(s, r) == s = r \/ (r.pc \in Abortable /\ s = [r EXCEPT !.ctl = TRUE])

LEMMA NearTyped ==
  ASSUME NEW r \in Attempts, NEW s, Near(s, r)
  PROVE /\ s \in Attempts /\ s.pc = r.pc /\ s.held = r.held /\ s.stage = r.stage
        /\ s.tree = r.tree /\ s.git = r.git /\ s.status = r.status /\ s.answer = r.answer
        /\ r.ctl => s.ctl
  BY DEF Near, Attempts

\* A step of another call leaves this one sound.
LEMMA NearSound ==
  ASSUME NEW b \in Agents, NEW r \in Attempts, NEW s, Near(s, r),
         NEW o, NEW R, NEW U, NEW n \in Nat, Sound(b, r, o, R, U, n),
         NEW o2, NEW R2, NEW U2, NEW n2 \in Nat, n <= n2, R \subseteq R2,
         \A k \in Keys : o[k] = b /\ k \in Range(r.held) \cup R => o2[k] = b,
         \A k \in Keys : o[k] = b /\ k \in Range(r.held) => k \notin R2 \cup U2
  PROVE  Sound(b, s, o2, R2, U2, n2)
<1>1. /\ s \in Attempts /\ s.pc = r.pc /\ s.held = r.held /\ s.stage = r.stage
      /\ s.tree = r.tree /\ s.git = r.git /\ s.status = r.status /\ s.answer = r.answer
      /\ r.ctl => s.ctl
  BY NearTyped
<1>2. /\ s.stop = r.stop /\ s.tries = r.tries /\ s.attempt = r.attempt /\ s.published = r.published
      /\ s.worktree = r.worktree /\ s.failuresAt = r.failuresAt
  BY DEF Near, Attempts
<1>3. Tried(s) BY <1>1, <1>2 DEF Sound, Tried
<1>4. Working(b, s) BY <1>1, <1>2 DEF Sound, Working
<1>5. Range(r.held) \subseteq Keys /\ Range(LocksOf(r)) \subseteq Keys /\ Range(SetupLocks) \subseteq Keys
  BY RunAssumption DEF Range, LocksOf, Attempts
<1>6. Held(b, s, o2, R2 \cup U2)
  BY <1>1, <1>2, <1>5 DEF Sound, Held, LocksOf
<1>7. r.failuresAt \in Nat BY DEF Attempts
<1>8. Lost(b, s, o2, R2, n2)
  BY <1>1, <1>2, <1>5, <1>7 DEF Sound, Lost, LocksOf
<1> QED BY <1>3, <1>4, <1>6, <1>8 DEF Sound

\* A step of call a as the others see it: where a lock changes hands or stays
\* behind, it was a's or nobody's, and an abort of the run reaches every call.
Others(a) ==
  /\ agent' \in [Agents -> Attempts] /\ run' \in Runs
  /\ \A b \in Agents \ {a} : Near(agent'[b], agent[b])
  /\ owner' \in [Keys -> Agents \cup {Nobody}]
  /\ \A k \in Keys : owner[k] \notin {a, Nobody} => owner'[k] = owner[k]
  /\ \A k \in Keys : owner'[k] \notin {a, Nobody} => owner'[k] = owner[k]
  /\ retained \subseteq retained' /\ retained' \subseteq Keys
  /\ unreleased \subseteq unreleased' /\ unreleased' \subseteq Keys
  /\ \A k \in (retained' \cup unreleased') \ (retained \cup unreleased) : owner[k] = a
  /\ failures' \in Nat /\ failures <= failures'
  /\ run.aborted # "no" => run'.aborted # "no"
  /\ run.aborted = "no" /\ run'.aborted # "no" =>
       \A b \in Agents : agent'[b].pc = "slot" => agent'[b].ctl

LEMMA SoundMoves ==
  ASSUME IInv, NEW a \in Agents, Others(a), slots' \subseteq Agents, slots' \ {a} = slots \ {a},
         NEW b \in Agents \ {a}
  PROVE  Seated(b)' /\ Sound(b, agent'[b], owner', retained', unreleased', failures')
<1>1. agent[b] \in Attempts /\ Near(agent'[b], agent[b]) /\ a # b /\ b # Nobody
  BY RunAssumption DEF IInv, Typed, Others
<1>2. Sound(b, agent[b], owner, retained, unreleased, failures) /\ Seated(b) BY DEF IInv
<1>3. failures \in Nat /\ failures' \in Nat /\ failures <= failures' BY DEF IInv, Typed, Others
<1>4. \A k \in Keys : owner[k] = b => owner'[k] = b BY <1>1 DEF Others
<1>5. Held(b, agent[b], owner, retained \cup unreleased) BY <1>2 DEF Sound
<1>6. \A k \in Keys : owner[k] = b /\ k \in Range(agent[b].held) => k \notin retained' \cup unreleased'
  BY <1>1, <1>5 DEF Others, Held
<1>7. retained \subseteq retained' BY DEF Others
<1>8. Sound(b, agent'[b], owner', retained', unreleased', failures')
  BY <1>1, <1>2, <1>3, <1>4, <1>6, <1>7, NearSound
<1>9. agent'[b].pc = agent[b].pc /\ (agent[b].ctl => agent'[b].ctl) BY <1>1, NearTyped
<1>10. Seated(b)' BY <1>1, <1>2, <1>9 DEF Seated, Others
<1> QED BY <1>8, <1>10

LEMMA OwnersMove ==
  ASSUME IInv, NEW a \in Agents, Others(a),
         \A k \in Keys : owner'[k] = a =>
            k \in Range(agent'[a].held) \/ (k \in retained' \cup unreleased' /\ agent'[a].pc \in Ended),
         \A k \in retained' \cup unreleased' : owner'[k] # Nobody,
         retained' \cap unreleased' = {}
  PROVE  Owners'
<1> SUFFICES ASSUME NEW k \in Keys, owner'[k] # Nobody, owner'[k] # a
             PROVE  \/ k \in Range(agent'[owner'[k]].held)
                    \/ k \in retained' \cup unreleased' /\ agent'[owner'[k]].pc \in Ended
  BY DEF Owners
<1>1. owner'[k] = owner[k] /\ owner[k] \in Agents \ {a} BY DEF Others
<1>2. \/ k \in Range(agent[owner[k]].held)
      \/ k \in retained \cup unreleased /\ agent[owner[k]].pc \in Ended
  BY <1>1 DEF IInv, Owners
<1>3. agent[owner[k]] \in Attempts /\ Near(agent'[owner[k]], agent[owner[k]]) BY <1>1 DEF IInv, Typed, Others
<1>4. agent'[owner[k]].pc = agent[owner[k]].pc /\ agent'[owner[k]].held = agent[owner[k]].held
  BY <1>3, NearTyped
<1> QED BY <1>1, <1>2, <1>4 DEF Others

\* A step of a call that is under way keeps what is said of the run.
LEMMA RanMoves ==
  ASSUME IInv, NEW a \in Agents, Others(a), agent[a].pc \notin {"none", "done"},
         agent'[a].pc \notin {"none", "queuedRec"},
         run' = run \/ run' = [run EXCEPT !.aborted = run'.aborted, !.sandbox = Stopped(@)],
         failures' > 0 \/ retained' \cup unreleased' # {} => run'.aborted # "no"
  PROVE  Ran'
<1>1. /\ run'.phase = run.phase /\ run'.final = run.final /\ run'.committed = run.committed
      /\ run'.sandbox \in {run.sandbox, Stopped(run.sandbox)}
  BY DEF IInv, Typed, Runs
<1>2. a \in Pending BY DEF Pending
<1>3. \A b \in Agents \ {a} : agent'[b].pc = agent[b].pc BY NearTyped DEF Others, IInv, Typed
<1>4. Pending # {} /\ run.phase \notin {"recDone", "settled"} /\ run.sandbox \notin {"closing", "off"}
      /\ run.final # "completed" /\ run.phase # "start"
  BY <1>2 DEF IInv, Ran
<1>5. run'.sandbox \notin {"closing", "off"}
      /\ (run.sandbox \in Running <=> run'.sandbox \in Running)
  BY <1>1, <1>4 DEF Stopped
<1>6. \A b \in Agents : agent'[b].pc = "queuedRec" => agent[b].pc = "queuedRec" BY <1>3
<1>7. run.phase \in {"drain", "settled"} => \A b \in Agents : agent[b].pc # "queuedRec" BY DEF IInv, Ran
<1>8. run.phase = "script" <=> run.sandbox \in Running BY DEF IInv, Ran
<1>9. run.final # "none" <=> run.phase \in {"recFailed", "drain", "settled"} BY DEF IInv, Ran
<1> QED BY <1>1, <1>4, <1>5, <1>6, <1>7, <1>8, <1>9 DEF Ran

\* What has to be shown of a step of a call that is under way.
LEMMA Moves ==
  ASSUME IInv, NEW a \in Agents, Others(a),
         agent[a].pc \notin {"none", "done"}, agent'[a].pc \notin {"none", "queuedRec"},
         run' = run \/ run' = [run EXCEPT !.aborted = run'.aborted, !.sandbox = Stopped(@)],
         failures' > 0 \/ retained' \cup unreleased' # {} => run'.aborted # "no",
         slots' \subseteq Agents, slots' \ {a} = slots \ {a}, Seated(a)',
         Sound(a, agent'[a], owner', retained', unreleased', failures'),
         DOMAIN tails' = Keys, seen' \in [Keys -> BOOLEAN], Queued',
         spent' \in Nat, events' \in 0..MaxEvents,
         \A k \in Keys : owner'[k] = a =>
            k \in Range(agent'[a].held) \/ (k \in retained' \cup unreleased' /\ agent'[a].pc \in Ended),
         \A k \in retained' \cup unreleased' : owner'[k] # Nobody,
         retained' \cap unreleased' = {}
  PROVE  IInv'
<1>1. Owners' BY OwnersMove
<1>2. Ran' BY RanMoves
<1>3. Typed' BY DEF Typed, Others
<1>4. \A b \in Agents \ {a} : Seated(b)' /\ Sound(b, agent'[b], owner', retained', unreleased', failures')
  BY SoundMoves
<1> QED BY <1>1, <1>2, <1>3, <1>4 DEF IInv

-----------------------------------------------------------------------------
(***************************************************************************)
(* A step of one call, which may abort the run.                            *)
(***************************************************************************)
LEMMA SetupFacts ==
  /\ SetupLocks \in Seq(Keys) /\ CleanupLocks \in Seq(Keys)
  /\ Len(SetupLocks) \in Nat \ {0} /\ Len(CleanupLocks) \in Nat \ {0}
  /\ \A r : LocksOf(r) \in {SetupLocks, CleanupLocks}
BY RunAssumption DEF LocksOf

\* The call goes on with record r, and the run is aborted or is not.
LEMMA Continues ==
  ASSUME IInv, NEW a \in Agents, NEW r \in Attempts, NEW abort \in BOOLEAN, NEW why \in {"stop", "fail", "fence"},
         Continue([agent EXCEPT ![a] = r], run, abort, why)
  PROVE  /\ agent' \in [Agents -> Attempts] /\ run' \in Runs
         /\ Near(agent'[a], r) /\ \A b \in Agents \ {a} : Near(agent'[b], agent[b])
         /\ run' = run \/ run' = [run EXCEPT !.aborted = run'.aborted, !.sandbox = Stopped(@)]
         /\ run'.aborted # "no" <=> abort \/ run.aborted # "no"
         /\ abort => \A b \in Agents : agent'[b].pc = "slot" => agent'[b].ctl
<1>1. agent \in [Agents -> Attempts] /\ run \in Runs BY DEF IInv, Typed
<1> DEFINE f == [agent EXCEPT ![a] = r]
<1>2. f \in [Agents -> Attempts] /\ f[a] = r /\ \A b \in Agents \ {a} : f[b] = agent[b] BY <1>1
<1> HIDE DEF f
<1>3. CASE ~abort
  <2>1. agent' = f /\ run' = run BY <1>3 DEF Continue, f
  <2> QED BY <1>1, <1>2, <1>3, <2>1 DEF Near
<1>4. CASE abort
  <2>1. agent' = AgentsAborted(f) /\ run' = RunAborted(run, why) BY <1>4 DEF Continue, f
  <2>2. \A b \in Agents : agent'[b] = IF f[b].pc \in Abortable THEN [f[b] EXCEPT !.ctl = TRUE] ELSE f[b]
    BY <2>1 DEF AgentsAborted
  <2>4. \A b \in Agents : Near(agent'[b], f[b]) BY <2>2 DEF Near
  <2>3. agent' \in [Agents -> Attempts]
    <3>1. \A b \in Agents : agent'[b] \in Attempts BY <1>2, <2>4, NearTyped
    <3>2. agent' = [b \in Agents |-> agent'[b]] BY <2>1 DEF AgentsAborted
    <3> QED BY <3>1, <3>2
  <2>5. ASSUME NEW b \in Agents, agent'[b].pc = "slot" PROVE agent'[b].ctl
    <3>1. f[b] \in Attempts BY <1>2
    <3>2. f[b].pc = "slot" BY <2>4, <2>5, <3>1, NearTyped
    <3>3. agent'[b] = [f[b] EXCEPT !.ctl = TRUE] BY <2>2, <3>2 DEF Abortable
    <3> QED BY <3>1, <3>3 DEF Attempts
  <2>6. run' = [run EXCEPT !.aborted = IF @ = "no" THEN why ELSE @, !.sandbox = Stopped(@)] BY <2>1 DEF RunAborted
  <2>7. run' \in Runs /\ run'.aborted # "no" /\ run' = [run EXCEPT !.aborted = run'.aborted, !.sandbox = Stopped(@)]
    BY <1>1, <2>6 DEF Runs, Stopped
  <2> QED BY <1>2, <1>4, <2>3, <2>4, <2>5, <2>7
<1> QED BY <1>3, <1>4

\* Locks as a step of call a leaves them.
LocksBy(a) ==
  /\ owner' \in [Keys -> Agents \cup {Nobody}]
  /\ \A k \in Keys : owner[k] \notin {a, Nobody} \/ owner'[k] \notin {a, Nobody} => owner'[k] = owner[k]
  /\ retained \subseteq retained' /\ retained' \subseteq Keys
  /\ unreleased \subseteq unreleased' /\ unreleased' \subseteq Keys
  /\ \A k \in (retained' \cup unreleased') \ (retained \cup unreleased) : owner[k] = a
  /\ \A k \in retained' \cup unreleased' : owner'[k] # Nobody
  /\ retained' \cap unreleased' = {}
  /\ DOMAIN tails' = Keys /\ seen' \in [Keys -> BOOLEAN] /\ Queued'

LEMMA MovesTo ==
  ASSUME IInv, NEW a \in Agents, NEW r \in Attempts, NEW abort \in BOOLEAN, NEW why \in {"stop", "fail", "fence"},
         Continue([agent EXCEPT ![a] = r], run, abort, why),
         agent[a].pc \notin {"none", "done"}, r.pc \notin {"none", "queuedRec"},
         r.pc = "slot" /\ run.aborted # "no" => r.ctl,
         slots' \subseteq Agents, slots' \ {a} = slots \ {a}, a \in slots' <=> r.pc \in Timed,
         LocksBy(a), failures' \in Nat, failures <= failures',
         failures' > 0 \/ retained' \cup unreleased' # {} => abort \/ run.aborted # "no",
         Sound(a, r, owner', retained', unreleased', failures'),
         spent' \in Nat, events' \in 0..MaxEvents,
         \A k \in Keys : owner'[k] = a =>
            k \in Range(r.held) \/ (k \in retained' \cup unreleased' /\ r.pc \in Ended)
  PROVE  IInv'
<1>1. /\ agent' \in [Agents -> Attempts] /\ run' \in Runs
      /\ Near(agent'[a], r) /\ \A b \in Agents \ {a} : Near(agent'[b], agent[b])
      /\ run' = run \/ run' = [run EXCEPT !.aborted = run'.aborted, !.sandbox = Stopped(@)]
      /\ run'.aborted # "no" <=> abort \/ run.aborted # "no"
      /\ abort => \A b \in Agents : agent'[b].pc = "slot" => agent'[b].ctl
  BY Continues
<1>2. Others(a) BY <1>1 DEF Others, LocksBy
<1>3. agent'[a].pc = r.pc /\ agent'[a].held = r.held /\ (r.ctl => agent'[a].ctl) BY <1>1, NearTyped
<1>4. Held(a, r, owner', retained' \cup unreleased') BY DEF Sound
<1>5. \A k \in Keys : owner'[k] = a /\ k \in Range(r.held) => k \notin retained' \cup unreleased'
  BY <1>4 DEF Held
<1>6. Sound(a, agent'[a], owner', retained', unreleased', failures')
  <2> DEFINE s == agent'[a]  o == owner'  R == retained'  U == unreleased'  n == failures'
  <2>1. Near(s, r) /\ n \in Nat /\ n <= n /\ R \subseteq R /\ Sound(a, r, o, R, U, n) BY <1>1
  <2>2. \A k \in Keys : o[k] = a /\ k \in Range(r.held) \cup R => o[k] = a OBVIOUS
  <2>3. \A k \in Keys : o[k] = a /\ k \in Range(r.held) => k \notin R \cup U BY <1>5
  <2> HIDE DEF s, o, R, U, n
  <2>4. Sound(a, s, o, R, U, n) BY <2>1, <2>2, <2>3, NearSound
  <2> QED BY <2>4 DEF s, o, R, U, n
<1>7. Seated(a)' BY <1>1, <1>3 DEF Seated
<1>8. DOMAIN tails' = Keys /\ seen' \in [Keys -> BOOLEAN] /\ Queued' BY DEF LocksBy
<1>9. \A k \in retained' \cup unreleased' : owner'[k] # Nobody BY DEF LocksBy
<1>10. retained' \cap unreleased' = {} BY DEF LocksBy
<1>11. \A k \in Keys : owner'[k] = a =>
            k \in Range(agent'[a].held) \/ (k \in retained' \cup unreleased' /\ agent'[a].pc \in Ended)
  BY <1>3
<1>12. failures' > 0 \/ retained' \cup unreleased' # {} => run'.aborted # "no" BY <1>1
<1>13. run' = run \/ run' = [run EXCEPT !.aborted = run'.aborted, !.sandbox = Stopped(@)] BY <1>1
<1>14. agent'[a].pc \notin {"none", "queuedRec"} BY <1>3
<1> QED BY <1>2, <1>6, <1>7, <1>8, <1>9, <1>10, <1>11, <1>12, <1>13, <1>14, Moves

\* The call keeps its locks.
LEMMA MovesOn ==
  ASSUME IInv, NEW a \in Agents, NEW r \in Attempts, NEW abort \in BOOLEAN, NEW why \in {"stop", "fail", "fence"},
         Continue([agent EXCEPT ![a] = r], run, abort, why),
         agent[a].pc \notin {"none", "done"}, r.pc \notin {"none", "queuedRec"},
         r.pc = "slot" /\ run.aborted # "no" => r.ctl,
         slots' \subseteq Agents, slots' \ {a} = slots \ {a}, a \in slots' <=> r.pc \in Timed,
         UNCHANGED <<owner, retained, unreleased>>,
         DOMAIN tails' = Keys /\ seen' \in [Keys -> BOOLEAN] /\ Queued',
         failures' \in Nat, failures <= failures', failures' > 0 => abort \/ run.aborted # "no",
         Tried(r), Working(a, r), Held(a, r, owner, retained \cup unreleased), Lost(a, r, owner, retained, failures'),
         spent' \in Nat, events' \in 0..MaxEvents,
         r.held = agent[a].held, r.pc \in Ended \/ agent[a].pc \notin Ended \/ run.aborted = "no"
  PROVE  IInv'
<1>1. Sound(a, r, owner', retained', unreleased', failures') BY DEF Sound
<1>2. retained \cup unreleased # {} => run.aborted # "no" BY DEF IInv, Ran
<1>3. retained \cap unreleased = {} /\ \A k \in retained \cup unreleased : owner[k] # Nobody
  BY DEF IInv, Owners, Typed
<1>4. LocksBy(a) BY <1>3 DEF LocksBy, IInv, Typed
<1>5. \A k \in Keys : owner[k] = a => a # Nobody /\
         (k \in Range(agent[a].held) \/ (k \in retained \cup unreleased /\ agent[a].pc \in Ended))
  BY RunAssumption DEF IInv, Owners
<1>6. \A k \in Keys : owner'[k] = a =>
            k \in Range(r.held) \/ (k \in retained' \cup unreleased' /\ r.pc \in Ended)
  BY <1>2, <1>5
<1>7. failures' > 0 \/ retained' \cup unreleased' # {} => abort \/ run.aborted # "no" BY <1>2
<1> QED BY <1>1, <1>4, <1>6, <1>7, MovesTo

LEMMA SameQueues ==
  ASSUME IInv, UNCHANGED <<tails, seen>> PROVE DOMAIN tails' = Keys /\ seen' \in [Keys -> BOOLEAN] /\ Queued'
BY DEF IInv, Typed, Queued

LEMMA TicketTaken ==
  ASSUME IInv, NEW a, NEW k \in Keys, TakeTicket(a, k)
  PROVE  DOMAIN tails' = Keys /\ seen' \in [Keys -> BOOLEAN] /\ Queued'
BY DEF IInv, Typed, Queued, TakeTicket

LEMMA Calls ==
  ASSUME IInv, NEW a \in Agents
  PROVE  /\ agent[a] \in Attempts /\ Tried(agent[a]) /\ Working(a, agent[a])
         /\ Held(a, agent[a], owner, retained \cup unreleased) /\ Lost(a, agent[a], owner, retained, failures)
         /\ Seated(a)
BY DEF IInv, Typed, Sound

LEMMA Counts ==
  ASSUME IInv
  PROVE  /\ spent \in Nat /\ failures \in Nat /\ events \in 0..MaxEvents /\ MaxEvents \in Nat /\ MaxAttempts \in Nat
         /\ (failures > 0 => run.aborted # "no") /\ slots \subseteq Agents
         /\ (Event => events' \in 0..MaxEvents) /\ (NoEvent => events' \in 0..MaxEvents)
BY RunAssumption DEF IInv, Typed, Ran, Event, NoEvent

\* The call goes on with record r and nothing else but the queues changes.
LEMMA GoesOn ==
  ASSUME IInv, NEW a \in Agents, NEW r \in Attempts,
         agent' = [agent EXCEPT ![a] = r], UNCHANGED <<run, slots, owner, retained, unreleased, spent, failures>>,
         events' \in 0..MaxEvents,
         agent[a].pc \notin {"none", "done"}, r.pc \notin {"none", "queuedRec"},
         r.pc = "slot" /\ run.aborted # "no" => r.ctl,
         agent[a].pc \in Timed <=> r.pc \in Timed,
         DOMAIN tails' = Keys /\ seen' \in [Keys -> BOOLEAN] /\ Queued',
         Tried(r), Working(a, r), Held(a, r, owner, retained \cup unreleased), Lost(a, r, owner, retained, failures),
         r.held = agent[a].held, r.pc \in Ended \/ agent[a].pc \notin Ended \/ run.aborted = "no"
  PROVE  IInv'
<1>1. Continue([agent EXCEPT ![a] = r], run, FALSE, "fence") BY DEF Continue
<1>2. slots' \subseteq Agents /\ (a \in slots' <=> r.pc \in Timed) BY Calls, Counts DEF Seated
<1>3. failures' \in Nat /\ failures <= failures' /\ (failures' > 0 => FALSE \/ run.aborted # "no") /\ spent' \in Nat BY Counts
<1>4. Lost(a, r, owner, retained, failures') /\ slots' \ {a} = slots \ {a} OBVIOUS
<1> QED BY <1>1, <1>2, <1>3, <1>4, MovesOn

-----------------------------------------------------------------------------
(***************************************************************************)
(* Slots, prompts and answers.                                             *)
(***************************************************************************)
LEMMA ConnectedKeeps == ASSUME IInv, NEW a \in Agents, Connected(a) \/ Answered(a) PROVE IInv'
<1> USE DEF Connected, Answered
<1>1. agent[a] \in Attempts /\ agent[a].pc \in {"connect", "prompt"} BY Calls
<1> DEFINE Alike(r) ==
      /\ r.attempt = agent[a].attempt /\ r.published = agent[a].published /\ r.status = agent[a].status
      /\ r.tries = agent[a].tries /\ r.failuresAt = agent[a].failuresAt /\ r.stop = agent[a].stop /\ r.ctl = agent[a].ctl
      /\ r.held = agent[a].held /\ r.tree = agent[a].tree /\ r.git = agent[a].git /\ r.stage = agent[a].stage
      /\ r.worktree = agent[a].worktree /\ r.answer = agent[a].answer
<1>2. \E r \in Attempts : agent' = [agent EXCEPT ![a] = r] /\ r.pc \in {"prompt", "stopping"} /\ Alike(r)
  <2>1. CASE Connected(a) /\ ~Aborted(a)
    <3>1. PICK r : r = [agent[a] EXCEPT !.pc = "prompt", !.prompted = TRUE] OBVIOUS
    <3>2. r \in Attempts /\ r.pc = "prompt" /\ Alike(r) BY <1>1, <3>1 DEF Attempts, Executing, Abortable, Timed
    <3>3. agent' = [agent EXCEPT ![a] = r] BY <2>1, <3>1 DEF IInv, Typed
    <3> QED BY <3>2, <3>3
  <2>2. CASE Connected(a) /\ Aborted(a)
    <3>1. PICK r : r = [agent[a] EXCEPT !.pc = "stopping", !.result = "error"] OBVIOUS
    <3>2. r \in Attempts /\ r.pc = "stopping" /\ Alike(r) BY <1>1, <3>1 DEF Attempts, Executing, Abortable, Timed
    <3>3. agent' = [agent EXCEPT ![a] = r] BY <2>2, <3>1 DEF IInv, Typed
    <3> QED BY <3>2, <3>3
  <2>3. CASE Answered(a)
    <3>1. PICK x \in {"ok", "error"} : agent' = [agent EXCEPT ![a].pc = "stopping", ![a].result = x] BY <2>3
    <3>2. PICK r : r = [agent[a] EXCEPT !.pc = "stopping", !.result = x] OBVIOUS
    <3>3. r \in Attempts /\ r.pc = "stopping" /\ Alike(r) BY <1>1, <3>2 DEF Attempts, Executing, Abortable, Timed
    <3>4. agent' = [agent EXCEPT ![a] = r] BY <3>1, <3>2 DEF IInv, Typed
    <3> QED BY <3>3, <3>4
  <2> QED BY <2>1, <2>2, <2>3
<1>4. PICK r \in Attempts : agent' = [agent EXCEPT ![a] = r] /\ r.pc \in {"prompt", "stopping"} /\ Alike(r) BY <1>2
<1>5. Tried(r) BY <1>1, <1>4, Calls DEF Tried, Timed, Abortable
<1>6. Working(a, r) BY <1>1, <1>4, Calls DEF Working, AdapterUp
<1>7. Held(a, r, owner, retained \cup unreleased) BY <1>1, <1>4, Calls DEF Held, AdapterUp
<1>8. Lost(a, r, owner, retained, failures) BY <1>1, <1>4, Calls DEF Lost, Ended, LocksOf
<1>9. r.held = agent[a].held BY <1>4
<1>10. agent[a].pc \notin Ended /\ agent[a].pc \in Timed /\ r.pc \in Timed BY <1>1, <1>4 DEF Ended, Timed
<1>11. NoEvent /\ UNCHANGED <<run, slots, owner, retained, unreleased, spent, failures, tails, seen>>
  BY DEF locks, NoEvent
<1>12. DOMAIN tails' = Keys /\ seen' \in [Keys -> BOOLEAN] /\ Queued' BY <1>11, SameQueues
<1>13. events' \in 0..MaxEvents BY <1>11, Counts
<1> HIDE DEF Connected, Answered
<1> QED BY <1>13, <1>1, <1>4, <1>5, <1>6, <1>7, <1>8, <1>9, <1>10, <1>11, <1>12, GoesOn

LEMMA GrantedKeeps == ASSUME IInv, NEW a \in Agents, Granted(a) PROVE IInv'
<1> USE DEF Granted
<1>1. agent[a] \in Attempts /\ agent[a].pc = "slot" /\ ~agent[a].ctl /\ agent[a].attempt < MaxAttempts
      /\ agent[a].attempt \in Nat /\ failures \in Nat
  BY Calls, Counts DEF Tried, Attempts
<1>0. PICK n \in 0..MaxAttempts, t \in Seq(Final \cup {"running", "stopping", "restarted"}) :
        n = agent[a].attempt + 1 /\ t = Append(agent[a].tries, "running")
  <2>1. agent[a].tries \in Seq(Final \cup {"running", "stopping", "restarted"}) BY <1>1 DEF Attempts
  <2>2. Append(agent[a].tries, "running") \in Seq(Final \cup {"running", "stopping", "restarted"}) BY <2>1
  <2>3. agent[a].attempt + 1 \in 0..MaxAttempts BY <1>1, Counts
  <2> QED BY <2>2, <2>3
<1>2. PICK r : r = [agent[a] EXCEPT !.pc = "admit", !.published = TRUE, !.attempt = n, !.status = "running",
                      !.tries = t, !.failuresAt = failures] OBVIOUS
<1>3. agent' = [agent EXCEPT ![a] = r] BY <1>0, <1>2 DEF IInv, Typed
<1> HIDE DEF Granted
<1>4. /\ r \in Attempts /\ r.pc = "admit" /\ r.attempt = agent[a].attempt + 1 /\ r.published /\ r.status = "running"
      /\ r.tries = Append(agent[a].tries, "running") /\ r.failuresAt = failures /\ r.stop = agent[a].stop
      /\ r.held = agent[a].held /\ r.tree = agent[a].tree /\ r.git = agent[a].git /\ r.stage = agent[a].stage
      /\ r.worktree = agent[a].worktree /\ r.answer = agent[a].answer
  BY <1>0, <1>1, <1>2 DEF Attempts, Executing, Abortable, Timed
<1>5. Tried(r)
  <2>1. agent[a].tries \in Seq(Final \cup {"running", "stopping", "restarted"}) BY <1>1 DEF Attempts
  <2>2. Len(agent[a].tries) = agent[a].attempt BY Calls DEF Tried
  <2>3. \A k \in 1..agent[a].attempt : agent[a].tries[k] = "restarted" BY <1>1, Calls DEF Tried
  <2>4. Len(r.tries) = r.attempt /\ \A k \in 1..(r.attempt - 1) : r.tries[k] = "restarted"
    BY <1>1, <1>4, <2>1, <2>2, <2>3
  <2>5. agent[a].answer = "none" /\ ~agent[a].stop BY <1>1, Calls DEF Tried, Attempts, Abortable
  <2> QED BY <1>1, <1>4, <2>4, <2>5 DEF Tried, Timed
<1>6. Working(a, r) BY <1>1, <1>4, Calls DEF Working, AdapterUp
<1>7. Held(a, r, owner, retained \cup unreleased) BY <1>1, <1>4, Calls DEF Held, AdapterUp
<1>8. Lost(a, r, owner, retained, failures) BY <1>1, <1>4, Calls DEF Lost, Ended, LocksOf
<1>9. Continue([agent EXCEPT ![a] = r], run, FALSE, "fence") BY <1>3 DEF Continue, Granted
<1>10. slots' \subseteq Agents /\ slots' \ {a} = slots \ {a} /\ a \in slots' /\ r.pc \in Timed
  BY <1>4, Counts DEF Timed, Granted
<1>11. /\ events' \in 0..MaxEvents /\ spent' \in Nat /\ failures' \in Nat /\ failures <= failures'
       /\ (failures' > 0 => FALSE \/ run.aborted # "no")
       /\ UNCHANGED <<owner, retained, unreleased, tails, seen>> /\ failures' = failures
  BY Counts DEF locks, Granted
<1>12. DOMAIN tails' = Keys /\ seen' \in [Keys -> BOOLEAN] /\ Queued' BY <1>11, SameQueues
<1>13. agent[a].pc \notin Ended \cup {"none", "done"} /\ r.pc \notin {"none", "queuedRec", "slot"} BY <1>1, <1>4 DEF Ended
<1>14. Lost(a, r, owner, retained, failures') BY <1>8, <1>11
<1> QED BY <1>4, <1>5, <1>6, <1>7, <1>9, <1>10, <1>11, <1>12, <1>13, <1>14, MovesOn

-----------------------------------------------------------------------------
(***************************************************************************)
(* The adapter: launched, and stopped.                                     *)
(***************************************************************************)
\* The records of a call that differ in nothing its locks or its answer need.
Same(q, r) ==
  /\ q.attempt = r.attempt /\ q.published = r.published /\ q.status = r.status
  /\ q.tries = r.tries /\ q.failuresAt = r.failuresAt /\ q.stop = r.stop /\ q.ctl = r.ctl
  /\ q.held = r.held /\ q.git = r.git /\ q.answer = r.answer

LEMMA AdapterGone ==
  ASSUME IInv, NEW a \in Agents, agent[a].pc \in {"launch", "stopping"},
         NEW q \in Attempts, Same(q, agent[a]), q.stage = agent[a].stage, q.worktree = agent[a].worktree,
         NEW abort \in BOOLEAN, AfterAdapter(a, q, abort),
         q.tree \in {"none", "lost"}, q.tree = "lost" => failures' > failures,
         failures' \in {failures, failures + 1}, failures' # failures => abort,
         UNCHANGED <<slots, spent>>, events' \in 0..MaxEvents
  PROVE  IInv'
<1>1. agent[a] \in Attempts /\ failures \in Nat BY Calls, Counts
<1>2. PICK r : r = IF q.worktree = "live" THEN [q EXCEPT !.stage = "cleanup", !.pc = "lock"]
                                          ELSE [q EXCEPT !.pc = "unlock"] OBVIOUS
<1>3. /\ r \in Attempts /\ Same(r, agent[a]) /\ r.worktree = q.worktree /\ r.tree = q.tree
      /\ r.pc = IF q.worktree = "live" THEN "lock" ELSE "unlock"
      /\ r.stage = IF q.worktree = "live" THEN "cleanup" ELSE q.stage
  <2>1. CASE q.worktree = "live"
    <3>1. r = [q EXCEPT !.stage = "cleanup", !.pc = "lock"] BY <1>2, <2>1
    <3> QED BY <2>1, <3>1 DEF Same, Attempts, Executing, Abortable, Timed
  <2>2. CASE q.worktree # "live"
    <3>1. r = [q EXCEPT !.pc = "unlock"] BY <1>2, <2>2
    <3> QED BY <2>2, <3>1 DEF Same, Attempts, Executing, Abortable, Timed
  <2> QED BY <2>1, <2>2
<1>4. Continue([agent EXCEPT ![a] = r], run, abort, "fence") /\ UNCHANGED <<owner, retained, unreleased>>
  BY <1>2 DEF AfterAdapter
<1>5. DOMAIN tails' = Keys /\ seen' \in [Keys -> BOOLEAN] /\ Queued'
  <2>1. CASE q.worktree = "live"
    <3>1. CleanupLocks[1] \in Keys BY SetupFacts
    <3>2. TakeTicket(a, CleanupLocks[1]) BY <2>1 DEF AfterAdapter
    <3> QED BY <3>1, <3>2, TicketTaken
  <2>2. CASE q.worktree # "live"
    <3>1. UNCHANGED <<tails, seen>> BY <2>2 DEF AfterAdapter
    <3> QED BY <3>1, SameQueues
  <2> QED BY <2>1, <2>2
<1>6. Tried(r) BY <1>1, <1>3, Calls DEF Same, Tried, Timed, Abortable
<1>7. Working(a, r) BY <1>1, <1>3, Calls DEF Same, Working, AdapterUp
<1>8. Held(a, r, owner, retained \cup unreleased)
  <2>1. agent[a].worktree = "live" => Kind[a] = "worktree" BY Calls DEF Working
  <2>2. Kind[a] # "shared" => r.held = <<>> BY <1>1, <1>3, Calls DEF Same, Held
  <2>3. Kind[a] = "shared" => r.held = SetupLocks BY <1>1, <1>3, Calls DEF Same, Held, AdapterUp
  <2>4. \A k \in Range(r.held) : owner[k] = a /\ k \notin retained \cup unreleased
    BY <1>3, Calls DEF Same, Held
  <2>5. Len(LocksOf(r)) > 0 BY SetupFacts
  <2>6. r.held = <<>> => Len(r.held) = 0 OBVIOUS
  <2>7. 1..0 = {} OBVIOUS
  <2>8. r.pc = "lock" => r.held = <<>> BY <1>3, <2>1, <2>2
  <2>9. r.pc \in {"lock", "unlock"} BY <1>3
  <2> QED BY <2>2, <2>3, <2>4, <2>5, <2>6, <2>7, <2>8, <2>9 DEF Held, AdapterUp
<1>9. Lost(a, r, owner, retained, failures')
  <2>1. Kind[a] = "shared" => r.held = SetupLocks BY <1>1, <1>3, Calls DEF Same, Held, AdapterUp
  <2>2. agent[a].git # "lost" /\ agent[a].failuresAt <= failures /\ agent[a].failuresAt \in Nat
    BY <1>1, Calls DEF Lost, Ended, Attempts
  <2>3. agent[a].worktree = "live" => Kind[a] = "worktree" BY Calls DEF Working
  <2> QED BY <1>1, <1>3, <2>1, <2>2, <2>3 DEF Same, Lost, Ended
<1>10. slots' \subseteq Agents /\ slots' \ {a} = slots \ {a} /\ a \in slots' /\ r.pc \in Timed
  BY <1>3, Calls, Counts DEF Timed, Seated
<1>11. /\ spent' \in Nat /\ failures' \in Nat /\ failures <= failures'
       /\ (failures' > 0 => abort \/ run.aborted # "no")
  BY Counts
<1>12. /\ r.held = agent[a].held /\ agent[a].pc \notin Ended \cup {"none", "done"}
       /\ r.pc \notin {"none", "queuedRec", "slot"}
  BY <1>3 DEF Ended, Same
<1> QED BY <1>3, <1>4, <1>5, <1>6, <1>7, <1>8, <1>9, <1>10, <1>11, <1>12, MovesOn

LEMMA LaunchedKeeps == ASSUME IInv, NEW a \in Agents, Launched(a) PROVE IInv'
<1>1. agent[a] \in Attempts /\ agent[a].pc = "launch" BY Calls DEF Launched
<1>2. UNCHANGED <<slots, spent, failures>> /\ events' \in 0..MaxEvents BY Counts DEF Launched
<1>3. CASE ~Aborted(a) /\ ~Unrecorded(a)
  <2>1. PICK r : r = [agent[a] EXCEPT !.pc = "connect", !.tree = "up"] OBVIOUS
  <2>2. /\ r \in Attempts /\ r.pc = "connect" /\ r.tree = "up" /\ Same(r, agent[a])
        /\ r.stage = agent[a].stage /\ r.worktree = agent[a].worktree
    BY <1>1, <2>1 DEF Same, Attempts, Executing, Abortable, Timed
  <2>3. agent' = [agent EXCEPT ![a] = r] /\ UNCHANGED <<run, tails, seen, owner, retained, unreleased>>
    BY <1>1, <1>3, <2>1 DEF Launched, locks, IInv, Typed
  <2>4. Tried(r) BY <1>1, <2>2, Calls DEF Same, Tried, Timed, Abortable
  <2>5. Working(a, r) BY <1>1, <2>2, Calls DEF Same, Working, AdapterUp
  <2>6. Held(a, r, owner, retained \cup unreleased) BY <1>1, <2>2, Calls DEF Same, Held, AdapterUp
  <2>7. Lost(a, r, owner, retained, failures) BY <1>1, <2>2, Calls DEF Same, Lost, Ended, LocksOf
  <2>8. DOMAIN tails' = Keys /\ seen' \in [Keys -> BOOLEAN] /\ Queued' BY <2>3, SameQueues
  <2>9. r.held = agent[a].held /\ agent[a].pc \notin Ended /\ agent[a].pc \in Timed /\ r.pc \in Timed
    BY <1>1, <2>2 DEF Same, Ended, Timed
  <2> QED BY <1>1, <1>2, <2>2, <2>3, <2>4, <2>5, <2>6, <2>7, <2>8, <2>9, GoesOn
<1>4. CASE Aborted(a) \/ Unrecorded(a)
  <2>1. PICK q : q = [agent[a] EXCEPT !.result = "error"] OBVIOUS
  <2>2. /\ q \in Attempts /\ Same(q, agent[a]) /\ q.stage = agent[a].stage /\ q.worktree = agent[a].worktree
        /\ q.tree = agent[a].tree
    BY <1>1, <2>1 DEF Same, Attempts
  <2>3. AfterAdapter(a, q, FALSE) BY <1>4, <2>1 DEF Launched
  <2>4. agent[a].tree = "none" BY <1>1, Calls DEF Lost, Working, AdapterUp, Ended, Attempts
  <2> QED BY <1>1, <1>2, <2>2, <2>3, <2>4, AdapterGone
<1> QED BY <1>3, <1>4

LEMMA AdapterStoppedKeeps == ASSUME IInv, NEW a \in Agents, AdapterStopped(a) PROVE IInv'
<1>1. agent[a] \in Attempts /\ agent[a].pc = "stopping" /\ failures \in Nat BY Calls, Counts DEF AdapterStopped
<1>2. UNCHANGED <<slots, spent>> BY DEF AdapterStopped
<1>3. CASE NoEvent /\ UNCHANGED failures /\ AfterAdapter(a, [agent[a] EXCEPT !.tree = "none"], FALSE)
  <2>1. PICK q : q = [agent[a] EXCEPT !.tree = "none"] OBVIOUS
  <2>2. /\ q \in Attempts /\ Same(q, agent[a]) /\ q.stage = agent[a].stage /\ q.worktree = agent[a].worktree
        /\ q.tree = "none"
    BY <1>1, <2>1 DEF Same, Attempts
  <2>3. AfterAdapter(a, q, FALSE) /\ events' \in 0..MaxEvents BY <1>3, <2>1, Counts
  <2> QED BY <1>1, <1>2, <1>3, <2>2, <2>3, AdapterGone
<1>4. CASE Event /\ failures' = failures + 1
           /\ AfterAdapter(a, [agent[a] EXCEPT !.tree = "lost", !.result = "error"], TRUE)
  <2>1. PICK q : q = [agent[a] EXCEPT !.tree = "lost", !.result = "error"] OBVIOUS
  <2>2. /\ q \in Attempts /\ Same(q, agent[a]) /\ q.stage = agent[a].stage /\ q.worktree = agent[a].worktree
        /\ q.tree = "lost"
    BY <1>1, <2>1 DEF Same, Attempts
  <2>3. AfterAdapter(a, q, TRUE) /\ events' \in 0..MaxEvents BY <1>4, <2>1, Counts
  <2>4. failures' > failures /\ failures' \in {failures, failures + 1} BY <1>1, <1>4
  <2> QED BY <1>1, <1>2, <2>2, <2>3, <2>4, AdapterGone
<1> QED BY <1>3, <1>4 DEF AdapterStopped

-----------------------------------------------------------------------------
(***************************************************************************)
(* Locks: the queue, ownership, release.                                   *)
(***************************************************************************)
LEMMA AdmittedKeeps == ASSUME IInv, NEW a \in Agents, Admitted(a) PROVE IInv'
<1>1. agent[a] \in Attempts /\ agent[a].pc = "admit" BY Calls DEF Admitted
<1>2. UNCHANGED <<run, slots, owner, retained, unreleased, spent, failures, events>> BY DEF Admitted
<1>3. PICK p \in {"launch", "lock", "unlock"}, x \in {"none", "ok", "error"} :
        /\ agent' = [agent EXCEPT ![a].pc = p, ![a].result = x]
        /\ p = "launch" => Kind[a] = "reader"
        /\ p = "lock" => Kind[a] # "reader"
        /\ IF p = "lock" THEN TakeTicket(a, SetupLocks[1]) ELSE UNCHANGED <<tails, seen>>
  <2>1. agent[a].result \in {"none", "ok", "error"} BY <1>1 DEF Attempts
  <2>2. agent' = [agent EXCEPT ![a].pc = "launch"] =>
          agent' = [agent EXCEPT ![a].pc = "launch", ![a].result = agent[a].result]
    BY <1>1 DEF Attempts, IInv, Typed
  <2>3. agent' = [agent EXCEPT ![a].pc = "lock"] =>
          agent' = [agent EXCEPT ![a].pc = "lock", ![a].result = agent[a].result]
    BY <1>1 DEF Attempts, IInv, Typed
  <2> QED BY <2>1, <2>2, <2>3 DEF Admitted
<1>4. PICK r : r = [agent[a] EXCEPT !.pc = p, !.result = x] OBVIOUS
<1>5. /\ r \in Attempts /\ r.pc = p /\ Same(r, agent[a])
      /\ r.stage = agent[a].stage /\ r.worktree = agent[a].worktree /\ r.tree = agent[a].tree
  BY <1>1, <1>4 DEF Same, Attempts, Executing, Abortable, Timed
<1>6. agent' = [agent EXCEPT ![a] = r] BY <1>3, <1>4 DEF IInv, Typed
<1>7. Tried(r) BY <1>1, <1>5, Calls DEF Same, Tried, Timed, Abortable
<1>8. Working(a, r) BY <1>1, <1>3, <1>5, Calls DEF Same, Working, AdapterUp
<1>9. Held(a, r, owner, retained \cup unreleased)
  <2>1. r.held = <<>> BY <1>1, <1>5, Calls DEF Held, Same, AdapterUp
  <2>2. Len(LocksOf(r)) > 0 /\ Len(<<>>) = 0 /\ 1..0 = {} /\ Range(<<>>) = {} BY SetupFacts DEF Range
  <2> QED BY <1>3, <1>5, <2>1, <2>2 DEF Held, AdapterUp
<1>10. Lost(a, r, owner, retained, failures) BY <1>1, <1>3, <1>5, Calls DEF Same, Lost, Ended, LocksOf
<1>11. DOMAIN tails' = Keys /\ seen' \in [Keys -> BOOLEAN] /\ Queued'
  <2>1. SetupLocks[1] \in Keys BY SetupFacts
  <2> QED BY <1>3, <2>1, TicketTaken, SameQueues
<1>12. /\ r.held = agent[a].held /\ agent[a].pc \notin Ended /\ agent[a].pc \in Timed /\ r.pc \in Timed
       /\ r.pc \notin {"none", "queuedRec", "slot"}
  BY <1>1, <1>5 DEF Same, Ended, Timed
<1>13. events' \in 0..MaxEvents BY <1>2, Counts
<1> QED BY <1>1, <1>2, <1>5, <1>6, <1>7, <1>8, <1>9, <1>10, <1>11, <1>12, <1>13, GoesOn

LEMMA Next1 ==
  ASSUME IInv, NEW a \in Agents, agent[a].pc = "lock"
  PROVE  /\ Wanted(a) = LocksOf(agent[a]) /\ Wanted(a) \in Seq(Keys) /\ agent[a].held \in Seq(Keys)
         /\ Len(agent[a].held) \in Nat /\ Len(agent[a].held) < Len(Wanted(a)) /\ NextKey(a) \in Keys
         /\ NextKey(a) = Wanted(a)[Len(agent[a].held) + 1]
<1>1. Wanted(a) = LocksOf(agent[a]) /\ Wanted(a) \in Seq(Keys) BY SetupFacts DEF Wanted, LocksOf
<1>2. agent[a].held \in Seq(Keys) BY Calls DEF Attempts
<1>3. Len(agent[a].held) \in Nat /\ Len(Wanted(a)) \in Nat BY <1>1, <1>2
<1>4. Len(agent[a].held) < Len(Wanted(a)) BY <1>1, Calls DEF Held
<1>5. Len(agent[a].held) + 1 \in 1..Len(Wanted(a)) BY <1>3, <1>4
<1> QED BY <1>1, <1>2, <1>3, <1>4, <1>5, ElementOfSeq DEF NextKey

LEMMA Taking ==
  ASSUME NEW s \in Seq(Keys), NEW h \in Seq(Keys), Len(h) < Len(s), \A i \in 1..Len(h) : h[i] = s[i]
  PROVE  LET g == Append(h, s[Len(h) + 1]) IN
         /\ g \in Seq(Keys) /\ Len(g) = Len(h) + 1 /\ Len(g) <= Len(s)
         /\ \A i \in 1..Len(g) : g[i] = s[i]
         /\ Range(g) = Range(h) \cup {s[Len(h) + 1]}
         /\ Len(g) = Len(s) => g = s
<1>1. Len(h) \in Nat /\ Len(s) \in Nat OBVIOUS
<1>2. s[Len(h) + 1] \in Keys BY <1>1, ElementOfSeq
<1> DEFINE g == Append(h, s[Len(h) + 1])
<1>3. g \in Seq(Keys) /\ Len(g) = Len(h) + 1 BY <1>2
<1>4. Len(g) <= Len(s) BY <1>1, <1>3
<1>5. \A i \in 1..Len(g) : g[i] = IF i <= Len(h) THEN h[i] ELSE s[Len(h) + 1] BY <1>1, <1>2
<1>6. \A i \in 1..Len(g) : g[i] = s[i] BY <1>1, <1>3, <1>5
<1>7. DOMAIN g = 1..Len(g) /\ DOMAIN h = 1..Len(h) BY <1>3
<1>8. Range(g) = Range(h) \cup {s[Len(h) + 1]}
  <2>1. 1..Len(g) = 1..Len(h) \cup {Len(h) + 1} BY <1>1, <1>3
  <2>2. g[Len(h) + 1] = s[Len(h) + 1] /\ \A i \in 1..Len(h) : g[i] = h[i] BY <1>1, <1>3, <1>5
  <2> HIDE DEF g
  <2> QED BY <1>7, <2>1, <2>2 DEF Range
<1>9. Len(g) = Len(s) => g = s
  <2> HIDE DEF g
  <2> QED BY <1>3, <1>6, SeqEqual
<1> QED BY <1>3, <1>4, <1>6, <1>8, <1>9

LEMMA OwnedKeeps == ASSUME IInv, NEW a \in Agents, Owned(a) PROVE IInv'
<1>1. agent[a] \in Attempts /\ agent[a].pc = "lock" BY Calls DEF Owned
<1>2. PICK k : k = NextKey(a) OBVIOUS
<1>3. /\ Wanted(a) = LocksOf(agent[a]) /\ Wanted(a) \in Seq(Keys) /\ agent[a].held \in Seq(Keys)
      /\ Len(agent[a].held) \in Nat /\ Len(agent[a].held) < Len(Wanted(a)) /\ k \in Keys
      /\ k = Wanted(a)[Len(agent[a].held) + 1]
  BY <1>1, <1>2, Next1
<1>4. \A i \in 1..Len(agent[a].held) : agent[a].held[i] = Wanted(a)[i] BY <1>1, <1>3, Calls DEF Held
<1>5. owner[k] = Nobody /\ owner' = [owner EXCEPT ![k] = a] BY <1>1, <1>2 DEF Owned, Waits
<1>6. UNCHANGED <<run, slots, retained, unreleased, spent, failures, events>> BY DEF Owned
<1>7. PICK h : h = Append(agent[a].held, k) OBVIOUS
<1>8. /\ h \in Seq(Keys) /\ Len(h) = Len(agent[a].held) + 1 /\ Len(h) <= Len(Wanted(a))
      /\ \A i \in 1..Len(h) : h[i] = Wanted(a)[i]
      /\ Range(h) = Range(agent[a].held) \cup {k}
      /\ Len(h) = Len(Wanted(a)) => h = Wanted(a)
  BY <1>3, <1>4, <1>7, Taking
<1>9. PICK p \in {"lock", AllLocked(a)} :
        /\ agent' = [agent EXCEPT ![a].held = h, ![a].pc = p]
        /\ p = "lock" => Len(h) < Len(Wanted(a)) /\ TakeTicket(a, Wanted(a)[Len(h) + 1])
        /\ p # "lock" => Len(h) = Len(Wanted(a)) /\ UNCHANGED <<tails, seen>>
        /\ p = "lock" \/ p = AllLocked(a)
  <2>1. CASE Len(h) < Len(Wanted(a)) BY <1>2, <1>7, <2>1 DEF Owned
  <2>2. CASE ~(Len(h) < Len(Wanted(a)))
    <3>1. Len(h) = Len(Wanted(a)) BY <1>3, <1>8, <2>2
    <3>2. AllLocked(a) # "lock" BY DEF AllLocked
    <3> QED BY <1>2, <1>7, <2>2, <3>1, <3>2 DEF Owned
  <2> QED BY <2>1, <2>2
<1>10. /\ p \in {"lock", "create", "cleanup", "launch"}
       /\ p = "create" => Kind[a] = "worktree" /\ agent[a].stage = "setup"
       /\ p = "cleanup" => agent[a].stage = "cleanup"
       /\ p = "launch" => agent[a].stage = "setup" /\ Kind[a] = "shared"
  <2>1. Kind[a] \in {"shared", "worktree"} BY <1>1, Calls, RunAssumption DEF Working
  <2>2. agent[a].stage \in {"setup", "cleanup"} BY <1>1 DEF Attempts
  <2>3. agent[a].stage = "cleanup" => AllLocked(a) = "cleanup" BY DEF AllLocked
  <2>4. agent[a].stage = "setup" /\ Kind[a] = "worktree" => AllLocked(a) = "create" BY DEF AllLocked
  <2>5. agent[a].stage = "setup" /\ Kind[a] = "shared" => AllLocked(a) = "launch" BY DEF AllLocked
  <2> QED BY <1>9, <2>1, <2>2, <2>3, <2>4, <2>5
<1>11. PICK r : r = [agent[a] EXCEPT !.held = h, !.pc = p] OBVIOUS
<1>12. /\ r \in Attempts /\ r.pc = p /\ r.held = h /\ r.stage = agent[a].stage /\ r.worktree = agent[a].worktree
       /\ r.tree = agent[a].tree /\ r.attempt = agent[a].attempt /\ r.published = agent[a].published
       /\ r.status = agent[a].status /\ r.tries = agent[a].tries /\ r.failuresAt = agent[a].failuresAt
       /\ r.stop = agent[a].stop /\ r.ctl = agent[a].ctl /\ r.git = agent[a].git /\ r.answer = agent[a].answer
  BY <1>1, <1>8, <1>10, <1>11 DEF Attempts, Executing, Abortable, Timed
<1>13. agent' = [agent EXCEPT ![a] = r] BY <1>9, <1>11 DEF IInv, Typed
<1>14. Tried(r) BY <1>1, <1>10, <1>12, Calls DEF Tried, Timed, Abortable
<1>15. Working(a, r)
  <2>1. r.worktree = "live" => Kind[a] = "worktree" /\ agent[a].stage = "cleanup"
    BY <1>1, <1>12, Calls DEF Working, AdapterUp
  <2> QED BY <1>1, <1>10, <1>12, <2>1, Calls DEF Working, AdapterUp
<1>16. k \notin retained \cup unreleased /\ a # Nobody BY <1>3, <1>5, RunAssumption DEF IInv, Owners
<1>17. \A j \in Range(h) : owner'[j] = a /\ j \notin retained' \cup unreleased'
  <2>1. \A j \in Range(agent[a].held) : owner[j] = a /\ j \notin retained \cup unreleased BY Calls DEF Held
  <2>2. \A j \in Range(agent[a].held) : j \in Keys BY <1>3 DEF Range
  <2>3. \A j \in Keys : owner'[j] = IF j = k THEN a ELSE owner[j] BY <1>5 DEF IInv, Typed
  <2> QED BY <1>3, <1>6, <1>8, <1>16, <2>1, <2>2, <2>3
<1>18. LocksOf(r) = Wanted(a) /\ (r.stage = "setup" => Wanted(a) = SetupLocks) BY <1>3, <1>12 DEF LocksOf
<1>19. Held(a, r, owner', retained' \cup unreleased')
  <2>1. p = "lock" => Len(h) < Len(Wanted(a)) BY <1>9
  <2>2. p # "lock" => h = Wanted(a) BY <1>8, <1>9
  <2> QED BY <1>8, <1>10, <1>12, <1>17, <1>18, <2>1, <2>2 DEF Held, AdapterUp
<1>20. Lost(a, r, owner', retained', failures')
  <2>1. agent[a].git # "lost" BY <1>1, Calls DEF Lost, Ended
  <2>2. agent[a].tree = "lost" => Kind[a] # "shared" /\ agent[a].stage = "cleanup"
    BY <1>1, Calls DEF Lost, Working, Ended
  <2>3. agent[a].failuresAt <= failures /\ (agent[a].tree = "lost" => failures > 0) BY Calls DEF Lost
  <2> QED BY <1>6, <1>10, <1>12, <2>1, <2>2, <2>3 DEF Lost, Ended
<1>21. Sound(a, r, owner', retained', unreleased', failures') BY <1>14, <1>15, <1>19, <1>20 DEF Sound
<1>22. DOMAIN tails' = Keys /\ seen' \in [Keys -> BOOLEAN] /\ Queued'
  <2>1. CASE p = "lock"
    <3>1. Wanted(a)[Len(h) + 1] \in Keys
      <4>1. Len(h) + 1 \in 1..Len(Wanted(a)) BY <1>3, <1>8, <1>9, <2>1
      <4> QED BY <1>3, <4>1, ElementOfSeq
    <3> QED BY <1>9, <2>1, <3>1, TicketTaken
  <2>2. CASE p # "lock" BY <1>9, <2>2, SameQueues
  <2> QED BY <2>1, <2>2
<1>23. \A j \in Keys : owner'[j] = IF j = k THEN a ELSE owner[j] BY <1>5 DEF IInv, Typed
<1>24. LocksBy(a)
  <2>1. \A j \in retained \cup unreleased : owner[j] # Nobody /\ ~(j \in retained /\ j \in unreleased)
    BY DEF IInv, Owners, Typed
  <2>2. owner' \in [Keys -> Agents \cup {Nobody}] BY <1>5 DEF IInv, Typed
  <2>3. retained \subseteq Keys /\ unreleased \subseteq Keys BY DEF IInv, Typed
  <2> QED BY <1>5, <1>6, <1>16, <1>22, <1>23, <2>1, <2>2, <2>3 DEF LocksBy
<1>25. \A j \in Keys : owner'[j] = a =>
            j \in Range(r.held) \/ (j \in retained' \cup unreleased' /\ r.pc \in Ended)
  <2>1. \A j \in Keys : owner[j] = a => j \in Range(agent[a].held)
    BY <1>1, RunAssumption DEF IInv, Owners, Ended
  <2> QED BY <1>8, <1>12, <1>23, <2>1
<1>26. Continue([agent EXCEPT ![a] = r], run, FALSE, "fence") BY <1>6, <1>13 DEF Continue
<1>27. /\ slots' \subseteq Agents /\ slots' \ {a} = slots \ {a} /\ a \in slots' /\ r.pc \in Timed
       /\ spent' \in Nat /\ events' \in 0..MaxEvents /\ failures' \in Nat /\ failures <= failures'
  BY <1>1, <1>6, <1>10, <1>12, Calls, Counts DEF Timed, Seated
<1>28. failures' > 0 \/ retained' \cup unreleased' # {} => FALSE \/ run.aborted # "no" BY <1>6 DEF IInv, Ran
<1>29. r.pc \notin {"none", "queuedRec", "slot"} BY <1>10, <1>12
<1> QED BY <1>1, <1>12, <1>21, <1>24, <1>25, <1>26, <1>27, <1>28, <1>29, MovesTo

LEMMA EmptyChain == ASSUME NEW a PROVE Resolved(Closed(<<>>, a)) = <<>>
<1>1. DOMAIN Closed(<<>>, a) = {} BY DEF Closed
<1> QED BY <1>1 DEF Resolved

LEMMA Releases ==
  ASSUME IInv, NEW a \in Agents, NEW K \in SUBSET Keys, NEW Bad, Release(a, K, Bad),
         \A k \in K : (k \in Bad \/ owner[k] = a) => k \in Range(agent[a].held)
  PROVE  /\ LocksBy(a) /\ retained' = retained /\ unreleased' = unreleased \cup (K \cap Bad)
         /\ \A k \in Keys : owner'[k] = IF k \in K \ Bad /\ owner[k] = a THEN Nobody ELSE owner[k]
<1>1. retained' = retained /\ unreleased' = unreleased \cup (K \cap Bad) BY DEF Release
<1>2. owner' = [k \in Keys |-> IF k \in K \ Bad /\ owner[k] = a THEN Nobody ELSE owner[k]] BY DEF Release
<1>3. \A k \in Range(agent[a].held) : owner[k] = a /\ k \notin retained \cup unreleased BY Calls DEF Held
<1>4. \A k \in retained \cup unreleased : owner[k] # Nobody /\ ~(k \in retained /\ k \in unreleased)
  BY DEF IInv, Owners, Typed
<1>5. /\ owner \in [Keys -> Agents \cup {Nobody}] /\ retained \subseteq Keys /\ unreleased \subseteq Keys
      /\ a # Nobody /\ DOMAIN tails = Keys /\ seen \in [Keys -> BOOLEAN] /\ Queued
  BY RunAssumption DEF IInv, Typed
<1>6. \A k \in K \cap Bad : owner[k] = a /\ k \notin retained \cup unreleased BY <1>3
<1>7. \A k \in K \ Bad : owner[k] = a => k \notin retained \cup unreleased BY <1>3
<1>8. owner' \in [Keys -> Agents \cup {Nobody}] BY <1>2, <1>5
<1>9. \A k \in Keys : owner'[k] = IF k \in K \ Bad /\ owner[k] = a THEN Nobody ELSE owner[k] BY <1>2
<1>10. DOMAIN tails' = Keys /\ seen' \in [Keys -> BOOLEAN] /\ Queued'
  <2>1. tails' = ChainsWithout(a, K \ Bad) /\ seen' = SeenWithout(a, K \ Bad) BY DEF Release
  <2>2. DOMAIN tails' = Keys BY <2>1 DEF ChainsWithout
  <2>3. seen' \in [Keys -> BOOLEAN] BY <1>5, <2>1 DEF SeenWithout
  <2>4. ASSUME NEW k \in Keys, tails'[k] # <<>> PROVE seen'[k]
    <3>1. tails'[k] = IF k \in K \ Bad THEN Resolved(Closed(tails[k], a)) ELSE tails[k] BY <2>1 DEF ChainsWithout
    <3>2. tails[k] # <<>> BY <2>4, <3>1, EmptyChain
    <3>3. seen[k] BY <1>5, <3>2 DEF Queued
    <3>4. seen'[k] = seen[k] BY <2>1, <2>4 DEF SeenWithout
    <3> QED BY <3>3, <3>4
  <2> QED BY <2>2, <2>3, <2>4 DEF Queued
<1>11. LocksBy(a)
  <2>1. \A k \in retained' \cup unreleased' : owner'[k] # Nobody BY <1>1, <1>4, <1>5, <1>6, <1>7, <1>9
  <2>2. retained' \cap unreleased' = {} BY <1>1, <1>4, <1>6
  <2>3. \A k \in (retained' \cup unreleased') \ (retained \cup unreleased) : owner[k] = a BY <1>1, <1>6
  <2>4. \A k \in Keys : owner[k] \notin {a, Nobody} \/ owner'[k] \notin {a, Nobody} => owner'[k] = owner[k] BY <1>9
  <2> QED BY <1>1, <1>5, <1>8, <1>10, <2>1, <2>2, <2>3, <2>4 DEF LocksBy
<1> QED BY <1>1, <1>9, <1>11

\* The call gives its locks back, all but those it cannot.
LEMMA GivesBack ==
  ASSUME IInv, NEW a \in Agents, agent[a].pc \in {"lock", "create", "cleanup", "unlock"},
         NEW K \in SUBSET Keys, NEW Bad \in SUBSET Range(agent[a].held), Release(a, K, Bad),
         Range(agent[a].held) \subseteq K, \A k \in K : owner[k] = a => k \in Range(agent[a].held),
         NEW r \in Attempts, NEW abort \in BOOLEAN, Bad # {} => abort,
         Continue([agent EXCEPT ![a] = r], run, abort, "fence"),
         r.pc \in (Ended \ {"done"}) \cup {"launch", "recRestart"}, r.held = <<>>,
         r.pc \in {"launch", "recRestart"} => Bad = {} /\ (agent[a].pc \in Ended => run.aborted = "no"),
         r.pc = "launch" => Kind[a] # "shared",
         Tried(r), Working(a, r), Lost(a, r, owner, retained, failures),
         slots' \subseteq Agents, slots' \ {a} = slots \ {a}, a \in slots' <=> r.pc \in Timed,
         failures' = failures, spent' \in Nat, events' \in 0..MaxEvents
  PROVE  IInv'
<1>1. Range(agent[a].held) \subseteq Keys BY Calls DEF Attempts, Range
<1>2. \A k \in K : (k \in Bad \/ owner[k] = a) => k \in Range(agent[a].held) OBVIOUS
<1>3. /\ LocksBy(a) /\ retained' = retained /\ unreleased' = unreleased \cup (K \cap Bad)
      /\ \A k \in Keys : owner'[k] = IF k \in K \ Bad /\ owner[k] = a THEN Nobody ELSE owner[k]
  BY <1>2, Releases
<1>4. \A k \in Range(agent[a].held) : owner[k] = a /\ k \notin retained \cup unreleased BY Calls DEF Held
<1>5. \A k \in Keys : owner[k] = a /\ k \in retained => owner'[k] = a BY <1>3, <1>4
<1>6. Range(<<>>) = {} BY DEF Range
<1>7. Held(a, r, owner', retained' \cup unreleased') BY <1>6 DEF Held, Ended, AdapterUp
<1>8. Range(LocksOf(r)) \subseteq Keys /\ Range(SetupLocks) \subseteq Keys BY SetupFacts DEF Range
<1>9. Kind[a] = "shared" /\ r.tree = "lost" /\ r.pc = "unlock" => FALSE BY SetupFacts, RunAssumption DEF Lost
<1>10. Lost(a, r, owner', retained', failures') BY <1>3, <1>5, <1>8, <1>9 DEF Lost
<1>11. Sound(a, r, owner', retained', unreleased', failures') BY <1>7, <1>10 DEF Sound
<1>12. a # Nobody BY RunAssumption
<1>13. ASSUME NEW k \in Keys, owner'[k] = a
       PROVE  k \in Range(r.held) \/ (k \in retained' \cup unreleased' /\ r.pc \in Ended)
  <2>1. owner[k] = a /\ k \notin K \ Bad BY <1>3, <1>12, <1>13
  <2>2. CASE k \in Range(agent[a].held)
    <3>1. k \in Bad BY <2>1, <2>2
    <3> QED BY <1>3, <2>1, <3>1, <2>2
  <2>3. CASE k \notin Range(agent[a].held)
    <3>1. k \in retained \cup unreleased /\ agent[a].pc \in Ended BY <1>12, <2>1, <2>3 DEF IInv, Owners
    <3>2. run.aborted # "no" BY <3>1 DEF IInv, Ran
    <3> QED BY <1>3, <3>1, <3>2
  <2> QED BY <2>2, <2>3
<1>14. \A k \in Keys : owner'[k] = a =>
         k \in Range(r.held) \/ (k \in retained' \cup unreleased' /\ r.pc \in Ended) BY <1>13
<1>15. failures' \in Nat /\ failures <= failures' BY Counts
<1>16. failures' > 0 \/ retained' \cup unreleased' # {} => abort \/ run.aborted # "no"
  BY <1>3 DEF IInv, Ran
<1>17. agent[a].pc \notin {"none", "done"} /\ r.pc \notin {"none", "queuedRec", "slot"} BY DEF Ended
<1>18. LocksBy(a) BY <1>3
<1>19. r.pc = "slot" /\ run.aborted # "no" => r.ctl BY <1>17
<1>20. spent' \in Nat /\ events' \in 0..MaxEvents OBVIOUS
<1>21. "fence" \in {"stop", "fail", "fence"} OBVIOUS
<1> QED BY ZenonT(60), <1>11, <1>14, <1>15, <1>16, <1>17, <1>18, <1>19, <1>20, <1>21, MovesTo

LEMMA Fallen ==
  ASSUME IInv, NEW a \in Agents, NEW r \in Attempts, agent[a].pc \in {"lock", "create", "cleanup"},
         Same(r, [agent[a] EXCEPT !.held = <<>>]), r.stage = agent[a].stage, r.tree = agent[a].tree,
         \/ r.pc = "unlock" /\ r.worktree = "none"
         \/ r.pc = "launch" /\ r.worktree = "live" /\ agent[a].pc = "create"
  PROVE  /\ Tried(r) /\ Working(a, r) /\ Lost(a, r, owner, retained, failures) /\ r.held = <<>>
         /\ r.pc = "launch" => Kind[a] # "shared"
<1>1. agent[a] \in Attempts BY Calls
<1>2. /\ r.attempt = agent[a].attempt /\ r.published = agent[a].published /\ r.status = agent[a].status
      /\ r.tries = agent[a].tries /\ r.failuresAt = agent[a].failuresAt /\ r.stop = agent[a].stop /\ r.ctl = agent[a].ctl
      /\ r.held = <<>> /\ r.git = agent[a].git /\ r.answer = agent[a].answer
  BY <1>1 DEF Same, Attempts
<1>3. Tried(r) BY <1>2, Calls DEF Tried, Timed, Abortable
<1>4. Working(a, r) BY <1>2, Calls DEF Working, AdapterUp
<1>5. Lost(a, r, owner, retained, failures)
  <2>1. agent[a].git # "lost" BY Calls DEF Lost, Ended
  <2>2. agent[a].tree = "lost" => Kind[a] # "shared" /\ agent[a].pc # "create" BY Calls DEF Lost, Working, Ended
  <2>3. agent[a].failuresAt <= failures /\ (agent[a].tree = "lost" => failures > 0) BY Calls DEF Lost
  <2> QED BY <1>2, <2>1, <2>2, <2>3 DEF Lost, Ended
<1> QED BY <1>2, <1>3, <1>4, <1>5, Calls DEF Working

LEMMA InHand ==
  ASSUME IInv, NEW a \in Agents, agent[a].pc \in {"lock", "create", "cleanup", "unlock"}
  PROVE  /\ agent[a] \in Attempts /\ Range(agent[a].held) \in SUBSET Keys /\ a \in slots /\ slots \subseteq Agents
         /\ \A k \in Keys : owner[k] = a /\ agent[a].pc \notin Ended => k \in Range(agent[a].held)
         /\ \A k \in Range(agent[a].held) : owner[k] = a /\ k \notin retained \cup unreleased
         /\ spent \in Nat /\ failures \in Nat /\ a # Nobody
<1>1. agent[a] \in Attempts BY Calls
<1>2. Range(agent[a].held) \in SUBSET Keys BY <1>1 DEF Attempts, Range
<1>3. a \in slots BY Calls DEF Seated, Timed
<1>4. a # Nobody BY RunAssumption
<1>5. \A k \in Keys : owner[k] = a /\ agent[a].pc \notin Ended => k \in Range(agent[a].held)
  BY <1>4 DEF IInv, Owners
<1>6. \A k \in Range(agent[a].held) : owner[k] = a /\ k \notin retained \cup unreleased BY Calls DEF Held
<1> QED BY <1>1, <1>2, <1>3, <1>4, <1>5, <1>6, Counts

LEMMA CleanupFacts ==
  ASSUME NEW q \in Attempts
  PROVE  /\ AfterCleanup(q) \in Attempts /\ AfterCleanup(q).pc = "unlock" /\ AfterCleanup(q).worktree = "none"
         /\ Same(AfterCleanup(q), [q EXCEPT !.held = <<>>])
         /\ AfterCleanup(q).stage = q.stage /\ AfterCleanup(q).tree = q.tree
<1>1. PICK x : x = IF q.result = "ok" /\ (q.ctl \/ q.timedOut) THEN "error" ELSE q.result OBVIOUS
<1>2. x \in {"none", "ok", "error"} BY <1>1 DEF Attempts
<1>3. AfterCleanup(q) = [q EXCEPT !.pc = "unlock", !.held = <<>>, !.worktree = "none", !.result = x]
  BY <1>1 DEF AfterCleanup, Attempts
<1>4. <<>> \in Seq(Keys) OBVIOUS
<1>5. PICK r : r = [q EXCEPT !.pc = "unlock", !.held = <<>>, !.worktree = "none", !.result = x] OBVIOUS
<1>6. r \in Attempts BY <1>2, <1>4, <1>5 DEF Attempts, Executing, Abortable, Timed
<1>7. r.pc = "unlock" /\ r.worktree = "none" /\ r.stage = q.stage /\ r.tree = q.tree BY <1>5 DEF Attempts
<1>8. PICK e : e = [q EXCEPT !.held = <<>>] OBVIOUS
<1>9. Same(r, e) BY <1>5, <1>8 DEF Attempts, Same
<1> QED BY <1>3, <1>5, <1>6, <1>7, <1>8, <1>9

-----------------------------------------------------------------------------
(***************************************************************************)
(* Records, one field at a time.                                           *)
(***************************************************************************)
LEMMA PlaceTyped == ASSUME NEW q \in Attempts, NEW p \in Executing \cup {"done"} PROVE [q EXCEPT !.pc = p] \in Attempts
BY DEF Attempts

LEMMA ResultTyped ==
  ASSUME NEW q \in Attempts, NEW x \in {"none", "ok", "error"} PROVE [q EXCEPT !.result = x] \in Attempts
BY DEF Attempts

LEMMA HeldTyped == ASSUME NEW q \in Attempts, NEW h \in Seq(Keys) PROVE [q EXCEPT !.held = h] \in Attempts
BY DEF Attempts

LEMMA GitTyped == ASSUME NEW q \in Attempts, NEW g \in {"none", "lost"} PROVE [q EXCEPT !.git = g] \in Attempts
BY DEF Attempts

LEMMA WorktreeTyped == ASSUME NEW q \in Attempts, NEW w \in {"none", "live"} PROVE [q EXCEPT !.worktree = w] \in Attempts
BY DEF Attempts

LEMMA DroppedTyped ==
  ASSUME NEW q \in Attempts, NEW p \in {"launch", "unlock"}, NEW w \in {"none", "live"},
         NEW x \in {"none", "ok", "error"}, NEW g \in {"none", "lost"}
  PROVE  [q EXCEPT !.git = g, !.held = <<>>, !.worktree = w, !.result = x, !.pc = p] \in Attempts
<1>1. <<>> \in Seq(Keys) OBVIOUS
<1>2. p \in Executing \cup {"done"} BY DEF Executing, Abortable, Timed
<1>3. PICK r1 : r1 = [q EXCEPT !.git = g] OBVIOUS
<1>4. PICK r2 : r2 = [r1 EXCEPT !.held = <<>>] OBVIOUS
<1>5. PICK r3 : r3 = [r2 EXCEPT !.worktree = w] OBVIOUS
<1>6. PICK r4 : r4 = [r3 EXCEPT !.result = x] OBVIOUS
<1>7. PICK r5 : r5 = [r4 EXCEPT !.pc = p] OBVIOUS
<1>8. r5 \in Attempts
  <2>1. r1 \in Attempts BY <1>3, GitTyped
  <2>2. r2 \in Attempts BY <1>1, <1>4, <2>1, HeldTyped
  <2>3. r3 \in Attempts BY <1>5, <2>2, WorktreeTyped
  <2>4. r4 \in Attempts BY <1>6, <2>3, ResultTyped
  <2> QED BY <1>2, <1>7, <2>4, PlaceTyped
<1>9. r5 = [q EXCEPT !.git = g, !.held = <<>>, !.worktree = w, !.result = x, !.pc = p]
  BY <1>3, <1>4, <1>5, <1>6, <1>7
<1> QED BY <1>8, <1>9

-----------------------------------------------------------------------------
(***************************************************************************)
(* Locks given up, worktrees created and removed.                          *)
(***************************************************************************)
LEMMA GiveUpKeeps == ASSUME IInv, NEW a \in Agents, GiveUpLocks(a) PROVE IInv'
<1>1. agent[a].pc = "lock" /\ UNCHANGED <<slots, spent, journal, failures>> BY DEF GiveUpLocks
<1>2. /\ agent[a] \in Attempts /\ Range(agent[a].held) \in SUBSET Keys /\ a \in slots /\ slots \subseteq Agents
      /\ \A k \in Keys : owner[k] = a => k \in Range(agent[a].held)
      /\ spent \in Nat
  BY <1>1, InHand DEF Ended
<1>3. NextKey(a) \in Keys BY <1>1, Next1
<1>4. PICK Bad \in SUBSET Range(agent[a].held) :
         /\ MayFail(Range(agent[a].held), Bad)
         /\ Release(a, Range(agent[a].held) \cup {NextKey(a)}, Bad)
         /\ LET failed == [agent[a] EXCEPT !.pc = "unlock", !.held = <<>>,
                                           !.result = "error"] IN
            Continue([agent EXCEPT ![a] = IF @.stage = "setup" THEN failed
                                          ELSE AfterCleanup(@)],
                     run, Bad # {}, "fence")
  BY DEF GiveUpLocks
<1>5. events' \in 0..MaxEvents BY <1>4, Counts DEF MayFail
<1>6. PICK r : r = IF agent[a].stage = "setup" THEN [agent[a] EXCEPT !.pc = "unlock", !.held = <<>>, !.result = "error"]
                                               ELSE AfterCleanup(agent[a]) OBVIOUS
<1>7. Continue([agent EXCEPT ![a] = r], run, Bad # {}, "fence") BY <1>4, <1>6 DEF IInv, Typed
<1>8. /\ r \in Attempts /\ r.pc = "unlock" /\ r.worktree = "none" /\ r.stage = agent[a].stage /\ r.tree = agent[a].tree
      /\ Same(r, [agent[a] EXCEPT !.held = <<>>])
  <2>1. CASE agent[a].stage = "setup"
    <3>1. r = [agent[a] EXCEPT !.pc = "unlock", !.held = <<>>, !.result = "error"] BY <1>6, <2>1
    <3>2. <<>> \in Seq(Keys) OBVIOUS
    <3>3. r \in Attempts BY <1>2, <3>1, <3>2 DEF Attempts, Executing, Abortable, Timed
    <3>4. PICK e : e = [agent[a] EXCEPT !.held = <<>>] OBVIOUS
    <3>5. Same(r, e) /\ r.pc = "unlock" /\ r.stage = agent[a].stage /\ r.tree = agent[a].tree
          /\ r.worktree = agent[a].worktree
      BY <1>2, <3>1, <3>4 DEF Attempts, Same
    <3>6. agent[a].worktree = "none" BY <1>1, <1>2, <2>1, Calls DEF Working, AdapterUp, Attempts
    <3> QED BY <3>3, <3>4, <3>5, <3>6
  <2>2. CASE agent[a].stage # "setup" BY <1>2, <1>6, <2>2, CleanupFacts
  <2> QED BY <2>1, <2>2
<1>9. Tried(r) /\ Working(a, r) /\ Lost(a, r, owner, retained, failures) /\ r.held = <<>> BY <1>1, <1>8, Fallen
<1>10. r.pc \in (Ended \ {"done"}) \cup {"launch", "recRestart"} /\ r.pc \in Timed /\ r.pc \notin {"launch", "recRestart"}
  BY <1>8 DEF Ended, Timed
<1>11. PICK K \in SUBSET Keys : K = Range(agent[a].held) \cup {NextKey(a)} BY <1>2, <1>3
<1>12. Release(a, K, Bad) /\ Range(agent[a].held) \subseteq K /\ \A k \in K : owner[k] = a => k \in Range(agent[a].held)
  BY <1>2, <1>4, <1>11
<1>13. (Bad # {}) \in BOOLEAN OBVIOUS
<1>14. PICK abort \in BOOLEAN : abort <=> Bad # {} BY <1>13
<1>15. Continue([agent EXCEPT ![a] = r], run, abort, "fence") BY <1>7, <1>14 DEF Continue
<1> QED BY <1>1, <1>2, <1>5, <1>8, <1>9, <1>10, <1>12, <1>14, <1>15, GivesBack

\* The locks of Git that was lost stay for good.
LEMMA GitLostKeeps ==
  ASSUME IInv, NEW a \in Agents, agent[a].pc \in {"create", "cleanup"}, NEW q \in Attempts,
         q = [agent[a] EXCEPT !.worktree = "none"], GitLost(a, q), UNCHANGED <<slots, spent>>
  PROVE  IInv'
<1>1. /\ agent[a] \in Attempts /\ Range(agent[a].held) \in SUBSET Keys /\ a \in slots /\ slots \subseteq Agents
      /\ \A k \in Keys : owner[k] = a => k \in Range(agent[a].held)
      /\ \A k \in Range(agent[a].held) : owner[k] = a /\ k \notin retained \cup unreleased
      /\ spent \in Nat /\ failures \in Nat /\ a # Nobody
  BY InHand DEF Ended
<1>2. /\ retained' = retained \cup Range(agent[a].held) /\ UNCHANGED <<tails, seen, owner, unreleased>>
      /\ failures' = failures + 1 /\ Event
  BY DEF GitLost, Poison
<1>3. PICK r : r = [q EXCEPT !.git = "lost", !.held = <<>>, !.pc = "unlock", !.result = "error"] OBVIOUS
<1>4. Continue([agent EXCEPT ![a] = r], run, TRUE, "fence") BY <1>3 DEF GitLost
<1>5. <<>> \in Seq(Keys) OBVIOUS
<1>6. r \in Attempts
  <2>1. PICK e : e = [q EXCEPT !.git = "lost", !.held = <<>>, !.worktree = "none", !.result = "error", !.pc = "unlock"]
    OBVIOUS
  <2>2. e \in Attempts BY <2>1, DroppedTyped
  <2>3. q.worktree = "none" BY <1>1 DEF Attempts
  <2>4. r = e BY <1>3, <2>1, <2>3 DEF Attempts
  <2> QED BY <2>2, <2>4
<1>7. /\ r.attempt = agent[a].attempt /\ r.published = agent[a].published /\ r.status = agent[a].status
      /\ r.tries = agent[a].tries /\ r.failuresAt = agent[a].failuresAt /\ r.stop = agent[a].stop /\ r.ctl = agent[a].ctl
      /\ r.held = <<>> /\ r.git = "lost" /\ r.answer = agent[a].answer /\ r.pc = "unlock" /\ r.worktree = "none"
      /\ r.stage = agent[a].stage /\ r.tree = agent[a].tree
  BY <1>1, <1>3 DEF Attempts
<1>8. Tried(r) BY <1>7, Calls DEF Tried, Timed, Abortable
<1>9. Working(a, r) BY <1>7, Calls DEF Working, AdapterUp
<1>10. Range(<<>>) = {} BY DEF Range
<1>11. Held(a, r, owner', retained' \cup unreleased') BY <1>7, <1>10 DEF Held, AdapterUp
<1>12. Lost(a, r, owner', retained', failures')
  <2>1. agent[a].held = LocksOf(r) BY <1>7, Calls DEF Held, LocksOf
  <2>2. agent[a].tree = "lost" => Kind[a] # "shared" BY Calls DEF Lost, Working, Ended
  <2>3. agent[a].failuresAt <= failures /\ agent[a].failuresAt \in Nat BY <1>1, Calls DEF Lost, Attempts
  <2>4. failures' \in Nat /\ failures' > 0 /\ agent[a].failuresAt <= failures' BY <1>1, <1>2, <2>3
  <2>5. \A k \in Range(LocksOf(r)) : owner'[k] = a /\ k \in retained' BY <1>1, <1>2, <2>1
  <2> QED BY <1>7, <2>2, <2>4, <2>5 DEF Lost, Ended
<1>13. Sound(a, r, owner', retained', unreleased', failures') BY <1>8, <1>9, <1>11, <1>12 DEF Sound
<1>14. LocksBy(a)
  <2>1. \A k \in retained \cup unreleased : owner[k] # Nobody /\ ~(k \in retained /\ k \in unreleased)
    BY DEF IInv, Owners, Typed
  <2>2. /\ owner \in [Keys -> Agents \cup {Nobody}] /\ retained \subseteq Keys /\ unreleased \subseteq Keys BY DEF IInv, Typed
  <2>3. DOMAIN tails' = Keys /\ seen' \in [Keys -> BOOLEAN] /\ Queued' BY <1>2, SameQueues
  <2>4. retained' \subseteq Keys /\ retained' \cap unreleased' = {} BY <1>1, <1>2, <2>1, <2>2
  <2>5. \A k \in retained' \cup unreleased' : owner'[k] # Nobody BY <1>1, <1>2, <2>1
  <2> QED BY <1>1, <1>2, <2>2, <2>3, <2>4, <2>5 DEF LocksBy
<1>15. \A k \in Keys : owner'[k] = a =>
         k \in Range(r.held) \/ (k \in retained' \cup unreleased' /\ r.pc \in Ended)
  BY <1>1, <1>2, <1>7 DEF Ended
<1>16. /\ slots' \subseteq Agents /\ slots' \ {a} = slots \ {a} /\ a \in slots' /\ r.pc \in Timed
       /\ spent' \in Nat /\ events' \in 0..MaxEvents /\ failures' \in Nat /\ failures <= failures'
  BY <1>1, <1>2, <1>7, Counts DEF Timed
<1>17. agent[a].pc \notin {"none", "done"} /\ r.pc \notin {"none", "queuedRec", "slot"} BY <1>7
<1> QED BY <1>4, <1>6, <1>13, <1>14, <1>15, <1>16, <1>17, MovesTo

LEMMA CreatedKeeps == ASSUME IInv, NEW a \in Agents, Created(a) PROVE IInv'
<1>1. agent[a].pc = "create" /\ UNCHANGED <<slots, spent>> BY DEF Created
<1>2. /\ agent[a] \in Attempts /\ Range(agent[a].held) \in SUBSET Keys /\ a \in slots /\ slots \subseteq Agents
      /\ \A k \in Keys : owner[k] = a => k \in Range(agent[a].held)
      /\ spent \in Nat
  BY <1>1, InHand DEF Ended
<1>3. agent[a].worktree = "none" BY <1>1, <1>2, Calls DEF Working, AdapterUp, Attempts
<1>4. <<>> \in Seq(Keys) OBVIOUS
<1>5. ASSUME NEW Bad \in SUBSET Range(agent[a].held), NEW p \in {"launch", "unlock"}, NEW w \in {"none", "live"},
             NEW x \in {"none", "ok", "error"}, NEW abort \in BOOLEAN, abort <=> Bad # {},
             Release(a, Range(agent[a].held), Bad), failures' = failures, events' \in 0..MaxEvents,
             Continue([agent EXCEPT ![a].held = <<>>, ![a].worktree = w, ![a].result = x, ![a].pc = p], run, abort, "fence"),
             p = "launch" => w = "live" /\ Bad = {}, p = "unlock" => w = "none"
      PROVE  IInv'
  <2>1. PICK r : r = [agent[a] EXCEPT !.held = <<>>, !.worktree = w, !.result = x, !.pc = p] OBVIOUS
  <2>2. Continue([agent EXCEPT ![a] = r], run, abort, "fence") BY <1>5, <2>1 DEF IInv, Typed
  <2>3. r \in Attempts
    <3>1. PICK g \in {"none", "lost"} : g = agent[a].git BY <1>2 DEF Attempts
    <3>2. PICK e : e = [agent[a] EXCEPT !.git = g, !.held = <<>>, !.worktree = w, !.result = x, !.pc = p] OBVIOUS
    <3>3. e \in Attempts BY <1>2, <3>2, DroppedTyped
    <3>4. r = e BY <1>2, <2>1, <3>1, <3>2 DEF Attempts
    <3> QED BY <3>3, <3>4
  <2>4. PICK e : e = [agent[a] EXCEPT !.held = <<>>] OBVIOUS
  <2>5. Same(r, e) /\ r.pc = p /\ r.stage = agent[a].stage /\ r.tree = agent[a].tree /\ r.worktree = w
    BY <1>2, <2>1, <2>4 DEF Attempts, Same
  <2>6. /\ Tried(r) /\ Working(a, r) /\ Lost(a, r, owner, retained, failures) /\ r.held = <<>>
        /\ r.pc = "launch" => Kind[a] # "shared"
    BY <1>1, <1>5, <2>3, <2>4, <2>5, Fallen
  <2>7. r.pc \in (Ended \ {"done"}) \cup {"launch", "recRestart"} /\ r.pc \in Timed /\ r.pc # "recRestart"
        /\ agent[a].pc \notin Ended
    BY <1>1, <2>5 DEF Ended, Timed
  <2>8. PICK K \in SUBSET Keys : K = Range(agent[a].held) BY <1>2
  <2>9. Release(a, K, Bad) /\ Range(agent[a].held) \subseteq K /\ \A k \in K : owner[k] = a => k \in Range(agent[a].held)
    BY <1>2, <1>5, <2>8
  <2>10. r.pc \in {"launch", "recRestart"} => Bad = {} BY <1>5, <2>5
  <2> QED BY <1>1, <1>2, <1>5, <2>2, <2>3, <2>6, <2>7, <2>9, <2>10, GivesBack
<1>6. agent[a].result \in {"none", "ok", "error"} BY <1>2 DEF Attempts
<1>7. CASE \E Bad \in SUBSET Range(agent[a].held) :
            /\ MayFail(Range(agent[a].held), Bad)
            /\ Release(a, Range(agent[a].held), Bad)
            /\ Continue([agent EXCEPT ![a].held = <<>>,
                           ![a].worktree = IF Bad = {} THEN "live" ELSE @,
                           ![a].result = IF Bad = {} THEN @ ELSE "error",
                           ![a].pc = IF Bad = {} THEN "launch" ELSE "unlock"],
                        run, Bad # {}, "fence")
            /\ UNCHANGED failures
  <2>1. PICK Bad \in SUBSET Range(agent[a].held) :
            /\ MayFail(Range(agent[a].held), Bad)
            /\ Release(a, Range(agent[a].held), Bad)
            /\ Continue([agent EXCEPT ![a].held = <<>>,
                           ![a].worktree = IF Bad = {} THEN "live" ELSE @,
                           ![a].result = IF Bad = {} THEN @ ELSE "error",
                           ![a].pc = IF Bad = {} THEN "launch" ELSE "unlock"],
                        run, Bad # {}, "fence")
            /\ UNCHANGED failures
    BY <1>7
  <2>2. events' \in 0..MaxEvents BY <2>1, Counts DEF MayFail
  <2>3. CASE Bad = {}
    <3>1. Continue([agent EXCEPT ![a].held = <<>>, ![a].worktree = "live", ![a].result = agent[a].result,
                                 ![a].pc = "launch"], run, FALSE, "fence")
      BY <1>2, <2>1, <2>3 DEF Continue, IInv, Typed, Attempts
    <3> QED BY <1>5, <1>6, <2>1, <2>2, <2>3, <3>1
  <2>4. CASE Bad # {}
    <3>1. Continue([agent EXCEPT ![a].held = <<>>, ![a].worktree = "none", ![a].result = "error",
                                 ![a].pc = "unlock"], run, TRUE, "fence")
      BY <1>2, <1>3, <2>1, <2>4 DEF Continue, IInv, Typed, Attempts
    <3> QED BY <1>5, <2>1, <2>2, <2>4, <3>1
  <2> QED BY <2>3, <2>4
<1>8. CASE /\ Aborted(a)
           /\ Release(a, Range(agent[a].held), {})
           /\ agent' = [agent EXCEPT ![a].held = <<>>, ![a].result = "error",
                                    ![a].pc = "unlock"]
           /\ UNCHANGED <<run, failures, events>>
  <2>1. Continue([agent EXCEPT ![a].held = <<>>, ![a].worktree = "none", ![a].result = "error",
                               ![a].pc = "unlock"], run, FALSE, "fence")
    <3>1. PICK e : e = [agent[a] EXCEPT !.held = <<>>, !.result = "error", !.pc = "unlock"] OBVIOUS
    <3>2. e = [agent[a] EXCEPT !.held = <<>>, !.worktree = "none", !.result = "error", !.pc = "unlock"]
      BY <1>2, <1>3, <3>1 DEF Attempts
    <3>3. agent' = [agent EXCEPT ![a] = e] BY <1>8, <3>1 DEF IInv, Typed
    <3>4. [agent EXCEPT ![a].held = <<>>, ![a].worktree = "none", ![a].result = "error", ![a].pc = "unlock"]
          = [agent EXCEPT ![a] = e]
      BY <3>2 DEF IInv, Typed
    <3> QED BY <1>8, <3>3, <3>4 DEF Continue
  <2>2. events' \in 0..MaxEvents /\ {} \in SUBSET Range(agent[a].held) BY <1>8, Counts
  <2> QED BY <1>5, <1>8, <2>1, <2>2
<1>9. CASE GitLost(a, agent[a])
  <2>1. agent[a] = [agent[a] EXCEPT !.worktree = "none"] BY <1>2, <1>3 DEF Attempts
  <2> QED BY <1>1, <1>2, <1>9, <2>1, GitLostKeeps
<1> QED BY <1>7, <1>8, <1>9 DEF Created

LEMMA CleanedUpKeeps == ASSUME IInv, NEW a \in Agents, CleanedUp(a) PROVE IInv'
<1>1. agent[a].pc = "cleanup" /\ UNCHANGED <<slots, spent>> BY DEF CleanedUp
<1>2. /\ agent[a] \in Attempts /\ Range(agent[a].held) \in SUBSET Keys /\ a \in slots /\ slots \subseteq Agents
      /\ \A k \in Keys : owner[k] = a => k \in Range(agent[a].held)
      /\ spent \in Nat
  BY <1>1, InHand DEF Ended
<1>3. ASSUME NEW Bad \in SUBSET Range(agent[a].held), MayFail(Range(agent[a].held), Bad),
             Release(a, Range(agent[a].held), Bad),
             Continue([agent EXCEPT ![a] = AfterCleanup(@)], run, Bad # {}, "fence"), UNCHANGED failures
      PROVE  IInv'
  <2>1. PICK r : r = AfterCleanup(agent[a]) OBVIOUS
  <2>2. PICK abort \in BOOLEAN : abort <=> Bad # {} OBVIOUS
  <2>3. Continue([agent EXCEPT ![a] = r], run, abort, "fence") BY <1>3, <2>1, <2>2 DEF Continue, IInv, Typed
  <2>4. /\ r \in Attempts /\ r.pc = "unlock" /\ r.worktree = "none" /\ r.stage = agent[a].stage /\ r.tree = agent[a].tree
        /\ Same(r, [agent[a] EXCEPT !.held = <<>>])
    BY <1>2, <2>1, CleanupFacts
  <2>5. Tried(r) /\ Working(a, r) /\ Lost(a, r, owner, retained, failures) /\ r.held = <<>> BY <1>1, <2>4, Fallen
  <2>6. r.pc \in (Ended \ {"done"}) \cup {"launch", "recRestart"} /\ r.pc \in Timed /\ r.pc \notin {"launch", "recRestart"}
    BY <2>4 DEF Ended, Timed
  <2>7. PICK K \in SUBSET Keys : K = Range(agent[a].held) BY <1>2
  <2>8. Release(a, K, Bad) /\ Range(agent[a].held) \subseteq K /\ \A k \in K : owner[k] = a => k \in Range(agent[a].held)
    BY <1>2, <1>3, <2>7
  <2>9. events' \in 0..MaxEvents BY <1>3, Counts DEF MayFail
  <2> QED BY <1>1, <1>2, <1>3, <2>2, <2>3, <2>4, <2>5, <2>6, <2>8, <2>9, GivesBack
<1>4. CASE GitLost(a, [agent[a] EXCEPT !.worktree = "none"])
  <2>1. PICK q : q = [agent[a] EXCEPT !.worktree = "none"] OBVIOUS
  <2>2. q \in Attempts BY <1>2, <2>1 DEF Attempts
  <2>3. GitLost(a, q) BY <1>4, <2>1
  <2> QED BY <1>1, <2>1, <2>2, <2>3, GitLostKeeps
<1> QED BY <1>3, <1>4 DEF CleanedUp

-----------------------------------------------------------------------------
(***************************************************************************)
(* The end of an attempt.                                                  *)
(***************************************************************************)
\* The tries of an attempt that ends as s.
LEMMA Ending ==
  ASSUME NEW r \in Attempts, Tried(r), r.pc \in Timed \cup {"slot"}, NEW s \in Final \cup {"restarted"},
         NEW t, t = IF r.published THEN [r.tries EXCEPT ![r.attempt] = s] ELSE r.tries
  PROVE  /\ t \in Seq(Final \cup {"running", "stopping", "restarted"}) /\ Len(t) = r.attempt /\ r.attempt \in Nat
         /\ r.published => r.attempt > 0 /\ t[r.attempt] = s
         /\ \A n \in 1..(r.attempt - 1) : t[n] = "restarted"
<1> DEFINE S == Final \cup {"running", "stopping", "restarted"}
<1>1. r.tries \in Seq(S) /\ r.attempt \in Nat /\ Len(r.tries) = r.attempt BY RunAssumption DEF Attempts, Tried
<1>2. \A n \in 1..(r.attempt - 1) : r.tries[n] = "restarted"
  <2>1. CASE r.pc \in Timed BY <2>1 DEF Tried
  <2>2. CASE r.pc = "slot" BY <1>1, <2>2 DEF Tried
  <2> QED BY <2>1, <2>2
<1>3. r.published => r.attempt > 0 BY DEF Tried
<1>4. s \in S OBVIOUS
<1> HIDE DEF S
<1>5. CASE r.published
  <2>1. r.attempt \in 1..Len(r.tries) BY <1>1, <1>3, <1>5
  <2>2. t = [r.tries EXCEPT ![r.attempt] = s] BY <1>5
  <2>3. t \in Seq(S) /\ Len(t) = Len(r.tries) /\ \A n \in 1..Len(r.tries) : t[n] = IF n = r.attempt THEN s ELSE r.tries[n]
    BY <1>1, <1>4, <2>1, <2>2, ExceptSeq
  <2>4. \A n \in 1..(r.attempt - 1) : t[n] = r.tries[n] BY <1>1, <2>3
  <2> QED BY <1>1, <1>2, <1>3, <2>1, <2>3, <2>4 DEF S
<1>6. CASE ~r.published BY <1>1, <1>2, <1>6 DEF S
<1> QED BY <1>5, <1>6

LEMMA OverTyped ==
  ASSUME NEW e \in Attempts, NEW p \in Executing, NEW u \in Final,
         NEW t \in Seq(Final \cup {"running", "stopping", "restarted"})
  PROVE  /\ [e EXCEPT !.tries = t, !.pc = p] \in Attempts
         /\ [e EXCEPT !.status = u, !.tries = t, !.pc = p] \in Attempts
<1>3. PICK f : f = [e EXCEPT !.tries = t] OBVIOUS
<1>4. f \in Attempts BY <1>3 DEF Attempts
<1>5. PICK g : g = [f EXCEPT !.status = u] OBVIOUS
<1>6. g \in Attempts BY <1>4, <1>5 DEF Attempts
<1>7. [f EXCEPT !.pc = p] \in Attempts /\ [g EXCEPT !.pc = p] \in Attempts BY <1>4, <1>6, PlaceTyped
<1>8. [e EXCEPT !.tries = t, !.pc = p] = [f EXCEPT !.pc = p] BY <1>3
<1>9. [e EXCEPT !.status = u, !.tries = t, !.pc = p] = [g EXCEPT !.pc = p] BY <1>3, <1>5 DEF Attempts
<1> QED BY <1>7, <1>8, <1>9

\* An attempt that settles with an answer completes its call unless it was
\* told to end; it is restarted only while the run goes on.
LEMMA Settles ==
  ASSUME NEW q \in Attempts, Tried(q), q.pc \in Timed \cup {"slot"}, NEW ab \in BOOLEAN,
         q.pc = "slot" => q.result = "error", NEW r, r = Settled(q, ab)
  PROVE  /\ r \in Attempts /\ r.pc \in {"recDone", "recFail", "recRestart"} /\ Tried(r)
         /\ r.pc = "recRestart" => ~ab
         /\ r.held = q.held /\ r.tree = q.tree /\ r.git = q.git /\ r.stage = q.stage
         /\ r.worktree = q.worktree /\ r.failuresAt = q.failuresAt
<1> DEFINE ended(s) == IF q.published THEN [q.tries EXCEPT ![q.attempt] = s] ELSE q.tries
           over == [q EXCEPT !.ctl = FALSE, !.timedOut = FALSE, !.late = FALSE]
           bad == IF q.stop THEN "stopped" ELSE "failed"
<1>1. "recDone" \in Executing /\ "recFail" \in Executing /\ "recRestart" \in Executing BY DEF Executing
<1>2. bad \in Final /\ "completed" \in Final BY DEF Final
<1>3. q.attempt \in Nat /\ q.answer = "none" /\ (q.pc \in Abortable /\ q.stop => q.ctl)
      /\ (q.pc \in Timed => q.published) /\ q.pc \in Abortable
  BY RunAssumption DEF Tried, Attempts, Timed, Abortable
<1>7. PICK e \in Attempts : e = over BY DEF Attempts
<1>9. /\ e.attempt = q.attempt /\ e.stop = q.stop /\ e.answer = q.answer /\ e.held = q.held /\ e.tree = q.tree
      /\ e.git = q.git /\ e.stage = q.stage /\ e.worktree = q.worktree /\ e.failuresAt = q.failuresAt
  BY <1>7
<1>4. CASE q.result = "ok" /\ ~q.ctl
  <2>1. PICK t : t = ended("completed") OBVIOUS
  <2>2. /\ t \in Seq(Final \cup {"running", "stopping", "restarted"}) /\ Len(t) = q.attempt
        /\ q.published => q.attempt > 0 /\ t[q.attempt] = "completed"
        /\ \A n \in 1..(q.attempt - 1) : t[n] = "restarted"
    BY <1>2, <2>1, Ending
  <2>3. r = [e EXCEPT !.status = "completed", !.tries = t, !.pc = "recDone"] BY <1>4, <1>7, <2>1 DEF Settled
  <2>4. r \in Attempts
    <3>1. t \in Seq(Final \cup {"running", "stopping", "restarted"}) BY <2>2
    <3>2. [e EXCEPT !.status = "completed", !.tries = t, !.pc = "recDone"] \in Attempts
      BY <1>1, <1>2, <1>7, <3>1, OverTyped, Zenon
    <3> QED BY <2>3, <3>2
  <2>5. /\ r.pc = "recDone" /\ r.status = "completed" /\ r.tries = t /\ r.attempt = q.attempt /\ r.stop = q.stop
        /\ r.answer = q.answer /\ r.held = q.held /\ r.tree = q.tree /\ r.git = q.git /\ r.stage = q.stage
        /\ r.worktree = q.worktree /\ r.failuresAt = q.failuresAt
    BY <1>7, <1>9, <2>3 DEF Attempts
  <2>6. q.published BY <1>3, <1>4
  <2>7. Tried(r) BY <1>3, <1>4, <2>2, <2>5, <2>6 DEF Tried, Timed, Abortable
  <2> QED BY <2>4, <2>5, <2>7
<1>5. CASE ~(q.result = "ok" /\ ~q.ctl) /\ q.published /\ q.restart /\ ~q.stop /\ ~ab
  <2>1. PICK t : t = ended("restarted") OBVIOUS
  <2>2. /\ t \in Seq(Final \cup {"running", "stopping", "restarted"}) /\ Len(t) = q.attempt
        /\ q.published => q.attempt > 0 /\ t[q.attempt] = "restarted"
        /\ \A n \in 1..(q.attempt - 1) : t[n] = "restarted"
    <3>1. "restarted" \in Final \cup {"restarted"} OBVIOUS
    <3>2. \A s \in Final \cup {"restarted"} : \A u : u = ended(s) =>
            /\ u \in Seq(Final \cup {"running", "stopping", "restarted"}) /\ Len(u) = q.attempt /\ q.attempt \in Nat
            /\ q.published => q.attempt > 0 /\ u[q.attempt] = s
            /\ \A n \in 1..(q.attempt - 1) : u[n] = "restarted"
      BY Ending
    <3> HIDE DEF ended
    <3> QED BY <2>1, <3>1, <3>2, Zenon
  <2>3. r = [e EXCEPT !.tries = t, !.pc = "recRestart"] BY <1>5, <1>7, <2>1 DEF Settled
  <2>4. r \in Attempts
    <3>1. t \in Seq(Final \cup {"running", "stopping", "restarted"}) BY <2>2
    <3>2. [e EXCEPT !.tries = t, !.pc = "recRestart"] \in Attempts
      BY <1>1, <1>2, <1>7, <3>1, OverTyped, Zenon
    <3> QED BY <2>3, <3>2
  <2>5. /\ r.pc = "recRestart" /\ r.tries = t /\ r.attempt = q.attempt /\ r.stop = q.stop
        /\ r.answer = q.answer /\ r.held = q.held /\ r.tree = q.tree /\ r.git = q.git /\ r.stage = q.stage
        /\ r.worktree = q.worktree /\ r.failuresAt = q.failuresAt
    BY <1>7, <1>9, <2>3 DEF Attempts
  <2>6. \A n \in 1..q.attempt : t[n] = "restarted"
    <3>1. \A n \in 1..q.attempt : n \in 1..(q.attempt - 1) \/ n = q.attempt BY <1>3
    <3> QED BY <1>5, <2>2, <3>1
  <2>7. Tried(r) BY <1>3, <2>2, <2>5, <2>6 DEF Tried, Timed, Abortable
  <2> QED BY <1>5, <2>4, <2>5, <2>7
<1>6. CASE ~(q.result = "ok" /\ ~q.ctl) /\ ~(q.published /\ q.restart /\ ~q.stop /\ ~ab)
  <2>1. PICK t : t = ended(bad) OBVIOUS
  <2>2. t \in Seq(Final \cup {"running", "stopping", "restarted"}) /\ Len(t) = q.attempt BY <1>2, <2>1, Ending
  <2>3. PICK b \in Final : b = bad BY <1>2
  <2>4. r = [e EXCEPT !.status = b, !.tries = t, !.pc = "recFail"] BY <1>6, <1>7, <2>1, <2>3 DEF Settled
  <2>5. r \in Attempts
    <3>1. t \in Seq(Final \cup {"running", "stopping", "restarted"}) BY <2>2
    <3>2. [e EXCEPT !.status = b, !.tries = t, !.pc = "recFail"] \in Attempts
      BY <1>1, <1>7, <2>3, <3>1, OverTyped, Zenon
    <3> QED BY <2>4, <3>2
  <2>6. /\ r.pc = "recFail" /\ r.tries = t /\ r.attempt = q.attempt /\ r.stop = q.stop
        /\ r.answer = q.answer /\ r.held = q.held /\ r.tree = q.tree /\ r.git = q.git /\ r.stage = q.stage
        /\ r.worktree = q.worktree /\ r.failuresAt = q.failuresAt
    BY <1>7, <1>9, <2>4 DEF Attempts
  <2>7. Tried(r) BY <1>3, <2>2, <2>6 DEF Tried, Timed, Abortable
  <2> QED BY <2>5, <2>6, <2>7
<1> QED BY <1>4, <1>5, <1>6

\* What an attempt leaves when it settles, before the record of its outcome.
LEMMA LeavesBehind ==
  ASSUME IInv, NEW a \in Agents, agent[a].pc \in {"slot", "unlock"},
         NEW r \in Attempts, r.pc \in {"recDone", "recFail", "recRestart"},
         r.tree = agent[a].tree, r.git = agent[a].git, r.stage = agent[a].stage,
         r.worktree = agent[a].worktree, r.failuresAt = agent[a].failuresAt,
         r.pc = "recRestart" => run.aborted = "no",
         Kind[a] = "shared" /\ agent[a].pc = "unlock" => failures <= agent[a].failuresAt
  PROVE  Working(a, r) /\ Lost(a, r, owner, retained, failures)
<1>1. Working(a, r) BY Calls DEF Working, AdapterUp
<1>2. failures \in Nat /\ agent[a].failuresAt \in Nat /\ (failures > 0 => run.aborted # "no")
  BY Calls, Counts DEF Attempts
<1>3. Lost(a, r, owner, retained, failures) BY <1>2, Calls DEF Lost, Ended, LocksOf
<1> QED BY <1>1, <1>3

LEMMA LeaveQueueKeeps == ASSUME IInv, NEW a \in Agents, LeaveQueue(a) PROVE IInv'
<1>1. agent[a] \in Attempts /\ agent[a].pc = "slot" BY Calls DEF LeaveQueue
<1>2. UNCHANGED <<run, slots, owner, retained, unreleased, spent, failures, tails, seen>> BY DEF LeaveQueue, locks
<1>3. events' \in 0..MaxEvents BY Counts DEF LeaveQueue
<1>4. PICK q : q = [agent[a] EXCEPT !.result = "error"] OBVIOUS
<1>5. q \in Attempts BY <1>1, <1>4, ResultTyped
<1>6. Same(q, agent[a]) /\ q.pc = "slot" /\ q.result = "error" /\ q.stage = agent[a].stage /\ q.tree = agent[a].tree
      /\ q.worktree = agent[a].worktree
  BY <1>1, <1>4 DEF Attempts, Same
<1>7. Tried(q) BY <1>1, <1>6, Calls DEF Tried, Same
<1>8. PICK ab \in BOOLEAN : ab <=> run.aborted # "no" OBVIOUS
<1>9. PICK r : r = Settled(q, ab) OBVIOUS
<1>10. agent' = [agent EXCEPT ![a] = r]
  <2>1. ab = (run.aborted # "no") BY <1>8
  <2> QED BY <1>4, <1>9, <2>1 DEF LeaveQueue, IInv, Typed
<1>11. q.pc \in Timed \cup {"slot"} BY <1>6
<1>12. /\ r \in Attempts /\ r.pc \in {"recDone", "recFail", "recRestart"} /\ Tried(r)
       /\ r.pc = "recRestart" => ~ab
       /\ r.held = q.held /\ r.tree = q.tree /\ r.git = q.git /\ r.stage = q.stage
       /\ r.worktree = q.worktree /\ r.failuresAt = q.failuresAt
  BY <1>5, <1>6, <1>7, <1>9, <1>11, Settles
<1>13. Working(a, r) /\ Lost(a, r, owner, retained, failures)
  BY <1>1, <1>6, <1>8, <1>12, LeavesBehind DEF Same
<1>14. agent[a].held = <<>> BY <1>1, Calls DEF Held, AdapterUp
<1>15. Held(a, r, owner, retained \cup unreleased)
  <2>1. Range(<<>>) = {} BY DEF Range
  <2> QED BY <1>6, <1>12, <1>14, <2>1 DEF Held, Same, AdapterUp
<1>16. DOMAIN tails' = Keys /\ seen' \in [Keys -> BOOLEAN] /\ Queued' BY <1>2, SameQueues
<1>17. r.held = agent[a].held /\ agent[a].pc \notin Ended /\ (agent[a].pc \in Timed <=> r.pc \in Timed)
       /\ r.pc \notin {"none", "queuedRec", "slot"}
  BY <1>1, <1>6, <1>12 DEF Ended, Timed, Same
<1> QED BY <1>1, <1>2, <1>3, <1>10, <1>12, <1>13, <1>15, <1>16, <1>17, GoesOn

LEMMA UnlockedKeeps == ASSUME IInv, NEW a \in Agents, Unlocked(a) PROVE IInv'
<1>1. agent[a].pc = "unlock" BY DEF Unlocked
<1>2. /\ agent[a] \in Attempts /\ Range(agent[a].held) \in SUBSET Keys /\ a \in slots /\ slots \subseteq Agents
      /\ \A k \in Range(agent[a].held) : owner[k] = a /\ k \notin retained \cup unreleased
      /\ spent \in Nat /\ failures \in Nat /\ a # Nobody
  BY <1>1, InHand
<1>3. failures' = failures /\ spent' \in Nat /\ slots' = slots \ {a} BY <1>2 DEF Unlocked, Charge
<1>4. PICK Bad \in SUBSET Range(agent[a].held) :
         LET kept == failures > agent[a].failuresAt
             r == [agent[a] EXCEPT !.held = <<>>, !.prompted = FALSE,
                        !.result = IF Bad = {} THEN @ ELSE "error"]
         IN /\ IF kept THEN Bad = {} /\ NoEvent /\ Poison(Range(agent[a].held))
                       ELSE /\ MayFail(Range(agent[a].held), Bad)
                            /\ Release(a, Range(agent[a].held), Bad)
            /\ Continue([agent EXCEPT ![a] =
                            Settled(r, run.aborted # "no" \/ Bad # {})],
                        run, Bad # {}, "fence")
  BY DEF Unlocked
<1>5. events' \in 0..MaxEvents BY <1>4, Counts DEF MayFail
<1>6. PICK x \in {"none", "ok", "error"} : x = IF Bad = {} THEN agent[a].result ELSE "error" BY <1>2 DEF Attempts
<1>7. PICK q : q = [agent[a] EXCEPT !.held = <<>>, !.prompted = FALSE, !.result = x] OBVIOUS
<1>8. q \in Attempts
  <2>1. PICK e : e = [agent[a] EXCEPT !.held = <<>>, !.prompted = FALSE] OBVIOUS
  <2>2. <<>> \in Seq(Keys) OBVIOUS
  <2>3. e \in Attempts BY <1>2, <2>1, <2>2 DEF Attempts
  <2>4. q = [e EXCEPT !.result = x] BY <1>7, <2>1
  <2> QED BY <2>3, <2>4, ResultTyped
<1>9. /\ q.attempt = agent[a].attempt /\ q.published = agent[a].published /\ q.status = agent[a].status
      /\ q.tries = agent[a].tries /\ q.failuresAt = agent[a].failuresAt /\ q.stop = agent[a].stop /\ q.ctl = agent[a].ctl
      /\ q.held = <<>> /\ q.git = agent[a].git /\ q.answer = agent[a].answer /\ q.pc = "unlock"
      /\ q.worktree = agent[a].worktree /\ q.stage = agent[a].stage /\ q.tree = agent[a].tree
  BY <1>1, <1>2, <1>7 DEF Attempts
<1>10. Tried(q) BY <1>1, <1>9, Calls DEF Tried
<1>11. PICK ab \in BOOLEAN : ab = (run.aborted # "no" \/ Bad # {}) OBVIOUS
<1>12. PICK r : r = Settled(q, ab) OBVIOUS
<1>13. PICK abort \in BOOLEAN : abort = (Bad # {}) OBVIOUS
<1>14. Continue([agent EXCEPT ![a] = r], run, abort, "fence")
  <2>1. Settled([agent[a] EXCEPT !.held = <<>>, !.prompted = FALSE,
                        !.result = IF Bad = {} THEN @ ELSE "error"], run.aborted # "no" \/ Bad # {}) = r
    BY <1>6, <1>7, <1>11, <1>12
  <2> QED BY <1>4, <1>13, <2>1
<1>15. q.pc \in Timed \cup {"slot"} /\ (q.pc = "slot" => q.result = "error") BY <1>9 DEF Timed
<1>16. /\ r \in Attempts /\ r.pc \in {"recDone", "recFail", "recRestart"} /\ Tried(r)
       /\ r.pc = "recRestart" => ~ab
       /\ r.held = q.held /\ r.tree = q.tree /\ r.git = q.git /\ r.stage = q.stage
       /\ r.worktree = q.worktree /\ r.failuresAt = q.failuresAt
  BY <1>8, <1>10, <1>12, <1>15, Settles
<1>17. r.pc = "recRestart" => run.aborted = "no" /\ Bad = {} BY <1>11, <1>16
<1>18. slots' \subseteq Agents /\ slots' \ {a} = slots \ {a} /\ (a \in slots' <=> r.pc \in Timed)
  BY <1>2, <1>3, <1>16 DEF Timed
<1>19. r.pc \in (Ended \ {"done"}) \cup {"launch", "recRestart"} /\ r.pc # "launch"
       /\ agent[a].pc \notin {"none", "done"} /\ r.pc \notin {"none", "queuedRec", "slot", "launch"}
  BY <1>1, <1>16 DEF Ended
<1>20. CASE ~(failures > agent[a].failuresAt)
  <2>1. failures <= agent[a].failuresAt BY <1>2, <1>20 DEF Attempts
  <2>2. Working(a, r) /\ Lost(a, r, owner, retained, failures) BY <1>1, <1>9, <1>16, <1>17, <2>1, LeavesBehind
  <2>3. PICK K \in SUBSET Keys : K = Range(agent[a].held) BY <1>2
  <2>4. Release(a, K, Bad) BY <1>4, <1>20, <2>3
  <2>5. Range(agent[a].held) \subseteq K /\ \A k \in K : owner[k] = a => k \in Range(agent[a].held) BY <2>3
  <2>6. r.held = <<>> BY <1>9, <1>16
  <2>7. Bad # {} => abort BY <1>13
  <2>8. r.pc \in {"launch", "recRestart"} => Bad = {} /\ (agent[a].pc \in Ended => run.aborted = "no")
    BY <1>17, <1>19
  <2> QED BY <1>1, <1>3, <1>5, <1>14, <1>16, <1>18, <1>19, <2>2, <2>4, <2>5, <2>6, <2>7, <2>8, GivesBack
<1>21. CASE failures > agent[a].failuresAt
  <2>1. /\ retained' = retained \cup Range(agent[a].held) /\ UNCHANGED <<tails, seen, owner, unreleased>> /\ Bad = {}
    BY <1>4, <1>21 DEF Poison
  <2>2. failures > 0 /\ agent[a].failuresAt \in Nat BY <1>2, <1>21 DEF Attempts
  <2>3. run.aborted # "no" BY <2>2, Counts
  <2>4. r.pc \in {"recDone", "recFail"} BY <1>16, <1>17, <2>3
  <2>5. Working(a, r) BY <1>1, <1>9, <1>16, Calls DEF Working, AdapterUp
  <2>6. Range(<<>>) = {} BY DEF Range
  <2>7. Held(a, r, owner', retained' \cup unreleased') BY <1>9, <1>16, <2>4, <2>6 DEF Held, AdapterUp
  <2>8. Lost(a, r, owner', retained', failures')
    <3>1. Lost(a, agent[a], owner, retained, failures) BY Calls
    <3>2. LocksOf(r) = LocksOf(agent[a]) BY <1>9, <1>16 DEF LocksOf
    <3>3. Kind[a] = "shared" /\ agent[a].tree = "lost" => agent[a].held = SetupLocks BY <1>1, <3>1 DEF Lost
    <3>4. agent[a].failuresAt <= failures /\ (agent[a].tree = "lost" \/ agent[a].git = "lost" => failures > 0)
      BY <3>1 DEF Lost
    <3>5. agent[a].git = "lost" => \A k \in Range(LocksOf(r)) : owner'[k] = a /\ k \in retained'
      BY <2>1, <3>1, <3>2 DEF Lost
    <3>6. Kind[a] = "shared" /\ agent[a].tree = "lost" => \A k \in Range(SetupLocks) : owner'[k] = a /\ k \in retained'
      BY <1>2, <2>1, <3>3
    <3>7. r.pc \in Ended /\ r.pc # "unlock" BY <2>4 DEF Ended
    <3> QED BY <1>3, <1>9, <1>16, <3>4, <3>5, <3>6, <3>7 DEF Lost
  <2>9. Sound(a, r, owner', retained', unreleased', failures') BY <1>16, <2>5, <2>7, <2>8 DEF Sound
  <2>10. LocksBy(a)
    <3>1. \A k \in retained \cup unreleased : owner[k] # Nobody /\ ~(k \in retained /\ k \in unreleased)
      BY DEF IInv, Owners, Typed
    <3>2. /\ owner \in [Keys -> Agents \cup {Nobody}] /\ retained \subseteq Keys /\ unreleased \subseteq Keys BY DEF IInv, Typed
    <3>3. DOMAIN tails' = Keys /\ seen' \in [Keys -> BOOLEAN] /\ Queued' BY <2>1, SameQueues
    <3>4. retained' \subseteq Keys /\ retained' \cap unreleased' = {} BY <1>2, <2>1, <3>1, <3>2
    <3>5. \A k \in retained' \cup unreleased' : owner'[k] # Nobody BY <1>2, <2>1, <3>1
    <3> QED BY <1>2, <2>1, <3>2, <3>3, <3>4, <3>5 DEF LocksBy
  <2>11. ASSUME NEW k \in Keys, owner'[k] = a
         PROVE  k \in Range(r.held) \/ (k \in retained' \cup unreleased' /\ r.pc \in Ended)
    <3>1. owner[k] = a BY <2>1, <2>11
    <3>2. k \in Range(agent[a].held) \/ k \in retained \cup unreleased BY <1>2, <3>1 DEF IInv, Owners
    <3> QED BY <2>1, <2>4, <3>2 DEF Ended
  <2>12. \A k \in Keys : owner'[k] = a =>
            k \in Range(r.held) \/ (k \in retained' \cup unreleased' /\ r.pc \in Ended) BY <2>11
  <2>13. failures' \in Nat /\ failures <= failures' BY <1>2, <1>3
  <2> QED BY <1>3, <1>5, <1>14, <1>16, <1>18, <1>19, <2>3, <2>9, <2>10, <2>12, <2>13, MovesTo
<1> QED BY <1>20, <1>21

-----------------------------------------------------------------------------
(***************************************************************************)
(* Between attempts.                                                       *)
(***************************************************************************)
\* A step between attempts: nothing runs for the call and it holds no lock.
LEMMA BetweenAttempts ==
  ASSUME IInv, NEW a \in Agents, agent[a].pc \in {"queuedRec", "recDone", "recFail", "recRestart"},
         NEW r \in Attempts, r.pc \in {"done", "recFail", "slot"},
         agent[a].pc \in {"recDone", "recFail"} => r.pc = "done",
         agent' = [agent EXCEPT ![a] = r], UNCHANGED <<run, slots, locks, spent, journal, failures, events>>,
         Tried(r), r.held = agent[a].held, r.tree = agent[a].tree, r.git = agent[a].git,
         r.failuresAt = agent[a].failuresAt,
         IF r.pc = "slot" THEN r.stage = "setup" /\ r.worktree = "none"
         ELSE r.stage = agent[a].stage /\ r.worktree = agent[a].worktree,
         r.pc = "slot" /\ run.aborted # "no" => r.ctl
  PROVE  IInv'
<1>1. agent[a] \in Attempts /\ agent[a].tree # "up" BY Calls DEF Working, AdapterUp
<1>2. Working(a, r) BY <1>1, Calls DEF Working, AdapterUp
<1>3. r.held = <<>> BY Calls DEF Held, AdapterUp
<1>4. Held(a, r, owner, retained \cup unreleased)
  <2>1. Range(<<>>) = {} BY DEF Range
  <2> QED BY <1>3, <2>1 DEF Held, AdapterUp
<1>5. Lost(a, r, owner, retained, failures)
  <2>1. CASE agent[a].pc \in {"recDone", "recFail"}
    <3>1. r.pc = "done" /\ LocksOf(r) = LocksOf(agent[a]) BY <2>1 DEF LocksOf
    <3> QED BY <2>1, <3>1, Calls DEF Lost, Ended
  <2>2. CASE agent[a].pc \in {"queuedRec", "recRestart"}
    <3>1. agent[a].tree # "lost" /\ agent[a].git # "lost" BY <2>2, Calls DEF Lost, Ended
    <3> QED BY <3>1, Calls DEF Lost
  <2> QED BY <2>1, <2>2
<1>6. r.pc \in Ended \/ agent[a].pc \notin Ended \/ run.aborted = "no" BY DEF Ended
<1>7. DOMAIN tails' = Keys /\ seen' \in [Keys -> BOOLEAN] /\ Queued' BY SameQueues DEF locks
<1>8. events' \in 0..MaxEvents BY Counts
<1>9. UNCHANGED <<run, slots, owner, retained, unreleased, spent, failures>> BY DEF locks
<1>10. agent[a].pc \notin {"none", "done"} /\ r.pc \notin {"none", "queuedRec"} /\ (agent[a].pc \in Timed <=> r.pc \in Timed)
  BY DEF Timed
<1> QED BY <1>2, <1>3, <1>4, <1>5, <1>6, <1>7, <1>8, <1>9, <1>10, GoesOn

LEMMA AnswerTyped ==
  ASSUME NEW q \in Attempts, NEW x \in {"none", "ok", "error"} PROVE [q EXCEPT !.answer = x] \in Attempts
BY DEF Attempts

LEMMA EndsCall ==
  ASSUME NEW q \in Attempts, NEW p \in {"ok", "error"}
  PROVE  [q EXCEPT !.pc = "done", !.answer = p] \in Attempts
<1>1. PICK e : e = [q EXCEPT !.pc = "done"] OBVIOUS
<1>2. "done" \in Executing \cup {"done"} OBVIOUS
<1>3. e \in Attempts BY <1>1, <1>2, PlaceTyped
<1>4. [e EXCEPT !.answer = p] \in Attempts BY <1>3, AnswerTyped
<1> QED BY <1>1, <1>4

LEMMA FlagsTyped ==
  ASSUME NEW q \in Attempts, NEW b \in BOOLEAN
  PROVE  /\ [q EXCEPT !.restart = b] \in Attempts /\ [q EXCEPT !.ctl = b] \in Attempts
         /\ [q EXCEPT !.timedOut = b] \in Attempts /\ [q EXCEPT !.late = b] \in Attempts
         /\ [q EXCEPT !.published = b] \in Attempts /\ [q EXCEPT !.prompted = b] \in Attempts
<1>1. [q EXCEPT !.restart = b] \in Attempts BY DEF Attempts
<1>2. [q EXCEPT !.ctl = b] \in Attempts BY DEF Attempts
<1>3. [q EXCEPT !.timedOut = b] \in Attempts BY DEF Attempts
<1>4. [q EXCEPT !.late = b] \in Attempts BY DEF Attempts
<1>5. [q EXCEPT !.published = b] \in Attempts BY DEF Attempts
<1>6. [q EXCEPT !.prompted = b] \in Attempts BY DEF Attempts
<1> QED BY <1>1, <1>2, <1>3, <1>4, <1>5, <1>6

LEMMA Loops ==
  ASSUME NEW q \in Attempts, Tried(q), q.pc \in {"queuedRec", "recRestart"}, NEW r, r = LoopHead(q)
  PROVE  /\ r \in Attempts /\ r.pc \in {"done", "recFail", "slot"} /\ Tried(r) /\ r.held = q.held
         /\ r.tree = q.tree /\ r.git = q.git /\ r.failuresAt = q.failuresAt
         /\ IF r.pc = "slot" THEN r.stage = "setup" /\ r.worktree = "none"
            ELSE r.stage = q.stage /\ r.worktree = q.worktree
         /\ r.pc = "slot" /\ run.aborted # "no" => r.ctl
<1>1. q.attempt \in 0..MaxAttempts /\ q.answer = "none" /\ MaxAttempts \in Nat BY RunAssumption DEF Attempts, Tried
<1>2. CASE q.stop
  <2>1. PICK e : e = [q EXCEPT !.status = "stopped"] OBVIOUS
  <2>2. e \in Attempts BY <2>1 DEF Attempts, Final
  <2>3. r = [e EXCEPT !.pc = "recFail"] BY <1>2, <2>1 DEF LoopHead
  <2>4. r \in Attempts
    <3>1. "recFail" \in Executing \cup {"done"} BY DEF Executing
    <3> QED BY <2>2, <2>3, <3>1, PlaceTyped
  <2>5. /\ r.pc = "recFail" /\ r.held = q.held /\ r.tree = q.tree /\ r.git = q.git /\ r.failuresAt = q.failuresAt
        /\ r.stage = q.stage /\ r.worktree = q.worktree /\ r.tries = q.tries /\ r.attempt = q.attempt /\ r.answer = q.answer
    BY <2>1, <2>3 DEF Attempts
  <2>6. Tried(r) BY <1>1, <2>5 DEF Tried, Timed, Abortable
  <2> QED BY <2>4, <2>5, <2>6
<1>3. CASE ~q.stop /\ q.attempt >= MaxAttempts
  <2>1. r = [q EXCEPT !.pc = "done", !.answer = "error"] BY <1>3 DEF LoopHead
  <2>2. r \in Attempts BY <2>1, EndsCall
  <2>3. /\ r.pc = "done" /\ r.held = q.held /\ r.tree = q.tree /\ r.git = q.git /\ r.failuresAt = q.failuresAt
        /\ r.stage = q.stage /\ r.worktree = q.worktree /\ r.tries = q.tries /\ r.attempt = q.attempt /\ r.answer = "error"
    BY <2>1 DEF Attempts
  <2>4. Tried(r) BY <1>1, <2>3 DEF Tried, Timed, Abortable
  <2> QED BY <2>2, <2>3, <2>4
<1>4. CASE ~q.stop /\ ~(q.attempt >= MaxAttempts)
  <2>1. PICK c \in BOOLEAN : c = (run.aborted # "no") OBVIOUS
  <2>2. r = [q EXCEPT !.restart = FALSE, !.ctl = c, !.timedOut = FALSE, !.late = FALSE, !.published = FALSE,
                      !.stage = "setup", !.prompted = FALSE, !.result = "none", !.worktree = "none", !.pc = "slot"]
    BY <1>4, <2>1 DEF LoopHead
  <2>3. PICK e : e = [q EXCEPT !.restart = FALSE, !.ctl = c, !.timedOut = FALSE, !.late = FALSE, !.published = FALSE,
                      !.prompted = FALSE] OBVIOUS
  <2>4. e \in Attempts
    <3>1. PICK d : d = [q EXCEPT !.restart = FALSE] OBVIOUS
    <3>2. d \in Attempts BY <3>1, FlagsTyped
    <3>3. PICK b : b = [d EXCEPT !.ctl = c] OBVIOUS
    <3>4. b \in Attempts BY <2>1, <3>2, <3>3, FlagsTyped
    <3>5. PICK t : t = [b EXCEPT !.timedOut = FALSE] OBVIOUS
    <3>6. t \in Attempts BY <3>4, <3>5, FlagsTyped
    <3>7. PICK l : l = [t EXCEPT !.late = FALSE] OBVIOUS
    <3>8. l \in Attempts BY <3>6, <3>7, FlagsTyped
    <3>9. PICK u : u = [l EXCEPT !.published = FALSE] OBVIOUS
    <3>10. u \in Attempts BY <3>8, <3>9, FlagsTyped
    <3>11. e = [u EXCEPT !.prompted = FALSE] BY <2>3, <3>1, <3>3, <3>5, <3>7, <3>9, Zenon
    <3> QED BY <3>10, <3>11, FlagsTyped
  <2>5. PICK f : f = [e EXCEPT !.stage = "setup"] OBVIOUS
  <2>6. f \in Attempts BY <2>4, <2>5 DEF Attempts
  <2>7. PICK g : g = [f EXCEPT !.worktree = "none"] OBVIOUS
  <2>8. g \in Attempts BY <2>6, <2>7, WorktreeTyped
  <2>9. PICK h : h = [g EXCEPT !.result = "none"] OBVIOUS
  <2>10. h \in Attempts BY <2>8, <2>9, ResultTyped
  <2>11. r = [h EXCEPT !.pc = "slot"] BY <2>2, <2>3, <2>5, <2>7, <2>9
  <2>12. r \in Attempts
    <3>1. "slot" \in Executing \cup {"done"} BY DEF Executing, Abortable
    <3> QED BY <2>10, <2>11, <3>1, PlaceTyped
  <2>13. /\ r.pc = "slot" /\ r.held = q.held /\ r.tree = q.tree /\ r.git = q.git /\ r.failuresAt = q.failuresAt
         /\ r.stage = "setup" /\ r.worktree = "none" /\ r.tries = q.tries /\ r.attempt = q.attempt /\ r.answer = q.answer
         /\ r.ctl = c /\ r.published = FALSE /\ r.stop = q.stop
    BY <2>2 DEF Attempts
  <2>14. r.attempt < MaxAttempts BY <1>1, <1>4, <2>13
  <2>15. Tried(r) BY <1>1, <1>4, <2>13, <2>14 DEF Tried, Timed, Abortable
  <2> QED BY <2>1, <2>12, <2>13, <2>15
<1> QED BY <1>2, <1>3, <1>4

LEMMA Over ==
  ASSUME NEW q \in Attempts, Tried(q), q.pc # "done", NEW p \in {"ok", "error"},
         p = "ok" => q.pc = "recDone", NEW r, r = [q EXCEPT !.pc = "done", !.answer = p]
  PROVE  /\ r \in Attempts /\ r.pc = "done" /\ Tried(r) /\ r.held = q.held /\ r.tree = q.tree /\ r.git = q.git
         /\ r.failuresAt = q.failuresAt /\ r.stage = q.stage /\ r.worktree = q.worktree
<1>1. r \in Attempts BY EndsCall
<1>2. /\ r.pc = "done" /\ r.held = q.held /\ r.tree = q.tree /\ r.git = q.git /\ r.failuresAt = q.failuresAt
      /\ r.stage = q.stage /\ r.worktree = q.worktree /\ r.tries = q.tries /\ r.attempt = q.attempt /\ r.answer = p
      /\ r.stop = q.stop /\ r.status = q.status
  BY DEF Attempts
<1>3. Tried(r) BY <1>2 DEF Tried, Timed, Abortable
<1> QED BY <1>1, <1>2, <1>3

LEMMA OverOk ==
  ASSUME NEW q \in Attempts, Tried(q), q.pc = "recDone", NEW r, r = [q EXCEPT !.pc = "done", !.answer = "ok"]
  PROVE  /\ r \in Attempts /\ r.pc = "done" /\ Tried(r) /\ r.held = q.held /\ r.tree = q.tree /\ r.git = q.git
         /\ r.failuresAt = q.failuresAt /\ r.stage = q.stage /\ r.worktree = q.worktree
<1>1. q.pc # "done" OBVIOUS
<1>2. \A p \in {"ok", "error"} : (p = "ok" => q.pc = "recDone") => \A s : s = [q EXCEPT !.pc = "done", !.answer = p] =>
         /\ s \in Attempts /\ s.pc = "done" /\ Tried(s) /\ s.held = q.held /\ s.tree = q.tree /\ s.git = q.git
         /\ s.failuresAt = q.failuresAt /\ s.stage = q.stage /\ s.worktree = q.worktree
  BY <1>1, Over
<1> QED BY <1>2

LEMMA QueuedRecordedKeeps == ASSUME IInv, NEW a \in Agents, QueuedRecorded(a) PROVE IInv'
<1>1. agent[a] \in Attempts /\ agent[a].pc = "queuedRec" /\ Tried(agent[a]) BY Calls DEF QueuedRecorded
<1>2. UNCHANGED <<run, slots, locks, spent, journal, failures, events>> BY DEF QueuedRecorded
<1>3. CASE journal = "ok"
  <2>1. PICK r : r = LoopHead(agent[a]) OBVIOUS
  <2>2. agent' = [agent EXCEPT ![a] = r] BY <1>3, <2>1 DEF QueuedRecorded, IInv, Typed
  <2> QED BY <1>1, <1>2, <2>1, <2>2, Loops, BetweenAttempts
<1>4. CASE journal # "ok"
  <2>1. PICK r : r = [agent[a] EXCEPT !.pc = "done", !.answer = "error"] OBVIOUS
  <2>2. agent' = [agent EXCEPT ![a] = r] BY <1>4, <2>1 DEF QueuedRecorded, IInv, Typed
  <2> QED BY <1>1, <1>2, <2>1, <2>2, Over, BetweenAttempts
<1> QED BY <1>3, <1>4

LEMMA OutcomeRecordedKeeps == ASSUME IInv, NEW a \in Agents, OutcomeRecorded(a) PROVE IInv'
<1>1. agent[a] \in Attempts /\ agent[a].pc \in {"recDone", "recFail", "recRestart"} /\ Tried(agent[a])
  BY Calls DEF OutcomeRecorded
<1>2. UNCHANGED <<run, slots, locks, spent, journal, failures, events>> BY DEF OutcomeRecorded
<1>3. CASE agent[a].pc = "recRestart" /\ journal = "ok"
  <2>1. PICK r : r = LoopHead(agent[a]) OBVIOUS
  <2>2. agent' = [agent EXCEPT ![a] = r] BY <1>3, <2>1 DEF OutcomeRecorded
  <2> QED BY <1>1, <1>2, <1>3, <2>1, <2>2, Loops, BetweenAttempts
<1>4. CASE agent[a].pc = "recDone" /\ journal # "ok"
  <2>1. agent[a].attempt \in 1..Len(agent[a].tries) /\ agent[a].answer = "none" /\ agent[a].attempt \in Nat
    BY <1>1, <1>4, RunAssumption DEF Tried, Attempts
  <2>2. PICK t : t = [agent[a].tries EXCEPT ![agent[a].attempt] = "failed"] OBVIOUS
  <2>3. t \in Seq(Final \cup {"running", "stopping", "restarted"}) /\ Len(t) = Len(agent[a].tries)
    <3>1. agent[a].tries \in Seq(Final \cup {"running", "stopping", "restarted"}) BY <1>1 DEF Attempts
    <3>2. "failed" \in Final \cup {"running", "stopping", "restarted"} BY DEF Final
    <3> QED BY <2>1, <2>2, <3>1, <3>2, ExceptSeq
  <2>4. PICK q : q = [agent[a] EXCEPT !.pc = "done", !.answer = "error"] OBVIOUS
  <2>5. q \in Attempts BY <1>1, <2>4, EndsCall
  <2>6. PICK e : e = [q EXCEPT !.status = "failed"] OBVIOUS
  <2>7. e \in Attempts BY <2>5, <2>6 DEF Attempts, Final
  <2>8. PICK r : r = [e EXCEPT !.tries = t] OBVIOUS
  <2>9. r \in Attempts BY <2>3, <2>7, <2>8 DEF Attempts
  <2>10. agent' = [agent EXCEPT ![a] = r]
    <3>1. agent' = [agent EXCEPT ![a] = [[agent[a] EXCEPT !.pc = "done", !.answer = "error"]
                      EXCEPT !.status = "failed", !.tries[agent[a].attempt] = "failed"]]
      BY <1>4 DEF OutcomeRecorded
    <3>2. e.tries = agent[a].tries BY <1>1, <2>4, <2>6 DEF Attempts
    <3>3. [e EXCEPT !.tries[agent[a].attempt] = "failed"] = r BY <2>2, <2>7, <2>8, <3>2 DEF Attempts
    <3>4. [[agent[a] EXCEPT !.pc = "done", !.answer = "error"]
              EXCEPT !.status = "failed", !.tries[agent[a].attempt] = "failed"]
          = [e EXCEPT !.tries[agent[a].attempt] = "failed"] BY <2>4, <2>6, <2>7 DEF Attempts
    <3> QED BY <3>1, <3>3, <3>4
  <2>11. /\ r.pc = "done" /\ r.held = agent[a].held /\ r.tree = agent[a].tree /\ r.git = agent[a].git
         /\ r.failuresAt = agent[a].failuresAt /\ r.stage = agent[a].stage /\ r.worktree = agent[a].worktree
         /\ r.tries = t /\ r.attempt = agent[a].attempt /\ r.answer = "error"
    BY <1>1, <2>4, <2>6, <2>8 DEF Attempts
  <2>12. Tried(r) BY <1>1, <2>3, <2>11 DEF Tried, Timed, Abortable
  <2> QED BY <1>1, <1>2, <1>4, <2>9, <2>10, <2>11, <2>12, BetweenAttempts
<1>5. CASE ~(agent[a].pc = "recRestart" /\ journal = "ok") /\ ~(agent[a].pc = "recDone" /\ journal # "ok")
  <2>1. PICK p \in {"ok", "error"} : p = IF agent[a].pc = "recDone" THEN "ok" ELSE "error" OBVIOUS
  <2>2. PICK r : r = [agent[a] EXCEPT !.pc = "done", !.answer = p] OBVIOUS
  <2>3. agent' = [agent EXCEPT ![a] = r]
    <3>1. CASE agent[a].pc = "recDone" BY <1>5, <2>1, <2>2, <3>1 DEF OutcomeRecorded
    <3>2. CASE agent[a].pc # "recDone" BY <1>1, <1>5, <2>1, <2>2, <3>2 DEF OutcomeRecorded
    <3> QED BY <3>1, <3>2
  <2>4. /\ r \in Attempts /\ r.pc = "done" /\ Tried(r) /\ r.held = agent[a].held /\ r.tree = agent[a].tree
        /\ r.git = agent[a].git /\ r.failuresAt = agent[a].failuresAt /\ r.stage = agent[a].stage
        /\ r.worktree = agent[a].worktree
    <3>1. agent[a].pc # "done" BY <1>1
    <3>2. CASE p = "ok"
      <4>1. agent[a].pc = "recDone" BY <2>1, <3>2
      <4>2. r = [agent[a] EXCEPT !.pc = "done", !.answer = "ok"] BY <2>2, <3>2
      <4> QED BY <1>1, <4>1, <4>2, OverOk
    <3>3. CASE p = "error"
      <4>1. r = [agent[a] EXCEPT !.pc = "done", !.answer = "error"] BY <2>2, <3>3
      <4> QED BY <1>1, <3>1, <4>1, Over
    <3> QED BY <2>1, <3>2, <3>3
  <2> QED BY <1>1, <1>2, <2>3, <2>4, BetweenAttempts
<1> QED BY <1>3, <1>4, <1>5

-----------------------------------------------------------------------------
(***************************************************************************)
(* Commands and timers: calls stay where they are.                         *)
(***************************************************************************)
\* Ran of the run r, everything else being as it is.
RanAt(r) ==
  /\ failures > 0 \/ retained \cup unreleased # {} => r.aborted # "no"
  /\ r.sandbox = "off" => \A a \in Agents : agent[a].pc = "none"
  /\ r.phase = "start" => r.sandbox = "off"
  /\ r.phase = "script" <=> r.sandbox \in Running
  /\ r.phase = "recDone" \/ r.sandbox = "closing" \/ r.final = "completed" => Pending = {}
  /\ r.phase \in {"drain", "settled"} => \A a \in Agents : agent[a].pc # "queuedRec"
  /\ r.phase = "settled" => Pending = {}
  /\ r.final = "completed" => failures = 0 /\ r.committed
  /\ r.final # "none" <=> r.phase \in {"recFailed", "drain", "settled"}

\* A step that moves no call from its place and no lock.
LEMMA Stays ==
  ASSUME IInv, agent' \in [Agents -> Attempts], run' \in Runs,
         UNCHANGED <<slots, locks, failures>>, spent' \in Nat, events' \in 0..MaxEvents,
         \A b \in Agents : /\ agent'[b].pc = agent[b].pc /\ agent'[b].held = agent[b].held
                           /\ Sound(b, agent'[b], owner, retained, unreleased, failures)
                           /\ agent[b].pc = "slot" /\ run'.aborted # "no" => agent'[b].ctl,
         RanAt(run')
  PROVE  IInv'
<1>1. UNCHANGED <<tails, seen, owner, retained, unreleased, slots, failures>> BY DEF locks
<1>2. Typed' BY <1>1 DEF IInv, Typed
<1>3. Owners'
  <2> SUFFICES ASSUME NEW k \in Keys
               PROVE  /\ owner[k] # Nobody =>
                           \/ k \in Range(agent'[owner[k]].held)
                           \/ k \in retained \cup unreleased /\ agent'[owner[k]].pc \in Ended
                      /\ k \in retained \cup unreleased => owner[k] # Nobody
                      /\ ~(k \in retained /\ k \in unreleased)
    BY <1>1 DEF Owners
  <2>1. owner[k] # Nobody => owner[k] \in Agents BY DEF IInv, Typed
  <2> QED BY <2>1 DEF IInv, Owners
<1>4. Queued' BY <1>1 DEF IInv, Queued
<1>5. Ran'
  <2>1. Pending' = Pending BY DEF Pending
  <2> QED BY <1>1, <2>1 DEF RanAt, Ran
<1>6. ASSUME NEW b \in Agents
      PROVE  Seated(b)' /\ Sound(b, agent'[b], owner', retained', unreleased', failures')
  <2>1. Seated(b) BY DEF IInv
  <2>2. Seated(b)' BY <1>1, <2>1 DEF Seated
  <2> QED BY <1>1, <2>2
<1> QED BY <1>2, <1>3, <1>4, <1>5, <1>6 DEF IInv

LEMMA RunStays ==
  ASSUME IInv, run' \in Runs, RanAt(run'),
         \/ agent' = agent /\ (run'.aborted # "no" => run.aborted # "no" \/ \A b \in Agents : agent[b].pc # "slot")
         \/ agent' = AgentsAborted(agent),
         UNCHANGED <<slots, locks, failures>>, spent' \in Nat, events' \in 0..MaxEvents
  PROVE  IInv'
<1>1. agent \in [Agents -> Attempts] /\ failures \in Nat BY DEF IInv, Typed
<1>2. ASSUME NEW b \in Agents
      PROVE  /\ agent'[b] \in Attempts /\ Near(agent'[b], agent[b])
             /\ agent[b].pc = "slot" /\ run'.aborted # "no" => agent'[b].ctl
  <2>1. CASE agent' = agent /\ (run'.aborted # "no" => run.aborted # "no" \/ agent[b].pc # "slot")
    BY <1>1, <2>1, Calls DEF Near, Seated
  <2>2. CASE agent' = AgentsAborted(agent)
    <3>1. agent'[b] = IF agent[b].pc \in Abortable THEN [agent[b] EXCEPT !.ctl = TRUE] ELSE agent[b]
      BY <2>2 DEF AgentsAborted
    <3>2. Near(agent'[b], agent[b]) BY <3>1 DEF Near
    <3>3. agent'[b] \in Attempts BY <1>1, <3>2, NearTyped
    <3>4. agent[b].pc = "slot" => agent'[b].ctl BY <1>1, <3>1 DEF Abortable, Attempts
    <3> QED BY <3>2, <3>3, <3>4
  <2> QED BY <2>1, <2>2
<1>3. agent' \in [Agents -> Attempts]
  <2>1. agent' = [b \in Agents |-> agent'[b]] BY <1>1 DEF AgentsAborted
  <2> QED BY <1>2, <2>1
<1>4. ASSUME NEW b \in Agents
      PROVE  /\ agent'[b].pc = agent[b].pc /\ agent'[b].held = agent[b].held
             /\ Sound(b, agent'[b], owner, retained, unreleased, failures)
  <2>1. agent[b] \in Attempts /\ Near(agent'[b], agent[b]) BY <1>1, <1>2
  <2>2. Sound(b, agent[b], owner, retained, unreleased, failures) BY DEF IInv
  <2>3. Held(b, agent[b], owner, retained \cup unreleased) BY Calls
  <2>4. \A k \in Keys : owner[k] = b /\ k \in Range(agent[b].held) => k \notin retained \cup unreleased
    BY <2>3 DEF Held
  <2>5. agent'[b].pc = agent[b].pc /\ agent'[b].held = agent[b].held BY <2>1, NearTyped
  <2>6. Sound(b, agent'[b], owner, retained, unreleased, failures)
    BY <1>1, <2>1, <2>2, <2>4, NearSound
  <2> QED BY <2>5, <2>6
<1> QED BY <1>2, <1>3, <1>4, Stays

\* A step that changes the record of one call and not its place.
LEMMA AgentStays ==
  ASSUME IInv, NEW a \in Agents, NEW r \in Attempts, agent' = [agent EXCEPT ![a] = r],
         UNCHANGED <<run, slots, locks, failures, spent>>, events' \in 0..MaxEvents,
         r.pc = agent[a].pc, r.held = agent[a].held,
         Sound(a, r, owner, retained, unreleased, failures),
         agent[a].ctl => r.ctl
  PROVE  IInv'
<1>1. agent \in [Agents -> Attempts] /\ run \in Runs /\ spent \in Nat BY DEF IInv, Typed
<1>2. agent' \in [Agents -> Attempts] /\ agent'[a] = r /\ \A b \in Agents \ {a} : agent'[b] = agent[b] BY <1>1
<1>3. ASSUME NEW b \in Agents
      PROVE  /\ agent'[b].pc = agent[b].pc /\ agent'[b].held = agent[b].held
             /\ Sound(b, agent'[b], owner, retained, unreleased, failures)
             /\ agent[b].pc = "slot" /\ run.aborted # "no" => agent'[b].ctl
  <2>1. Sound(b, agent[b], owner, retained, unreleased, failures) BY DEF IInv
  <2>2. agent[b].pc = "slot" /\ run.aborted # "no" => agent[b].ctl BY Calls DEF Seated
  <2> QED BY <1>2, <2>1, <2>2
<1>4. RanAt(run) BY DEF IInv, Ran, RanAt
<1>5. run' \in Runs /\ RanAt(run') /\ spent' \in Nat /\ UNCHANGED <<slots, locks, failures>> BY <1>1, <1>4
<1>6. \A b \in Agents : agent[b].pc = "slot" /\ run'.aborted # "no" => agent'[b].ctl BY <1>3
<1> QED BY <1>2, <1>3, <1>5, <1>6, Stays

LEMMA TimeoutKeeps == ASSUME IInv, NEW a \in Agents, Timeout(a) PROVE IInv'
<1>1. agent[a] \in Attempts /\ agent \in [Agents -> Attempts] BY Calls DEF IInv, Typed
<1>2. events' \in 0..MaxEvents /\ UNCHANGED <<run, slots, locks, spent, failures>> BY Counts DEF Timeout
<1>3. PICK r : /\ agent' = [agent EXCEPT ![a] = r]
               /\ r = [agent[a] EXCEPT !.timedOut = TRUE] \/ r = [agent[a] EXCEPT !.late = TRUE]
  <2>1. agent' = [agent EXCEPT ![a].timedOut = TRUE] \/ agent' = [agent EXCEPT ![a].late = TRUE] BY DEF Timeout
  <2>2. CASE agent' = [agent EXCEPT ![a].timedOut = TRUE]
    <3>1. agent' = [agent EXCEPT ![a] = [agent[a] EXCEPT !.timedOut = TRUE]] BY <2>2
    <3> QED BY <3>1
  <2>3. CASE agent' = [agent EXCEPT ![a].late = TRUE]
    <3>1. agent' = [agent EXCEPT ![a] = [agent[a] EXCEPT !.late = TRUE]] BY <2>3
    <3> QED BY <3>1
  <2> QED BY <2>1, <2>2, <2>3
<1>4. /\ r \in Attempts /\ Same(r, agent[a]) /\ r.pc = agent[a].pc /\ r.stage = agent[a].stage
      /\ r.tree = agent[a].tree /\ r.worktree = agent[a].worktree
  <2>1. CASE r = [agent[a] EXCEPT !.timedOut = TRUE] BY <1>1, <2>1 DEF Attempts, Same
  <2>2. CASE r = [agent[a] EXCEPT !.late = TRUE] BY <1>1, <2>2 DEF Attempts, Same
  <2> QED BY <1>3, <2>1, <2>2
<1>5. Sound(a, r, owner, retained, unreleased, failures)
  <2>1. Tried(r) BY <1>4, Calls DEF Same, Tried
  <2>2. Working(a, r) BY <1>4, Calls DEF Same, Working
  <2>3. Held(a, r, owner, retained \cup unreleased) BY <1>4, Calls DEF Same, Held, LocksOf
  <2>4. Lost(a, r, owner, retained, failures) BY <1>4, Calls DEF Same, Lost, LocksOf
  <2> QED BY <2>1, <2>2, <2>3, <2>4 DEF Sound
<1> QED BY <1>2, <1>3, <1>4, <1>5, AgentStays DEF Same

LEMMA RestartAgentKeeps == ASSUME IInv, NEW a \in Agents, RestartAgent(a) PROVE IInv'
<1>1. agent[a] \in Attempts /\ agent \in [Agents -> Attempts] /\ agent[a].status = "running"
  BY Calls DEF IInv, Typed, RestartAgent
<1>2. events' \in 0..MaxEvents /\ UNCHANGED <<run, slots, locks, spent, failures>> BY Counts DEF RestartAgent
<1>3. PICK r : r = [agent[a] EXCEPT !.restart = TRUE, !.ctl = TRUE, !.status = "restarting"] OBVIOUS
<1>4. agent' = [agent EXCEPT ![a] = r] BY <1>1, <1>3 DEF RestartAgent
<1>5. /\ r \in Attempts /\ r.pc = agent[a].pc /\ r.stage = agent[a].stage /\ r.tree = agent[a].tree
      /\ r.worktree = agent[a].worktree /\ r.attempt = agent[a].attempt /\ r.published = agent[a].published
      /\ r.tries = agent[a].tries /\ r.failuresAt = agent[a].failuresAt /\ r.held = agent[a].held
      /\ r.git = agent[a].git /\ r.answer = agent[a].answer /\ r.ctl /\ r.stop = agent[a].stop
  BY <1>1, <1>3 DEF Attempts
<1>6. Sound(a, r, owner, retained, unreleased, failures)
  <2>1. Tried(r) BY <1>1, <1>5, Calls DEF Tried
  <2>2. Working(a, r) BY <1>5, Calls DEF Working
  <2>3. Held(a, r, owner, retained \cup unreleased) BY <1>5, Calls DEF Held, LocksOf
  <2>4. Lost(a, r, owner, retained, failures) BY <1>5, Calls DEF Lost, LocksOf
  <2> QED BY <2>1, <2>2, <2>3, <2>4 DEF Sound
<1> QED BY <1>2, <1>4, <1>5, <1>6, AgentStays

\* A stop marks a call that has no outcome.
LEMMA StopMarks ==
  ASSUME IInv, NEW a \in Agents, agent[a].status \notin Final
  PROVE  LET r == MarkedStopped(agent[a]) IN
         /\ r \in Attempts /\ r.pc = agent[a].pc /\ r.held = agent[a].held /\ (agent[a].ctl => r.ctl)
         /\ Sound(a, r, owner, retained, unreleased, failures)
<1> DEFINE S == Final \cup {"running", "stopping", "restarted"}
<1>1. PICK q \in Attempts : q = agent[a] BY Calls
<1>2. q.tries \in Seq(S) /\ q.attempt \in Nat /\ Len(q.tries) = q.attempt
  BY <1>1, RunAssumption, Calls DEF Attempts, Tried
<1>3. PICK t : t = [n \in DOMAIN q.tries |-> IF n = q.attempt /\ q.tries[n] = "running" THEN "stopping" ELSE q.tries[n]]
  OBVIOUS
<1>4. t \in Seq(S) /\ Len(t) = q.attempt /\ \A n \in 1..q.attempt : q.tries[n] = "restarted" => t[n] = "restarted"
  <2>1. DOMAIN q.tries = 1..q.attempt BY <1>2
  <2>2. \A n \in 1..q.attempt : t[n] \in S BY <1>2, <1>3, <2>1
  <2>3. t \in Seq(S) BY <1>2, <1>3, <2>1, <2>2
  <2>4. Len(t) = q.attempt BY <1>2, <1>3, <2>1, <2>3
  <2>5. \A n \in 1..q.attempt : q.tries[n] = "restarted" => t[n] = "restarted" BY <1>3, <2>1
  <2> QED BY <2>3, <2>4, <2>5
<1>5. \A n \in 1..(q.attempt - 1) : q.tries[n] = "restarted" => t[n] = "restarted" BY <1>2, <1>3
<1>6. PICK c \in BOOLEAN : c = (q.ctl \/ q.pc \in Abortable) BY <1>1 DEF Attempts
<1>7. PICK e : e = [q EXCEPT !.stop = TRUE, !.restart = FALSE, !.ctl = c] OBVIOUS
<1>8. e \in Attempts BY <1>6, <1>7 DEF Attempts
<1>9. PICK f : f = [e EXCEPT !.tries = t] OBVIOUS
<1>10. f \in Attempts BY <1>4, <1>8, <1>9 DEF Attempts
<1>11. PICK r : r = [f EXCEPT !.status = "stopping"] OBVIOUS
<1>12. r \in Attempts BY <1>10, <1>11 DEF Attempts
<1>13. r = MarkedStopped(agent[a])
  <2>1. MarkedStopped(q) = [q EXCEPT !.stop = TRUE, !.restart = FALSE, !.status = "stopping", !.tries = t, !.ctl = c]
    BY <1>3, <1>6 DEF MarkedStopped
  <2> QED BY <1>1, <1>7, <1>9, <1>11, <2>1 DEF Attempts
<1>14. /\ r.pc = q.pc /\ r.stage = q.stage /\ r.tree = q.tree /\ r.worktree = q.worktree /\ r.attempt = q.attempt
       /\ r.published = q.published /\ r.tries = t /\ r.failuresAt = q.failuresAt /\ r.held = q.held
       /\ r.git = q.git /\ r.answer = q.answer /\ r.ctl = c
  BY <1>7, <1>9, <1>11 DEF Attempts
<1>15. Sound(a, r, owner, retained, unreleased, failures)
  <2>1. q.status # "completed" BY <1>1 DEF Final
  <2>2. Tried(q) BY <1>1, Calls
  <2>3. r.pc \in Abortable => r.ctl BY <1>6, <1>14
  <2>4. Tried(r) BY <1>2, <1>4, <1>5, <1>14, <2>1, <2>2, <2>3 DEF Tried
  <2>5. Working(a, r) BY <1>1, <1>14, Calls DEF Working
  <2>6. Held(a, r, owner, retained \cup unreleased) BY <1>1, <1>14, Calls DEF Held, LocksOf
  <2>7. Lost(a, r, owner, retained, failures) BY <1>1, <1>14, Calls DEF Lost, LocksOf
  <2> QED BY <2>4, <2>5, <2>6, <2>7 DEF Sound
<1>16. q.ctl => r.ctl BY <1>6, <1>14
<1> QED BY <1>1, <1>12, <1>13, <1>14, <1>15, <1>16

LEMMA StopAgentKeeps == ASSUME IInv, NEW a \in Agents, StopAgent(a) PROVE IInv'
<1>1. agent[a].status \notin Final BY DEF StopAgent, Final
<1>2. PICK r : r = MarkedStopped(agent[a]) OBVIOUS
<1>3. /\ r \in Attempts /\ r.pc = agent[a].pc /\ r.held = agent[a].held /\ (agent[a].ctl => r.ctl)
      /\ Sound(a, r, owner, retained, unreleased, failures)
  BY <1>1, <1>2, StopMarks
<1>4. agent' = [agent EXCEPT ![a] = r] BY <1>2 DEF StopAgent
<1>5. events' \in 0..MaxEvents /\ UNCHANGED <<run, slots, locks, spent, failures>> BY Counts DEF StopAgent
<1> QED BY <1>3, <1>4, <1>5, AgentStays

\* The run is aborted: its sandbox stops.
LEMMA RunAborts ==
  ASSUME IInv, NEW r \in Runs, NEW why \in {"stop", "fail", "fence"}, RanAt(r)
  PROVE  /\ RunAborted(r, why) \in Runs /\ RanAt(RunAborted(r, why)) /\ RunAborted(r, why).aborted # "no"
         /\ RunAborted(r, why).phase = r.phase /\ RunAborted(r, why).final = r.final
<1>1. PICK s : s = RunAborted(r, why) OBVIOUS
<1>2. /\ s \in Runs /\ s.aborted # "no" /\ s.phase = r.phase /\ s.final = r.final /\ s.committed = r.committed
      /\ s.sandbox = Stopped(r.sandbox)
  BY <1>1 DEF RunAborted, Runs, Stopped
<1>3. RanAt(s) BY <1>2 DEF RanAt, Stopped
<1> QED BY <1>1, <1>2, <1>3

LEMMA StopRunKeeps == ASSUME IInv, StopRun PROVE IInv'
<1> DEFINE marked == [a \in Agents |-> IF agent[a].pc = "none" \/ agent[a].status \in Final THEN agent[a]
                                       ELSE MarkedStopped(agent[a])]
<1>1. agent \in [Agents -> Attempts] /\ run \in Runs /\ failures \in Nat /\ spent \in Nat /\ RanAt(run)
  BY DEF IInv, Typed, Ran, RanAt
<1>2. PICK m : m = marked OBVIOUS
<1>3. ASSUME NEW b \in Agents
      PROVE  /\ m[b] \in Attempts /\ m[b].pc = agent[b].pc /\ m[b].held = agent[b].held
             /\ Sound(b, m[b], owner, retained, unreleased, failures)
  <2>1. CASE agent[b].pc = "none" \/ agent[b].status \in Final
    <3>1. m[b] = agent[b] BY <1>2, <2>1
    <3> QED BY <1>1, <3>1 DEF IInv
  <2>2. CASE ~(agent[b].pc = "none" \/ agent[b].status \in Final)
    <3>1. m[b] = MarkedStopped(agent[b]) BY <1>2, <2>2
    <3> QED BY <2>2, <3>1, StopMarks
  <2> QED BY <2>1, <2>2
<1>4. Continue(m, [run EXCEPT !.stopping = TRUE], TRUE, "stop") BY <1>2 DEF StopRun
<1>5. agent' = AgentsAborted(m) /\ run' = RunAborted([run EXCEPT !.stopping = TRUE], "stop") BY <1>4 DEF Continue
<1>6. run' \in Runs /\ RanAt(run')
  <2>1. PICK s : s = [run EXCEPT !.stopping = TRUE] OBVIOUS
  <2>2. s \in Runs /\ RanAt(s) BY <1>1, <2>1 DEF Runs, RanAt
  <2> QED BY <1>5, <2>1, <2>2, RunAborts
<1>7. ASSUME NEW b \in Agents
      PROVE  /\ agent'[b] \in Attempts /\ agent'[b].pc = agent[b].pc /\ agent'[b].held = agent[b].held
             /\ Sound(b, agent'[b], owner, retained, unreleased, failures)
             /\ agent[b].pc = "slot" => agent'[b].ctl
  <2>1. agent'[b] = IF m[b].pc \in Abortable THEN [m[b] EXCEPT !.ctl = TRUE] ELSE m[b]
    BY <1>5 DEF AgentsAborted
  <2>2. Near(agent'[b], m[b]) BY <2>1 DEF Near
  <2>3. agent'[b] \in Attempts /\ agent'[b].pc = m[b].pc /\ agent'[b].held = m[b].held BY <1>3, <2>2, NearTyped
  <2>4. \A k \in Keys : owner[k] = b /\ k \in Range(m[b].held) => k \notin retained \cup unreleased
    BY <1>3 DEF Sound, Held
  <2>5. Sound(b, agent'[b], owner, retained, unreleased, failures)
    BY <1>1, <1>3, <2>2, <2>4, NearSound
  <2>6. m[b].pc = "slot" => agent'[b].ctl BY <1>3, <2>1 DEF Abortable, Attempts
  <2> QED BY <1>3, <2>3, <2>5, <2>6
<1>8. agent' \in [Agents -> Attempts]
  <2>1. agent' = [b \in Agents |-> agent'[b]] BY <1>5 DEF AgentsAborted
  <2> QED BY <1>7, <2>1
<1>9. UNCHANGED <<slots, locks, failures>> /\ spent' \in Nat /\ events' \in 0..MaxEvents BY <1>1, Counts DEF StopRun
<1> QED BY <1>6, <1>7, <1>8, <1>9, Stays

LEMMA EventRefusedKeeps == ASSUME IInv, NEW a \in Agents, EventRefused(a) PROVE IInv'
<1>1. agent' = AgentsAborted(agent) /\ run' = RunAborted(run, "fail") BY DEF EventRefused, Continue
<1>2. run \in Runs /\ RanAt(run) /\ spent \in Nat BY DEF IInv, Typed, Ran, RanAt
<1>3. run' \in Runs /\ RanAt(run') BY <1>1, <1>2, RunAborts
<1>4. UNCHANGED <<slots, locks, failures>> /\ spent' \in Nat /\ events' \in 0..MaxEvents
  BY <1>2, Counts DEF EventRefused
<1> QED BY <1>1, <1>3, <1>4, RunStays

-----------------------------------------------------------------------------
(***************************************************************************)
(* The run and its sandbox.                                                *)
(***************************************************************************)
LEMMA RunIsFine == ASSUME IInv PROVE run \in Runs /\ RanAt(run) /\ spent \in Nat
BY DEF IInv, Typed, Ran, RanAt

LEMMA JournalBreaksKeeps == ASSUME IInv, JournalBreaks PROVE IInv'
<1>1. agent' = agent /\ run' = run /\ UNCHANGED <<slots, locks, failures>> /\ spent' = spent /\ events' \in 0..MaxEvents
  BY Counts DEF JournalBreaks
<1>2. run' \in Runs /\ RanAt(run') /\ spent' \in Nat BY <1>1, RunIsFine
<1>3. run'.aborted # "no" => run.aborted # "no" BY <1>1
<1> QED BY <1>1, <1>2, <1>3, RunStays

\* The catch block of a run that has not ended; nothing is pending after a
\* script that returned.
LEMMA Catches ==
  ASSUME IInv, NEW r \in Runs, r.sandbox \notin Running,
         r.sandbox = "off" => run.sandbox = "off", r.final = "none", NEW b \in BOOLEAN
  PROVE  Caught(r, b) \in Runs /\ RanAt(Caught(r, b))
<1>1. PICK s : s = RunAborted(r, "fail") OBVIOUS
<1>2. /\ s \in Runs /\ s.aborted # "no" /\ s.sandbox = r.sandbox
  BY <1>1 DEF RunAborted, Runs, Stopped
<1>3. PICK f \in {"stopped", "failed"} : f = IF s.aborted = "stop" /\ ~b THEN "stopped" ELSE "failed" OBVIOUS
<1>4. Caught(r, b) = [s EXCEPT !.phase = "recFailed", !.final = f] BY <1>1, <1>3 DEF Caught
<1>5. PICK t : t = [s EXCEPT !.phase = "recFailed", !.final = f] OBVIOUS
<1>6. /\ t \in Runs /\ t.phase = "recFailed" /\ t.final = f /\ t.aborted = s.aborted /\ t.sandbox = s.sandbox
  BY <1>2, <1>5 DEF Runs, Final
<1>7. RanAt(run) BY RunIsFine
<1>8. RanAt(t) BY <1>2, <1>6, <1>7 DEF RanAt
<1> QED BY <1>4, <1>5, <1>6, <1>8

LEMMA RunStartedKeeps == ASSUME IInv, RunStarted PROVE IInv'
<1>1. run \in Runs /\ RanAt(run) /\ run.phase = "start" /\ run.sandbox = "off" /\ run.final = "none" BY RunIsFine DEF RunStarted, RanAt
<1>2. /\ agent' = agent /\ UNCHANGED <<slots, locks, failures>> /\ spent' \in Nat /\ events' \in 0..MaxEvents
  BY Counts, RunIsFine DEF RunStarted, NoEvent
<1>3. \A b \in Agents : agent[b].pc # "slot" BY <1>1 DEF RanAt
<1>4. run' \in Runs /\ RanAt(run')
  <2>1. CASE journal = "ok" /\ run.aborted = "no"
    <3>1. run' = [run EXCEPT !.phase = "script", !.sandbox = "up"] BY <2>1 DEF RunStarted
    <3>2. /\ run' \in Runs /\ run'.phase = "script" /\ run'.sandbox = "up" /\ run'.final = "none"
          /\ run'.aborted = run.aborted
      BY <1>1, <3>1 DEF Runs
    <3> QED BY <1>1, <3>2 DEF RanAt
  <2>2. CASE ~(journal = "ok" /\ run.aborted = "no")
    <3>1. PICK b \in BOOLEAN : b = (journal # "ok") OBVIOUS
    <3>2. run' = Caught(run, b) BY <2>2, <3>1 DEF RunStarted
    <3> QED BY <1>1, <3>2, Catches
  <2> QED BY <2>1, <2>2
<1> QED BY <1>2, <1>3, <1>4, RunStays

LEMMA ScriptReturnsKeeps == ASSUME IInv, ScriptReturns PROVE IInv'
<1>1. run \in Runs /\ RanAt(run) BY RunIsFine
<1>2. /\ agent' = agent /\ UNCHANGED <<slots, locks, failures>> /\ spent' \in Nat /\ events' \in 0..MaxEvents
  BY Counts, RunIsFine DEF ScriptReturns, NoEvent
<1>3. /\ run' \in Runs /\ run'.phase = run.phase /\ run'.sandbox = "result" /\ run'.final = run.final
      /\ run'.aborted = run.aborted /\ run'.committed = run.committed
  BY <1>1 DEF Runs, ScriptReturns
<1>4. RanAt(run') BY <1>1, <1>3 DEF RanAt, ScriptReturns
<1> QED BY <1>2, <1>3, <1>4, RunStays

LEMMA ScriptFailsKeeps == ASSUME IInv, ScriptFails PROVE IInv'
<1>1. run \in Runs /\ RanAt(run) BY RunIsFine
<1>2. /\ agent' = agent /\ UNCHANGED <<slots, locks, failures>> /\ spent' \in Nat /\ events' \in 0..MaxEvents
  BY Counts, RunIsFine DEF ScriptFails
<1>3. /\ run' \in Runs /\ run'.phase = run.phase /\ run'.sandbox = Stopped(run.sandbox) /\ run'.final = run.final
      /\ run'.aborted = run.aborted /\ run'.committed = run.committed
  BY <1>1 DEF Runs, ScriptFails, Stopped
<1>4. RanAt(run') BY <1>1, <1>3 DEF RanAt, ScriptFails, Stopped
<1> QED BY <1>2, <1>3, <1>4, RunStays

LEMMA QuiesceKeeps == ASSUME IInv, Quiesce PROVE IInv'
<1>1. run \in Runs /\ RanAt(run) BY RunIsFine
<1>2. /\ agent' = agent /\ UNCHANGED <<slots, locks, failures>> /\ spent' \in Nat /\ events' \in 0..MaxEvents
  BY Counts, RunIsFine DEF Quiesce, NoEvent
<1>3. /\ run' \in Runs /\ run'.phase = run.phase /\ run'.sandbox = "closing" /\ run'.final = run.final
      /\ run'.aborted = run.aborted /\ run'.committed = run.committed
  BY <1>1 DEF Runs, Quiesce
<1>4. RanAt(run') BY <1>1, <1>3 DEF RanAt, Quiesce
<1> QED BY <1>2, <1>3, <1>4, RunStays

LEMMA SandboxExitsKeeps == ASSUME IInv, SandboxExits PROVE IInv'
<1>1. /\ run \in Runs /\ RanAt(run) /\ run.sandbox \in {"closing", "failing", "killing"} /\ run.phase = "script"
      /\ run.final = "none"
  BY RunIsFine DEF SandboxExits, RanAt
<1>2. /\ UNCHANGED <<slots, locks, failures>> /\ spent' \in Nat /\ events' \in 0..MaxEvents
  BY Counts, RunIsFine DEF SandboxExits, NoEvent
<1>3. PICK g : g = [run EXCEPT !.sandbox = "gone"] OBVIOUS
<1>4. /\ g \in Runs /\ g.sandbox = "gone" /\ g.final = "none" /\ g.phase = "script" /\ g.aborted = run.aborted
  BY <1>1, <1>3 DEF Runs
<1>5. CASE run.sandbox = "closing" /\ run.aborted = "no"
  <2>1. run' = [g EXCEPT !.phase = "recDone"] /\ agent' = agent BY <1>3, <1>5 DEF SandboxExits
  <2>2. /\ run' \in Runs /\ run'.sandbox = "gone" /\ run'.final = "none" /\ run'.phase = "recDone"
        /\ run'.aborted = run.aborted
    BY <1>4, <2>1 DEF Runs
  <2>3. RanAt(run') BY <1>1, <1>5, <2>2 DEF RanAt
  <2> QED BY <1>2, <2>1, <2>2, <2>3, RunStays
<1>6. CASE ~(run.sandbox = "closing" /\ run.aborted = "no")
  <2>1. run' = Caught(g, FALSE) /\ agent' = AgentsAborted(agent) BY <1>3, <1>6 DEF SandboxExits
  <2>2. run' \in Runs /\ RanAt(run') BY <1>4, <2>1, Catches
  <2> QED BY <1>2, <2>1, <2>2, RunStays
<1> QED BY <1>5, <1>6

LEMMA SandboxLostKeeps == ASSUME IInv, SandboxLost PROVE IInv'
<1>1. /\ run \in Runs /\ RanAt(run) /\ run.final = "none" BY RunIsFine DEF SandboxLost, RanAt
<1>2. /\ UNCHANGED <<slots, locks, failures>> /\ spent' \in Nat /\ events' \in 0..MaxEvents
  BY Counts, RunIsFine DEF SandboxLost
<1>3. PICK x \in {"stop", "fail", "fence"} : x = IF run.aborted = "no" THEN "fence" ELSE run.aborted
  BY <1>1 DEF Runs
<1>4. PICK g : g = [run EXCEPT !.sandbox = "lost", !.aborted = x] OBVIOUS
<1>5. /\ g \in Runs /\ g.sandbox = "lost" /\ g.final = "none" BY <1>1, <1>4 DEF Runs
<1>6. run' = Caught(g, FALSE) /\ agent' = AgentsAborted(agent)
  <2>1. [run EXCEPT !.sandbox = "lost", !.aborted = IF @ = "no" THEN "fence" ELSE @] = g BY <1>1, <1>3, <1>4 DEF Runs
  <2> QED BY <2>1 DEF SandboxLost
<1>7. run' \in Runs /\ RanAt(run') BY <1>5, <1>6, Catches
<1> QED BY <1>2, <1>6, <1>7, RunStays

LEMMA RunCompletedKeeps == ASSUME IInv, RunCompleted PROVE IInv'
<1>1. /\ run \in Runs /\ RanAt(run) /\ run.phase = "recDone" /\ run.final = "none"
      /\ run.sandbox \notin Running /\ Pending = {}
  BY RunIsFine DEF RunCompleted, RanAt
<1>2. /\ agent' = agent /\ UNCHANGED <<slots, locks, failures>> /\ spent' \in Nat /\ events' \in 0..MaxEvents
  BY Counts, RunIsFine DEF RunCompleted, NoEvent
<1>3. \A b \in Agents : agent[b].pc \notin {"slot", "queuedRec"} BY <1>1 DEF Pending
<1>4. run' \in Runs /\ RanAt(run')
  <2>1. CASE journal = "ok" /\ run.aborted = "no"
    <3>1. run' = [run EXCEPT !.phase = "drain", !.committed = TRUE, !.final = "completed"] BY <2>1 DEF RunCompleted
    <3>2. /\ run' \in Runs /\ run'.phase = "drain" /\ run'.sandbox = run.sandbox /\ run'.final = "completed"
          /\ run'.aborted = run.aborted /\ run'.committed
      BY <1>1, <3>1 DEF Runs, Final
    <3>3. failures = 0 BY <1>1, <2>1, Counts DEF RanAt
    <3> QED BY <1>1, <1>3, <3>2, <3>3 DEF RanAt
  <2>2. CASE ~(journal = "ok" /\ run.aborted = "no")
    <3>1. PICK b \in BOOLEAN : b = (journal # "ok") OBVIOUS
    <3>2. run' = Caught(run, b) BY <2>2, <3>1 DEF RunCompleted
    <3> QED BY <1>1, <3>2, Catches
  <2> QED BY <2>1, <2>2
<1> QED BY <1>2, <1>3, <1>4, RunStays

LEMMA FailureRecordedKeeps == ASSUME IInv, FailureRecorded PROVE IInv'
<1>1. run \in Runs /\ RanAt(run) /\ run.phase = "recFailed" BY RunIsFine DEF FailureRecorded
<1>2. /\ agent' = agent /\ UNCHANGED <<slots, locks, failures>> /\ spent' \in Nat /\ events' \in 0..MaxEvents
  BY Counts, RunIsFine DEF FailureRecorded, NoEvent
<1>3. /\ run' \in Runs /\ run'.phase = "drain" /\ run'.sandbox = run.sandbox /\ run'.final = run.final
      /\ run'.aborted = run.aborted /\ run'.committed = run.committed
  BY <1>1 DEF Runs, FailureRecorded
<1>4. RanAt(run') BY <1>1, <1>3 DEF RanAt, FailureRecorded
<1> QED BY <1>2, <1>3, <1>4, RunStays

LEMMA DrainedKeeps == ASSUME IInv, Drained PROVE IInv'
<1>1. run \in Runs /\ RanAt(run) /\ run.phase = "drain" BY RunIsFine DEF Drained
<1>2. /\ agent' = agent /\ UNCHANGED <<slots, locks, failures>> /\ spent' \in Nat /\ events' \in 0..MaxEvents
  BY Counts, RunIsFine DEF Drained, NoEvent
<1>3. /\ run' \in Runs /\ run'.phase = "settled" /\ run'.sandbox = run.sandbox /\ run'.final = run.final
      /\ run'.aborted = run.aborted /\ run'.committed = run.committed
  BY <1>1 DEF Runs, Drained
<1>4. Pending = {}
  <2>1. \A b \in Agents : agent[b].pc \in Executing \cup {"none", "queuedRec", "done"} BY Calls DEF Attempts
  <2>2. \A b \in Agents : agent[b].pc \notin Executing /\ agent[b].pc # "queuedRec" BY <1>1 DEF RanAt, Drained
  <2> QED BY <2>1, <2>2 DEF Pending
<1>5. RanAt(run') BY <1>1, <1>3, <1>4 DEF RanAt
<1> QED BY <1>2, <1>3, <1>5, RunStays

-----------------------------------------------------------------------------
(***************************************************************************)
(* Failed releases tried again; calls requested.                           *)
(***************************************************************************)
LEMMA RetryReleasesKeeps == ASSUME IInv, RetryReleases PROVE IInv'
<1>1. PICK K \in SUBSET unreleased :
         /\ tails' = [k \in Keys |-> IF k \in K THEN Resolved(Closed(tails[k], owner[k])) ELSE tails[k]]
         /\ seen' = [k \in Keys |-> IF k \in K /\ tails'[k] = <<>> THEN FALSE ELSE seen[k]]
         /\ owner' = [k \in Keys |-> IF k \in K THEN Nobody ELSE owner[k]]
         /\ unreleased' = unreleased \ K
  BY DEF RetryReleases
<1>2. /\ agent' = agent /\ run' = run /\ slots' = slots /\ retained' = retained /\ spent' = spent
      /\ failures' = failures /\ events' \in 0..MaxEvents /\ run.phase = "settled"
  BY Counts DEF RetryReleases
<1>3. /\ agent \in [Agents -> Attempts] /\ owner \in [Keys -> Agents \cup {Nobody}] /\ seen \in [Keys -> BOOLEAN]
      /\ retained \subseteq Keys /\ unreleased \subseteq Keys /\ DOMAIN tails = Keys
  BY DEF IInv, Typed
<1>4. Typed'
  <2>1. DOMAIN tails' = Keys BY <1>1
  <2>2. seen' \in [Keys -> BOOLEAN] BY <1>1, <1>3
  <2>3. owner' \in [Keys -> Agents \cup {Nobody}] BY <1>1, <1>3
  <2>4. unreleased' \subseteq Keys BY <1>1, <1>3
  <2> QED BY <1>2, <2>1, <2>2, <2>3, <2>4 DEF IInv, Typed
<1>5. ASSUME NEW b \in Agents PROVE agent[b].pc \in {"none", "done"} /\ agent[b].held = <<>>
  <2>1. Pending = {} BY <1>2 DEF IInv, Ran
  <2>2. agent[b].pc \in {"none", "done"} BY <2>1 DEF Pending
  <2> QED BY <2>2, Calls DEF Held, AdapterUp
<1>6. Owners'
  <2> SUFFICES ASSUME NEW k \in Keys
               PROVE  /\ owner'[k] # Nobody =>
                           \/ k \in Range(agent[owner'[k]].held)
                           \/ k \in retained \cup unreleased' /\ agent[owner'[k]].pc \in Ended
                      /\ k \in retained \cup unreleased' => owner'[k] # Nobody
                      /\ ~(k \in retained /\ k \in unreleased')
    BY <1>2 DEF Owners
  <2>1. /\ owner[k] # Nobody =>
             \/ k \in Range(agent[owner[k]].held)
             \/ k \in retained \cup unreleased /\ agent[owner[k]].pc \in Ended
        /\ k \in retained \cup unreleased => owner[k] # Nobody
        /\ ~(k \in retained /\ k \in unreleased)
    BY DEF IInv, Owners
  <2>2. owner'[k] = IF k \in K THEN Nobody ELSE owner[k] BY <1>1
  <2> QED BY <1>1, <2>1, <2>2
<1>7. Queued'
  <2> SUFFICES ASSUME NEW k \in Keys, tails'[k] # <<>> PROVE seen'[k] BY DEF Queued
  <2>1. seen'[k] = seen[k] BY <1>1
  <2>2. k \notin K => tails'[k] = tails[k] BY <1>1
  <2>3. k \in K => tails'[k] = Resolved(Closed(tails[k], owner[k])) BY <1>1
  <2>4. tails[k] # <<>>
    <3>1. CASE k \notin K BY <2>2, <3>1
    <3>2. CASE k \in K
      <4>1. tails[k] = <<>> => tails'[k] = <<>> BY <2>3, <3>2, EmptyChain
      <4> QED BY <4>1
    <3> QED BY <3>1, <3>2
  <2> QED BY <2>1, <2>4 DEF IInv, Queued
<1>8. Ran'
  <2>1. Pending' = Pending BY <1>2 DEF Pending
  <2>2. retained' \cup unreleased' # {} => retained \cup unreleased # {} BY <1>1, <1>2
  <2> QED BY <1>2, <2>1, <2>2 DEF IInv, Ran
<1>9. ASSUME NEW b \in Agents
      PROVE  Seated(b)' /\ Sound(b, agent[b], owner', retained, unreleased', failures)
  <2>1. Seated(b)' BY <1>2 DEF IInv, Seated
  <2>2. Range(<<>>) = {} BY DEF Range
  <2>3. Held(b, agent[b], owner', retained \cup unreleased')
    BY <1>5, <2>2, Calls DEF Held, AdapterUp
  <2>4. \A k \in Keys : owner[k] = b /\ k \in retained => owner'[k] = b
    BY <1>1 DEF IInv, Owners
  <2>5. Range(LocksOf(agent[b])) \subseteq Keys /\ Range(SetupLocks) \subseteq Keys
    BY RunAssumption DEF Range, LocksOf
  <2>6. Lost(b, agent[b], owner', retained, failures) BY <2>4, <2>5, <1>5, Calls DEF Lost
  <2> QED BY <2>1, <2>3, <2>6, Calls DEF Sound
<1> QED BY <1>2, <1>4, <1>6, <1>7, <1>8, <1>9 DEF IInv

LEMMA RequestAgentKeeps == ASSUME IInv, NEW a \in Agents, RequestAgent(a) PROVE IInv'
<1>1. /\ agent[a] \in Attempts /\ agent[a].pc = "none" /\ run.sandbox \in {"up", "failing"} /\ agent \in [Agents -> Attempts]
      /\ agent[a].answer = "none"
  BY Calls DEF RequestAgent, IInv, Typed, Tried, Attempts
<1>2. UNCHANGED <<run, slots, tails, seen, owner, retained, unreleased, spent, journal, failures, events>>
  BY DEF RequestAgent, locks
<1>3. PICK r : /\ agent' = [agent EXCEPT ![a] = r]
               /\ \/ r = [agent[a] EXCEPT !.pc = "done", !.answer = "error"]
                  \/ r = [agent[a] EXCEPT !.pc = "queuedRec"]
  <2>1. CASE run.aborted # "no" \/ spent >= Budget
    <3>1. agent' = [agent EXCEPT ![a] = [agent[a] EXCEPT !.pc = "done", !.answer = "error"]] BY <1>1, <2>1 DEF RequestAgent
    <3> QED BY <3>1
  <2>2. CASE ~(run.aborted # "no" \/ spent >= Budget)
    <3>1. agent' = [agent EXCEPT ![a] = [agent[a] EXCEPT !.pc = "queuedRec"]] BY <1>1, <2>2 DEF RequestAgent, Attempts
    <3> QED BY <3>1
  <2> QED BY <2>1, <2>2
<1>4. /\ r \in Attempts /\ r.pc \in {"done", "queuedRec"} /\ (r.pc = "done" <=> r.answer # "none") /\ r.answer # "ok"
      /\ r.held = agent[a].held /\ r.tree = agent[a].tree /\ r.git = agent[a].git /\ r.failuresAt = agent[a].failuresAt
      /\ r.stage = agent[a].stage /\ r.worktree = agent[a].worktree /\ r.attempt = agent[a].attempt
      /\ r.tries = agent[a].tries
  <2>1. CASE r = [agent[a] EXCEPT !.pc = "done", !.answer = "error"]
    <3>1. r \in Attempts BY <1>1, <2>1, EndsCall
    <3> QED BY <1>1, <2>1, <3>1 DEF Attempts
  <2>2. CASE r = [agent[a] EXCEPT !.pc = "queuedRec"] BY <1>1, <2>2 DEF Attempts
  <2> QED BY <1>3, <2>1, <2>2
<1>5. Sound(a, r, owner, retained, unreleased, failures)
  <2>1. Tried(r) BY <1>1, <1>4, Calls DEF Tried, Timed, Abortable
  <2>2. Working(a, r) BY <1>1, <1>4, Calls DEF Working, AdapterUp
  <2>3. Held(a, r, owner, retained \cup unreleased) BY <1>1, <1>4, Calls DEF Held, AdapterUp
  <2>4. Lost(a, r, owner, retained, failures) BY <1>1, <1>4, Calls DEF Lost, Ended
  <2> QED BY <2>1, <2>2, <2>3, <2>4 DEF Sound
<1>6. /\ agent'[a] = r /\ agent' \in [Agents -> Attempts] /\ \A b \in Agents \ {a} : agent'[b] = agent[b]
  BY <1>1, <1>3, <1>4
<1>7. Others(a) BY <1>2, <1>6 DEF Others, Near, IInv, Typed
<1>8. Typed' BY <1>2, <1>6 DEF IInv, Typed
<1>9. Owners'
  <2>1. agent[a].held = <<>> BY <1>1, Calls DEF Held, AdapterUp
  <2>2. Range(<<>>) = {} BY DEF Range
  <2>3. \A k \in Keys : owner[k] # a
    <3>1. a # Nobody BY RunAssumption
    <3> QED BY <1>1, <2>1, <2>2, <3>1 DEF IInv, Owners, Ended
  <2>4. retained \cap unreleased = {} /\ \A k \in retained \cup unreleased : owner[k] # Nobody
    BY DEF IInv, Owners, Typed
  <2> QED BY <1>2, <1>7, <2>3, <2>4, OwnersMove
<1>10. Queued' BY <1>2 DEF IInv, Queued
<1>11. Ran'
  <2>1. RanAt(run) /\ run.phase = "script" /\ run.final = "none" BY <1>1, RunIsFine DEF RanAt
  <2> QED BY <1>1, <1>2, <2>1 DEF RanAt, Ran
<1>12. Seated(a)' BY <1>1, <1>2, <1>4, <1>6, Calls DEF Seated, Timed
<1>13. \A b \in Agents \ {a} : Seated(b)' /\ Sound(b, agent'[b], owner', retained', unreleased', failures')
  BY <1>2, <1>7, SoundMoves, Counts
<1> QED BY <1>2, <1>5, <1>6, <1>8, <1>9, <1>10, <1>11, <1>12, <1>13 DEF IInv

-----------------------------------------------------------------------------
(***************************************************************************)
(* The invariant, and what follows from it.                                *)
(***************************************************************************)
LEMMA InitSound == ASSUME Init PROVE IInv
<1>1. PICK r : r = NewAgent OBVIOUS
<1>2. \A a \in Agents : agent[a] = r BY <1>1 DEF Init
<1>3. r \in Attempts
  <2>1. <<>> \in Seq(Keys) /\ <<>> \in Seq(Final \cup {"running", "stopping", "restarted"}) OBVIOUS
  <2>2. 0 \in 0..MaxAttempts /\ 0 \in Nat BY RunAssumption
  <2> QED BY <1>1, <2>1, <2>2 DEF NewAgent, Attempts
<1>4. /\ r.pc = "none" /\ r.held = <<>> /\ r.tree = "none" /\ r.git = "none" /\ r.worktree = "none" /\ r.stage = "setup"
      /\ r.answer = "none" /\ r.tries = <<>> /\ r.attempt = 0 /\ r.failuresAt = 0
  BY <1>1 DEF NewAgent
<1>5. Typed
  <2>1. agent \in [Agents -> Attempts] BY <1>3, <1>1 DEF Init
  <2>2. run \in Runs BY DEF Init, Runs
  <2> QED BY <2>1, <2>2, RunAssumption DEF Init, Typed
<1>6. Owners /\ Queued BY DEF Init, Owners, Queued
<1>7. Ran BY <1>2, <1>4 DEF Init, Ran, Pending
<1>8. ASSUME NEW a \in Agents PROVE Seated(a) /\ Sound(a, agent[a], owner, retained, unreleased, failures)
  <2>1. Seated(a) BY <1>2, <1>4 DEF Init, Seated, Timed
  <2>2. Tried(r) BY <1>4 DEF Tried, Timed, Abortable
  <2>3. Working(a, r) BY <1>4 DEF Working, AdapterUp
  <2>4. Range(<<>>) = {} BY DEF Range
  <2>5. Held(a, r, owner, retained \cup unreleased) BY <1>4, <2>4 DEF Held, AdapterUp
  <2>6. Lost(a, r, owner, retained, failures) BY <1>4 DEF Lost, Init
  <2> QED BY <1>2, <2>1, <2>2, <2>3, <2>5, <2>6 DEF Sound
<1> QED BY <1>5, <1>6, <1>7, <1>8 DEF IInv

LEMMA AgentStepKeeps == ASSUME IInv, NEW a \in Agents, AgentStep(a) PROVE IInv'
BY QueuedRecordedKeeps, LeaveQueueKeeps, GrantedKeeps, AdmittedKeeps, OwnedKeeps, GiveUpKeeps, CreatedKeeps,
   LaunchedKeeps, ConnectedKeeps, AdapterStoppedKeeps, CleanedUpKeeps, UnlockedKeeps, OutcomeRecordedKeeps
DEF AgentStep

LEMMA RunStepKeeps == ASSUME IInv, RunStep PROVE IInv'
BY RunStartedKeeps, QuiesceKeeps, SandboxExitsKeeps, RunCompletedKeeps, FailureRecordedKeeps, DrainedKeeps DEF RunStep

LEMMA NextKeeps == ASSUME IInv, [Next]_vars PROVE IInv'
<1>1. ASSUME NEW a \in Agents,
             \/ RequestAgent(a) \/ AgentStep(a) \/ Timeout(a)
             \/ RestartAgent(a) \/ StopAgent(a) \/ EventRefused(a)
      PROVE  IInv'
  BY <1>1, RequestAgentKeeps, AgentStepKeeps, TimeoutKeeps, RestartAgentKeeps, StopAgentKeeps, EventRefusedKeeps
<1>2. ASSUME \/ RunStep \/ ScriptReturns \/ ScriptFails \/ SandboxLost
             \/ StopRun \/ JournalBreaks \/ RetryReleases
      PROVE  IInv'
  BY <1>2, RunStepKeeps, ScriptReturnsKeeps, ScriptFailsKeeps, SandboxLostKeeps, StopRunKeeps,
     JournalBreaksKeeps, RetryReleasesKeeps
<1>3. CASE UNCHANGED vars
  <2>1. agent' = agent /\ run' = run /\ UNCHANGED <<slots, locks, failures, spent>> /\ events' \in 0..MaxEvents
    BY <1>3, Counts DEF vars, locks, NoEvent
  <2>2. run' \in Runs /\ RanAt(run') /\ spent' \in Nat BY <2>1, RunIsFine
  <2> QED BY <2>1, <2>2, RunStays
<1> QED BY <1>1, <1>2, <1>3 DEF Next

\* The inductive invariant holds in every reachable state.
THEOREM RunConsistent == Spec => []IInv
<1>1. Init => IInv BY InitSound
<1>2. IInv /\ [Next]_vars => IInv' BY NextKeeps
<1> QED BY <1>1, <1>2, PTL DEF Spec

\* Whoever may be writing under a lock of the repository owns it
\* (#acquireMutation, poison), so nobody else is writing; and a queue with a
\* call in it is never forgotten (mutationTails).
THEOREM RepositoryIsExclusive == Spec => []RepositoryExclusive
<1>1. IInv => RepositoryExclusive
  <2> SUFFICES ASSUME IInv, NEW k \in Keys
               PROVE  /\ Cardinality(Writers(k)) <= 1
                      /\ \A a \in Writers(k) : owner[k] = a
                      /\ tails[k] # <<>> => seen[k]
    BY DEF RepositoryExclusive
  <2>1. ASSUME NEW a \in Writers(k) PROVE owner[k] = a
    <3>1. a \in Agents /\ agent[a] \in Attempts BY Calls DEF Writers
    <3>2. CASE Kind[a] = "shared" /\ agent[a].tree # "none" /\ k \in Range(SetupLocks)
      <4>1. agent[a].tree = "up" => agent[a].held = SetupLocks BY <3>1, <3>2, Calls DEF Working, Held, AdapterUp
      <4>2. agent[a].tree = "lost" => agent[a].held = SetupLocks \/ owner[k] = a BY <3>1, <3>2, Calls DEF Lost
      <4>3. agent[a].tree \in {"up", "lost"} BY <3>1, <3>2 DEF Attempts
      <4> QED BY <3>1, <3>2, <4>1, <4>2, <4>3, Calls DEF Held
    <3>3. CASE agent[a].pc = "create" /\ k \in Range(SetupLocks)
      <4>1. agent[a].held = SetupLocks BY <3>1, <3>3, Calls DEF Held, Working, LocksOf
      <4> QED BY <3>1, <3>3, <4>1, Calls DEF Held
    <3>4. CASE agent[a].pc = "cleanup" /\ k \in Range(CleanupLocks)
      <4>1. agent[a].held = CleanupLocks BY <3>1, <3>4, Calls DEF Held, Working, LocksOf
      <4> QED BY <3>1, <3>4, <4>1, Calls DEF Held
    <3>5. CASE agent[a].git = "lost" /\ k \in Range(LocksOf(agent[a])) BY <3>1, <3>5, Calls DEF Lost
    <3>6. Range(LocksOf(agent[a])) = Range(IF agent[a].stage = "setup" THEN SetupLocks ELSE CleanupLocks)
      BY DEF LocksOf
    <3> QED BY <3>2, <3>3, <3>4, <3>5, <3>6 DEF Writers
  <2>2. Cardinality(Writers(k)) <= 1
    <3>1. Writers(k) \subseteq {owner[k]} BY <2>1
    <3>2. Writers(k) = {} \/ Writers(k) = {owner[k]} BY <3>1
    <3>3. Cardinality({}) = 0 /\ Cardinality({owner[k]}) = 1 BY FS_EmptySet, FS_Singleton
    <3> QED BY <3>2, <3>3
  <2>3. tails[k] # <<>> => seen[k] BY DEF IInv, Queued
  <2> QED BY <2>1, <2>2, <2>3
<1> QED BY <1>1, RunConsistent, PTL

\* The answer a script gets from agent() is that of the last attempt, which
\* completed; those before it were restarted, and a stopped call has no answer
\* (#runAgent).
THEOREM AnswersAreRight == Spec => []AnswerRight
<1>1. IInv => AnswerRight
  <2> SUFFICES ASSUME IInv, NEW a \in Agents, agent[a].answer = "ok"
               PROVE  /\ ~agent[a].stop /\ agent[a].status = "completed"
                      /\ Last(agent[a].tries) = "completed"
                      /\ \A n \in 1..(agent[a].attempt - 1) : agent[a].tries[n] = "restarted"
    BY DEF AnswerRight
  <2>1. Tried(agent[a]) BY Calls
  <2> QED BY <2>1 DEF Tried, Last
<1> QED BY <1>1, RunConsistent, PTL

\* A run that has settled left no slot taken, no call waiting, no tree alive
\* and no lock but those it accounts for; and it did not complete if a tree
\* could not be confirmed dead (#executeRun, #drain).
THEOREM SettledIsQuiet == Spec => []SettledQuiet
<1>1. IInv => SettledQuiet
  <2> SUFFICES ASSUME IInv, run.phase = "settled"
               PROVE  /\ slots = {} /\ Pending = {}
                      /\ \A k \in Keys : owner[k] # Nobody => k \in retained \cup unreleased
                      /\ \A a \in Agents : agent[a].tree # "up"
                      /\ (\E a \in Agents : agent[a].tree = "lost" \/ agent[a].git = "lost")
                            => failures > 0 /\ run.final # "completed"
                      /\ run.final = "completed" => \A a \in Agents : agent[a].answer # "none"
                                                                     \/ agent[a].pc = "none"
    BY DEF SettledQuiet
  <2>1. Pending = {} BY DEF IInv, Ran
  <2>2. ASSUME NEW a \in Agents
        PROVE  /\ agent[a].pc \in {"none", "done"} /\ agent[a].held = <<>> /\ a \notin slots /\ agent[a].tree # "up"
               /\ agent[a].answer # "none" \/ agent[a].pc = "none"
    <3>1. agent[a].pc \in {"none", "done"} BY <2>1 DEF Pending
    <3>2. agent[a].held = <<>> BY <3>1, Calls DEF Held, AdapterUp
    <3>3. a \notin slots BY <3>1, Calls DEF Seated, Timed
    <3>4. agent[a].tree # "up" BY <3>1, Calls DEF Working, AdapterUp
    <3>5. agent[a].answer # "none" \/ agent[a].pc = "none" BY <3>1, Calls DEF Tried
    <3> QED BY <3>1, <3>2, <3>3, <3>4, <3>5
  <2>3. slots = {} BY <2>2, Counts
  <2>4. ASSUME NEW k \in Keys, owner[k] # Nobody PROVE k \in retained \cup unreleased
    <3>1. owner[k] \in Agents BY <2>4 DEF IInv, Typed
    <3>2. Range(<<>>) = {} BY DEF Range
    <3> QED BY <2>2, <2>4, <3>1, <3>2 DEF IInv, Owners
  <2>5. ASSUME NEW a \in Agents, agent[a].tree = "lost" \/ agent[a].git = "lost"
        PROVE  failures > 0 /\ run.final # "completed"
    <3>1. failures > 0 BY <2>5, Calls DEF Lost
    <3> QED BY <3>1, Counts DEF IInv, Ran
  <2> QED BY <2>1, <2>2, <2>3, <2>4, <2>5
<1> QED BY <1>1, RunConsistent, PTL

-----------------------------------------------------------------------------
(***************************************************************************)
(* The budget: what a step of a call costs.                                *)
(***************************************************************************)
\* A step of a call that charges nothing and prompts nobody.
Free(s, r) ==
  /\ s.prompted = r.prompted
  /\ \/ s.pc = r.pc /\ s.stage = r.stage
     \/ /\ s.pc \in Timed \ {"admit"} => r.pc \in Timed \ {"admit", "unlock"}
        /\ r.prompted => Paying(s)

LEMMA WorkersFinite ==
  ASSUME IInv
  PROVE  /\ IsFiniteSet(slots) /\ IsFiniteSet(AtWork) /\ IsFiniteSet(Prompted) /\ AtWork \subseteq slots
         /\ Cardinality(slots) \in Nat /\ Cardinality(AtWork) \in Nat /\ Cardinality(Prompted) \in Nat
<1>1. AtWork \subseteq slots
  <2> SUFFICES ASSUME NEW a \in Agents, agent[a].pc \in Timed PROVE a \in slots BY DEF AtWork, Timed
  <2> QED BY Calls DEF Seated
<1>2. slots \subseteq Agents /\ Prompted \subseteq Agents BY Counts DEF Prompted
<1>3. IsFiniteSet(Agents) BY RunAssumption
<1>4. IsFiniteSet(slots) /\ IsFiniteSet(Prompted) BY <1>2, <1>3, FS_Subset
<1>5. IsFiniteSet(AtWork) BY <1>1, <1>4, FS_Subset
<1> QED BY <1>1, <1>4, <1>5, FS_CardinalityType

LEMMA FreeSteps ==
  ASSUME IInv, Budgeted, \A b \in Agents : Free(agent'[b], agent[b]),
         UNCHANGED <<spent, prompts>>, Cardinality(slots') <= Slots
  PROVE  Budgeted'
<1>1. Prompted' = Prompted BY DEF Prompted, Free
<1>2. AtWork' \subseteq AtWork
  <2> SUFFICES ASSUME NEW b \in Agents, b \in AtWork' PROVE b \in AtWork BY DEF AtWork
  <2>1. Free(agent'[b], agent[b]) OBVIOUS
  <2>2. agent'[b].pc \in Timed \ {"admit", "unlock"} \/ (agent'[b].pc = "unlock" /\ agent'[b].prompted) BY DEF AtWork
  <2> QED BY <2>1, <2>2 DEF AtWork, Free, Timed
<1>3. \A b \in Prompted' : Paying(agent'[b])
  <2> SUFFICES ASSUME NEW b \in Agents, agent[b].prompted PROVE Paying(agent'[b]) BY <1>1 DEF Prompted
  <2>1. Paying(agent[b]) BY DEF Budgeted, Prompted
  <2>2. Free(agent'[b], agent[b]) OBVIOUS
  <2> QED BY <2>1, <2>2 DEF Free, Paying
<1>4. Cardinality(AtWork') <= Cardinality(AtWork) /\ Cardinality(AtWork') \in Nat
  BY <1>2, WorkersFinite, FS_Subset, FS_CardinalityType
<1>5. spent \in Nat /\ Budget \in Nat /\ Slots \in Nat BY RunAssumption, Counts
<1>6. prompts' = spent' + Cardinality(Prompted') BY <1>1 DEF Budgeted
<1>7. spent' + Cardinality(AtWork') <= Budget - 1 + Slots
  BY <1>4, <1>5, WorkersFinite DEF Budgeted
<1> QED BY <1>3, <1>6, <1>7 DEF Budgeted

\* A step of one call, with which the run may be aborted.
LEMMA FreeStep ==
  ASSUME IInv, Budgeted, NEW a \in Agents, NEW r, {"pc", "prompted", "stage"} \subseteq DOMAIN r, Free(r, agent[a]),
         NEW abort, NEW why, Continue([agent EXCEPT ![a] = r], run, abort, why),
         UNCHANGED <<spent, prompts, slots>>
  PROVE  Budgeted'
<1>1. agent \in [Agents -> Attempts] BY DEF IInv, Typed
<1> DEFINE f == [agent EXCEPT ![a] = r]
<1>2. f[a] = r /\ \A b \in Agents \ {a} : f[b] = agent[b] BY <1>1
<1>3. \A b \in Agents : {"pc", "prompted", "stage"} \subseteq DOMAIN f[b] /\ Free(f[b], agent[b])
  BY <1>1, <1>2 DEF Free, Attempts
<1> HIDE DEF f
<1>4. \A b \in Agents : Free(agent'[b], agent[b])
  <2>1. CASE abort
    <3>1. \A b \in Agents : agent'[b] = IF f[b].pc \in Abortable THEN [f[b] EXCEPT !.ctl = TRUE] ELSE f[b]
      BY <2>1 DEF Continue, AgentsAborted, f
    <3>2. \A b \in Agents : agent'[b].pc = f[b].pc /\ agent'[b].prompted = f[b].prompted /\ agent'[b].stage = f[b].stage
      BY <1>3, <3>1
    <3> QED BY <1>3, <3>2 DEF Free, Paying
  <2>2. CASE ~abort
    <3>1. agent' = f BY <2>2 DEF Continue, f
    <3> QED BY <1>3, <3>1
  <2> QED BY <2>1, <2>2
<1> QED BY <1>4, FreeSteps DEF Budgeted

LEMMA PromptedAtWork ==
  ASSUME IInv, Budgeted, NEW a \in Agents, ~Paying(agent[a]) PROVE agent[a].prompted = FALSE
<1>1. ~agent[a].prompted BY DEF Budgeted, Prompted
<1>2. agent[a].prompted \in BOOLEAN BY Calls DEF Attempts
<1> QED BY <1>1, <1>2

LEMMA FreeOwn ==
  ASSUME IInv, Budgeted, NEW a \in Agents, NEW r, {"pc", "prompted", "stage"} \subseteq DOMAIN r, Free(r, agent[a]),
         agent' = [agent EXCEPT ![a] = r], UNCHANGED <<spent, prompts, slots>>
  PROVE  Budgeted'
<1>1. agent'[a] = r /\ \A b \in Agents \ {a} : agent'[b] = agent[b] BY DEF IInv, Typed
<1>2. \A b \in Agents : Free(agent'[b], agent[b]) BY <1>1 DEF Free
<1> QED BY <1>2, FreeSteps DEF Budgeted

LEMMA LoopFree ==
  ASSUME NEW q \in Attempts, q.prompted = FALSE, NEW r, r = LoopHead(q)
  PROVE  {"pc", "prompted", "stage"} \subseteq DOMAIN r /\ r.prompted = FALSE /\ r.pc \in {"recFail", "done", "slot"}
<1>1. CASE q.stop
  <2>1. r = [q EXCEPT !.status = "stopped", !.pc = "recFail"] BY <1>1 DEF LoopHead
  <2> QED BY <2>1 DEF Attempts
<1>2. CASE ~q.stop /\ q.attempt >= MaxAttempts
  <2>1. r = [q EXCEPT !.pc = "done", !.answer = "error"] BY <1>2 DEF LoopHead
  <2> QED BY <2>1 DEF Attempts
<1>3. CASE ~q.stop /\ ~(q.attempt >= MaxAttempts)
  <2>1. PICK c : c = (run.aborted # "no") OBVIOUS
  <2>2. r = [q EXCEPT !.restart = FALSE, !.ctl = c, !.timedOut = FALSE, !.late = FALSE, !.published = FALSE,
                      !.stage = "setup", !.prompted = FALSE, !.result = "none", !.worktree = "none", !.pc = "slot"]
    BY <1>3, <2>1 DEF LoopHead
  <2> QED BY <2>2 DEF Attempts
<1> QED BY <1>1, <1>2, <1>3

LEMMA SettledFree ==
  ASSUME NEW q, {"pc", "prompted", "stage", "status", "tries", "ctl", "timedOut", "late"} \subseteq DOMAIN q, NEW b, NEW r, r = Settled(q, b)
  PROVE  /\ {"pc", "prompted", "stage"} \subseteq DOMAIN r /\ r.prompted = q.prompted
         /\ r.pc \in {"recDone", "recFail", "recRestart"}
<1> DEFINE ended(s) == IF q.published THEN [q.tries EXCEPT ![q.attempt] = s] ELSE q.tries
<1>1. PICK o : o = [q EXCEPT !.ctl = FALSE, !.timedOut = FALSE, !.late = FALSE] OBVIOUS
<1>2. PICK u : u = IF q.stop THEN "stopped" ELSE "failed" OBVIOUS
<1>3. PICK t : t = ended("completed") OBVIOUS
<1>4. PICK v : v = ended("restarted") OBVIOUS
<1>5. PICK w : w = ended(u) OBVIOUS
<1>6. \/ r = [o EXCEPT !.status = "completed", !.tries = t, !.pc = "recDone"]
      \/ r = [o EXCEPT !.tries = v, !.pc = "recRestart"]
      \/ r = [o EXCEPT !.status = u, !.tries = w, !.pc = "recFail"]
  BY <1>1, <1>2, <1>3, <1>4, <1>5 DEF Settled
<1>7. {"pc", "prompted", "stage"} \subseteq DOMAIN o /\ o.prompted = q.prompted BY <1>1
<1> QED BY <1>6, <1>7

LEMMA RequestAgentCosts == ASSUME IInv, Budgeted, NEW a \in Agents, RequestAgent(a) PROVE Budgeted'
<1>1. agent[a] \in Attempts /\ agent[a].pc = "none" /\ agent \in [Agents -> Attempts] BY Calls DEF RequestAgent, IInv, Typed
<1>2. agent[a].prompted = FALSE BY <1>1, PromptedAtWork DEF Paying
<1>3. PICK r : /\ agent' = [agent EXCEPT ![a] = r]
               /\ \E x, y : r = [agent[a] EXCEPT !.pc = x, !.answer = y] /\ x \in {"done", "queuedRec"}
  <2>1. \E x, y : /\ agent' = [agent EXCEPT ![a] = [agent[a] EXCEPT !.pc = x, !.answer = y]]
                  /\ x \in {"done", "queuedRec"}
    BY <1>1 DEF RequestAgent
  <2> QED BY <2>1
<1>4. {"pc", "prompted", "stage"} \subseteq DOMAIN r /\ r.prompted = FALSE /\ r.pc \in {"done", "queuedRec"}
  BY <1>1, <1>2, <1>3 DEF Attempts
<1> QED BY <1>1, <1>2, <1>3, <1>4, FreeOwn DEF Free, Timed, RequestAgent

LEMMA RecordedCosts ==
  ASSUME IInv, Budgeted, NEW a \in Agents, QueuedRecorded(a) \/ OutcomeRecorded(a) PROVE Budgeted'
<1>1. /\ agent[a] \in Attempts /\ agent \in [Agents -> Attempts]
      /\ agent[a].pc \in {"queuedRec", "recDone", "recFail", "recRestart"}
  BY Calls DEF QueuedRecorded, OutcomeRecorded, IInv, Typed
<1>2. agent[a].prompted = FALSE BY <1>1, PromptedAtWork DEF Paying
<1>3. PICK l : l = LoopHead(agent[a]) OBVIOUS
<1>4. PICK r : /\ agent' = [agent EXCEPT ![a] = r]
               /\ \/ r = l
                  \/ \E y : r = [agent[a] EXCEPT !.pc = "done", !.answer = y]
                  \/ \E y, s, t : r = [agent[a] EXCEPT !.pc = "done", !.answer = y, !.status = s, !.tries = t]
  <2>1. CASE QueuedRecorded(a)
    <3>1. CASE journal = "ok" BY <1>1, <1>3, <2>1, <3>1 DEF QueuedRecorded
    <3>2. CASE journal # "ok" BY <1>1, <2>1, <3>2 DEF QueuedRecorded
    <3> QED BY <3>1, <3>2
  <2>2. CASE OutcomeRecorded(a)
    <3>1. CASE agent[a].pc = "recRestart" /\ journal = "ok" BY <1>1, <1>3, <2>2, <3>1 DEF OutcomeRecorded
    <3>2. CASE agent[a].pc = "recDone" /\ journal # "ok"
      <4>1. PICK t : t = [agent[a].tries EXCEPT ![agent[a].attempt] = "failed"] OBVIOUS
      <4>2. agent' = [agent EXCEPT ![a] = [[agent[a] EXCEPT !.pc = "done", !.answer = "error"]
                        EXCEPT !.status = "failed", !.tries[agent[a].attempt] = "failed"]]
        BY <1>1, <2>2, <3>2 DEF OutcomeRecorded
      <4>3. [[agent[a] EXCEPT !.pc = "done", !.answer = "error"]
                        EXCEPT !.status = "failed", !.tries[agent[a].attempt] = "failed"]
            = [agent[a] EXCEPT !.pc = "done", !.answer = "error", !.status = "failed", !.tries = t]
        BY <1>1, <4>1 DEF Attempts
      <4> QED BY <4>2, <4>3
    <3>3. CASE ~(agent[a].pc = "recRestart" /\ journal = "ok") /\ ~(agent[a].pc = "recDone" /\ journal # "ok")
      <4>1. CASE agent[a].pc = "recDone" BY <1>1, <2>2, <3>3, <4>1 DEF OutcomeRecorded
      <4>2. CASE agent[a].pc # "recDone" BY <1>1, <2>2, <3>3, <4>2 DEF OutcomeRecorded
      <4> QED BY <4>1, <4>2
    <3> QED BY <3>1, <3>2, <3>3
  <2> QED BY <2>1, <2>2
<1>5. {"pc", "prompted", "stage"} \subseteq DOMAIN r /\ r.prompted = FALSE /\ r.pc \in {"done", "recFail", "slot"}
  <2>1. CASE r = l BY <1>1, <1>2, <1>3, <2>1, LoopFree
  <2>2. CASE \E y : r = [agent[a] EXCEPT !.pc = "done", !.answer = y] BY <1>1, <1>2, <2>2 DEF Attempts
  <2>3. CASE \E y, s, t : r = [agent[a] EXCEPT !.pc = "done", !.answer = y, !.status = s, !.tries = t]
    BY <1>1, <1>2, <2>3 DEF Attempts
  <2> QED BY <1>4, <2>1, <2>2, <2>3
<1>6. UNCHANGED <<spent, prompts, slots>> BY DEF QueuedRecorded, OutcomeRecorded
<1>7. Free(r, agent[a]) BY <1>2, <1>5 DEF Free, Timed
<1> QED BY <1>4, <1>5, <1>6, <1>7, FreeOwn

LEMMA LeaveQueueCosts == ASSUME IInv, Budgeted, NEW a \in Agents, LeaveQueue(a) PROVE Budgeted'
<1>1. agent[a] \in Attempts /\ agent[a].pc = "slot" /\ agent \in [Agents -> Attempts] BY Calls DEF LeaveQueue, IInv, Typed
<1>2. agent[a].prompted = FALSE BY <1>1, PromptedAtWork DEF Paying
<1>3. PICK q : q = [agent[a] EXCEPT !.result = "error"] OBVIOUS
<1>4. PICK b : b = (run.aborted # "no") OBVIOUS
<1>5. PICK r : r = Settled(q, b) OBVIOUS
<1>6. agent' = [agent EXCEPT ![a] = r] BY <1>1, <1>3, <1>4, <1>5 DEF LeaveQueue
<1>7. {"pc", "prompted", "stage", "status", "tries", "ctl", "timedOut", "late"} \subseteq DOMAIN q /\ q.prompted = FALSE
  BY <1>1, <1>2, <1>3 DEF Attempts
<1>8. {"pc", "prompted", "stage"} \subseteq DOMAIN r /\ r.prompted = FALSE /\ r.pc \in {"recDone", "recFail", "recRestart"}
  BY <1>5, <1>7, SettledFree
<1> QED BY <1>2, <1>6, <1>8, FreeOwn DEF Free, Timed, LeaveQueue

LEMMA GrantedCosts == ASSUME IInv, Budgeted, NEW a \in Agents, Granted(a) PROVE Budgeted'
<1>1. agent[a] \in Attempts /\ agent[a].pc = "slot" /\ agent \in [Agents -> Attempts] BY Calls DEF Granted, IInv, Typed
<1>2. agent[a].prompted = FALSE BY <1>1, PromptedAtWork DEF Paying
<1>3. agent'[a].pc = "admit" /\ agent'[a].prompted = FALSE /\ \A b \in Agents \ {a} : agent'[b] = agent[b]
  BY <1>1, <1>2 DEF Granted, Attempts
<1>4. \A b \in Agents : Free(agent'[b], agent[b]) BY <1>2, <1>3 DEF Free, Timed
<1>5. Cardinality(slots') <= Slots
  <2>1. Cardinality(slots \cup {a}) \in {Cardinality(slots), Cardinality(slots) + 1} BY WorkersFinite, FS_AddElement
  <2> QED BY <2>1, WorkersFinite, RunAssumption DEF Granted
<1> QED BY <1>4, <1>5, FreeSteps DEF Granted

\* Whoever is admitted finds the budget not spent; there are no more of them
\* than slots.
LEMMA AdmittedCosts == ASSUME IInv, Budgeted, NEW a \in Agents, Admitted(a) PROVE Budgeted'
<1>1. agent[a] \in Attempts /\ agent[a].pc = "admit" /\ agent \in [Agents -> Attempts] BY Calls DEF Admitted, IInv, Typed
<1>2. agent[a].prompted = FALSE BY <1>1, PromptedAtWork DEF Paying
<1>3. UNCHANGED <<spent, prompts, slots>> BY DEF Admitted
<1>4. CASE journal # "ok" \/ Aborted(a) \/ spent >= Budget
  <2>1. PICK r : r = [agent[a] EXCEPT !.pc = "unlock", !.result = "error"] OBVIOUS
  <2>2. agent' = [agent EXCEPT ![a] = r]
    <3>1. ~(spent < Budget /\ spent >= Budget) BY Counts, RunAssumption
    <3> QED BY <1>1, <1>4, <2>1, <3>1 DEF Admitted
  <2>3. {"pc", "prompted", "stage"} \subseteq DOMAIN r /\ r.prompted = FALSE /\ r.pc = "unlock" BY <1>1, <1>2, <2>1 DEF Attempts
  <2>4. \A b \in Agents \ {a} : Free(agent'[b], agent[b]) BY <1>1, <2>2 DEF Free
  <2>5. agent'[a].pc = "unlock" /\ agent'[a].prompted = FALSE BY <1>1, <2>2, <2>3
  <2>6. Prompted' = Prompted
    <3>1. \A b \in Agents : agent'[b].prompted = agent[b].prompted BY <1>2, <2>4, <2>5 DEF Free
    <3> QED BY <3>1 DEF Prompted
  <2>7. AtWork' = AtWork
    <3>1. a \notin AtWork /\ a \notin AtWork' BY <1>1, <2>5 DEF AtWork
    <3>2. \A b \in Agents \ {a} : agent'[b] = agent[b] BY <1>1, <2>2
    <3> QED BY <3>1, <3>2 DEF AtWork
  <2>8. \A b \in Prompted' : Paying(agent'[b])
    <3>1. a \notin Prompted' BY <2>5 DEF Prompted
    <3>2. \A b \in Agents \ {a} : agent'[b] = agent[b] BY <1>1, <2>2
    <3> QED BY <2>6, <3>1, <3>2 DEF Budgeted, Prompted
  <2> QED BY <1>3, <2>6, <2>7, <2>8 DEF Budgeted
<1>5. CASE journal = "ok" /\ ~Aborted(a) /\ spent < Budget
  <2>1. /\ agent'[a].pc \in {"launch", "lock"} /\ agent'[a].prompted = FALSE
        /\ \A b \in Agents \ {a} : agent'[b] = agent[b]
    <3>1. ~(spent < Budget /\ spent >= Budget) BY Counts, RunAssumption
    <3>2. PICK p \in {"launch", "lock"} : agent' = [agent EXCEPT ![a].pc = p] BY <1>5, <3>1 DEF Admitted
    <3> QED BY <1>1, <1>2, <3>2 DEF Attempts
  <2>2. Prompted' = Prompted
    <3>1. \A b \in Agents : agent'[b].prompted = agent[b].prompted BY <1>2, <2>1
    <3> QED BY <3>1 DEF Prompted
  <2>3. AtWork \subseteq AtWork' /\ AtWork' \subseteq slots
    <3>1. a \notin AtWork /\ a \in slots BY <1>1, Calls DEF AtWork, Seated, Timed
    <3> QED BY <2>1, <3>1, WorkersFinite DEF AtWork
  <2>4. Cardinality(AtWork') <= Cardinality(slots) /\ Cardinality(AtWork') \in Nat
    BY <2>3, WorkersFinite, FS_Subset, FS_CardinalityType
  <2>5. spent + Cardinality(AtWork') <= Budget - 1 + Slots
    <3>1. Cardinality(slots) <= Slots BY DEF Budgeted
    <3>2. Cardinality(slots) \in Nat BY WorkersFinite
    <3>3. spent \in Nat /\ Budget \in Nat /\ Slots \in Nat BY Counts, RunAssumption
    <3> QED BY <1>5, <2>4, <3>1, <3>2, <3>3
  <2>6. \A b \in Prompted' : Paying(agent'[b])
    <3>1. a \notin Prompted' BY <2>1 DEF Prompted
    <3> QED BY <2>1, <2>2, <3>1 DEF Budgeted, Prompted
  <2> QED BY <1>3, <2>2, <2>5, <2>6 DEF Budgeted
<1> QED BY <1>4, <1>5 DEF Admitted

LEMMA OwnedCosts == ASSUME IInv, Budgeted, NEW a \in Agents, Owned(a) PROVE Budgeted'
<1>1. agent[a] \in Attempts /\ agent[a].pc = "lock" /\ agent \in [Agents -> Attempts] BY Calls DEF Owned, IInv, Typed
<1>2. PICK h : \/ agent' = [agent EXCEPT ![a].held = h, ![a].pc = "lock"]
               \/ agent' = [agent EXCEPT ![a].held = h, ![a].pc = AllLocked(a)]
  BY DEF Owned
<1>3. PICK p \in {"lock", AllLocked(a)} : agent' = [agent EXCEPT ![a].held = h, ![a].pc = p] BY <1>2
<1>4. PICK r : r = [agent[a] EXCEPT !.held = h, !.pc = p] OBVIOUS
<1>5. {"pc", "prompted", "stage"} \subseteq DOMAIN r /\ r.prompted = agent[a].prompted /\ r.pc = p /\ r.stage = agent[a].stage
  BY <1>1, <1>4 DEF Attempts
<1>6. agent' = [agent EXCEPT ![a] = r] BY <1>1, <1>3, <1>4
<1>7. p \in {"lock", "cleanup", "create", "launch"} /\ (agent[a].stage = "cleanup" => p \in {"lock", "cleanup"})
  BY <1>3 DEF AllLocked
<1>8. agent[a].prompted => Paying(agent[a]) BY DEF Budgeted, Prompted
<1>9. Free(r, agent[a]) BY <1>1, <1>5, <1>7, <1>8 DEF Free, Timed, Paying
<1>10. UNCHANGED <<spent, prompts, slots>> BY DEF Owned
<1> QED BY <1>5, <1>6, <1>9, <1>10, FreeOwn

\* A call at work leaves for another place at which it may still be charged.
LEMMA WorksOn ==
  ASSUME IInv, Budgeted, NEW a \in Agents, agent[a].pc \in Timed \ {"admit", "unlock"},
         NEW r, {"pc", "prompted", "stage"} \subseteq DOMAIN r, r.prompted = agent[a].prompted, r.prompted => Paying(r),
         UNCHANGED <<spent, prompts, slots>>,
         \/ agent' = [agent EXCEPT ![a] = r]
         \/ \E abort \in BOOLEAN, why \in {"fence"} : Continue([agent EXCEPT ![a] = r], run, abort, why)
  PROVE  Budgeted'
<1>1. Free(r, agent[a]) BY DEF Free
<1> QED BY <1>1, FreeOwn, FreeStep

LEMMA CleanupFields ==
  ASSUME NEW q \in Attempts, NEW r, r = AfterCleanup(q)
  PROVE  {"pc", "prompted", "stage"} \subseteq DOMAIN r /\ r.prompted = q.prompted /\ r.pc = "unlock"
<1>1. PICK x : x = IF q.result = "ok" /\ (q.ctl \/ q.timedOut) THEN "error" ELSE q.result OBVIOUS
<1>2. r = [q EXCEPT !.pc = "unlock", !.held = <<>>, !.worktree = "none", !.result = x] BY <1>1 DEF AfterCleanup, Attempts
<1> QED BY <1>2 DEF Attempts

LEMMA GiveUpCosts == ASSUME IInv, Budgeted, NEW a \in Agents, GiveUpLocks(a) PROVE Budgeted'
<1>1. /\ agent[a] \in Attempts /\ agent[a].pc \in Timed \ {"admit", "unlock"} /\ agent \in [Agents -> Attempts]
  BY Calls DEF GiveUpLocks, IInv, Typed, Timed
<1>2. PICK r :
        /\ \E abort \in BOOLEAN : Continue([agent EXCEPT ![a] = r], run, abort, "fence")
        /\ r = IF agent[a].stage = "setup" THEN [agent[a] EXCEPT !.pc = "unlock", !.held = <<>>, !.result = "error"]
                                           ELSE AfterCleanup(agent[a])
  <2>1. PICK Bad : Continue([agent EXCEPT ![a] = IF @.stage = "setup"
                      THEN [agent[a] EXCEPT !.pc = "unlock", !.held = <<>>, !.result = "error"]
                      ELSE AfterCleanup(@)], run, Bad # {}, "fence")
    BY DEF GiveUpLocks
  <2>2. PICK abort \in BOOLEAN : abort = (Bad # {}) OBVIOUS
  <2>3. PICK r : r = IF agent[a].stage = "setup" THEN [agent[a] EXCEPT !.pc = "unlock", !.held = <<>>, !.result = "error"]
                                                ELSE AfterCleanup(agent[a]) OBVIOUS
  <2>4. Continue([agent EXCEPT ![a] = r], run, abort, "fence") BY <1>1, <2>1, <2>2, <2>3
  <2> QED BY <2>3, <2>4
<1>3. {"pc", "prompted", "stage"} \subseteq DOMAIN r /\ r.prompted = agent[a].prompted /\ r.pc = "unlock"
  <2>1. CASE agent[a].stage = "setup"
    <3>1. r = [agent[a] EXCEPT !.pc = "unlock", !.held = <<>>, !.result = "error"] BY <1>2, <2>1
    <3> QED BY <1>1, <3>1 DEF Attempts
  <2>2. CASE agent[a].stage # "setup"
    <3>1. r = AfterCleanup(agent[a]) BY <1>2, <2>2
    <3> QED BY <1>1, <3>1, CleanupFields
  <2> QED BY <2>1, <2>2
<1>4. UNCHANGED <<spent, prompts, slots>> BY DEF GiveUpLocks
<1>5. r.prompted => Paying(r) BY <1>3 DEF Paying
<1> QED BY <1>1, <1>2, <1>3, <1>4, <1>5, WorksOn

LEMMA GitLostCosts ==
  ASSUME IInv, Budgeted, NEW a \in Agents, agent[a].pc \in Timed \ {"admit", "unlock"}, NEW q \in Attempts,
         q.prompted = agent[a].prompted, GitLost(a, q), UNCHANGED <<spent, prompts, slots>>
  PROVE  Budgeted'
<1>1. PICK r : r = [q EXCEPT !.git = "lost", !.held = <<>>, !.pc = "unlock", !.result = "error"] OBVIOUS
<1>2. Continue([agent EXCEPT ![a] = r], run, TRUE, "fence") BY <1>1 DEF GitLost
<1>3. {"pc", "prompted", "stage"} \subseteq DOMAIN r /\ r.prompted = agent[a].prompted /\ r.pc = "unlock" BY <1>1 DEF Attempts
<1>4. r.prompted => Paying(r) BY <1>3 DEF Paying
<1> QED BY <1>2, <1>3, <1>4, WorksOn

LEMMA CreatedCosts == ASSUME IInv, Budgeted, NEW a \in Agents, Created(a) PROVE Budgeted'
<1>1. /\ agent[a] \in Attempts /\ agent[a].pc \in Timed \ {"admit", "unlock"} /\ agent \in [Agents -> Attempts]
  BY Calls DEF Created, IInv, Typed, Timed
<1>2. UNCHANGED <<spent, prompts, slots>>
  BY DEF Created
<1>3. CASE GitLost(a, agent[a]) BY <1>1, <1>2, <1>3, GitLostCosts
<1>4. CASE agent' = [agent EXCEPT ![a].held = <<>>, ![a].result = "error", ![a].pc = "unlock"]
  <2>1. PICK r : r = [agent[a] EXCEPT !.held = <<>>, !.result = "error", !.pc = "unlock"] OBVIOUS
  <2>2. agent' = [agent EXCEPT ![a] = r] BY <1>1, <1>4, <2>1
  <2>3. {"pc", "prompted", "stage"} \subseteq DOMAIN r /\ r.prompted = agent[a].prompted /\ r.pc = "unlock" BY <1>1, <2>1 DEF Attempts
  <2>4. r.prompted => Paying(r) BY <2>3 DEF Paying
  <2> QED BY <1>1, <1>2, <2>2, <2>3, <2>4, WorksOn
<1>5. ASSUME NEW Bad,
             Continue([agent EXCEPT ![a].held = <<>>, ![a].worktree = IF Bad = {} THEN "live" ELSE @,
                           ![a].result = IF Bad = {} THEN @ ELSE "error",
                           ![a].pc = IF Bad = {} THEN "launch" ELSE "unlock"], run, Bad # {}, "fence")
      PROVE  Budgeted'
  <2>1. PICK w, x : w = (IF Bad = {} THEN "live" ELSE agent[a].worktree) /\ x = (IF Bad = {} THEN agent[a].result ELSE "error")
    OBVIOUS
  <2>2. PICK p \in {"launch", "unlock"} : p = (IF Bad = {} THEN "launch" ELSE "unlock") OBVIOUS
  <2>3. PICK abort \in BOOLEAN : abort = (Bad # {}) OBVIOUS
  <2>4. PICK r : r = [agent[a] EXCEPT !.held = <<>>, !.worktree = w, !.result = x, !.pc = p] OBVIOUS
  <2>5. {"pc", "prompted", "stage"} \subseteq DOMAIN r /\ r.prompted = agent[a].prompted /\ r.pc = p BY <1>1, <2>4 DEF Attempts
  <2>6. [agent EXCEPT ![a] = r] = [agent EXCEPT ![a].held = <<>>, ![a].worktree = IF Bad = {} THEN "live" ELSE @,
                           ![a].result = IF Bad = {} THEN @ ELSE "error",
                           ![a].pc = IF Bad = {} THEN "launch" ELSE "unlock"]
    BY <1>1, <2>1, <2>2, <2>4 DEF Attempts
  <2>7. Continue([agent EXCEPT ![a] = r], run, abort, "fence") BY <1>5, <2>3, <2>6
  <2>9. agent[a].prompted = FALSE
    <3>1. agent[a].pc = "create" BY DEF Created
    <3> QED BY <3>1, PromptedAtWork DEF Paying
  <2>8. ~r.prompted BY <2>5, <2>9
  <2> QED BY <1>1, <1>2, <2>5, <2>7, <2>8, WorksOn
<1> QED BY <1>3, <1>4, <1>5 DEF Created

LEMMA AdapterGoneCosts ==
  ASSUME IInv, Budgeted, NEW a \in Agents, agent[a].pc \in Timed \ {"admit", "unlock"}, NEW q \in Attempts,
         q.prompted = agent[a].prompted, NEW abort \in BOOLEAN, AfterAdapter(a, q, abort),
         UNCHANGED <<spent, prompts, slots>>
  PROVE  Budgeted'
<1>1. PICK r : r = IF q.worktree = "live" THEN [q EXCEPT !.stage = "cleanup", !.pc = "lock"]
                                          ELSE [q EXCEPT !.pc = "unlock"] OBVIOUS
<1>2. Continue([agent EXCEPT ![a] = r], run, abort, "fence") BY <1>1 DEF AfterAdapter
<1>3. {"pc", "prompted", "stage"} \subseteq DOMAIN r /\ r.prompted = agent[a].prompted /\ (r.pc = "unlock" \/ (r.pc = "lock" /\ r.stage = "cleanup"))
  <2>1. CASE q.worktree = "live"
    <3>1. r = [q EXCEPT !.stage = "cleanup", !.pc = "lock"] BY <1>1, <2>1
    <3> QED BY <3>1 DEF Attempts
  <2>2. CASE q.worktree # "live"
    <3>1. r = [q EXCEPT !.pc = "unlock"] BY <1>1, <2>2
    <3> QED BY <3>1 DEF Attempts
  <2> QED BY <2>1, <2>2
<1>4. r.prompted => Paying(r) BY <1>3 DEF Paying
<1> QED BY <1>2, <1>3, <1>4, WorksOn

LEMMA LaunchedCosts == ASSUME IInv, Budgeted, NEW a \in Agents, Launched(a) PROVE Budgeted'
<1>1. /\ agent[a] \in Attempts /\ agent[a].pc \in Timed \ {"admit", "unlock"} /\ agent \in [Agents -> Attempts]
  BY Calls DEF Launched, IInv, Typed, Timed
<1>2. CASE agent' = [agent EXCEPT ![a].pc = "connect", ![a].tree = "up"] /\ UNCHANGED <<spent, prompts, slots>>
  <2>1. PICK r : r = [agent[a] EXCEPT !.pc = "connect", !.tree = "up"] OBVIOUS
  <2>2. agent' = [agent EXCEPT ![a] = r] BY <1>1, <1>2, <2>1
  <2>3. {"pc", "prompted", "stage"} \subseteq DOMAIN r /\ r.prompted = agent[a].prompted /\ r.pc = "connect" BY <1>1, <2>1 DEF Attempts
  <2>5. agent[a].prompted = FALSE
    <3>1. agent[a].pc = "launch" BY DEF Launched
    <3> QED BY <3>1, PromptedAtWork DEF Paying
  <2>4. ~r.prompted BY <2>3, <2>5
  <2> QED BY <1>1, <1>2, <2>2, <2>3, <2>4, WorksOn
<1>3. CASE AfterAdapter(a, [agent[a] EXCEPT !.result = "error"], FALSE) /\ UNCHANGED <<spent, prompts, slots>>
  <2>1. PICK q : q = [agent[a] EXCEPT !.result = "error"] OBVIOUS
  <2>2. q \in Attempts /\ q.prompted = agent[a].prompted BY <1>1, <2>1 DEF Attempts
  <2>3. AfterAdapter(a, q, FALSE) BY <1>3, <2>1
  <2> QED BY <1>1, <1>3, <2>2, <2>3, AdapterGoneCosts
<1> QED BY <1>2, <1>3 DEF Launched

LEMMA AnsweredCosts == ASSUME IInv, Budgeted, NEW a \in Agents, Answered(a) PROVE Budgeted'
<1>1. /\ agent[a] \in Attempts /\ agent[a].pc \in Timed \ {"admit", "unlock"} /\ agent \in [Agents -> Attempts]
  BY Calls DEF Answered, IInv, Typed, Timed
<1>2. PICK x : agent' = [agent EXCEPT ![a].pc = "stopping", ![a].result = x] BY DEF Answered
<1>3. PICK r : r = [agent[a] EXCEPT !.pc = "stopping", !.result = x] OBVIOUS
<1>4. agent' = [agent EXCEPT ![a] = r] BY <1>1, <1>2, <1>3
<1>5. {"pc", "prompted", "stage"} \subseteq DOMAIN r /\ r.prompted = agent[a].prompted /\ r.pc = "stopping" BY <1>1, <1>3 DEF Attempts
<1>6. r.prompted => Paying(r) BY <1>5 DEF Paying
<1>7. UNCHANGED <<spent, prompts, slots>> BY DEF Answered
<1> QED BY <1>1, <1>4, <1>5, <1>6, <1>7, WorksOn

LEMMA AdapterStoppedCosts == ASSUME IInv, Budgeted, NEW a \in Agents, AdapterStopped(a) PROVE Budgeted'
<1>1. /\ agent[a] \in Attempts /\ agent[a].pc \in Timed \ {"admit", "unlock"} /\ agent \in [Agents -> Attempts]
  BY Calls DEF AdapterStopped, IInv, Typed, Timed
<1>2. UNCHANGED <<spent, prompts, slots>> BY DEF AdapterStopped
<1>3. CASE AfterAdapter(a, [agent[a] EXCEPT !.tree = "none"], FALSE)
  <2>1. PICK q : q = [agent[a] EXCEPT !.tree = "none"] OBVIOUS
  <2>2. q \in Attempts /\ q.prompted = agent[a].prompted BY <1>1, <2>1 DEF Attempts
  <2>3. AfterAdapter(a, q, FALSE) BY <1>3, <2>1
  <2> QED BY <1>1, <1>2, <2>2, <2>3, AdapterGoneCosts
<1>4. CASE AfterAdapter(a, [agent[a] EXCEPT !.tree = "lost", !.result = "error"], TRUE)
  <2>1. PICK q : q = [agent[a] EXCEPT !.tree = "lost", !.result = "error"] OBVIOUS
  <2>2. q \in Attempts /\ q.prompted = agent[a].prompted BY <1>1, <2>1 DEF Attempts
  <2>3. AfterAdapter(a, q, TRUE) BY <1>4, <2>1
  <2> QED BY <1>1, <1>2, <2>2, <2>3, AdapterGoneCosts
<1> QED BY <1>3, <1>4 DEF AdapterStopped

LEMMA CleanedUpCosts == ASSUME IInv, Budgeted, NEW a \in Agents, CleanedUp(a) PROVE Budgeted'
<1>1. /\ agent[a] \in Attempts /\ agent[a].pc \in Timed \ {"admit", "unlock"} /\ agent \in [Agents -> Attempts]
  BY Calls DEF CleanedUp, IInv, Typed, Timed
<1>2. UNCHANGED <<spent, prompts, slots>> BY DEF CleanedUp
<1>3. ASSUME NEW Bad, Continue([agent EXCEPT ![a] = AfterCleanup(@)], run, Bad # {}, "fence") PROVE Budgeted'
  <2>1. PICK abort \in BOOLEAN : abort = (Bad # {}) OBVIOUS
  <2>2. PICK r : r = AfterCleanup(agent[a]) OBVIOUS
  <2>3. Continue([agent EXCEPT ![a] = r], run, abort, "fence") BY <1>1, <1>3, <2>1, <2>2
  <2>4. {"pc", "prompted", "stage"} \subseteq DOMAIN r /\ r.prompted = agent[a].prompted /\ r.pc = "unlock" BY <1>1, <2>2, CleanupFields
  <2>5. r.prompted => Paying(r) BY <2>4 DEF Paying
  <2> QED BY <1>1, <1>2, <2>3, <2>4, <2>5, WorksOn
<1>4. CASE GitLost(a, [agent[a] EXCEPT !.worktree = "none"])
  <2>1. PICK q : q = [agent[a] EXCEPT !.worktree = "none"] OBVIOUS
  <2>2. q \in Attempts /\ q.prompted = agent[a].prompted BY <1>1, <2>1 DEF Attempts
  <2>3. GitLost(a, q) BY <1>4, <2>1
  <2> QED BY <1>1, <1>2, <2>2, <2>3, GitLostCosts
<1> QED BY <1>3, <1>4 DEF CleanedUp

LEMMA ConnectedCosts == ASSUME IInv, Budgeted, NEW a \in Agents, Connected(a) PROVE Budgeted'
<1>1. /\ agent[a] \in Attempts /\ agent[a].pc = "connect" /\ agent \in [Agents -> Attempts]
  BY Calls DEF Connected, IInv, Typed
<1>2. CASE Aborted(a)
  <2>1. PICK r : r = [agent[a] EXCEPT !.pc = "stopping", !.result = "error"] OBVIOUS
  <2>2. agent' = [agent EXCEPT ![a] = r] /\ UNCHANGED <<spent, prompts, slots>> BY <1>1, <1>2, <2>1 DEF Connected
  <2>3. {"pc", "prompted", "stage"} \subseteq DOMAIN r /\ r.prompted = agent[a].prompted /\ r.pc = "stopping" BY <1>1, <2>1 DEF Attempts
  <2>4. (r.prompted => Paying(r)) /\ agent[a].pc \in Timed \ {"admit", "unlock"} BY <1>1, <2>3 DEF Timed, Paying
  <2> QED BY <1>1, <2>2, <2>3, <2>4, WorksOn
<1>3. CASE ~Aborted(a)
  <2>1. /\ agent'[a].pc = "prompt" /\ agent'[a].prompted = TRUE /\ \A b \in Agents \ {a} : agent'[b] = agent[b]
        /\ prompts' = prompts + 1 /\ UNCHANGED <<spent, slots>>
    BY <1>1, <1>3 DEF Connected, Attempts
  <2>2. AtWork' = AtWork
    <3>1. a \in AtWork /\ a \in AtWork' BY <1>1, <2>1 DEF AtWork, Timed
    <3> QED BY <2>1, <3>1 DEF AtWork
  <2>3. Prompted' = Prompted \cup {a} BY <2>1 DEF Prompted
  <2>4. agent[a].prompted = FALSE BY <1>1, PromptedAtWork DEF Paying
  <2>5. a \notin Prompted BY <2>4 DEF Prompted
  <2>6. Cardinality(Prompted') = Cardinality(Prompted) + 1 BY <2>3, <2>5, WorkersFinite, FS_AddElement
  <2>7. \A b \in Prompted' : Paying(agent'[b]) BY <2>1, <2>3 DEF Budgeted, Prompted, Paying
  <2> QED BY <2>1, <2>2, <2>6, <2>7, WorkersFinite, Counts DEF Budgeted
<1> QED BY <1>2, <1>3

LEMMA UnlockedCosts == ASSUME IInv, Budgeted, NEW a \in Agents, Unlocked(a) PROVE Budgeted'
<1>1. /\ agent[a] \in Attempts /\ agent[a].pc = "unlock" /\ agent \in [Agents -> Attempts] /\ agent[a].prompted \in BOOLEAN
  BY Calls DEF Unlocked, IInv, Typed, Attempts
<1>2. PICK Bad : Continue([agent EXCEPT ![a] =
               Settled([agent[a] EXCEPT !.held = <<>>, !.prompted = FALSE, !.result = IF Bad = {} THEN @ ELSE "error"],
                       run.aborted # "no" \/ Bad # {})], run, Bad # {}, "fence")
  BY DEF Unlocked
<1>3. PICK abort \in BOOLEAN : abort = (Bad # {}) OBVIOUS
<1>4. PICK x : x = IF Bad = {} THEN agent[a].result ELSE "error" OBVIOUS
<1>5. PICK q : q = [agent[a] EXCEPT !.held = <<>>, !.prompted = FALSE, !.result = x] OBVIOUS
<1>6. PICK b : b = (run.aborted # "no" \/ Bad # {}) OBVIOUS
<1>7. PICK r : r = Settled(q, b) OBVIOUS
<1>8. Continue([agent EXCEPT ![a] = r], run, abort, "fence")
  <2>1. [agent[a] EXCEPT !.held = <<>>, !.prompted = FALSE, !.result = IF Bad = {} THEN @ ELSE "error"] = q
    BY <1>1, <1>4, <1>5 DEF Attempts
  <2> QED BY <1>2, <1>3, <1>6, <1>7, <2>1
<1>9. {"pc", "prompted", "stage", "status", "tries", "ctl", "timedOut", "late"} \subseteq DOMAIN q /\ q.prompted = FALSE
  BY <1>1, <1>5 DEF Attempts
<1>10. /\ {"pc", "prompted", "stage"} \subseteq DOMAIN r /\ r.prompted = FALSE
       /\ r.pc \in {"recDone", "recFail", "recRestart"}
  BY <1>7, <1>9, SettledFree
<1> DEFINE f == [agent EXCEPT ![a] = r]
<1>11. f[a] = r /\ \A c \in Agents \ {a} : f[c] = agent[c] BY <1>1
<1>12. \A c \in Agents : {"pc", "prompted", "stage"} \subseteq DOMAIN f[c] BY <1>1, <1>10, <1>11 DEF Attempts
<1> HIDE DEF f
<1>13. \A c \in Agents : agent'[c].pc = f[c].pc /\ agent'[c].prompted = f[c].prompted /\ agent'[c].stage = f[c].stage
  <2>1. CASE abort
    <3>1. \A c \in Agents : agent'[c] = IF f[c].pc \in Abortable THEN [f[c] EXCEPT !.ctl = TRUE] ELSE f[c]
      BY <1>8, <2>1 DEF Continue, AgentsAborted, f
    <3> QED BY <1>12, <3>1
  <2>2. CASE ~abort
    <3>1. agent' = f BY <1>8, <2>2 DEF Continue, f
    <3> QED BY <3>1
  <2> QED BY <2>1, <2>2
<1>14. agent'[a].prompted = FALSE /\ agent'[a].pc \in {"recDone", "recFail", "recRestart"} BY <1>10, <1>11, <1>13
<1>15. \A c \in Agents \ {a} : agent'[c].pc = agent[c].pc /\ agent'[c].prompted = agent[c].prompted /\ agent'[c].stage = agent[c].stage
  BY <1>11, <1>13
<1>16. Prompted' = Prompted \ {a} BY <1>14, <1>15 DEF Prompted
<1>17. AtWork' = AtWork \ {a} BY <1>14, <1>15 DEF AtWork, Timed
<1>18. \A c \in Prompted' : Paying(agent'[c]) BY <1>15, <1>16 DEF Budgeted, Prompted, Paying
<1>19. Cardinality(slots') <= Slots
  <2>1. slots' \subseteq slots BY DEF Unlocked
  <2>2. Cardinality(slots') <= Cardinality(slots) /\ Cardinality(slots') \in Nat
    BY <2>1, WorkersFinite, FS_Subset, FS_CardinalityType
  <2> QED BY <2>2, WorkersFinite, RunAssumption DEF Budgeted
<1>20. prompts' = prompts /\ spent' = spent + Charge(agent[a]) BY DEF Unlocked
<1>21. CASE agent[a].prompted
  <2>1. a \in Prompted /\ a \in AtWork BY <1>1, <1>21 DEF Prompted, AtWork
  <2>2. Cardinality(Prompted') = Cardinality(Prompted) - 1 BY <1>16, <2>1, WorkersFinite, FS_RemoveElement
  <2>3. Cardinality(AtWork') = Cardinality(AtWork) - 1 BY <1>17, <2>1, WorkersFinite, FS_RemoveElement
  <2>4. spent' = spent + 1 BY <1>20, <1>21 DEF Charge
  <2>5. spent \in Nat /\ Budget \in Nat /\ Slots \in Nat BY Counts, RunAssumption
  <2> QED BY <1>18, <1>19, <1>20, <2>2, <2>3, <2>4, <2>5, WorkersFinite DEF Budgeted
<1>22. CASE ~agent[a].prompted
  <2>1. a \notin Prompted /\ a \notin AtWork BY <1>1, <1>22 DEF Prompted, AtWork
  <2>2. Prompted' = Prompted /\ AtWork' = AtWork BY <1>16, <1>17, <2>1
  <2>3. spent' = spent BY <1>20, <1>22, Counts DEF Charge
  <2> QED BY <1>18, <1>19, <1>20, <2>2, <2>3 DEF Budgeted
<1> QED BY <1>21, <1>22

\* A step that moves no call from its place costs nothing.
LEMMA StillSteps ==
  ASSUME IInv, Budgeted, UNCHANGED <<spent, prompts, slots>>,
         \A b \in Agents : agent'[b].pc = agent[b].pc /\ agent'[b].prompted = agent[b].prompted /\ agent'[b].stage = agent[b].stage
  PROVE  Budgeted'
<1>1. \A b \in Agents : Free(agent'[b], agent[b]) BY DEF Free
<1> QED BY <1>1, FreeSteps DEF Budgeted

LEMMA AgentCommandsCost ==
  ASSUME IInv, Budgeted, NEW a \in Agents, Timeout(a) \/ RestartAgent(a) \/ StopAgent(a) \/ EventRefused(a)
  PROVE  Budgeted'
<1>1. agent \in [Agents -> Attempts] BY DEF IInv, Typed
<1>2. CASE Timeout(a)
  <2>1. CASE agent' = [agent EXCEPT ![a].timedOut = TRUE] BY <1>1, <1>2, <2>1, StillSteps DEF Timeout, Attempts
  <2>2. CASE agent' = [agent EXCEPT ![a].late = TRUE] BY <1>1, <1>2, <2>2, StillSteps DEF Timeout, Attempts
  <2> QED BY <1>2, <2>1, <2>2 DEF Timeout
<1>3. CASE RestartAgent(a) BY <1>1, <1>3, StillSteps DEF RestartAgent, Attempts
<1>4. CASE StopAgent(a)
  <2>1. agent' = [agent EXCEPT ![a] = MarkedStopped(agent[a])] BY <1>4 DEF StopAgent
  <2>2. PICK t, c : MarkedStopped(agent[a]) = [agent[a] EXCEPT !.stop = TRUE, !.restart = FALSE, !.status = "stopping",
                                                 !.tries = t, !.ctl = c]
    BY DEF MarkedStopped
  <2> QED BY <1>1, <1>4, <2>1, <2>2, StillSteps DEF StopAgent, Attempts
<1>5. CASE EventRefused(a)
  <2>1. agent' = AgentsAborted(agent) BY <1>5 DEF EventRefused, Continue
  <2> QED BY <1>1, <1>5, <2>1, StillSteps DEF EventRefused, AgentsAborted, Attempts
<1> QED BY <1>2, <1>3, <1>4, <1>5

LEMMA StopRunCosts == ASSUME IInv, Budgeted, StopRun PROVE Budgeted'
<1> DEFINE marked == [a \in Agents |-> IF agent[a].pc = "none" \/ agent[a].status \in Final THEN agent[a]
                                       ELSE MarkedStopped(agent[a])]
<1>1. agent \in [Agents -> Attempts] BY DEF IInv, Typed
<1>2. PICK m : m = marked OBVIOUS
<1>3. ASSUME NEW b \in Agents
      PROVE  /\ {"pc", "prompted", "stage"} \subseteq DOMAIN m[b] /\ m[b].pc = agent[b].pc
             /\ m[b].prompted = agent[b].prompted /\ m[b].stage = agent[b].stage
  <2>1. CASE m[b] = agent[b] BY <1>1, <2>1 DEF Attempts
  <2>2. CASE m[b] = MarkedStopped(agent[b])
    <3>1. PICK t, c : m[b] = [agent[b] EXCEPT !.stop = TRUE, !.restart = FALSE, !.status = "stopping",
                                                 !.tries = t, !.ctl = c]
      BY <2>2 DEF MarkedStopped
    <3> QED BY <1>1, <3>1 DEF Attempts
  <2> QED BY <1>2, <2>1, <2>2
<1>4. agent' = AgentsAborted(m) BY <1>2 DEF StopRun, Continue
<1>5. \A b \in Agents : agent'[b] = IF m[b].pc \in Abortable THEN [m[b] EXCEPT !.ctl = TRUE] ELSE m[b]
  BY <1>4 DEF AgentsAborted
<1>6. \A b \in Agents : agent'[b].pc = agent[b].pc /\ agent'[b].prompted = agent[b].prompted /\ agent'[b].stage = agent[b].stage
  BY <1>3, <1>5
<1> QED BY <1>6, StillSteps DEF StopRun

LEMMA RunCosts ==
  ASSUME IInv, Budgeted,
         \/ RunStep \/ ScriptReturns \/ ScriptFails \/ SandboxLost \/ JournalBreaks \/ RetryReleases \/ UNCHANGED vars
  PROVE  Budgeted'
<1>1. agent \in [Agents -> Attempts] BY DEF IInv, Typed
<1>2. (agent' = agent \/ agent' = AgentsAborted(agent)) /\ UNCHANGED <<spent, prompts, slots>>
  BY DEF RunStep, RunStarted, Quiesce, SandboxExits, RunCompleted, FailureRecorded, Drained,
         ScriptReturns, ScriptFails, SandboxLost, JournalBreaks, RetryReleases, vars
<1>3. CASE agent' = agent BY <1>2, <1>3, StillSteps
<1>4. CASE agent' = AgentsAborted(agent)
  <2>1. \A b \in Agents : agent'[b].pc = agent[b].pc /\ agent'[b].prompted = agent[b].prompted /\ agent'[b].stage = agent[b].stage
    BY <1>1, <1>4 DEF AgentsAborted, Attempts
  <2> QED BY <1>2, <2>1, StillSteps
<1> QED BY <1>2, <1>3, <1>4

LEMMA InitBudgeted == ASSUME Init PROVE Budgeted
<1>1. Prompted = {} /\ AtWork = {} /\ slots = {} BY DEF Init, NewAgent, Prompted, AtWork, Timed
<1>2. Cardinality({}) = 0 BY FS_EmptySet
<1> QED BY <1>1, <1>2, RunAssumption DEF Budgeted, Init

LEMMA NextCosts == ASSUME IInv, Budgeted, [Next]_vars PROVE Budgeted'
<1>1. ASSUME NEW a \in Agents, AgentStep(a) PROVE Budgeted'
  BY <1>1, RecordedCosts, LeaveQueueCosts, GrantedCosts, AdmittedCosts, OwnedCosts, GiveUpCosts, CreatedCosts,
     LaunchedCosts, ConnectedCosts, AnsweredCosts, AdapterStoppedCosts, CleanedUpCosts, UnlockedCosts
  DEF AgentStep
<1>2. ASSUME NEW a \in Agents, RequestAgent(a) \/ Timeout(a) \/ RestartAgent(a) \/ StopAgent(a) \/ EventRefused(a)
      PROVE  Budgeted'
  BY <1>2, RequestAgentCosts, AgentCommandsCost
<1> QED BY <1>1, <1>2, StopRunCosts, RunCosts DEF Next

\* What was prompted is what was charged and what is still at work, of which
\* there is no more than one attempt for each slot.
THEOREM BudgetConsistent == Spec => []Budgeted
<1>1. Init => Budgeted BY InitBudgeted
<1>2. IInv /\ Budgeted /\ [Next]_vars => Budgeted' BY NextCosts
<1> QED BY <1>1, <1>2, RunConsistent, PTL DEF Spec

\* The prompts a run sends to its adapters exceed the budget of its tokens by
\* what the attempts under way cost and by nothing else, whatever fails
\* between the prompt and its charge (#runAgent, beforeRelease).
THEOREM BudgetIsHeld == Spec => []BudgetHeld
<1>1. IInv /\ Budgeted => BudgetHeld
  <2> SUFFICES ASSUME IInv, Budgeted PROVE BudgetHeld OBVIOUS
  <2>1. Prompted \subseteq AtWork BY DEF Budgeted, Prompted, AtWork, Paying, Timed
  <2>2. Cardinality(Prompted) <= Cardinality(AtWork) BY <2>1, WorkersFinite, FS_Subset
  <2>3. spent \in Nat /\ Budget \in Nat /\ Slots \in Nat BY Counts, RunAssumption
  <2> QED BY <2>2, <2>3, WorkersFinite DEF Budgeted, BudgetHeld
<1> QED BY <1>1, RunConsistent, BudgetConsistent, PTL

\* Every variable keeps its type: a call never has more attempts than
\* maxAttemptsPerAgent, and each attempt has a record.
THEOREM TypeCorrect == Spec => []TypeOK
<1>1. IInv /\ Budgeted => TypeOK
  <2> SUFFICES ASSUME IInv, Budgeted PROVE TypeOK OBVIOUS
  <2>1. ASSUME NEW a \in Agents
        PROVE  /\ agent[a].pc \in Executing \cup {"none", "queuedRec", "done"}
               /\ agent[a].attempt \in 0..MaxAttempts
               /\ Len(agent[a].tries) = agent[a].attempt
               /\ agent[a].answer \in {"none", "ok", "error"}
    <3>1. agent[a] \in Attempts /\ Tried(agent[a]) BY Calls
    <3> QED BY <3>1 DEF Attempts, Tried
  <2>2. /\ slots \subseteq Agents /\ retained \subseteq Keys /\ unreleased \subseteq Keys
        /\ spent \in Nat /\ failures \in Nat /\ events \in 0..MaxEvents
        /\ \A k \in Keys : owner[k] \in Agents \cup {Nobody}
    BY DEF IInv, Typed
  <2>3. prompts \in Nat BY <2>2, WorkersFinite DEF Budgeted
  <2> QED BY <2>1, <2>2, <2>3 DEF TypeOK
<1> QED BY <1>1, RunConsistent, BudgetConsistent, PTL
=============================================================================
