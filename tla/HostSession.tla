---------------------------- MODULE HostSession ----------------------------
(***************************************************************************)
(* The main conversation of src/pi-harness.mjs: the composer, promptQueue,   *)
(* one turn at a time (sendPrompt), Escape, /new, and the life of the        *)
(* backend behind them (switchAgentUnlocked, backend_exit, the reconnect).   *)
(*                                                                          *)
(* The host is one thread.  An action is the code from one await to the     *)
(* next.  A continuation whose promise has settled runs before the next     *)
(* key, timer or frame is looked at: nothing else happens while one is Due, *)
(* and several that are due run in any order.                               *)
(*                                                                          *)
(* Finished runs' results travel in the same queue and have a module of     *)
(* their own, RunDelivery; here the queue holds what the user typed.         *)
(***************************************************************************)
EXTENDS Naturals, Sequences, FiniteSets, SequencesExt

CONSTANTS
    Prompts,     \* what the user types, each once
    Questions,   \* those that localIdentityResponse answers without a backend
    MaxCalls,    \* bound: calls of switchAgent that run or wait
    MaxEvents    \* bound: /new and /harness commands, deaths and failed starts
                 \* together

ASSUME HostAssumption ==
    /\ IsFiniteSet(Prompts) /\ Questions \subseteq Prompts
    /\ MaxCalls \in Nat /\ MaxEvents \in Nat

VARIABLES
    typed,       \* prompts that the user has typed so far
    composer,    \* the editor's text: the prompts it holds, in order
    queue,       \* promptQueue: [text, timing, epoch]
    gone,        \* prompts given to a session, answered here, or dropped by /new
    client,      \* this.client's process: none, live, exited, closed
    ready, fence,    \* this.ready, replacementProcessFence
    busy, cancel, steer, grace, \* this.busy, cancelRequested,
                                \* afterToolCancelPending, cancelGraceTimer
    unsend,      \* the text of pendingUnsendPrompt
    tool,        \* of this turn: none, one is active (ended)
    pendingNew, switching,  \* pendingNewSessionCommandName, sessionSwitchInProgress
    news, session,  \* /new commands accepted, and those this session comes after
    tasks,       \* calls of sendPrompt and startNewSession that have not returned
    conn,        \* calls of switchAgent: the first one runs, the others wait
    rejoin,      \* queuedPromptReconnect
    drain, watch, check, \* promptQueueDrainScheduled, promptQueueWatchdogTimer,
                         \* and a checkPromptQueueProgress that awaits the loop
    events       \* what MaxEvents bounds

text == <<typed, composer, queue, gone>>
backend == <<client, ready, fence>>
turn == <<busy, cancel, steer, grace, unsend, tool>>
reset == <<pendingNew, switching, news, session>>
wake == <<drain, watch, check>>
vars == <<text, backend, turn, reset, tasks, conn, rejoin, wake, events>>

Attempt(cont, again) == [st |-> "begin", cont |-> cont, was |-> FALSE, again |-> again]
Task(by, st) == [by |-> by, st |-> st, old |-> FALSE, epoch |-> session, wait |-> 0]

(* A new cc: its startup timer has called switchAgent. *)
Init ==
    /\ typed = {} /\ composer = <<>> /\ queue = <<>> /\ gone = {}
    /\ client = "none" /\ ready = FALSE /\ fence = FALSE
    /\ busy = FALSE /\ cancel = FALSE /\ steer = FALSE /\ grace = FALSE
    /\ unsend = <<>> /\ tool = "none"
    /\ pendingNew = FALSE /\ switching = FALSE /\ news = 0 /\ session = 0
    /\ tasks = <<>> /\ conn = <<Attempt(FALSE, FALSE)>> /\ rejoin = "no"
    /\ drain = FALSE /\ watch = FALSE /\ check = FALSE
    /\ events = 0

-----------------------------------------------------------------------------
Live == client = "live" /\ ready
Event == events < MaxEvents /\ events' = events + 1
Texts(q) == FlattenSeq([i \in DOMAIN q |-> q[i].text])
HasSteering(q) == \E i \in DOMAIN q : q[i].timing = "afterTool"
Local(t) == Len(t) = 1 /\ t[1] \in Questions
Flushing == \E i \in DOMAIN tasks : tasks[i].by = "flush"
Open(t) == ~t.old /\ t.st \in {"preparing", "turn"}

(* What is due: nothing but these runs until all of them have. *)
TaskDue(t) == t.st \in {"settled", "created", "failed", "done"} \/ (t.st = "joined" /\ t.wait = 0)
Due ==
    \/ \E i \in DOMAIN tasks : TaskDue(tasks[i])
    \/ conn # <<>> /\ Head(conn).st = "begin"
    \/ rejoin \in {"due", "ended"}
    \/ check /\ ~Flushing

(* schedulePromptQueueDrain, and the watchdog that it arms first. *)
Schedule(q) ==
    /\ watch' = (watch \/ q # <<>>)
    /\ drain' = (drain \/ (q # <<>> /\ ~switching'))
    /\ UNCHANGED check

\* Mutant: what is in the editor is overwritten.
RestoreInput_Over ==
    /\ composer' = Texts(queue)
    /\ queue' = <<>>
    /\ UNCHANGED <<typed, gone>>

(* restoreFailedSessionSwitchInput. *)
RestoreInput ==
    /\ composer' = Texts(queue) \o composer
    /\ queue' = <<>>
    /\ UNCHANGED <<typed, gone>>

(* forceResolvePrompt, rejectPending: the requests that the client awaits. *)
Settled(t) == [t EXCEPT !.st = "settled"]
ForceResolved ==
    LET open == {i \in DOMAIN tasks : ~tasks[i].old /\ tasks[i].st = "turn"}
    IN IF open = {} THEN tasks ELSE LET i == Min(open) IN [tasks EXCEPT ![i] = Settled(@)]
Rejected(t) ==
    IF t.st = "turn" THEN Settled(t)
    ELSE IF t.st = "creating" THEN [t EXCEPT !.st = "failed"] ELSE t

-----------------------------------------------------------------------------
(* Turns. *)

(* sendPrompt up to its first await.  A question about cc itself is answered
   on the spot; the first prompt of a session may wait for saved settings. *)
Send(t, epoch, by, ts) ==
    /\ gone' = gone \cup Range(t)
    /\ cancel' = FALSE /\ steer' = FALSE /\ tool' = "none"
    /\ \/ /\ Local(t)
          /\ tasks' = Append(ts, Task(by, "done"))
          /\ busy' = FALSE /\ grace' = FALSE /\ unsend' = <<>>
          /\ Schedule(queue)
       \/ /\ ~Local(t)
          /\ \E st \in {"preparing", "turn"} :
                tasks' = Append(ts, [Task(by, st) EXCEPT !.epoch = epoch])
          /\ busy' = TRUE /\ unsend' = t
          /\ UNCHANGED <<grace, wake>>

(* interruptTurn. *)
Interrupt ==
    IF cancel THEN /\ grace' = FALSE /\ tasks' = ForceResolved /\ UNCHANGED cancel
              ELSE /\ cancel' = TRUE /\ grace' = TRUE /\ UNCHANGED tasks

(* maybeCancelAfterTool, with the queue q and every tool of the turn ended. *)
Steers(q) == busy /\ ~steer /\ ~cancel /\ HasSteering(q)
SteerIf(now) ==
    /\ steer' = (steer \/ now)
    /\ cancel' = (cancel \/ now)
    /\ grace' = (grace \/ now)

Enqueue(t, timing) ==
    LET q == Append(queue, [text |-> t, timing |-> timing, epoch |-> news])
    IN /\ queue' = q
       /\ SteerIf(timing = "afterTool" /\ Steers(q) /\ tool = "ended")
       /\ Schedule(q)

Type(p) ==
    /\ ~Due /\ p \notin typed
    /\ typed' = typed \cup {p}
    /\ composer' = Append(composer, p)
    /\ UNCHANGED <<queue, gone, backend, turn, reset, tasks, conn, rejoin, wake, events>>

(* submitBackendPrompt: Enter steers the running turn, Tab waits for its end. *)
SubmitOffline ==
    /\ ~Live
    /\ ready' = (ready /\ client = "live")
    /\ IF fence
       THEN /\ composer' = Texts(queue) \o composer
            /\ queue' = <<>>
            /\ UNCHANGED <<turn, wake, conn>>
       ELSE /\ composer' = <<>>
            /\ Enqueue(composer, "afterTurn")
            /\ IF switching \/ client = "live" THEN UNCHANGED conn
               ELSE Len(conn) < MaxCalls /\ conn' = Append(conn, Attempt(FALSE, FALSE))
            /\ UNCHANGED <<busy, unsend, tool>>
    /\ UNCHANGED <<gone, tasks>>
SubmitQueued(timing) ==
    /\ Live /\ (busy \/ switching)
    /\ composer' = <<>>
    /\ Enqueue(composer, IF busy /\ ~Local(composer) THEN timing ELSE "afterTurn")
    /\ UNCHANGED <<gone, ready, busy, unsend, tool, tasks, conn>>
SubmitNow ==
    /\ Live /\ ~busy /\ ~switching
    /\ composer' = <<>>
    /\ Send(composer, news, "submit", tasks)
    /\ UNCHANGED <<queue, ready, conn>>
Submit(timing) ==
    /\ ~Due /\ composer # <<>>
    /\ timing = "afterTurn" => busy
    /\ UNCHANGED <<typed, client, fence, reset, rejoin, events>>
    /\ SubmitOffline \/ SubmitQueued(timing) \/ SubmitNow

(* Up, in an empty editor: unqueuePromptForEditing. *)
Unqueue ==
    /\ ~Due /\ composer = <<>> /\ queue # <<>>
    /\ composer' = Last(queue).text
    /\ queue' = Front(queue)
    /\ UNCHANGED <<typed, gone, backend, turn, reset, tasks, conn, rejoin, wake, events>>

(* Escape takes the prompt back when the backend has shown nothing of it:
   tryUnsendPendingPrompt.  Whether the backend may have kept it, canRetract
   reads from disk. *)
Retract ==
    /\ unsend # <<>> /\ ~cancel /\ ~HasSteering(queue)
    /\ composer' = unsend \o Texts(queue) \o composer
    /\ queue' = <<>>
    /\ gone' = gone \ Range(unsend)
    /\ cancel' = TRUE /\ steer' = FALSE /\ grace' = FALSE /\ unsend' = <<>>
    /\ tasks' = ForceResolved

(* interruptViaEscape: prompts for after a tool are sent at once, those for
   after the turn go back to the editor, a second Escape settles the turn. *)
Stop ==
    /\ unsend' = IF cancel \/ HasSteering(queue) THEN unsend ELSE <<>>
    /\ steer' = (steer \/ (~cancel /\ HasSteering(queue)))
    /\ IF cancel \/ HasSteering(queue) THEN UNCHANGED text ELSE RestoreInput
    /\ Interrupt

Escape ==
    /\ ~Due /\ busy /\ client # "none"
    /\ Retract \/ Stop
    /\ UNCHANGED <<typed, backend, busy, tool, reset, conn, rejoin, wake, events>>

(* The grace timer of interruptTurn. *)
GraceFires ==
    /\ ~Due /\ grace
    /\ grace' = FALSE
    /\ tasks' = IF client = "none" THEN tasks ELSE ForceResolved
    /\ UNCHANGED <<text, backend, busy, cancel, steer, unsend, tool, reset, conn, rejoin, wake, events>>

(* Frames of the backend: whatever it shows of the turn ends the right to take
   the prompt back (handleBackendEvent); trackToolStatus follows its tools. *)
Frame ==
    /\ ~Due /\ busy /\ client \in {"live", "exited"}
    /\ unsend' = <<>>
    /\ UNCHANGED <<text, backend, busy, reset, tasks, conn, rejoin, wake, events>>
Shows == Frame /\ unsend # <<>> /\ UNCHANGED <<cancel, steer, grace, tool>>
ToolStarts == Frame /\ tool # "active" /\ tool' = "active" /\ UNCHANGED <<cancel, steer, grace>>
ToolEnds == Frame /\ tool # "ended" /\ tool' = "ended" /\ SteerIf(Steers(queue))

(* The wait for saved settings ends: the request is written, or refused
   because the process is gone. *)
Prepared(i) ==
    /\ ~Due /\ tasks[i].st = "preparing"
    /\ tasks' = [tasks EXCEPT ![i] =
                    IF ~@.old /\ client = "live" THEN [@ EXCEPT !.st = "turn"] ELSE Settled(@)]
    /\ UNCHANGED <<text, backend, turn, reset, conn, rejoin, wake, events>>

TurnAnswered(i) ==
    /\ ~Due /\ tasks[i].st = "turn" /\ client \in {"live", "exited"}
    /\ tasks' = [tasks EXCEPT ![i] = Settled(@)]
    /\ UNCHANGED <<text, backend, turn, reset, conn, rejoin, wake, events>>

-----------------------------------------------------------------------------
(* /new, in ensureConnected and startNewSession. *)

(* A connection under way is joined, its latest call of switchAgent; else one
   is begun that keeps sessionSwitchInProgress. *)
Joins(t) == [t EXCEPT !.st = "joined", !.wait = IF conn = <<>> THEN 1 ELSE Len(conn)]
BeginNew(ts, i) ==
    /\ switching' = TRUE
    /\ ready' = (ready /\ client = "live")
    /\ IF Live
       THEN /\ tasks' = [ts EXCEPT ![i].st = "creating"]
            /\ UNCHANGED conn
       ELSE /\ tasks' = [ts EXCEPT ![i] = Joins(@)]
            /\ conn' = IF conn = <<>> THEN <<Attempt(TRUE, FALSE)>> ELSE conn

(* The command: what was queued before it is dropped; a running turn is
   cancelled, and goes on with the command when it has settled. *)
New ==
    /\ ~Due /\ ~switching /\ Event
    /\ news' = news + 1
    /\ queue' = <<>>
    /\ gone' = gone \cup Range(Texts(queue))
    /\ IF Live /\ busy
       THEN /\ pendingNew' = TRUE /\ switching' = TRUE
            /\ Interrupt
            /\ UNCHANGED <<ready, conn>>
       ELSE /\ BeginNew(Append(tasks, Task("command", "done")), Len(tasks) + 1)
            /\ UNCHANGED <<pendingNew, cancel, grace>>
    /\ UNCHANGED <<typed, composer, client, fence, busy, steer, unsend, tool, session,
                   rejoin, wake>>

(* A call has returned: the command is over, a turn's caller goes on. *)
Returned(i) ==
    IF tasks[i].by = "command" THEN RemoveAt(tasks, i) ELSE [tasks EXCEPT ![i].st = "done"]

Ended(t) == IF t = "active" THEN "ended" ELSE t
TurnEnds_AnyClient(i) ==
    /\ busy' = FALSE /\ grace' = FALSE /\ unsend' = <<>> /\ tool' = Ended(tool)
    /\ pendingNew' = FALSE
    /\ IF pendingNew
       THEN BeginNew(tasks, i) /\ UNCHANGED wake
       ELSE /\ tasks' = Returned(i)
            /\ UNCHANGED <<ready, switching, conn>>
            /\ IF cancel /\ ~steer THEN UNCHANGED wake ELSE Schedule(queue)

(* The finally of sendPrompt.  When the client was replaced it does nothing
   (TurnEnds_AnyClient, without that test, is a mutant). *)
TurnEnds(i) ==
    IF tasks[i].old
    THEN tasks' = Returned(i) /\ UNCHANGED <<busy, grace, unsend, tool, pendingNew, switching, ready, conn, wake>>
    ELSE TurnEnds_AnyClient(i)
Finally(i) ==
    /\ tasks[i].st = "settled"
    /\ TurnEnds(i)
    /\ UNCHANGED <<text, client, fence, cancel, steer, news, session, rejoin, events>>

\* Mutant: after an Escape nothing that is queued is sent.
Flushable_Uncancelled == Live /\ ~busy /\ ~switching /\ ~cancel /\ queue # <<>>

Flushable == Live /\ ~busy /\ ~switching /\ queue # <<>>

(* The caller of sendPrompt: a submit turns to the queue, flushPromptQueue
   takes its next prompt. *)
Continue(i) ==
    LET t == tasks[i]
        rest == RemoveAt(tasks, i)
    IN /\ t.st = "done"
       /\ IF t.by = "flush" /\ Flushable
          THEN /\ queue' = Tail(queue)
               /\ UNCHANGED reset
               /\ Send(Head(queue).text, Head(queue).epoch, "flush", rest)
          ELSE /\ tasks' = IF t.by = "submit" /\ ~t.old /\ ~Flushing
                           THEN [tasks EXCEPT ![i].by = "flush"] ELSE rest
               /\ UNCHANGED <<queue, gone, turn, reset, wake>>
       /\ UNCHANGED <<typed, composer, backend, conn, rejoin, events>>

(* session/new: the backend answers, or refuses. *)
NewAnswered(i) ==
    /\ ~Due /\ tasks[i].st = "creating" /\ client \in {"live", "exited"}
    /\ \/ tasks' = [tasks EXCEPT ![i].st = "created"] /\ session' = news
       \/ tasks' = [tasks EXCEPT ![i].st = "failed"] /\ UNCHANGED session
    /\ UNCHANGED <<text, backend, turn, pendingNew, switching, news, conn, rejoin, wake, events>>

(* The end of startNewSession on a live client: its input stays queued for the
   new session, or goes back to the editor. *)
NewSettles(i) ==
    LET t == tasks[i]
        usable == t.st = "created" /\ Live
    IN /\ t.st \in {"created", "failed"}
       /\ tasks' = Returned(i)
       /\ unsend' = IF t.st = "created" /\ ~t.old THEN <<>> ELSE unsend
       /\ IF t.old
          THEN UNCHANGED <<text, ready, switching, session, wake>>
          ELSE /\ ready' = (ready /\ client = "live")
               /\ switching' = FALSE
               /\ session' = news
               /\ IF usable THEN Schedule(queue) /\ UNCHANGED text
                            ELSE RestoreInput /\ UNCHANGED wake
       /\ UNCHANGED <<client, fence, busy, cancel, steer, grace, tool, pendingNew, news,
                      conn, rejoin, events>>

(* ... and on a connection that it waited for. *)
JoinSettles(i) ==
    /\ tasks[i].st = "joined" /\ tasks[i].wait = 0
    /\ tasks' = Returned(i)
    /\ switching' = FALSE
    /\ unsend' = IF Live THEN <<>> ELSE unsend
    /\ IF Live THEN Schedule(queue) /\ UNCHANGED text
               ELSE RestoreInput /\ UNCHANGED wake
    /\ UNCHANGED <<backend, busy, cancel, steer, grace, tool, pendingNew, news, session,
                   conn, rejoin, events>>

-----------------------------------------------------------------------------
(* The backend's life: switchAgent, switchAgentUnlocked, backend_exit. *)

(* A call of switchAgent returns; those that awaited it are due. *)
AttemptEnds ==
    /\ conn' = Tail(conn)
    /\ rejoin' = IF Head(conn).again THEN "ended" ELSE rejoin
Awoken(t) == IF t.st = "joined" /\ t.wait > 0 THEN [t EXCEPT !.wait = @ - 1] ELSE t
Waiters == [i \in DOMAIN tasks |-> Awoken(tasks[i])]

Starts ==
    /\ client' = "live"
    /\ ready' = FALSE
    /\ busy' = FALSE /\ cancel' = FALSE /\ steer' = FALSE /\ grace' = FALSE
    /\ unsend' = <<>> /\ tool' = "none"
    /\ pendingNew' = FALSE
    /\ switching' = Head(conn).cont
    /\ conn' = [conn EXCEPT ![1].st = "connecting"]

(* The old client is detached before its end is awaited: its requests are
   rejected, and what it still says is not heard. *)
Detached(t) == [Rejected(t) EXCEPT !.old = TRUE]
SwitchBegins ==
    /\ conn # <<>> /\ Head(conn).st = "begin"
    /\ IF fence
       THEN AttemptEnds /\ tasks' = Waiters /\ UNCHANGED <<backend, turn, reset>>
       ELSE /\ UNCHANGED <<fence, news, session, rejoin>>
            /\ IF client = "none"
               THEN Starts /\ UNCHANGED tasks
               ELSE /\ client' = "none" /\ ready' = FALSE /\ switching' = TRUE
                    /\ tasks' = [i \in DOMAIN tasks |->
                                    IF tasks[i].st = "joined" THEN tasks[i] ELSE Detached(tasks[i])]
                    /\ conn' = [conn EXCEPT ![1].st = "stopping", ![1].was = switching]
                    /\ UNCHANGED <<turn, pendingNew>>
    /\ UNCHANGED <<text, wake, events>>

(* Its tree is gone; or cannot be confirmed to be, and nothing may follow. *)
Stopped ==
    /\ ~Due /\ conn # <<>> /\ Head(conn).st = "stopping"
    /\ \/ Starts /\ UNCHANGED <<tasks, fence, rejoin>>
       \/ /\ fence' = TRUE /\ switching' = Head(conn).was
          /\ AttemptEnds /\ tasks' = Waiters
          /\ UNCHANGED <<client, ready, turn, pendingNew>>
    /\ UNCHANGED <<text, news, session, wake, events>>

(* connect: initialize, and a fresh session.  The process may have died since it
   has answered. *)
Connected ==
    /\ ~Due /\ conn # <<>> /\ Head(conn).st = "connecting"
    /\ ready' = TRUE
    /\ session' = news
    /\ UNCHANGED <<pendingNew, switching, news>>
    /\ IF switching THEN UNCHANGED wake ELSE Schedule(queue)
    /\ AttemptEnds /\ tasks' = Waiters
    /\ UNCHANGED <<text, client, fence, turn, events>>
ConnectFails ==
    /\ ~Due /\ conn # <<>> /\ Head(conn).st = "connecting"
    /\ \/ client = "live" /\ Event
       \/ client = "closed" /\ UNCHANGED events
    /\ client' = "closed"
    /\ conn' = [conn EXCEPT ![1].st = "retiring"]
    /\ UNCHANGED <<text, ready, fence, turn, reset, tasks, rejoin, wake>>
Retired ==
    /\ ~Due /\ conn # <<>> /\ Head(conn).st = "retiring"
    /\ ready' = FALSE
    /\ fence' \in {fence, TRUE}
    /\ AttemptEnds /\ tasks' = Waiters
    /\ UNCHANGED <<text, client, turn, reset, wake, events>>

(* The process dies: first it cannot be written to any more, then its last
   frames have been read and what it owes is rejected. *)
ChildExit ==
    /\ ~Due /\ client = "live" /\ Event
    /\ client' = "exited"
    /\ UNCHANGED <<text, ready, fence, turn, reset, tasks, conn, rejoin, wake>>
ChildClose ==
    /\ ~Due /\ client = "exited"
    /\ client' = "closed"
    /\ ready' = FALSE
    /\ busy' = FALSE /\ cancel' = FALSE /\ steer' = FALSE /\ grace' = FALSE /\ unsend' = <<>>
    /\ tasks' = [i \in DOMAIN tasks |-> IF tasks[i].old THEN tasks[i] ELSE Rejected(tasks[i])]
    /\ rejoin' = IF rejoin = "no" /\ queue # <<>> THEN "due" ELSE rejoin
    /\ UNCHANGED <<text, fence, tool, reset, conn, wake, events>>

(* reconnectForQueuedPrompts. *)
Rejoin ==
    /\ rejoin = "due"
    /\ IF fence \/ queue = <<>> \/ client = "none"
       THEN rejoin' = "no" /\ UNCHANGED conn
       ELSE /\ rejoin' = "joined"
            /\ conn' = IF conn = <<>> THEN <<Attempt(FALSE, TRUE)>>
                       ELSE [conn EXCEPT ![Len(conn)].again = TRUE]
    /\ UNCHANGED <<text, backend, turn, reset, tasks, wake, events>>
Rejoined ==
    /\ rejoin = "ended"
    /\ rejoin' = "no"
    /\ UNCHANGED reset
    /\ IF Live THEN Schedule(queue) ELSE UNCHANGED wake
    /\ UNCHANGED <<text, backend, turn, tasks, conn, events>>

(* /harness: another backend for the same conversation's input. *)
Harness ==
    /\ ~Due /\ ~switching /\ conn = <<>> /\ Event
    /\ conn' = <<Attempt(FALSE, FALSE)>>
    /\ UNCHANGED <<text, backend, turn, reset, tasks, rejoin, wake>>

-----------------------------------------------------------------------------
(* The timers that empty the queue. *)

\* Mutant: a second loop is started beside the one that runs.
Flush_Again == Append(tasks, Task("flush", "done"))

(* A flush that runs already is joined. *)
Flush == IF Flushing THEN tasks ELSE Append(tasks, Task("flush", "done"))
DrainFires ==
    /\ ~Due /\ drain
    /\ drain' = FALSE
    /\ tasks' = Flush
    /\ UNCHANGED <<text, backend, turn, reset, conn, rejoin, watch, check, events>>
WatchFires ==
    /\ ~Due /\ watch
    /\ IF Live /\ queue # <<>>
       THEN tasks' = Flush /\ check' = TRUE /\ watch' = FALSE
       ELSE /\ watch' = (queue # <<>> /\ (conn # <<>> \/ switching))
            /\ UNCHANGED <<tasks, check>>
    /\ UNCHANGED <<text, backend, turn, reset, conn, rejoin, drain, events>>

CheckEnds ==
    /\ check /\ ~Flushing
    /\ check' = FALSE
    /\ watch' = (watch \/ (queue # <<>> /\ (Live \/ conn # <<>> \/ switching)))
    /\ UNCHANGED <<text, backend, turn, reset, tasks, conn, rejoin, drain, events>>

-----------------------------------------------------------------------------
Continuations ==
    \/ \E i \in DOMAIN tasks : Finally(i) \/ Continue(i) \/ NewSettles(i) \/ JoinSettles(i)
    \/ SwitchBegins \/ Rejoin \/ Rejoined \/ CheckEnds
User ==
    \/ \E p \in Prompts : Type(p)
    \/ \E timing \in {"afterTool", "afterTurn"} : Submit(timing)
    \/ Unqueue \/ Escape \/ New \/ Harness
Timers == GraceFires \/ DrainFires \/ WatchFires
Backend ==
    \/ \E i \in DOMAIN tasks : Prepared(i) \/ TurnAnswered(i) \/ NewAnswered(i)
    \/ Shows \/ ToolStarts \/ ToolEnds
    \/ Stopped \/ Connected \/ ConnectFails \/ Retired \/ ChildExit \/ ChildClose

Next == Continuations \/ User \/ Timers \/ Backend

(* The event loop runs what is due; the watchdog fires; a stop is bounded.
   Nothing more is assumed: not of the other timers, of a backend's answers, or
   of the user. *)
Fairness == WF_vars(Continuations) /\ WF_vars(WatchFires) /\ WF_vars(Stopped \/ Retired)

Spec == Init /\ [][Next]_vars /\ Fairness

-----------------------------------------------------------------------------
Entries == [text: Seq(Prompts), timing: {"afterTool", "afterTurn"}, epoch: 0..MaxEvents]
Calls == [by: {"submit", "flush", "command"}, old: BOOLEAN, epoch: 0..MaxEvents, wait: Nat,
          st: {"preparing", "turn", "settled", "creating", "created", "failed", "joined", "done"}]

(* Types; a grace timer belongs to a cancelled turn, a waiting call to a
   connection under way, and there is one loop over the queue. *)
TypeOK ==
    /\ typed \subseteq Prompts /\ composer \in Seq(Prompts) /\ queue \in Seq(Entries)
    /\ gone \subseteq typed
    /\ client \in {"none", "live", "exited", "closed"} /\ ready \in BOOLEAN /\ fence \in BOOLEAN
    /\ {busy, cancel, steer, grace, pendingNew, switching, drain, watch, check} \subseteq BOOLEAN
    /\ unsend \in Seq(Prompts) /\ tool \in {"none", "active", "ended"}
    /\ news \in 0..MaxEvents /\ session \in 0..news
    /\ tasks \in Seq(Calls) /\ rejoin \in {"no", "due", "joined", "ended"}
    /\ \A i \in DOMAIN conn : conn[i].st = "begin" \/ i = 1
    /\ \A i \in DOMAIN tasks : tasks[i].wait <= Len(conn)
    /\ ready => client # "none"
    /\ grace => cancel
    /\ Cardinality({i \in DOMAIN tasks : tasks[i].by = "flush"}) <= 1

(* Nothing that the user typed is lost or doubled: a prompt is in the editor,
   or waits in the queue, or was given to a session, answered here, or dropped
   by the /new that came after it; in one place, and once.  (One that Escape
   took back counts as the editor's; one that a dead backend refuses, as given.)
   Deaths, refused sessions, switches and cancelled turns included. *)
Held == composer \o Texts(queue)
InputKept ==
    /\ IsInjective(Held)
    /\ Range(Held) \cap gone = {}
    /\ Range(Held) \cup gone = typed

(* One conversation at a time: a backend never works on two prompts, and the
   prompt it works on was typed for the session it is in, neither before the
   /new that created this session nor after one that is still to come. *)
OneConversation ==
    LET open == {i \in DOMAIN tasks : Open(tasks[i])}
    IN Cardinality(open) <= 1 /\ \A i \in open : tasks[i].epoch = session

(* Queued input never waits for nothing: it leaves the queue, unless a backend
   owes an answer or there is none, and none is being started. *)
Owed == \E i \in DOMAIN tasks : tasks[i].st \in {"preparing", "turn", "creating"}
Offline == ~Live /\ (conn = <<>> \/ Head(conn).st = "connecting")
QueueMoves == queue # <<>> ~> (queue = <<>> \/ Owed \/ Offline)
=============================================================================
