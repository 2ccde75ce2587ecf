------------------------- MODULE RunDeliveryProofs -------------------------
(***************************************************************************)
(* Theorems about RunDelivery, for any runs, prompts and bounds.            *)
(***************************************************************************)
EXTENDS RunDelivery, FiniteSetTheorems, TLAPS

USE DeliveryAssumption DEF DeliveryAssumption
USE DEF Final, States, Up, Stopping, Exact, Event, WriteFails, Switching, Moves

-----------------------------------------------------------------------------
\* The type invariant, by the groups of variables that the actions leave alone.

Calls == [by : {"deliver", "run", "activate", "activate-stop", "retry", "flush"},
          state : States, sure : BOOLEAN]
RunTyped ==
    /\ phase \in [Runs -> {"running", "complete", "settled", "stuck"}]
    /\ mem \in [Runs -> States] /\ disk \in [Runs -> States]
    /\ reg \subseteq Runs /\ arch \subseteq Runs /\ reg \cap arch = {}
LockTyped == lockq \in [Runs -> Seq(Calls)]
StoreTyped == queue \in Seq(Runs \cup {User}) /\ pend \subseteq Runs
RetryTyped ==
    /\ ret \in [Runs -> {"no", "origin-retired", "ambiguous"}]
    /\ tried \in [Runs -> {"no", "origin-retired", "ambiguous"}]
FlushTyped ==
    /\ flush \in {"idle", "user", "retiring", "sending", "unsending", "turn", "switched",
                  "delivering", "ambiguating"}
    /\ hand \in Runs \cup {User} /\ (flush \notin {"idle", "user"} => hand # User)
    /\ sends \in [Runs -> 0..1] /\ lost \subseteq Runs \cup {User}
StopTyped ==
    /\ busy \in BOOLEAN /\ userTurn \in BOOLEAN
    /\ target \in {"current", "away", "gone"}
    /\ reset \in {"no", "retiring", "deferred", "switching"}
    /\ stage \in {"up", "retire", "activate", "retry", "stop-runs", "drain", "down", "crashed"}
    /\ round \in {1, 2} /\ (round = 2 => flush = "idle" /\ stage # "up") /\ (stage = "down" => round = 2)
    /\ events \in Nat /\ fails \in Nat
Once == \A i, j \in DOMAIN queue : queue[i] = queue[j] /\ queue[i] # User => i = j
Dead == ~Up => /\ reg = {} /\ queue = <<>> /\ pend = {} /\ flush = "idle" /\ mem = disk
              /\ \A r \in Runs : lockq[r] = <<>>
FlushLocked == \A r \in Runs : \A i \in DOMAIN lockq[r] : lockq[r][i].by = "flush" => hand = r

LEMMA Typed ==
    IInv <=> /\ RunTyped /\ LockTyped /\ StoreTyped /\ RetryTyped /\ FlushTyped /\ StopTyped
             /\ FlushLocked /\ Once /\ Dead /\ \A r \in Runs : Sound(r)
<1>1. {mem, disk} \subseteq [Runs -> States] <=> mem \in [Runs -> States] /\ disk \in [Runs -> States]
  OBVIOUS
<1>2. {ret, tried} \subseteq [Runs -> {"no", "origin-retired", "ambiguous"}]
        <=> /\ ret \in [Runs -> {"no", "origin-retired", "ambiguous"}]
            /\ tried \in [Runs -> {"no", "origin-retired", "ambiguous"}]
  OBVIOUS
<1>3. {busy, userTurn} \subseteq BOOLEAN <=> busy \in BOOLEAN /\ userTurn \in BOOLEAN
  OBVIOUS
<1> HIDE DEF Final, States, Up
<1> QED BY <1>1, <1>2, <1>3, Zenon DEF IInv, TypeOK, RunTyped, LockTyped, Calls, StoreTyped, RetryTyped, FlushTyped, StopTyped,
     FlushLocked, Once, Dead

-----------------------------------------------------------------------------
\* A step apart from run j: it may retire j's completion with the rest of the queue.
Apart(j) ==
    /\ lockq'[j] = lockq[j] /\ phase'[j] = phase[j] /\ mem'[j] = mem[j] /\ disk'[j] = disk[j]
    /\ sends'[j] = sends[j] /\ tried'[j] = tried[j]
    /\ (j \in pend' <=> j \in pend) /\ (j \in reg' <=> j \in reg) /\ (j \in arch' <=> j \in arch)
    /\ fails <= fails' /\ lost \subseteq lost' /\ (Up' => Up)
    /\ (target = "gone" => target' = "gone") /\ (stage # "up" => stage' # "up")
    /\ ret'[j] = ret[j] \/ (Queued(j) /\ ~Queued(j)' /\ ret'[j] = "origin-retired")
    /\ Queued(j)' => Queued(j) /\ (queue[1] = j => queue'[1] = j)
    /\ Queued(j) /\ ~Queued(j)' => ret'[j] # "no" \/ (j \in lost' /\ ~InHand(j))
    /\ (InHand(j)' <=> InHand(j)) /\ (InHand(j) => flush' = flush)

LEMMA LockedKept == ASSUME NEW j \in Runs, LockTyped, Locked(j), Placed(j), Apart(j) PROVE Locked(j)'
<1>1. ASSUME NEW c \in Calls, CallSound(j, c) PROVE CallSound(j, c)'
  <2>1. Kind(c)' = Kind(c) /\ (c.by = "flush" => hand = j /\ flush \in Writing)  BY <1>1 DEF CallSound, Kind
  <2>2. c.by = "flush" => hand' = j /\ flush' \in Writing /\ c = Asked'
    BY <1>1, <2>1 DEF CallSound, Call, Asked, Apart, InHand, Writing
  <2>3. c.by = "deliver" => /\ ret'[j] = "no" /\ ~Queued(j)' /\ j \notin pend' /\ ~InHand(j)'
                            /\ mem'[j] = "pending" /\ sends'[j] = 0
    BY <1>1 DEF CallSound, Apart
  <2>4. Kind(c) = "activate" => j \in pend' /\ (target' = "gone" \/ stage' # "up")  BY <1>1 DEF CallSound, Apart
  <2>5. phase'[j] = phase[j] /\ tried'[j] = tried[j]  BY DEF Apart
  <2> QED BY <1>1, <2>1, <2>2, <2>3, <2>4, <2>5 DEF CallSound
<1>2. \A i \in DOMAIN lockq[j] : lockq[j][i] \in Calls  BY DEF LockTyped
<1>3. lockq'[j] = lockq[j]  BY DEF Apart
<1>4. (\A i \in DOMAIN lockq[j] : CallSound(j, lockq[j][i]))'  BY <1>1, <1>2, <1>3 DEF Locked
<1>5. (\A i, k \in DOMAIN lockq[j] : Kind(lockq[j][i]) = Kind(lockq[j][k]) => i = k)'  BY <1>3 DEF Locked, Kind
<1>6. (hand = j /\ flush \in Writing) => (hand' = j /\ flush' = flush)  BY DEF Apart, InHand, Writing
<1>7. (hand' = j /\ flush' \in Writing) => (hand = j /\ flush = flush')  BY DEF Apart, InHand, Writing
<1>8. (\A i, k \in DOMAIN lockq[j] :
         i < k /\ lockq[j][i].by = "retry" /\ lockq[j][k].by = "flush" => flush \notin {"retiring", "sending"})'
  BY <1>3, <1>6 DEF Locked, Writing, CallSound
<1>9. (hand = j /\ flush \in Writing => \E i \in DOMAIN lockq[j] : lockq[j][i].by = "flush")'  BY <1>3, <1>7 DEF Locked
<1> QED BY <1>4, <1>5, <1>8, <1>9 DEF Locked

LEMMA PlacedKept == ASSUME NEW j \in Runs, FlushTyped, RetryTyped, StopTyped, StopTyped', Placed(j), Apart(j) PROVE Placed(j)'
<1>1. Unsent(j) => Unsent(j)'  BY DEF Apart, Unsent, StopTyped
<1> QED BY <1>1 DEF Placed, Apart, RetryTyped

LEMMA RecordedKept == ASSUME NEW j \in Runs, FlushTyped, StopTyped, StopTyped', Placed(j), Recorded(j), Apart(j)
    PROVE Recorded(j)'
<1>1. FinalRecord(j) => FinalRecord(j)'  BY DEF Apart, FinalRecord, StopTyped
<1>2. UNCHANGED <<mem[j], disk[j], sends[j], phase[j]>>  BY DEF Apart
<1>3. (j \in reg' <=> j \in reg) /\ (j \in arch' <=> j \in arch) /\ (Up' => Up)  BY DEF Apart
<1>4. ret[j] = "ambiguous" => ret'[j] = "ambiguous"  BY DEF Apart, Placed
<1>5. ret[j] # "no" => ret'[j] # "no"  BY DEF Apart
<1>6. InHand(j) => InHand(j)' /\ flush' = flush  BY DEF Apart
<1>7. Queued(j) => Queued(j)' \/ ret'[j] # "no" \/ j \in lost'  BY DEF Apart
<1>8. (j \in pend => j \in pend') /\ (j \in lost => j \in lost')  BY DEF Apart
<1> QED BY <1>1, <1>2, <1>3, <1>4, <1>5, <1>6, <1>7, <1>8 DEF Recorded

\* Every part of the invariant from its halves.
LEMMA Assembled ==
    ASSUME RunTyped', LockTyped', StoreTyped', RetryTyped', FlushTyped', StopTyped', Once', Dead',
           \A j \in Runs : Locked(j)' /\ Placed(j)' /\ Recorded(j)' /\ Settling(j)'
    PROVE  IInv'
<1>1. \A j \in Runs : Sound(j)'  BY DEF Sound
<1>2. FlushLocked'
  <2>1. \A j \in Runs : (\A i \in DOMAIN lockq[j] : CallSound(j, lockq[j][i]))'  BY DEF Locked
  <2> QED BY <2>1 DEF FlushLocked, CallSound
<1>3. (RunTyped /\ LockTyped /\ StoreTyped /\ RetryTyped /\ FlushTyped /\ StopTyped
       /\ FlushLocked /\ Once /\ Dead /\ \A r \in Runs : Sound(r))'
  BY <1>1, <1>2
<1> QED BY <1>3, Typed, PTL

\* What is left of the queue is what stands at the places kept, in its order.
LEMMA KeptPlaces ==
    ASSUME StoreTyped, Once, NEW places \in SUBSET (DOMAIN queue), Keeps(places)
    PROVE  /\ queue' \in Seq(Runs \cup {User}) /\ Once'
           /\ \A i \in DOMAIN queue' : \E k \in places : queue'[i] = queue[k]
           /\ \A k \in places : \E i \in DOMAIN queue' : queue'[i] = queue[k]
           /\ 1 \in places => queue'[1] = queue[1]
<1>1. DOMAIN queue = 1..Len(queue) /\ Len(queue) \in Nat  BY DEF StoreTyped
<1>2. Cardinality(places) \in Nat
  <2>1. IsFiniteSet(DOMAIN queue)  BY <1>1, FS_Interval
  <2>2. IsFiniteSet(places)  BY <2>1, FS_Subset
  <2> QED BY <2>2, FS_CardinalityType
<1> DEFINE n == Cardinality(places)
<1>3. PICK at \in Bijection(1..n, places) :
        /\ \A i, j \in DOMAIN at : i < j => at[i] < at[j]
        /\ queue' = [i \in DOMAIN at |-> queue[at[i]]]
  BY DEF Keeps
<1> HIDE DEF n
<1>4. /\ at \in [1..n -> places] /\ \A p \in places : \E i \in 1..n : at[i] = p
      /\ \A i, j \in 1..n : at[i] = at[j] => i = j
  BY <1>3 DEF Bijection, Injection, Surjection, IsInjective
<1>5. queue' = [i \in 1..n |-> queue[at[i]]]  BY <1>3, <1>4
<1>6. queue' \in Seq(Runs \cup {User})  BY <1>1, <1>2, <1>4, <1>5 DEF StoreTyped, n
<1>7. \A i \in DOMAIN queue' : \E k \in places : queue'[i] = queue[k]  BY <1>4, <1>5
<1>8. \A k \in places : \E i \in DOMAIN queue' : queue'[i] = queue[k]  BY <1>4, <1>5
<1>9. Once'  BY <1>1, <1>4, <1>5 DEF Once
<1>10. 1 \in places => queue'[1] = queue[1]
  <2> SUFFICES ASSUME 1 \in places PROVE queue'[1] = queue[1]  OBVIOUS
  <2>1. PICK k \in 1..n : at[k] = 1  BY <1>4
  <2>2. k = 1
    <3>1. SUFFICES ASSUME 1 < k PROVE FALSE  BY <2>1, <1>2 DEF n
    <3>2. 1 \in 1..n /\ at[1] < at[k]  BY <3>1, <1>2, <1>3, <1>4 DEF n
    <3> QED BY <1>1, <1>4, <2>1, <3>2
  <2> QED BY <2>1, <2>2, <1>5
<1> QED BY <1>6, <1>7, <1>8, <1>9, <1>10

LEMMA KeepsUsers == ASSUME StoreTyped, Once, KeepsTyped
    PROVE queue' \in Seq(Runs \cup {User}) /\ Once' /\ \A j \in Runs : ~Queued(j)'
<1> DEFINE P == {i \in DOMAIN queue : queue[i] = User}
<1>1. Keeps(P)  BY DEF KeepsTyped
<1>2. P \in SUBSET (DOMAIN queue)  OBVIOUS
<1>3. /\ queue' \in Seq(Runs \cup {User}) /\ Once'
      /\ \A i \in DOMAIN queue' : \E k \in P : queue'[i] = queue[k]
  <2> HIDE DEF P
  <2> QED BY <1>1, <1>2, KeptPlaces
<1> QED BY <1>3 DEF Queued

LEMMA KeepsRuns == ASSUME StoreTyped, Once, KeepsCompletions
    PROVE /\ queue' \in Seq(Runs \cup {User}) /\ Once'
          /\ \A j \in Runs : Queued(j)' <=> Queued(j)
          /\ \A j \in Runs : Queued(j) /\ queue[1] = j => queue'[1] = j
<1> DEFINE P == {i \in DOMAIN queue : queue[i] # User}
<1>1. Keeps(P)  BY DEF KeepsCompletions
<1>2. P \in SUBSET (DOMAIN queue)  OBVIOUS
<1>3. /\ queue' \in Seq(Runs \cup {User}) /\ Once'
      /\ \A i \in DOMAIN queue' : \E k \in P : queue'[i] = queue[k]
      /\ \A k \in P : \E i \in DOMAIN queue' : queue'[i] = queue[k]
      /\ 1 \in P => queue'[1] = queue[1]
  <2> HIDE DEF P
  <2> QED BY <1>1, <1>2, KeptPlaces
<1>4. \A j \in Runs : Queued(j)' <=> Queued(j)  BY <1>3 DEF Queued
<1>5. ASSUME NEW j \in Runs, Queued(j), queue[1] = j PROVE queue'[1] = j
  BY <1>3, <1>5 DEF Queued, StoreTyped
<1> QED BY <1>3, <1>4, <1>5

LEMMA SettlingKept ==
    ASSUME NEW j \in Runs, StopTyped, StopTyped', Placed(j), Settling(j), Apart(j), stage' = stage, round' = round
    PROVE  Settling(j)'
<1>1. \A by : j \in InLock(by)' <=> j \in InLock(by)  BY DEF Apart, InLock
<1>2. (j \in Activating)' <=> j \in Activating  BY <1>1 DEF Activating
<1>3. Open(j)' <=> Open(j)  BY DEF Open, Apart
<1>4. fails' = 0 => fails = 0  BY DEF Apart, StopTyped
<1>5. UNCHANGED <<mem[j], phase[j], tried[j]>> /\ (j \in reg' <=> j \in reg) /\ (j \in lost => j \in lost')  BY DEF Apart
<1>6. Queued(j)' => Queued(j)  BY DEF Apart
<1>7. ret'[j] # ret[j] => Queued(j) /\ ret'[j] = "origin-retired"  BY DEF Apart
<1>8. j \in InLock("retry")' <=> j \in InLock("retry")  BY <1>1
<1>9. j \in InLock("activate")' <=> j \in InLock("activate")  BY <1>1
<1> QED BY <1>2, <1>3, <1>4, <1>5, <1>6, <1>7, <1>8, <1>9 DEF Settling

LEMMA SoundKept ==
    ASSUME IInv, StopTyped', NEW j \in Runs, Apart(j)
    PROVE  Locked(j)' /\ Placed(j)' /\ Recorded(j)' /\ (stage' = stage /\ round' = round => Settling(j)')
<1>1. LockTyped /\ RetryTyped /\ FlushTyped /\ StopTyped /\ Sound(j)  BY Typed
<1> QED BY <1>1, LockedKept, PlacedKept, RecordedKept, SettlingKept DEF Sound

\* The steps of the user, the backend and the session that touch no run.
LEMMA MovesKeep == ASSUME IInv, Type \/ UserTurnEnds \/ Resume \/ Replace PROVE IInv'
<1>1. RunTyped /\ LockTyped /\ StoreTyped /\ RetryTyped /\ FlushTyped /\ StopTyped /\ Once /\ Dead  BY Typed
<1>2. /\ UNCHANGED <<runVars, lockq, pend, retryVars, hand, sends, lost, stopVars, fails>>
      /\ queue' = queue \/ queue' = Append(queue, User)
      /\ flush' = flush \/ (flush = "user" /\ flush' = "idle")
      /\ (target = "gone" => target' = "gone") /\ Up
  BY DEF Type, UserTurnEnds, Resume, Replace, turnVars, flushVars, sessionVars, storeVars, stopVars, counts
<1>3. RunTyped' /\ LockTyped' /\ RetryTyped' /\ FlushTyped'
  BY <1>1, <1>2 DEF RunTyped, LockTyped, RetryTyped, FlushTyped, runVars, retryVars
<1>4. StoreTyped'  BY <1>1, <1>2 DEF StoreTyped
<1>5. StopTyped'
  <2>1. events' \in Nat
    BY <1>1 DEF StopTyped, Type, UserTurnEnds, Resume, Replace, counts
  <2>3. busy' \in BOOLEAN  BY <1>1, Zenon DEF StopTyped, Type, UserTurnEnds, Resume, Replace, turnVars
  <2>4. userTurn' \in BOOLEAN  BY <1>1, Zenon DEF StopTyped, Type, UserTurnEnds, Resume, Replace, turnVars
  <2>2. target' \in {"current", "away", "gone"} /\ reset' \in {"no", "retiring", "deferred", "switching"}
    BY <1>1 DEF StopTyped, Type, UserTurnEnds, Resume, Replace, turnVars, flushVars, sessionVars
  <2> QED BY <1>1, <1>2, <2>1, <2>2, <2>3, <2>4 DEF StopTyped, stopVars
<1>6. Once'  BY <1>1, <1>2 DEF Once, StoreTyped
<1>7. Dead'  BY <1>1, <1>2 DEF Dead, stopVars
<1>8. \A j \in Runs : Queued(j)' <=> Queued(j)  BY <1>1, <1>2 DEF Queued, StoreTyped
<1>9. ASSUME NEW j \in Runs PROVE Apart(j)
  <2>1. Queued(j) /\ queue[1] = j => queue'[1] = j  BY <1>1, <1>2 DEF Queued, StoreTyped
  <2>2. (InHand(j)' <=> InHand(j)) /\ (InHand(j) => flush' = flush)  BY <1>2 DEF InHand
  <2> QED BY <1>1, <1>2, <1>8, <2>1, <2>2 DEF Apart, runVars, retryVars, stopVars, StopTyped
<1>10. \A j \in Runs : Locked(j)' /\ Placed(j)' /\ Recorded(j)' /\ Settling(j)'
  BY <1>2, <1>5, <1>9, SoundKept DEF stopVars
<1> QED BY <1>3, <1>4, <1>5, <1>6, <1>7, <1>10, Assembled

\* The queue is discarded, or all of it but the user's prompts.
LEMMA Discarded ==
    ASSUME IInv, RetireQueued, \A j \in Runs : ~Queued(j)', UNCHANGED <<runVars, lockq, pend, tried, flushVars, fails>>,
           Up' => Up, target = "gone" => target' = "gone", stage # "up" => stage' # "up"
    PROVE  (ret' \in [Runs -> {"no", "origin-retired", "ambiguous"}]) /\ \A j \in Runs : Apart(j)
<1>1. RunTyped /\ StoreTyped /\ RetryTyped /\ FlushTyped /\ StopTyped /\ \A j \in Runs : Sound(j)  BY Typed
<1>2. \A j \in Runs : Contains(queue, j) <=> Queued(j)  BY <1>1 DEF Contains, Queued, StoreTyped
<1>3. ret' = [r \in Runs |-> IF ret[r] = "no" /\ Queued(r) THEN "origin-retired" ELSE ret[r]]
  BY <1>2 DEF RetireQueued
<1>4. ret' \in [Runs -> {"no", "origin-retired", "ambiguous"}]  BY <1>1, <1>3 DEF RetryTyped
<1>5. ASSUME NEW j \in Runs PROVE Apart(j)
  <2>1. Queued(j) => ret[j] = "no"  BY <1>1 DEF Sound, Placed
  <2>2. ret'[j] = IF Queued(j) THEN "origin-retired" ELSE ret[j]  BY <1>3, <2>1
  <2>3. (InHand(j)' <=> InHand(j)) /\ (InHand(j) => flush' = flush)  BY DEF InHand, flushVars
  <2> QED BY <1>1, <2>2, <2>3 DEF Apart, runVars, flushVars, StopTyped
<1> QED BY <1>4, <1>5

LEMMA NewKeeps == ASSUME IInv, New PROVE IInv'
<1>1. RunTyped /\ LockTyped /\ StoreTyped /\ RetryTyped /\ FlushTyped /\ StopTyped /\ Once /\ Dead  BY Typed
<1>2. /\ UNCHANGED <<runVars, lockq, pend, tried, flushVars, turnVars, target, stopVars, fails>>
      /\ queue' = <<>> /\ reset' \in {"deferred", "retiring"} /\ RetireQueued /\ stage = "up" /\ events' = events + 1
  BY DEF New
<1>3. \A j \in Runs : ~Queued(j)'  BY <1>2 DEF Queued
<1>4. (ret' \in [Runs -> {"no", "origin-retired", "ambiguous"}]) /\ \A j \in Runs : Apart(j)
  BY <1>2, <1>3, Discarded DEF stopVars
<1>5. RunTyped' /\ LockTyped' /\ StoreTyped' /\ RetryTyped' /\ FlushTyped' /\ Once' /\ Dead'
  BY <1>1, <1>2, <1>4 DEF RunTyped, LockTyped, StoreTyped, RetryTyped, FlushTyped, Once, Dead, runVars, flushVars, stopVars
<1>6. StopTyped'
  <2>1. UNCHANGED <<busy, userTurn, target, stage, round, fails, flush>>  BY <1>2 DEF turnVars, stopVars, flushVars
  <2> QED BY <1>1, <1>2, <2>1 DEF StopTyped
<1>7. \A j \in Runs : Locked(j)' /\ Placed(j)' /\ Recorded(j)' /\ Settling(j)'
  BY <1>2, <1>4, <1>6, SoundKept DEF stopVars
<1> QED BY <1>5, <1>6, <1>7, Assembled

LEMMA StopKeeps == ASSUME IInv, Stop PROVE IInv'
<1>1. RunTyped /\ LockTyped /\ StoreTyped /\ RetryTyped /\ FlushTyped /\ StopTyped /\ Once /\ Dead
      /\ \A j \in Runs : Sound(j)
  BY Typed
<1>2. /\ UNCHANGED <<runVars, lockq, pend, tried, flushVars, turnVars, sessionVars, round, counts>>
      /\ stage = "up" /\ stage' = "retire" /\ RetireQueued /\ KeepsTyped
  BY DEF Stop
<1>3. queue' \in Seq(Runs \cup {User}) /\ Once' /\ \A j \in Runs : ~Queued(j)'  BY <1>1, <1>2, KeepsUsers
<1>4. (ret' \in [Runs -> {"no", "origin-retired", "ambiguous"}]) /\ \A j \in Runs : Apart(j)
  BY <1>2, <1>3, Discarded DEF sessionVars, counts
<1>5. RunTyped' /\ LockTyped' /\ StoreTyped' /\ RetryTyped' /\ FlushTyped' /\ Dead'
  BY <1>1, <1>2, <1>3, <1>4 DEF RunTyped, LockTyped, StoreTyped, RetryTyped, FlushTyped, Dead, runVars, flushVars
<1>6. StopTyped'
  <2>1. UNCHANGED <<busy, userTurn, target, reset, round, events, fails, flush>>
    BY <1>2 DEF turnVars, sessionVars, counts, flushVars
  <2> QED BY <1>1, <1>2, <2>1 DEF StopTyped
<1>7. ASSUME NEW j \in Runs PROVE Locked(j)' /\ Placed(j)' /\ Recorded(j)' /\ Settling(j)'
  <2>1. Locked(j)' /\ Placed(j)' /\ Recorded(j)'  BY <1>4, <1>6, SoundKept
  <2>2. round' = 1 /\ stage' = "retire"  BY <1>1, <1>2 DEF StopTyped
  <2>3. Settling(j)  BY <1>1 DEF Sound
  <2>4. j \in InLock("retry")' <=> j \in InLock("retry")  BY <1>2 DEF InLock
  <2>5. UNCHANGED <<mem, phase, tried, reg, fails>>  BY <1>2 DEF runVars, counts
  <2>6. ret[j] # "ambiguous" => ret'[j] # "ambiguous"  BY <1>4 DEF Apart
  <2> QED BY <2>1, <2>2, <2>3, <2>4, <2>5, <2>6 DEF Settling
<1> QED BY <1>3, <1>5, <1>6, <1>7, Assembled

\* The second round of a shutdown finds every run ended, and takes the rest of the queue.
LEMMA DrainKeeps == ASSUME IInv, Drain PROVE IInv'
<1>1. RunTyped /\ LockTyped /\ StoreTyped /\ RetryTyped /\ FlushTyped /\ StopTyped /\ Once /\ Dead
      /\ \A j \in Runs : Sound(j)
  BY Typed
<1>2. /\ UNCHANGED <<runVars, lockq, pend, tried, flushVars, turnVars, sessionVars, counts>>
      /\ stage = "drain" /\ flush = "idle" /\ stage' = "retire" /\ round' = 2 /\ RetireQueued /\ KeepsTyped
  BY DEF Drain
<1>3. queue' \in Seq(Runs \cup {User}) /\ Once' /\ \A j \in Runs : ~Queued(j)'  BY <1>1, <1>2, KeepsUsers
<1>4. (ret' \in [Runs -> {"no", "origin-retired", "ambiguous"}]) /\ \A j \in Runs : Apart(j)
  BY <1>2, <1>3, Discarded DEF sessionVars, counts
<1>5. RunTyped' /\ LockTyped' /\ StoreTyped' /\ RetryTyped' /\ FlushTyped' /\ Dead'
  BY <1>1, <1>2, <1>3, <1>4 DEF RunTyped, LockTyped, StoreTyped, RetryTyped, FlushTyped, Dead, runVars, flushVars
<1>6. StopTyped'
  <2>1. UNCHANGED <<busy, userTurn, target, reset, events, fails, flush>>
    BY <1>2 DEF turnVars, sessionVars, counts, flushVars
  <2> QED BY <1>1, <1>2, <2>1 DEF StopTyped
<1>7. ASSUME NEW j \in Runs PROVE Locked(j)' /\ Placed(j)' /\ Recorded(j)' /\ Settling(j)'
  <2>1. Locked(j)' /\ Placed(j)' /\ Recorded(j)'  BY <1>4, <1>6, SoundKept
  <2>2. round' = 2 /\ stage' = "retire" /\ stage = "drain"  BY <1>2
  <2>3. Settling(j)  BY <1>1 DEF Sound
  <2>4. j \in InLock("retry")' <=> j \in InLock("retry")  BY <1>2 DEF InLock
  <2>5. UNCHANGED <<mem, phase, tried, reg, fails>>  BY <1>2 DEF runVars, counts
  <2>6. ret[j] # "ambiguous" => ret'[j] # "ambiguous"  BY <1>4 DEF Apart
  <2> QED BY <1>3, <2>1, <2>2, <2>3, <2>4, <2>5, <2>6 DEF Settling
<1> QED BY <1>3, <1>5, <1>6, <1>7, Assembled

LEMMA NewSessionKeeps == ASSUME IInv, NewSession, flush # "switched" \/ reset = "retiring" PROVE IInv'
<1>1. RunTyped /\ LockTyped /\ StoreTyped /\ RetryTyped /\ FlushTyped /\ StopTyped /\ Once /\ Dead  BY Typed
<1>2. /\ UNCHANGED <<runVars, lockq, pend, retryVars, flushVars, turnVars, stopVars, counts>>
      /\ reset' \in {"switching", "no"} /\ (target' = target \/ (target' = "away" /\ target = "current"))
      /\ Up /\ (queue' = queue \/ KeepsCompletions)
  BY DEF NewSession, flushVars
<1>3. /\ queue' \in Seq(Runs \cup {User}) /\ Once'
      /\ \A j \in Runs : Queued(j)' <=> Queued(j)
      /\ \A j \in Runs : Queued(j) /\ queue[1] = j => queue'[1] = j
  <2>1. CASE queue' = queue  BY <1>1, <2>1 DEF StoreTyped, Once, Queued
  <2>2. CASE KeepsCompletions  BY <1>1, <2>2, KeepsRuns
  <2> QED BY <1>2, <2>1, <2>2
<1>4. ASSUME NEW j \in Runs PROVE Apart(j)
  <2>1. (InHand(j)' <=> InHand(j)) /\ (InHand(j) => flush' = flush)  BY <1>2 DEF InHand, flushVars
  <2> QED BY <1>1, <1>2, <1>3, <2>1 DEF Apart, runVars, retryVars, stopVars, StopTyped, counts, flushVars
<1>5. RunTyped' /\ LockTyped' /\ StoreTyped' /\ RetryTyped' /\ FlushTyped'
  BY <1>1, <1>2, <1>3 DEF RunTyped, LockTyped, StoreTyped, RetryTyped, FlushTyped, runVars, flushVars, retryVars
<1>6. Dead'  BY <1>2 DEF Dead, stopVars
<1>7. StopTyped'
  <2>1. UNCHANGED <<busy, userTurn, stage, round, events, fails, flush>>  BY <1>2 DEF turnVars, stopVars, counts, flushVars
  <2> QED BY <1>1, <1>2, <2>1 DEF StopTyped
<1>8. \A j \in Runs : Locked(j)' /\ Placed(j)' /\ Recorded(j)' /\ Settling(j)'
  BY <1>2, <1>4, <1>7, SoundKept DEF stopVars
<1> QED BY <1>3, <1>5, <1>6, <1>7, <1>8, Assembled

-----------------------------------------------------------------------------
\* A call joins the lock of run j.
LEMMA Joined ==
    ASSUME NEW j \in Runs, LockTyped, Locked(j), NEW c \in Calls, lockq'[j] = Append(lockq[j], c), c.by # "flush",
           \A i \in DOMAIN lockq[j] : Kind(lockq[j][i]) # Kind(c), CallSound(j, c)',
           \A d \in Calls : CallSound(j, d) /\ Kind(d) # Kind(c) => CallSound(j, d)', hand' = hand, flush' = flush
    PROVE  Locked(j)'
<1> DEFINE n == Len(lockq[j])
<1>1. /\ n \in Nat /\ DOMAIN lockq[j] = 1..n /\ DOMAIN lockq'[j] = 1..(n + 1)
      /\ \A i \in 1..n : lockq[j][i] \in Calls /\ lockq'[j][i] = lockq[j][i]
      /\ lockq'[j][n + 1] = c
  BY DEF LockTyped
<1> HIDE DEF n
<1>2. (\A i \in DOMAIN lockq[j] : CallSound(j, lockq[j][i]))'
  <2>1. \A i \in 1..n : CallSound(j, lockq[j][i]) /\ Kind(lockq[j][i]) # Kind(c)  BY <1>1 DEF Locked
  <2>2. ASSUME NEW i \in 1..(n + 1) PROVE CallSound(j, lockq[j][i])'
    <3>1. CASE i = n + 1  BY <1>1, <3>1
    <3>2. CASE i # n + 1
      <4>1. i \in 1..n  BY <1>1, <3>2
      <4>2. CallSound(j, lockq[j][i]) /\ lockq[j][i] \in Calls /\ Kind(lockq[j][i]) # Kind(c)  BY <1>1, <2>1, <4>1
      <4>3. ASSUME NEW d \in Calls, CallSound(j, d), Kind(d) # Kind(c), lockq'[j][i] = d PROVE CallSound(j, lockq[j][i])'
        BY <4>3
      <4> QED BY <1>1, <4>1, <4>2, <4>3
    <3> QED BY <3>1, <3>2
  <2> QED BY <1>1, <2>2
<1>3. (\A i, k \in DOMAIN lockq[j] : Kind(lockq[j][i]) = Kind(lockq[j][k]) => i = k)'
  <2>1. \A i, k \in 1..n : Kind(lockq[j][i]) = Kind(lockq[j][k]) => i = k  BY <1>1 DEF Locked
  <2>2. \A i \in 1..n : Kind(lockq[j][i]) # Kind(c)  BY <1>1
  <2>3. \A i, k \in 1..(n + 1) : Kind(lockq'[j][i]) = Kind(lockq'[j][k]) => i = k
    BY <1>1, <2>1, <2>2
  <2> QED BY <1>1, <2>3 DEF Kind
<1>4. (\A i, k \in DOMAIN lockq[j] :
         i < k /\ lockq[j][i].by = "retry" /\ lockq[j][k].by = "flush" => flush \notin {"retiring", "sending"})'
  BY <1>1 DEF Locked
<1>5. (hand = j /\ flush \in Writing => \E i \in DOMAIN lockq[j] : lockq[j][i].by = "flush")'
  BY <1>1 DEF Locked, Writing
<1> QED BY <1>2, <1>3, <1>4, <1>5 DEF Locked

LEMMA RetiredKeeps == ASSUME IInv, Retired PROVE IInv'
<1>1. RunTyped /\ LockTyped /\ StoreTyped /\ RetryTyped /\ FlushTyped /\ StopTyped /\ Once /\ Dead
      /\ \A j \in Runs : Sound(j)
  BY Typed
<1>2. /\ UNCHANGED <<runVars, lockq, storeVars, retryVars, flushVars, turnVars, sessionVars, round, counts>>
      /\ stage = "retry" /\ stage' = "stop-runs" /\ PassEnded
  BY DEF Retired
<1>3. UNCHANGED <<phase, mem, disk, reg, arch, lockq, queue, pend, ret, tried, flush, hand, sends, lost,
                  busy, userTurn, target, reset, round, events, fails>>
  BY <1>2 DEF runVars, storeVars, retryVars, flushVars, turnVars, sessionVars, counts
<1>4. RunTyped' /\ LockTyped' /\ StoreTyped' /\ RetryTyped' /\ FlushTyped' /\ StopTyped' /\ Once' /\ Dead'
  BY <1>1, <1>2, <1>3 DEF RunTyped, LockTyped, StoreTyped, RetryTyped, FlushTyped, StopTyped, Once, Dead
<1>5. \A j \in Runs : Apart(j)  BY <1>1, <1>2, <1>3 DEF Apart, Queued, InHand, StopTyped
<1>6. ASSUME NEW j \in Runs PROVE Settling(j)'
  <2>1. Settling(j)  BY <1>1 DEF Sound
  <2>2. ret[j] \in {"no", tried[j]} /\ j \notin InLock("retry")  BY <1>2 DEF PassEnded
  <2> QED BY <1>2, <1>3, <2>1, <2>2 DEF Settling, Open, InLock, Queued, Activating
<1> QED BY <1>4, <1>5, <1>6, SoundKept, Assembled

\* Another pass over the retirements begins: nothing has been attempted.
LEMMA Forgotten ==
    ASSUME IInv, tried' = [r \in Runs |-> "no"], InLock("retry") = {}, stage # "up" => stage' # "up", Up' <=> Up,
           UNCHANGED <<runVars, lockq, storeVars, ret, flushVars, turnVars, sessionVars, fails>>
    PROVE  RetryTyped' /\ \A j \in Runs : Locked(j)' /\ Placed(j)' /\ Recorded(j)'
<1>1. RunTyped /\ LockTyped /\ StoreTyped /\ RetryTyped /\ FlushTyped /\ StopTyped /\ \A j \in Runs : Sound(j)
  BY Typed
<1>2. UNCHANGED <<phase, mem, disk, reg, arch, lockq, queue, pend, ret, flush, hand, sends, lost, target, fails>>
  BY DEF runVars, storeVars, flushVars, sessionVars
<1>3. RetryTyped'  BY <1>1, <1>2 DEF RetryTyped
<1>4. ASSUME NEW j \in Runs PROVE Locked(j)'
  <2>1. Locked(j)  BY <1>1 DEF Sound
  <2>2. ASSUME NEW i \in DOMAIN lockq[j] PROVE lockq[j][i].by # "retry"  BY <2>2 DEF InLock
  <2>3. ASSUME NEW d \in Calls, d.by # "retry", CallSound(j, d) PROVE CallSound(j, d)'
    BY <1>2, <2>3 DEF CallSound, Kind, Call, Asked, Queued, InHand
  <2>4. \A i \in DOMAIN lockq[j] : lockq[j][i] \in Calls  BY <1>1 DEF LockTyped
  <2>5. (\A i \in DOMAIN lockq[j] : CallSound(j, lockq[j][i]))'  BY <1>2, <2>1, <2>2, <2>3, <2>4 DEF Locked
  <2> QED BY <1>2, <2>1, <2>5 DEF Locked, Kind
<1>5. ASSUME NEW j \in Runs PROVE Placed(j)' /\ Recorded(j)'
  <2>1. Placed(j) /\ Recorded(j)  BY <1>1 DEF Sound
  <2>2. Placed(j)'  BY <1>2, <2>1 DEF Placed, Queued, InHand, Unsent
  <2>3. Recorded(j)'  BY <1>2, <2>1 DEF Recorded, Queued, InHand, FinalRecord
  <2> QED BY <2>2, <2>3
<1> QED BY <1>3, <1>4, <1>5

LEMMA PassKeeps == ASSUME IInv, RetryTimer \/ RetryAll PROVE IInv'
<1>1. RunTyped /\ LockTyped /\ StoreTyped /\ RetryTyped /\ FlushTyped /\ StopTyped /\ Once /\ Dead
      /\ \A j \in Runs : Sound(j)
  BY Typed
<1>2. /\ UNCHANGED <<runVars, lockq, storeVars, ret, flushVars, turnVars, sessionVars, round, counts>>
      /\ PassEnded /\ tried' = [r \in Runs |-> "no"]
      /\ \/ stage = "up" /\ stage' = "up"
         \/ stage = "activate" /\ stage' = "retry" /\ InLock("activate-stop") = {}
  BY DEF RetryTimer, RetryAll, stopVars
<1>3. UNCHANGED <<phase, mem, disk, reg, arch, lockq, queue, pend, ret, flush, hand, sends, lost,
                  busy, userTurn, target, reset, round, events, fails>>
  BY <1>2 DEF runVars, storeVars, flushVars, turnVars, sessionVars, counts
<1>4. RunTyped' /\ LockTyped' /\ StoreTyped' /\ FlushTyped' /\ StopTyped' /\ Once' /\ Dead'
  BY <1>1, <1>2, <1>3 DEF RunTyped, LockTyped, StoreTyped, FlushTyped, StopTyped, Once, Dead
<1>5. InLock("retry") = {} /\ (stage # "up" => stage' # "up") /\ (Up' <=> Up)  BY <1>2 DEF PassEnded
<1>6. RetryTyped' /\ \A j \in Runs : Locked(j)' /\ Placed(j)' /\ Recorded(j)'
  BY <1>2, <1>3, <1>5, Forgotten
<1>7. ASSUME NEW j \in Runs PROVE Settling(j)'
  <2>1. Settling(j)  BY <1>1 DEF Sound
  <2>2. tried'[j] = "no"  BY <1>2
  <2>3. round = 2 => stage # "up"  BY <1>1 DEF StopTyped
  <2>4. \A by : InLock(by)' = InLock(by)  BY <1>3 DEF InLock
  <2>5. InLock("retry")' = InLock("retry") /\ InLock("activate")' = InLock("activate")
        /\ InLock("activate-stop")' = InLock("activate-stop")
    BY <2>4
  <2> QED BY <1>2, <1>3, <1>5, <2>1, <2>2, <2>3, <2>5 DEF Settling, Open, Queued, Activating
<1> QED BY <1>4, <1>6, <1>7, Assembled

LEMMA JoinedIn ==
    ASSUME NEW j \in Runs, LockTyped, NEW c \in Calls, lockq'[j] = Append(lockq[j], c), NEW by
    PROVE  j \in InLock(by)' <=> j \in InLock(by) \/ c.by = by
<1> DEFINE n == Len(lockq[j])
<1>1. /\ n \in Nat /\ DOMAIN lockq[j] = 1..n /\ DOMAIN lockq'[j] = 1..(n + 1)
      /\ \A i \in 1..n : lockq'[j][i] = lockq[j][i]
      /\ lockq'[j][n + 1] = c
  BY DEF LockTyped
<1> HIDE DEF n
<1>2. (\E i \in 1..(n + 1) : lockq'[j][i].by = by) <=> (\E i \in 1..n : lockq[j][i].by = by) \/ c.by = by
  BY <1>1
<1> QED BY <1>1, <1>2 DEF InLock

LEMMA ActivateAllKeeps == ASSUME IInv, ActivateAll PROVE IInv'
<1> DEFINE c == Call("activate-stop", "origin-retired", FALSE)
<1>1. RunTyped /\ LockTyped /\ StoreTyped /\ RetryTyped /\ FlushTyped /\ StopTyped /\ Once /\ Dead
      /\ \A j \in Runs : Sound(j)
  BY Typed
<1>2. /\ UNCHANGED <<runVars, storeVars, retryVars, flushVars, turnVars, sessionVars, round, counts>>
      /\ stage = "retire" /\ stage' = "activate" /\ PassEnded
      /\ lockq' = [r \in Runs |-> IF r \in pend \ Activating THEN Append(lockq[r], c) ELSE lockq[r]]
  BY DEF ActivateAll
<1>3. UNCHANGED <<phase, mem, disk, reg, arch, queue, pend, ret, tried, flush, hand, sends, lost,
                  busy, userTurn, target, reset, round, events, fails>>
  BY <1>2 DEF runVars, storeVars, retryVars, flushVars, turnVars, sessionVars, counts
<1>4. c \in Calls /\ Kind(c) = "activate" /\ c.by = "activate-stop"  BY DEF Call, Calls, Kind
<1> HIDE DEF c
<1>5. LockTyped'  BY <1>1, <1>2, <1>4 DEF LockTyped
<1>6. RunTyped' /\ StoreTyped' /\ RetryTyped' /\ FlushTyped' /\ StopTyped' /\ Once' /\ Dead'
  BY <1>1, <1>2, <1>3 DEF RunTyped, StoreTyped, RetryTyped, FlushTyped, StopTyped, Once, Dead
<1>7. ASSUME NEW j \in Runs, j \in pend \ Activating PROVE Locked(j)' /\ Placed(j)' /\ Recorded(j)'
  <2>1. lockq'[j] = Append(lockq[j], c)  BY <1>2, <1>7
  <2>2. Locked(j) /\ Placed(j) /\ Recorded(j)  BY <1>1 DEF Sound
  <2>3. \A i \in DOMAIN lockq[j] : Kind(lockq[j][i]) # Kind(c)
    BY <1>4, <1>7 DEF Activating, InLock, Kind
  <2>4. CallSound(j, c)'
    BY <1>2, <1>3, <1>4, <1>7 DEF CallSound, c, Kind, Call
  <2>5. ASSUME NEW d \in Calls, CallSound(j, d) PROVE CallSound(j, d)'
    BY <1>2, <1>3, <2>5 DEF CallSound, Kind, Call, Asked, Queued, InHand
  <2>6. Locked(j)'  BY <1>1, <1>3, <1>4, <2>1, <2>2, <2>3, <2>4, <2>5, Joined
  <2>7. Placed(j)'  BY <1>2, <1>3, <2>2 DEF Placed, Queued, InHand, Unsent
  <2>8. Recorded(j)'  BY <1>2, <1>3, <2>2 DEF Recorded, Queued, InHand, FinalRecord
  <2> QED BY <2>6, <2>7, <2>8
<1>8. ASSUME NEW j \in Runs, j \notin pend \ Activating PROVE Locked(j)' /\ Placed(j)' /\ Recorded(j)'
  <2>1. lockq'[j] = lockq[j]  BY <1>2, <1>8
  <2>2. Apart(j)  BY <1>1, <1>2, <1>3, <2>1 DEF Apart, Queued, InHand, StopTyped
  <2> QED BY <1>6, <2>2, SoundKept
<1>9. ASSUME NEW j \in Runs PROVE Settling(j)'
  <2>1. Settling(j) /\ Recorded(j)  BY <1>1 DEF Sound
  <2>2. j \in InLock("retry")' <=> j \in InLock("retry")
    <3>1. CASE j \in pend \ Activating
      <4>1. lockq'[j] = Append(lockq[j], c)  BY <1>2, <3>1
      <4> QED BY <1>1, <1>4, <4>1, JoinedIn
    <3>2. CASE j \notin pend \ Activating
      <4>1. lockq'[j] = lockq[j]  BY <1>2, <3>2
      <4> QED BY <4>1 DEF InLock
    <3> QED BY <3>1, <3>2
  <2>3. j \in pend => j \in Activating'
    <3>1. CASE j \in pend \ Activating
      <4>1. lockq'[j] = Append(lockq[j], c)  BY <1>2, <3>1
      <4>2. j \in InLock("activate-stop")'  BY <1>1, <1>4, <4>1, JoinedIn
      <4> QED BY <4>2 DEF Activating
    <3>2. CASE j \notin pend \ Activating
      <4>1. lockq'[j] = lockq[j]  BY <1>2, <3>2
      <4> QED BY <4>1, <3>2 DEF InLock, Activating
    <3> QED BY <3>1, <3>2
  <2>4. ret[j] \in {"no", tried[j]} /\ j \notin InLock("retry")  BY <1>2 DEF PassEnded
  <2>5. ASSUME round = 2, fails = 0, Open(j) PROVE j \in lost \cup pend
    <3>1. phase[j] = "settled" /\ ~Queued(j) /\ ret[j] # "ambiguous"  BY <2>1, <2>5 DEF Settling, Open
    <3>2. flush = "idle"  BY <1>1, <2>5 DEF StopTyped
    <3>3. mem[j] \in {"queued", "waiting-for-session"}
      <4>1. j \in reg /\ mem[j] \in States \ Final /\ mem[j] # "not-ready" /\ mem[j] # "pending"
        BY <1>1, <1>2, <2>1, <2>5, <3>1 DEF Open, Recorded, RunTyped
      <4>2. mem[j] # "sending"  BY <2>1, <3>1, <3>2, <4>1 DEF Recorded, InHand
      <4> QED BY <4>1, <4>2
    <3>4. ret[j] = "no"  BY <2>1, <2>4, <2>5, <3>3 DEF Settling, Open
    <3> QED BY <2>1, <2>5, <3>1, <3>2, <3>3, <3>4 DEF Recorded, InHand, Open
  <2>6. Open(j)' = Open(j) /\ Queued(j)' = Queued(j)  BY <1>3 DEF Open, Queued
  <2> QED BY <1>2, <1>3, <2>1, <2>2, <2>3, <2>5, <2>6 DEF Settling
<1> QED BY <1>5, <1>6, <1>7, <1>8, <1>9, Assembled

LEMMA StopRunsKeeps == ASSUME IInv, StopRuns PROVE IInv'
<1> DEFINE done == {r \in reg : phase[r] = "settled" /\ mem[r] \in Final}
<1>1. RunTyped /\ LockTyped /\ StoreTyped /\ RetryTyped /\ FlushTyped /\ StopTyped /\ Once /\ Dead
      /\ \A j \in Runs : Sound(j)
  BY Typed
<1>2. /\ UNCHANGED <<phase, mem, disk, lockq, storeVars, retryVars, flushVars, turnVars, sessionVars, round, counts>>
      /\ stage = "stop-runs" /\ stage' = IF round = 1 THEN "drain" ELSE "down"
      /\ \A r \in reg : phase[r] \in {"settled", "stuck"}
      /\ arch' = arch \cup done /\ reg' = reg \ done
  BY DEF StopRuns
<1>3. UNCHANGED <<phase, mem, disk, lockq, queue, pend, ret, tried, flush, hand, sends, lost,
                  busy, userTurn, target, reset, round, events, fails>>
  BY <1>2 DEF storeVars, retryVars, flushVars, turnVars, sessionVars, counts
<1>4. RunTyped'  BY <1>1, <1>2 DEF RunTyped
<1>5. LockTyped' /\ StoreTyped' /\ RetryTyped' /\ FlushTyped' /\ StopTyped' /\ Once' /\ Dead'
  BY <1>1, <1>2, <1>3 DEF LockTyped, StoreTyped, RetryTyped, FlushTyped, StopTyped, Once, Dead
<1>6. ASSUME NEW j \in Runs PROVE Locked(j)' /\ Placed(j)' /\ Recorded(j)' /\ Settling(j)'
  <2>1. Locked(j) /\ Placed(j) /\ Recorded(j) /\ Settling(j)  BY <1>1 DEF Sound
  <2>2. ASSUME NEW d \in Calls, CallSound(j, d) PROVE CallSound(j, d)'
    BY <1>2, <1>3, <2>2 DEF CallSound, Kind, Call, Asked, Queued, InHand
  <2>3. \A i \in DOMAIN lockq[j] : lockq[j][i] \in Calls  BY <1>1 DEF LockTyped
  <2>4. (\A i \in DOMAIN lockq[j] : CallSound(j, lockq[j][i]))'  BY <1>3, <2>1, <2>2, <2>3 DEF Locked
  <2>5. Locked(j)'  BY <1>3, <2>1, <2>4 DEF Locked, Kind
  <2>6. Placed(j)'  BY <1>2, <1>3, <2>1 DEF Placed, Queued, InHand, Unsent
  <2>7. Recorded(j)'
    <3>1. FinalRecord(j)' <=> FinalRecord(j)  BY <1>3 DEF FinalRecord
    <3>2. j \in done => FinalRecord(j)  BY <2>1 DEF Recorded
    <3> QED BY <1>2, <1>3, <2>1, <3>1, <3>2 DEF Recorded, Queued, InHand
  <2>8. Settling(j)'
    <3>1. Open(j)' => Open(j)  BY <1>2, <1>3 DEF Open
    <3>2. j \in InLock("retry")' <=> j \in InLock("retry")  BY <1>3 DEF InLock
    <3>3. j \in InLock("activate")' <=> j \in InLock("activate")  BY <1>3 DEF InLock
    <3>4. Queued(j)' <=> Queued(j)  BY <1>3 DEF Queued
    <3>5. round \in {1, 2}  BY <1>1 DEF StopTyped
    <3>6. j \in reg' => j \in reg /\ phase[j] \in {"settled", "stuck"} /\ (phase[j] = "settled" => mem[j] \notin Final)
      BY <1>2
    <3> QED BY <1>2, <1>3, <2>1, <3>1, <3>2, <3>3, <3>4, <3>5, <3>6 DEF Settling
  <2> QED BY <2>5, <2>6, <2>7, <2>8
<1> QED BY <1>4, <1>5, <1>6, Assembled

LEMMA CrashKeeps == ASSUME IInv, Crash PROVE IInv'
<1>1. RunTyped /\ LockTyped /\ StoreTyped /\ RetryTyped /\ FlushTyped /\ StopTyped /\ \A j \in Runs : Sound(j)
  BY Typed
<1>2. /\ stage # "down" /\ stage' = "crashed" /\ mem' = disk /\ reg' = {} /\ lockq' = [r \in Runs |-> <<>>]
      /\ queue' = <<>> /\ pend' = {} /\ ret' = [r \in Runs |-> "no"] /\ tried' = [r \in Runs |-> "no"]
      /\ flush' = "idle" /\ busy' = FALSE /\ userTurn' = FALSE /\ target' = "gone" /\ reset' = "no" /\ Up
      /\ UNCHANGED <<phase, disk, arch, hand, sends, lost, round, events, fails>>
  BY DEF Crash, counts
<1>3. RunTyped' /\ LockTyped' /\ StoreTyped' /\ RetryTyped' /\ FlushTyped' /\ StopTyped' /\ Once' /\ Dead'
  <2>1. RunTyped' /\ RetryTyped' /\ FlushTyped'  BY <1>1, <1>2 DEF RunTyped, RetryTyped, FlushTyped
  <2>2. LockTyped' /\ StoreTyped'  BY <1>2 DEF LockTyped, StoreTyped
  <2>3. StopTyped'  BY <1>1, <1>2 DEF StopTyped
  <2>4. Once' /\ Dead'  BY <1>2 DEF Once, Dead
  <2> QED BY <2>1, <2>2, <2>3, <2>4
<1>4. ASSUME NEW j \in Runs PROVE Locked(j)' /\ Placed(j)' /\ Recorded(j)' /\ Settling(j)'
  <2>1. Placed(j) /\ Recorded(j) /\ Settling(j)  BY <1>1 DEF Sound
  <2>2. lockq'[j] = <<>> /\ ret'[j] = "no" /\ tried'[j] = "no"  BY <1>2
  <2>3. ~Queued(j)' /\ ~InHand(j)'  BY <1>2 DEF Queued, InHand
  <2>4. Locked(j)'  BY <1>2, <2>2 DEF Locked, Writing
  <2>5. Placed(j)'  BY <1>2, <2>1, <2>2, <2>3 DEF Placed
  <2>6. FinalRecord(j)' <=> FinalRecord(j)  BY <1>2 DEF FinalRecord
  <2>7. mem'[j] \in Final => FinalRecord(j)  BY <1>2 DEF FinalRecord
  <2>8. Recorded(j)'  BY <1>2, <2>1, <2>6, <2>7 DEF Recorded
  <2>9. Settling(j)'  BY <1>2, <2>1, <2>2, <2>3 DEF Settling
  <2> QED BY <2>4, <2>5, <2>8, <2>9
<1> QED BY <1>3, <1>4, Assembled

LEMMA RecoverKeeps == ASSUME IInv, NEW r \in Runs, Recover(r) PROVE IInv'
<1>1. RunTyped /\ LockTyped /\ StoreTyped /\ RetryTyped /\ FlushTyped /\ StopTyped /\ Once /\ Dead
      /\ \A j \in Runs : Sound(j)
  BY Typed
<1>2. /\ stage = "crashed" /\ r \notin arch /\ mem' = disk'
      /\ \/ disk[r] \notin Final /\ disk' = [disk EXCEPT ![r] = Recovered(@)] /\ arch' = arch
         \/ disk[r] \in Final /\ arch' = arch \cup {r} /\ disk' = disk
      /\ UNCHANGED <<phase, reg, lockq, queue, pend, ret, tried, flush, hand, sends, lost, busy, userTurn,
                     target, reset, stage, round, events, fails>>
  BY DEF Recover, storeVars, retryVars, flushVars, turnVars, sessionVars, stopVars, counts
<1>3. /\ reg = {} /\ queue = <<>> /\ pend = {} /\ flush = "idle" /\ mem = disk
      /\ \A j \in Runs : lockq[j] = <<>>
  BY <1>1, <1>2 DEF Dead
<1>4. Recovered(disk[r]) \in Final /\ (Recovered(disk[r]) = "delivered" <=> disk[r] = "delivered")
      /\ (disk[r] = "sending" => Recovered(disk[r]) = "ambiguous")
      /\ (disk[r] \in Final => Recovered(disk[r]) = disk[r])
  BY <1>1 DEF Recovered, RunTyped
<1>5. RunTyped'  BY <1>1, <1>2, <1>3, <1>4 DEF RunTyped
<1>6. LockTyped' /\ StoreTyped' /\ RetryTyped' /\ FlushTyped' /\ StopTyped' /\ Once' /\ Dead'
  BY <1>1, <1>2, <1>3 DEF LockTyped, StoreTyped, RetryTyped, FlushTyped, StopTyped, Once, Dead
<1>7. ASSUME NEW j \in Runs PROVE Locked(j)' /\ Placed(j)' /\ Recorded(j)' /\ Settling(j)'
  <2>1. Placed(j) /\ Recorded(j) /\ Settling(j)  BY <1>1 DEF Sound
  <2>2. ~Queued(j)' /\ ~InHand(j)' /\ j \notin pend'  BY <1>2, <1>3 DEF Queued, InHand
  <2>3. lockq'[j] = <<>>  BY <1>2, <1>3
  <2>4. Locked(j)'  BY <1>2, <1>3, <2>3 DEF Locked, Writing
  <2>5. Placed(j)'  BY <1>2, <2>1, <2>2 DEF Placed
  <2>6. disk'[j] = disk[j] \/ (disk[j] \notin Final /\ disk'[j] = Recovered(disk[j]) /\ j = r /\ arch' = arch)
    BY <1>1, <1>2 DEF RunTyped
  <2>7. (j \in arch' => FinalRecord(j)') /\ (mem'[j] \in Final => FinalRecord(j)')
    BY <1>2, <2>1, <2>6 DEF Recorded, FinalRecord
  <2>8. Recorded(j)'
    <3>1. sends[j] = 1 => {mem'[j], disk'[j]} \subseteq {"sending", "delivered", "ambiguous"}
      BY <1>2, <1>4, <2>1, <2>6 DEF Recorded
    <3>2. "delivered" \in {mem'[j], disk'[j]} => sends[j] = 1
      BY <1>2, <1>4, <2>1, <2>6 DEF Recorded
    <3> QED BY <1>2, <1>3, <2>7, <3>1, <3>2 DEF Recorded
  <2>9. Settling(j)'  BY <1>2, <1>3, <2>1, <2>2 DEF Settling
  <2> QED BY <2>4, <2>5, <2>8, <2>9
<1> QED BY <1>5, <1>6, <1>7, Assembled

\* The source of run r ends: nobody has asked for its lock before.
LEMMA EndRunKeeps == ASSUME IInv, NEW r \in Runs, EndRun(r) PROVE IInv'
<1>1. RunTyped /\ LockTyped /\ StoreTyped /\ RetryTyped /\ FlushTyped /\ StopTyped /\ Once /\ Dead
      /\ \A j \in Runs : Sound(j)
  BY Typed
<1>2. PICK c \in {DeliveryCall, Call("run", "pending", FALSE)} :
        /\ Up /\ phase[r] = "running" /\ phase' = [phase EXCEPT ![r] = "complete"]
        /\ lockq' = [lockq EXCEPT ![r] = Append(@, c)]
        /\ \/ /\ mem' = [mem EXCEPT ![r] = "pending"] /\ disk' = [disk EXCEPT ![r] = "pending"]
              /\ UNCHANGED <<events, fails>>
           \/ /\ mem' = [mem EXCEPT ![r] = "failed-to-persist"]
              /\ disk' = disk \/ disk' = [disk EXCEPT ![r] = "pending"]
              /\ events' = events + 1 /\ fails' = fails + 1 /\ c = Call("run", "pending", FALSE)
        /\ UNCHANGED <<reg, arch, queue, pend, ret, tried, flush, hand, sends, lost, busy, userTurn,
                       target, reset, stage, round>>
  BY DEF EndRun, Asks, storeVars, retryVars, flushVars, turnVars, sessionVars, stopVars, counts
<1>3. /\ c \in Calls /\ Kind(c) = "own"
      /\ c.by = "deliver" => /\ \E state \in {"origin-retired", "queued", "waiting-for-session"} : c = Call("deliver", state, FALSE)
                             /\ mem'[r] = "pending"
      /\ c.by # "deliver" => c = Call("run", "pending", FALSE)
      /\ c.by \in {"deliver", "run"}
  <2>1. \E state \in {"origin-retired", "queued", "waiting-for-session"} : DeliveryCall = Call("deliver", state, FALSE)
    BY DEF DeliveryCall
  <2>2. c = Call("run", "pending", FALSE) \/ (mem'[r] = "pending"
         /\ \E state \in {"origin-retired", "queued", "waiting-for-session"} : c = Call("deliver", state, FALSE))
    BY <1>1, <1>2, <2>1 DEF RunTyped
  <2>3. CASE c = Call("run", "pending", FALSE)  BY <2>3 DEF Call, Calls, Kind
  <2>4. CASE c # Call("run", "pending", FALSE)
    <3>1. PICK state \in {"origin-retired", "queued", "waiting-for-session"} : c = Call("deliver", state, FALSE)  BY <2>2, <2>4
    <3>2. c \in Calls /\ c.by = "deliver"  BY <3>1 DEF Call, Calls
    <3> QED BY <2>2, <2>4, <3>1, <3>2 DEF Kind
  <2> QED BY <2>3, <2>4
<1>4. RunTyped' /\ LockTyped'
  <2>1. mem' \in [Runs -> States] /\ disk' \in [Runs -> States]  BY <1>1, <1>2 DEF RunTyped
  <2>2. RunTyped'  BY <1>1, <1>2, <2>1 DEF RunTyped
  <2>3. lockq' = [lockq EXCEPT ![r] = Append(@, c)]  BY <1>2
  <2> QED BY <1>1, <1>3, <2>2, <2>3 DEF LockTyped
<1>15. (events' = events /\ fails' = fails) \/ (events' = events + 1 /\ fails' = fails + 1)
  BY <1>2, Zenon
<1>5. StoreTyped' /\ RetryTyped' /\ FlushTyped' /\ StopTyped' /\ Once' /\ Dead'
  <2>1. UNCHANGED <<queue, pend, ret, tried, flush, hand, sends, lost, busy, userTurn, target, reset, stage, round>> /\ Up
    BY <1>2
  <2>2. StoreTyped' /\ RetryTyped' /\ FlushTyped' /\ Once' /\ Dead'
    BY <1>1, <2>1 DEF StoreTyped, RetryTyped, FlushTyped, Once, Dead
  <2>3. events' \in Nat /\ fails' \in Nat  BY <1>1, <1>15 DEF StopTyped
  <2> QED BY <1>1, <2>1, <2>2, <2>3 DEF StopTyped
<1>6. ASSUME NEW j \in Runs, j # r PROVE Apart(j)
  <2>1. lockq'[j] = lockq[j] /\ phase'[j] = phase[j] /\ mem'[j] = mem[j] /\ disk'[j] = disk[j]
    BY <1>1, <1>2, <1>6 DEF RunTyped, LockTyped
  <2>2. fails <= fails'  BY <1>1, <1>15 DEF StopTyped
  <2> QED BY <1>1, <1>2, <2>1, <2>2 DEF Apart, Queued, InHand
<1>7. /\ Locked(r) /\ Placed(r) /\ Recorded(r) /\ Settling(r) /\ r \in reg /\ r \notin arch
      /\ sends[r] = 0 /\ ret[r] = "no" /\ tried[r] = "no" /\ ~Queued(r) /\ r \notin pend /\ ~InHand(r)
  BY <1>1, <1>2 DEF Sound, Placed, Recorded, RunTyped
<1>8. lockq'[r] = Append(lockq[r], c) /\ phase'[r] = "complete" /\ ~Queued(r)' /\ ~InHand(r)'
  BY <1>1, <1>2, <1>7 DEF LockTyped, RunTyped, Queued, InHand
<1>9. ASSUME NEW d \in Calls, CallSound(r, d) PROVE FALSE
  BY <1>2, <1>7, <1>9 DEF CallSound, Kind, Call, Calls, InHand, Writing
<1>10. Locked(r)'
  <2>1. \A i \in DOMAIN lockq[r] : lockq[r][i] \in Calls /\ CallSound(r, lockq[r][i])
    BY <1>1, <1>7 DEF LockTyped, Locked
  <2>2. CallSound(r, c)'
    BY <1>2, <1>3, <1>7, <1>8 DEF CallSound, Kind
  <2>3. \A i \in DOMAIN lockq[r] : Kind(lockq[r][i]) # Kind(c)  BY <1>9, <2>1
  <2>4. c.by # "flush"  BY <1>3
  <2> QED BY <1>1, <1>2, <1>3, <1>7, <1>8, <1>9, <2>2, <2>3, <2>4, Joined
<1>11. Placed(r)'  BY <1>2, <1>7, <1>8 DEF Placed
<1>12. Recorded(r)'
  <2>1. mem'[r] \in {"pending", "failed-to-persist"} /\ disk'[r] \in {disk[r], "pending"}
    BY <1>1, <1>2 DEF RunTyped
  <2> QED BY <1>2, <1>7, <1>8, <2>1 DEF Recorded
<1>13. Settling(r)'
  BY <1>2, <1>7, <1>8 DEF Settling
<1>14. ASSUME NEW j \in Runs PROVE Locked(j)' /\ Placed(j)' /\ Recorded(j)' /\ Settling(j)'
  <2>1. CASE j = r  BY <1>10, <1>11, <1>12, <1>13, <2>1
  <2>2. CASE j # r  BY <1>2, <1>5, <1>6, <2>2, SoundKept
  <2> QED BY <2>1, <2>2
<1> QED BY <1>4, <1>5, <1>14, Assembled

\* A completion that waited for its session joins the queue, or is retired.
LEMMA ActivateKeeps == ASSUME IInv, NEW r \in Runs, Activate(r) PROVE IInv'
<1> DEFINE c == Call("activate", "origin-retired", FALSE)
<1>1. RunTyped /\ LockTyped /\ StoreTyped /\ RetryTyped /\ FlushTyped /\ StopTyped /\ Once /\ Dead
      /\ \A j \in Runs : Sound(j)
  BY Typed
<1>2. /\ stage = "up" /\ r \in pend
      /\ UNCHANGED <<phase, mem, disk, reg, arch, ret, tried, flush, hand, sends, lost, busy, userTurn,
                     target, reset, stage, round, events, fails>>
      /\ \/ Exact /\ pend' = pend \ {r} /\ queue' = Append(queue, r) /\ UNCHANGED lockq
         \/ target = "gone" /\ r \notin Activating /\ lockq' = [lockq EXCEPT ![r] = Append(@, c)] /\ UNCHANGED <<queue, pend>>
  BY DEF Activate, Asks, runVars, storeVars, retryVars, flushVars, turnVars, sessionVars, stopVars, counts
<1>3. c \in Calls /\ Kind(c) = "activate" /\ c.by = "activate"  BY DEF Call, Calls, Kind
<1> HIDE DEF c
<1>4. /\ Locked(r) /\ Placed(r) /\ Recorded(r) /\ Settling(r)
      /\ phase[r] # "running" /\ sends[r] = 0 /\ ret[r] = "no" /\ tried[r] = "no" /\ ~InHand(r) /\ ~Queued(r)
      /\ target # "gone" => mem[r] = "waiting-for-session"
  BY <1>1, <1>2 DEF Sound, Placed
<1>5. RunTyped' /\ LockTyped' /\ StoreTyped' /\ RetryTyped' /\ FlushTyped' /\ StopTyped' /\ Dead'
  <2>1. RunTyped' /\ RetryTyped' /\ FlushTyped' /\ StopTyped' /\ Dead'
    BY <1>1, <1>2 DEF RunTyped, RetryTyped, FlushTyped, StopTyped, Dead
  <2>2. LockTyped'  BY <1>1, <1>2, <1>3 DEF LockTyped
  <2>3. StoreTyped'  BY <1>1, <1>2 DEF StoreTyped
  <2> QED BY <2>1, <2>2, <2>3
<1>6. Once'  BY <1>1, <1>2, <1>4 DEF Once, StoreTyped, Queued
<1>7. ASSUME NEW j \in Runs, j # r PROVE Apart(j)
  <2>1. (Queued(j)' <=> Queued(j)) /\ (Queued(j) /\ queue[1] = j => queue'[1] = j)
    BY <1>1, <1>2, <1>7 DEF Queued, StoreTyped
  <2>2. lockq'[j] = lockq[j] /\ (j \in pend' <=> j \in pend)  BY <1>1, <1>2, <1>7 DEF LockTyped
  <2> QED BY <1>1, <1>2, <2>1, <2>2 DEF Apart, InHand, StopTyped
<1>8. CASE Exact
  <2>1. lockq' = lockq /\ pend' = pend \ {r} /\ queue' = Append(queue, r) /\ target = "current"  BY <1>2, <1>8
  <2>2. Queued(r)' /\ ~InHand(r)'  BY <1>1, <1>2, <1>4, <2>1 DEF Queued, InHand, StoreTyped
  <2>3. ASSUME NEW d \in Calls, CallSound(r, d) PROVE CallSound(r, d)'
    <3>1. d.by = "run"
      BY <1>2, <1>4, <2>1, <2>3 DEF CallSound, Kind, Calls, Writing, InHand
    <3> QED BY <1>2, <2>3, <3>1 DEF CallSound, Kind
  <2>4. \A i \in DOMAIN lockq[r] : lockq[r][i] \in Calls  BY <1>1 DEF LockTyped
  <2>5. (\A i \in DOMAIN lockq[r] : CallSound(r, lockq[r][i]))'  BY <1>4, <2>1, <2>3, <2>4 DEF Locked
  <2>6. Locked(r)'  BY <1>2, <1>4, <2>1, <2>5 DEF Locked, Kind
  <2>7. Placed(r)'  BY <1>2, <1>4, <2>1, <2>2 DEF Placed, Unsent
  <2>8. Recorded(r)'  BY <1>2, <1>4, <2>1, <2>2 DEF Recorded, FinalRecord
  <2>9. Settling(r)'
    <3>1. round = 1  BY <1>1, <1>2 DEF StopTyped
    <3> QED BY <1>2, <1>4, <2>1, <3>1 DEF Settling, InLock
  <2> QED BY <2>6, <2>7, <2>8, <2>9, <1>2, <1>5, <1>6, <1>7, SoundKept, Assembled
<1>9. CASE ~Exact
  <2>1. lockq'[r] = Append(lockq[r], c) /\ UNCHANGED <<queue, pend>> /\ target = "gone" /\ r \notin Activating
    BY <1>1, <1>2, <1>9 DEF LockTyped
  <2>2. \A i \in DOMAIN lockq[r] : Kind(lockq[r][i]) # Kind(c)
    BY <1>3, <2>1 DEF Activating, InLock, Kind
  <2>3. CallSound(r, c)'  BY <1>2, <1>3, <2>1 DEF CallSound, c, Kind, Call
  <2>4. ASSUME NEW d \in Calls, CallSound(r, d) PROVE CallSound(r, d)'
    BY <1>2, <2>1, <2>4 DEF CallSound, Kind, Call, Asked, Queued, InHand
  <2>5. Locked(r)'  BY <1>1, <1>2, <1>3, <1>4, <2>1, <2>2, <2>3, <2>4, Joined
  <2>6. Placed(r)'  BY <1>2, <1>4, <2>1 DEF Placed, Unsent, Queued, InHand
  <2>7. Recorded(r)'  BY <1>2, <1>4, <2>1 DEF Recorded, FinalRecord, Queued, InHand
  <2>8. Settling(r)'
    <3>1. round = 1  BY <1>1, <1>2 DEF StopTyped
    <3>2. r \in InLock("retry")' <=> r \in InLock("retry")  BY <1>1, <1>3, <2>1, JoinedIn
    <3> QED BY <1>2, <1>4, <2>1, <3>1, <3>2 DEF Settling
  <2> QED BY <2>5, <2>6, <2>7, <2>8, <1>2, <1>5, <1>6, <1>7, SoundKept, Assembled
<1> QED BY <1>8, <1>9

LEMMA AttemptKeeps == ASSUME IInv, NEW r \in Runs, Attempt(r) PROVE IInv'
<1>0. PICK c : c = Call("retry", ret[r], FALSE)  OBVIOUS
<1>1. RunTyped /\ LockTyped /\ StoreTyped /\ RetryTyped /\ FlushTyped /\ StopTyped /\ Once /\ Dead
      /\ \A j \in Runs : Sound(j)
  BY Typed
<1>2. /\ Up /\ ret[r] \notin {"no", tried[r]} /\ r \notin InLock("retry")
      /\ tried' = [tried EXCEPT ![r] = ret[r]] /\ lockq' = [lockq EXCEPT ![r] = Append(@, c)]
      /\ UNCHANGED <<phase, mem, disk, reg, arch, queue, pend, ret, flush, hand, sends, lost, busy, userTurn,
                     target, reset, stage, round, events, fails>>
  BY <1>0 DEF Attempt, Asks, runVars, storeVars, retryVars, flushVars, turnVars, sessionVars, stopVars, counts
<1>3. c \in Calls /\ Kind(c) = "retry" /\ c.by = "retry"  BY <1>0, <1>1, <1>2 DEF Call, Calls, Kind, RetryTyped
<1>4. Locked(r) /\ Placed(r) /\ Recorded(r) /\ Settling(r)  BY <1>1 DEF Sound
<1>5. lockq'[r] = Append(lockq[r], c) /\ tried'[r] = ret[r]  BY <1>1, <1>2 DEF LockTyped, RetryTyped
<1>6. RunTyped' /\ LockTyped' /\ StoreTyped' /\ RetryTyped' /\ FlushTyped' /\ StopTyped' /\ Once' /\ Dead'
  <2>1. RunTyped' /\ StoreTyped' /\ FlushTyped' /\ StopTyped' /\ Once'
    BY <1>1, <1>2 DEF RunTyped, StoreTyped, FlushTyped, StopTyped, Once
  <2>2. RetryTyped'  BY <1>1, <1>2 DEF RetryTyped
  <2>3. LockTyped'  BY <1>1, <1>2, <1>3 DEF LockTyped
  <2> QED BY <1>2, <2>1, <2>2, <2>3 DEF Dead
<1>7. ASSUME NEW j \in Runs, j # r PROVE Apart(j)
  BY <1>1, <1>2, <1>7 DEF Apart, Queued, InHand, RetryTyped, LockTyped, StopTyped
<1>8. Locked(r)'
  <2>1. \A i \in DOMAIN lockq[r] : Kind(lockq[r][i]) # Kind(c)  BY <1>2, <1>3 DEF InLock, Kind
  <2>2. CallSound(r, c)'
    <3>1. c = Call("retry", tried'[r], FALSE) /\ tried'[r] # "no"  BY <1>0, <1>2, <1>5
    <3> QED BY <1>3, <3>1 DEF CallSound
  <2>3. ASSUME NEW d \in Calls, CallSound(r, d), Kind(d) # Kind(c) PROVE CallSound(r, d)'
    BY <1>2, <1>3, <2>3 DEF CallSound, Kind, Call, Asked, Queued, InHand
  <2> QED BY <1>1, <1>2, <1>3, <1>4, <1>5, <2>1, <2>2, <2>3, Joined
<1>9. Placed(r)'  BY <1>2, <1>4, <1>5 DEF Placed, Queued, InHand, Unsent
<1>10. Recorded(r)'  BY <1>2, <1>4 DEF Recorded, Queued, InHand, FinalRecord
<1>11. Settling(r)'
  <2>1. r \in InLock("retry")'  BY <1>1, <1>3, <1>5, JoinedIn
  <2>3. r \in InLock("activate")' <=> r \in InLock("activate")  BY <1>1, <1>3, <1>5, JoinedIn
  <2>4. r \in InLock("activate-stop")' <=> r \in InLock("activate-stop")  BY <1>1, <1>3, <1>5, JoinedIn
  <2>2. (r \in Activating' <=> r \in Activating) /\ r \in InLock("retry")'
        /\ (r \in InLock("activate")' <=> r \in InLock("activate"))
    BY <2>1, <2>3, <2>4 DEF Activating
  <2> QED BY <1>2, <1>4, <1>5, <2>2 DEF Settling, Open, Queued
<1>12. ASSUME NEW j \in Runs PROVE Locked(j)' /\ Placed(j)' /\ Recorded(j)' /\ Settling(j)'
  <2>1. CASE j = r  BY <1>8, <1>9, <1>10, <1>11, <2>1
  <2>2. CASE j # r  BY <1>2, <1>6, <1>7, <2>2, SoundKept
  <2> QED BY <2>1, <2>2
<1> QED BY <1>6, <1>12, Assembled

-----------------------------------------------------------------------------
\* The lock of a run as a sequence of calls.

Apt(s) == \A i, k \in DOMAIN s : Kind(s[i]) = Kind(s[k]) => i = k
Lags(s) == \E i, k \in DOMAIN s : i < k /\ s[i].by = "retry" /\ s[k].by = "flush"

LEMMA Relocked ==
    ASSUME NEW j \in Runs, NEW s \in Seq(Calls), lockq'[j] = s, Apt(s), \A i \in DOMAIN s : CallSound(j, s[i])',
           Lags(s) => flush' \notin {"retiring", "sending"},
           hand' = j /\ flush' \in Writing => \E i \in DOMAIN s : s[i].by = "flush"
    PROVE  Locked(j)'
<1>1. (\A i \in DOMAIN lockq[j] : CallSound(j, lockq[j][i]))'
  OBVIOUS
<1>2. (\A i, k \in DOMAIN lockq[j] : Kind(lockq[j][i]) = Kind(lockq[j][k]) => i = k)'  BY DEF Apt, Kind
<1>3. (\A i, k \in DOMAIN lockq[j] :
         i < k /\ lockq[j][i].by = "retry" /\ lockq[j][k].by = "flush" => flush \notin {"retiring", "sending"})'
  BY DEF Lags
<1>4. (hand = j /\ flush \in Writing => \E i \in DOMAIN lockq[j] : lockq[j][i].by = "flush")'  BY DEF Writing
<1> QED BY <1>1, <1>2, <1>3, <1>4 DEF Locked

LEMMA Grown ==
    ASSUME NEW s \in Seq(Calls), NEW c \in Calls, Apt(s), \A i \in DOMAIN s : Kind(s[i]) # Kind(c), NEW t, t = Append(s, c)
    PROVE  /\ t \in Seq(Calls) /\ Apt(t)
           /\ \A i \in DOMAIN t : t[i] = c \/ \E k \in DOMAIN s : t[i] = s[k]
           /\ \E i \in DOMAIN t : t[i] = c
           /\ \A i \in DOMAIN s : i \in DOMAIN t /\ t[i] = s[i]
           /\ Lags(t) => Lags(s) \/ \E i \in DOMAIN s : s[i].by = "retry"
<1> DEFINE n == Len(s)
<1>1. /\ n \in Nat /\ DOMAIN s = 1..n /\ DOMAIN t = 1..(n + 1) /\ t \in Seq(Calls)
      /\ (\A i \in 1..n : t[i] = s[i]) /\ t[n + 1] = c
  OBVIOUS
<1> HIDE DEF n
<1>2. \A i, k \in 1..n : Kind(s[i]) = Kind(s[k]) => i = k  BY <1>1 DEF Apt
<1>3. \A i \in 1..n : Kind(s[i]) # Kind(c)  BY <1>1
<1>4. Apt(t)
  <2>1. ASSUME NEW i \in 1..(n + 1), NEW k \in 1..(n + 1), Kind(t[i]) = Kind(t[k]) PROVE i = k
    <3>1. i \in 1..n \/ i = n + 1  BY <1>1
    <3>2. k \in 1..n \/ k = n + 1  BY <1>1
    <3> QED BY <1>1, <1>2, <1>3, <2>1, <3>1, <3>2
  <2> QED BY <1>1, <2>1 DEF Apt
<1>5. \A i \in 1..(n + 1) : t[i] = c \/ (i \in 1..n /\ t[i] = s[i])  BY <1>1
<1>6. Lags(t) => Lags(s) \/ \E i \in DOMAIN s : s[i].by = "retry"
  <2>1. ASSUME NEW i \in 1..(n + 1), NEW k \in 1..(n + 1), i < k, t[i].by = "retry" PROVE \E m \in DOMAIN s : s[m].by = "retry"
    <3>1. i \in 1..n  BY <1>1, <2>1
    <3> QED BY <1>1, <2>1, <3>1
  <2> QED BY <1>1, <2>1 DEF Lags
<1>7. (\E i \in DOMAIN t : t[i] = c) /\ \A i \in DOMAIN s : i \in DOMAIN t /\ t[i] = s[i]
  <2>1. n + 1 \in 1..(n + 1)  BY <1>1
  <2> QED BY <1>1, <2>1
<1> QED BY <1>1, <1>4, <1>5, <1>6, <1>7

LEMMA Shrunk ==
    ASSUME NEW s \in Seq(Calls), s # <<>>, Apt(s), NEW t, t = Tail(s)
    PROVE  /\ t \in Seq(Calls) /\ Apt(t) /\ Head(s) \in Calls /\ Head(s) = s[1] /\ 1 \in DOMAIN s
           /\ \A i \in DOMAIN t : Kind(t[i]) # Kind(Head(s)) /\ \E k \in DOMAIN s : t[i] = s[k]
           /\ Lags(t) => Lags(s)
           /\ Head(s).by = "retry" /\ (\E i \in DOMAIN t : t[i].by = "flush") => Lags(s)
<1> DEFINE n == Len(t)
<1>1. /\ n \in Nat /\ DOMAIN t = 1..n /\ DOMAIN s = 1..(n + 1) /\ t \in Seq(Calls) /\ Head(s) = s[1] /\ Head(s) \in Calls
      /\ \A i \in 1..n : t[i] = s[i + 1]
  OBVIOUS
<1> HIDE DEF n
<1>2. 1 \in DOMAIN s /\ \A i \in 1..n : i + 1 \in DOMAIN s /\ i + 1 # 1  BY <1>1
<1>3. \A i, k \in DOMAIN s : Kind(s[i]) = Kind(s[k]) => i = k  BY DEF Apt
<1>4. Apt(t)
  <2>1. ASSUME NEW i \in 1..n, NEW k \in 1..n, Kind(t[i]) = Kind(t[k]) PROVE i = k
    <3>1. i + 1 = k + 1  BY <1>1, <1>2, <1>3, <2>1
    <3> QED BY <1>1, <3>1
  <2> QED BY <1>1, <2>1 DEF Apt
<1>5. \A i \in 1..n : Kind(t[i]) # Kind(Head(s))  BY <1>1, <1>2, <1>3
<1>7. Lags(t) => Lags(s)
  <2>1. ASSUME NEW i \in 1..n, NEW k \in 1..n, i < k, t[i].by = "retry", t[k].by = "flush" PROVE Lags(s)
    <3>1. i + 1 < k + 1 /\ s[i + 1].by = "retry" /\ s[k + 1].by = "flush"  BY <1>1, <2>1
    <3> QED BY <1>2, <3>1 DEF Lags
  <2> QED BY <1>1, <2>1 DEF Lags
<1>8. ASSUME NEW i \in 1..n, Head(s).by = "retry", t[i].by = "flush" PROVE Lags(s)
  <2>1. 1 < i + 1 /\ s[1].by = "retry" /\ s[i + 1].by = "flush"  BY <1>1, <1>8
  <2> QED BY <1>2, <2>1 DEF Lags
<1>9. \A i \in 1..n : \E k \in DOMAIN s : t[i] = s[k]  BY <1>1, <1>2
<1> QED BY <1>1, <1>2, <1>4, <1>5, <1>7, <1>8, <1>9

\* The loop takes the first prompt: one that was typed, or a completion, for which
\* nobody but #executeRun can be waiting.
LEMMA FlushNextKeeps == ASSUME IInv, FlushNext PROVE IInv'
<1>1. RunTyped /\ LockTyped /\ StoreTyped /\ RetryTyped /\ FlushTyped /\ StopTyped /\ Once /\ Dead
      /\ \A j \in Runs : Sound(j)
  BY Typed
<1>0. PICK h : h = Head(queue)  OBVIOUS
<1>2. /\ stage = "up" /\ flush = "idle" /\ queue # <<>> /\ hand' = h
      /\ UNCHANGED <<runVars, pend, retryVars, sends, lost, sessionVars, stopVars, counts>>
      /\ \/ h = User /\ busy' = TRUE /\ userTurn' = TRUE /\ queue' = Tail(queue) /\ flush' = "user" /\ UNCHANGED lockq
         \/ /\ h # User /\ flush' \in {"sending", "retiring"} /\ UNCHANGED <<turnVars, queue>>
            /\ lockq' = [lockq EXCEPT ![h] =
                 Append(@, Call("flush", IF flush' = "sending" THEN "sending" ELSE "origin-retired", FALSE))]
  BY <1>0 DEF FlushNext, FlushAsks, Asks
<1>3. h \in Runs \cup {User} /\ queue[1] = h /\ 1 \in DOMAIN queue /\ round = 1
  BY <1>0, <1>1, <1>2 DEF StoreTyped, StopTyped
<1>4. UNCHANGED <<phase, mem, disk, reg, arch, pend, ret, tried, sends, lost, target, reset, stage, round, events, fails>>
  BY <1>2 DEF runVars, retryVars, sessionVars, stopVars, counts
<1>5. CASE h = User
  <2>1. busy' = TRUE /\ userTurn' = TRUE /\ queue' = Tail(queue) /\ flush' = "user" /\ UNCHANGED lockq  BY <1>2, <1>5
  <2>2. RunTyped' /\ LockTyped' /\ RetryTyped' /\ FlushTyped' /\ StopTyped' /\ Dead'
    BY <1>1, <1>2, <1>3, <1>4, <2>1 DEF RunTyped, LockTyped, RetryTyped, FlushTyped, StopTyped, Dead
  <2>3. StoreTyped' /\ Once'  BY <1>1, <1>2, <1>4, <2>1 DEF StoreTyped, Once
  <2>4. ASSUME NEW j \in Runs PROVE Apart(j)
    <3>1. Queued(j)' => Queued(j)  BY <1>1, <1>2, <2>1 DEF StoreTyped, Queued
    <3>2. Queued(j) => Queued(j)'
      <4> SUFFICES ASSUME NEW i \in DOMAIN queue, queue[i] = j PROVE \E k \in DOMAIN queue' : queue'[k] = j  BY DEF Queued
      <4>1. i # 1  BY <1>3, <1>5
      <4>2. i - 1 \in DOMAIN queue' /\ queue'[i - 1] = queue[i]  BY <1>1, <1>2, <2>1, <4>1 DEF StoreTyped
      <4> QED BY <4>2
    <3>3. queue[1] # j  BY <1>3, <1>5
    <3>4. ~InHand(j) /\ ~InHand(j)'  BY <1>2, <2>1 DEF InHand
    <3> QED BY <1>1, <1>4, <2>1, <3>1, <3>2, <3>3, <3>4 DEF Apart, StopTyped
  <2> QED BY <1>4, <2>2, <2>3, <2>4, SoundKept, Assembled
<1>6. CASE h # User
  <2>1. PICK c : c = Call("flush", IF flush' = "sending" THEN "sending" ELSE "origin-retired", FALSE)  OBVIOUS
  <2>2. h \in Runs /\ flush' \in {"sending", "retiring"} /\ UNCHANGED <<busy, userTurn, queue>> /\ hand' = h
        /\ lockq' = [lockq EXCEPT ![h] = Append(@, c)]
    BY <1>2, <1>3, <1>6, <2>1 DEF turnVars
  <2>3. c \in Calls /\ Kind(c) = "flush" /\ c.by = "flush"  BY <2>1 DEF Call, Calls, Kind
  <2>4. c = Asked'  BY <2>1, <2>2 DEF Asked, Call
  <2>5. RunTyped' /\ LockTyped' /\ StoreTyped' /\ RetryTyped' /\ FlushTyped' /\ StopTyped' /\ Once' /\ Dead'
    <3>1. RunTyped' /\ RetryTyped' /\ FlushTyped' /\ StopTyped' /\ Dead'
      BY <1>1, <1>2, <1>3, <1>4, <2>2 DEF RunTyped, RetryTyped, FlushTyped, StopTyped, Dead
    <3>2. LockTyped'  BY <1>1, <2>2, <2>3 DEF LockTyped
    <3> QED BY <1>1, <1>4, <2>2, <3>1, <3>2 DEF StoreTyped, Once
  <2>6. ASSUME NEW j \in Runs, j # h PROVE Apart(j)
    <3>1. lockq'[j] = lockq[j]  BY <1>1, <2>2, <2>6 DEF LockTyped
    <3>2. ~InHand(j) /\ ~InHand(j)'  BY <1>2, <2>2, <2>6 DEF InHand
    <3> QED BY <1>1, <1>4, <2>2, <3>1, <3>2 DEF Apart, Queued, StopTyped
  <2>7. /\ Locked(h) /\ Placed(h) /\ Recorded(h) /\ Settling(h) /\ Queued(h) /\ ~InHand(h) /\ InHand(h)' /\ Queued(h)'
        /\ ret[h] = "no" /\ tried[h] = "no" /\ sends[h] = 0 /\ Unsent(h) /\ h \notin pend /\ phase[h] # "running"
    BY <1>1, <1>2, <1>3, <2>2 DEF Sound, Placed, Queued, InHand
  <2>8. Locked(h)'
    <3>1. PICK s \in Seq(Calls) : s = lockq[h]  BY <1>1, <2>2 DEF LockTyped
    <3>2. PICK t : t = Append(s, c)  OBVIOUS
    <3>3. lockq'[h] = t  BY <1>1, <2>2, <3>1, <3>2 DEF LockTyped
    <3>4. \A i \in DOMAIN s : s[i] \in Calls /\ CallSound(h, s[i])  BY <2>7, <3>1 DEF Locked
    <3>5. ASSUME NEW d \in Calls, CallSound(h, d) PROVE d.by = "run" /\ CallSound(h, d)'
      <4>1. d.by = "run"  BY <1>2, <2>7, <3>5 DEF CallSound, Kind, Calls, Writing
      <4> QED BY <1>4, <3>5, <4>1 DEF CallSound, Kind
    <3>6. Apt(s)  BY <2>7, <3>1 DEF Locked, Apt
    <3>7. \A i \in DOMAIN s : s[i].by = "run" /\ Kind(s[i]) # Kind(c)  BY <2>3, <3>4, <3>5 DEF Kind
    <3>8. CallSound(h, c)'  BY <2>2, <2>3, <2>4 DEF CallSound, Writing
    <3>9. /\ t \in Seq(Calls) /\ Apt(t)
          /\ \A i \in DOMAIN t : t[i] = c \/ \E k \in DOMAIN s : t[i] = s[k]
          /\ \E i \in DOMAIN t : t[i] = c
          /\ Lags(t) => Lags(s) \/ \E i \in DOMAIN s : s[i].by = "retry"
      <4>1. c \in Calls /\ t = Append(s, c) /\ Apt(s) /\ \A i \in DOMAIN s : Kind(s[i]) # Kind(c)
        BY <2>3, <3>2, <3>6, <3>7
      <4>2. t \in Seq(Calls) /\ Apt(t)  BY <4>1, <3>1, Grown
      <4>3. \A i \in DOMAIN t : t[i] = c \/ \E k \in DOMAIN s : t[i] = s[k]  BY <4>1, <3>1, Grown
      <4>4. \E i \in DOMAIN t : t[i] = c  BY <4>1, <3>1, Grown
      <4>5. Lags(t) => Lags(s) \/ \E i \in DOMAIN s : s[i].by = "retry"  BY <4>1, <3>1, Grown
      <4> QED BY <4>2, <4>3, <4>4, <4>5
    <3>10. ~Lags(t)  BY <3>7, <3>9 DEF Lags
    <3>11. \A i \in DOMAIN t : CallSound(h, t[i])'
      <4>1. ASSUME NEW i \in DOMAIN t PROVE CallSound(h, t[i])'
        <5>1. t[i] \in Calls  BY <3>9
        <5>2. CASE t[i] = c
          <6>1. ASSUME NEW d, d = c PROVE CallSound(h, d)'  BY <3>8, <6>1
          <6> QED BY <5>2, <6>1
        <5>3. CASE t[i] # c  BY <3>4, <3>5, <3>9, <5>1, <5>3
        <5> QED BY <5>2, <5>3
      <4> QED BY <4>1
    <3>12. \E i \in DOMAIN t : t[i].by = "flush"  BY <2>3, <3>9
    <3> QED BY <2>2, <3>3, <3>9, <3>10, <3>11, <3>12, Relocked
  <2>9. Placed(h)'
    <3>1. Unsent(h)'  BY <1>4, <2>7 DEF Unsent
    <3>2. queue'[1] = h  BY <1>3, <2>2
    <3> QED BY <1>4, <2>2, <2>7, <3>1, <3>2 DEF Placed
  <2>10. Recorded(h)'
    BY <1>4, <2>2, <2>7 DEF Recorded, FinalRecord, Unsent
  <2>11. Settling(h)'  BY <1>2, <1>3, <1>4, <2>7 DEF Settling
  <2>12. ASSUME NEW j \in Runs PROVE Locked(j)' /\ Placed(j)' /\ Recorded(j)' /\ Settling(j)'
    <3>1. CASE j = h  BY <2>8, <2>9, <2>10, <2>11, <3>1
    <3>2. CASE j # h  BY <1>4, <2>5, <2>6, <3>2, SoundKept
    <3> QED BY <3>1, <3>2
  <2> QED BY <2>5, <2>12, Assembled
<1> QED BY <1>5, <1>6

\* A turn with a completion has ended: the loop waits for a new session, or asks
\* for the last write.
LEMMA AfterTurn ==
    ASSUME IInv, NEW h \in Runs, hand = h, hand' = h, flush \in {"turn", "switched"}, StopTyped', Up,
           \/ flush' = "switched" /\ lockq' = lockq
           \/ /\ flush' \in {"delivering", "ambiguating"}
              /\ lockq' = [lockq EXCEPT ![h] =
                   Append(@, Call("flush", IF flush' = "delivering" THEN "delivered" ELSE "ambiguous", FALSE))],
           UNCHANGED <<runVars, pend, retryVars, sends, lost, stopVars, counts>>,
           target = "gone" => target' = "gone",
           \A j \in Runs : Queued(j)' <=> Queued(j), \A j \in Runs : Queued(j) /\ queue[1] = j => queue'[1] = j
    PROVE  /\ RunTyped' /\ LockTyped' /\ RetryTyped' /\ FlushTyped'
           /\ \A j \in Runs : Locked(j)' /\ Placed(j)' /\ Recorded(j)' /\ Settling(j)'
<1>1. RunTyped /\ LockTyped /\ StoreTyped /\ RetryTyped /\ FlushTyped /\ StopTyped /\ \A j \in Runs : Sound(j)
  BY Typed
<1>2. UNCHANGED <<phase, mem, disk, reg, arch, pend, ret, tried, sends, lost, stage, round, events, fails>>
  BY DEF runVars, retryVars, stopVars, counts
<1>3. PICK c :
        /\ c = Call("flush", IF flush' = "delivering" THEN "delivered" ELSE "ambiguous", FALSE)
        /\ \/ lockq' = lockq /\ flush' = "switched"
           \/ lockq' = [lockq EXCEPT ![h] = Append(@, c)] /\ flush' \in {"delivering", "ambiguating"}
  OBVIOUS
<1>4. c \in Calls /\ Kind(c) = "flush" /\ c.by = "flush"  BY <1>3 DEF Call, Calls, Kind
<1>5. \/ lockq' = lockq /\ flush' = "switched"
      \/ lockq' = [lockq EXCEPT ![h] = Append(@, c)] /\ flush' \in {"delivering", "ambiguating"} /\ c = Asked'
  <2>1. flush' = "delivering" => c = Asked'  BY <1>3 DEF Asked, Call
  <2>2. flush' = "ambiguating" => c = Asked'  BY <1>3 DEF Asked, Call
  <2> QED BY <1>3, <2>1, <2>2
<1>6. RunTyped' /\ RetryTyped' /\ FlushTyped'  BY <1>1, <1>2 DEF RunTyped, RetryTyped, FlushTyped
<1>7. LockTyped'
  <2>1. CASE lockq' = lockq  BY <1>1, <2>1 DEF LockTyped
  <2>2. CASE lockq' = [lockq EXCEPT ![h] = Append(@, c)]  BY <1>1, <1>4, <2>2 DEF LockTyped
  <2> QED BY <1>5, <2>1, <2>2
<1>8. ASSUME NEW j \in Runs, j # h PROVE Apart(j)
  <2>1. lockq'[j] = lockq[j]  BY <1>1, <1>5, <1>8 DEF LockTyped
  <2>2. ~InHand(j) /\ ~InHand(j)'  BY <1>8 DEF InHand
  <2> QED BY <1>1, <1>2, <2>1, <2>2 DEF Apart, StopTyped
<1>9. /\ Locked(h) /\ Placed(h) /\ Recorded(h) /\ Settling(h) /\ InHand(h) /\ InHand(h)' /\ sends[h] = 1
      /\ ~Queued(h) /\ ~Queued(h)' /\ h \notin pend /\ phase[h] # "running"
  <2>1. InHand(h) /\ InHand(h)'  BY <1>5 DEF InHand
  <2>2. Locked(h) /\ Placed(h) /\ Recorded(h) /\ Settling(h)  BY <1>1 DEF Sound
  <2>3. sends[h] = 1 /\ phase[h] # "running"  BY <2>1, <2>2 DEF Placed
  <2> QED BY <2>1, <2>2, <2>3 DEF Placed
<1>10. ASSUME NEW d \in Calls, CallSound(h, d) PROVE d.by # "flush" /\ CallSound(h, d)'
  <2>1. d.by # "flush" /\ d.by # "deliver"  BY <1>9, <1>10 DEF CallSound, Writing
  <2> QED BY <1>2, <1>10, <2>1 DEF CallSound, Kind, Calls
<1>11. Locked(h)'
  <2>1. PICK s \in Seq(Calls) : s = lockq[h]  BY <1>1 DEF LockTyped
  <2>2. \A i \in DOMAIN s : s[i] \in Calls /\ CallSound(h, s[i])  BY <1>9, <2>1 DEF Locked
  <2>3. Apt(s)  BY <1>9, <2>1 DEF Locked, Apt
  <2>4. \A i \in DOMAIN s : s[i].by # "flush" /\ CallSound(h, s[i])'  BY <1>10, <2>2
  <2>5. \A i \in DOMAIN s : Kind(s[i]) # Kind(c)  BY <1>4, <2>2, <2>4 DEF Kind
  <2>6. CASE lockq' = lockq /\ flush' = "switched"
    <3>1. ~Lags(s) /\ lockq'[h] = s /\ flush' \notin Writing  BY <2>1, <2>4, <2>6 DEF Lags, Writing
    <3> QED BY <2>3, <2>4, <3>1, Relocked
  <2>7. CASE lockq' = [lockq EXCEPT ![h] = Append(@, c)] /\ flush' \in {"delivering", "ambiguating"} /\ c = Asked'
    <3>1. PICK t : t = Append(s, c)  OBVIOUS
    <3>2. lockq'[h] = t  BY <1>1, <2>1, <2>7, <3>1 DEF LockTyped
    <3>3. CallSound(h, c)'  BY <1>4, <2>7 DEF CallSound, Writing
    <3>4. /\ t \in Seq(Calls) /\ Apt(t)
          /\ \A i \in DOMAIN t : t[i] = c \/ \E k \in DOMAIN s : t[i] = s[k]
          /\ \E i \in DOMAIN t : t[i] = c
      <4>1. c \in Calls /\ t = Append(s, c) /\ Apt(s) /\ \A i \in DOMAIN s : Kind(s[i]) # Kind(c)
        BY <1>4, <2>3, <2>5, <3>1
      <4>2. t \in Seq(Calls) /\ Apt(t)  BY <4>1, <2>1, Grown
      <4>3. \A i \in DOMAIN t : t[i] = c \/ \E k \in DOMAIN s : t[i] = s[k]  BY <4>1, <2>1, Grown
      <4>4. \E i \in DOMAIN t : t[i] = c  BY <4>1, <2>1, Grown
      <4> QED BY <4>2, <4>3, <4>4
    <3>5. ASSUME NEW i \in DOMAIN t PROVE CallSound(h, t[i])'
      <4>1. CASE t[i] = c
        <5>1. ASSUME NEW d, d = c PROVE CallSound(h, d)'  BY <3>3, <5>1
        <5> QED BY <4>1, <5>1
      <4>2. CASE t[i] # c  BY <2>4, <3>4, <4>2
      <4> QED BY <4>1, <4>2
    <3>6. \E i \in DOMAIN t : t[i].by = "flush"  BY <1>4, <3>4
    <3> QED BY <2>7, <3>2, <3>4, <3>5, <3>6, Relocked
  <2> QED BY <1>5, <2>6, <2>7
<1>12. Placed(h)'  BY <1>2, <1>5, <1>9 DEF Placed
<1>13. Recorded(h)'  BY <1>2, <1>5, <1>9 DEF Recorded, FinalRecord
<1>14. Settling(h)'
  <2>1. round = 1  BY <1>1 DEF StopTyped
  <2>2. h \in InLock("retry") => h \in InLock("retry")'
    <3>1. CASE lockq' = lockq  BY <3>1 DEF InLock
    <3>2. CASE lockq' # lockq
      <4>1. lockq'[h] = Append(lockq[h], c)  BY <1>1, <1>5, <3>2 DEF LockTyped
      <4> QED BY <1>1, <1>4, <4>1, JoinedIn
    <3> QED BY <3>1, <3>2
  <2> QED BY <1>2, <1>9, <2>1, <2>2 DEF Settling
<1>15. ASSUME NEW j \in Runs PROVE Locked(j)' /\ Placed(j)' /\ Recorded(j)' /\ Settling(j)'
  <2>1. CASE j = h  BY <1>11, <1>12, <1>13, <1>14, <2>1
  <2>2. CASE j # h  BY <1>2, <1>8, <2>2, SoundKept
  <2> QED BY <2>1, <2>2
<1> QED BY <1>6, <1>7, <1>15

LEMMA TurnEndsKeeps == ASSUME IInv, TurnEnds PROVE IInv'
<1>1. RunTyped /\ LockTyped /\ StoreTyped /\ RetryTyped /\ FlushTyped /\ StopTyped /\ Once /\ Dead  BY Typed
<1>2. /\ Up /\ flush = "turn" /\ UNCHANGED <<runVars, storeVars, retryVars, hand, sends, lost, userTurn, target, stopVars, counts>>
      /\ busy' \in {busy, FALSE} /\ reset' \in {reset, "switching"}
      /\ \/ flush' = "switched" /\ lockq' = lockq
         \/ /\ flush' \in {"delivering", "ambiguating"}
            /\ lockq' = [lockq EXCEPT ![hand] =
                 Append(@, Call("flush", IF flush' = "delivering" THEN "delivered" ELSE "ambiguous", FALSE))]
  BY DEF TurnEnds, FlushAsks, Asks
<1>3. hand \in Runs  BY <1>1, <1>2 DEF FlushTyped
<1>4. StopTyped'
  <2>1. busy' \in BOOLEAN  BY <1>1, <1>2, Zenon DEF StopTyped
  <2>2. UNCHANGED <<userTurn, target, stage, round, events, fails>> /\ round = 1
    BY <1>1, <1>2 DEF stopVars, counts, StopTyped
  <2> QED BY <1>1, <1>2, <2>1, <2>2 DEF StopTyped
<1>5. UNCHANGED <<queue, pend, target, hand, stage>>  BY <1>2 DEF storeVars, stopVars
<1>6. \A j \in Runs : (Queued(j)' <=> Queued(j)) /\ (Queued(j) /\ queue[1] = j => queue'[1] = j)
  BY <1>5 DEF Queued
<1>7. /\ RunTyped' /\ LockTyped' /\ RetryTyped' /\ FlushTyped'
      /\ \A j \in Runs : Locked(j)' /\ Placed(j)' /\ Recorded(j)' /\ Settling(j)'
  <2>1. PICK h \in Runs : h = hand  BY <1>3
  <2> QED BY <1>2, <1>4, <1>5, <1>6, <2>1, AfterTurn
<1>8. StoreTyped' /\ Once' /\ Dead'  BY <1>1, <1>2, <1>5 DEF StoreTyped, Once, Dead
<1> QED BY <1>4, <1>7, <1>8, Assembled

LEMMA SwitchedKeeps == ASSUME IInv, NewSession, flush = "switched", reset # "retiring" PROVE IInv'
<1>1. RunTyped /\ LockTyped /\ StoreTyped /\ RetryTyped /\ FlushTyped /\ StopTyped /\ Once /\ Dead  BY Typed
<1>2. /\ Up /\ UNCHANGED <<runVars, pend, retryVars, hand, sends, lost, turnVars, stopVars, counts>>
      /\ reset' = "no" /\ flush' = "delivering" /\ (target' = target \/ (target' = "away" /\ target = "current"))
      /\ (queue' = queue \/ KeepsCompletions)
      /\ lockq' = [lockq EXCEPT ![hand] = Append(@, Call("flush", "delivered", FALSE))]
  BY DEF NewSession, FlushAsks, Asks
<1>3. PICK h \in Runs : h = hand  BY <1>1 DEF FlushTyped
<1>4. StopTyped'
  <2>1. UNCHANGED <<busy, userTurn, stage, round, events, fails>> /\ round = 1
    BY <1>1, <1>2 DEF turnVars, stopVars, counts, StopTyped
  <2> QED BY <1>1, <1>2, <2>1 DEF StopTyped
<1>5. /\ queue' \in Seq(Runs \cup {User}) /\ Once'
      /\ \A j \in Runs : Queued(j)' <=> Queued(j)
      /\ \A j \in Runs : Queued(j) /\ queue[1] = j => queue'[1] = j
  <2>1. CASE queue' = queue  BY <1>1, <2>1 DEF StoreTyped, Once, Queued
  <2>2. CASE KeepsCompletions  BY <1>1, <2>2, KeepsRuns
  <2> QED BY <1>2, <2>1, <2>2
<1>6. /\ RunTyped' /\ LockTyped' /\ RetryTyped' /\ FlushTyped'
      /\ \A j \in Runs : Locked(j)' /\ Placed(j)' /\ Recorded(j)' /\ Settling(j)'
  <2>1. hand' = h /\ (target = "gone" => target' = "gone")  BY <1>2, <1>3
  <2>2. lockq' = [lockq EXCEPT ![h] =
          Append(@, Call("flush", IF flush' = "delivering" THEN "delivered" ELSE "ambiguous", FALSE))]
    BY <1>2, <1>3
  <2> QED BY <1>2, <1>3, <1>4, <1>5, <2>1, <2>2, AfterTurn
<1>7. StoreTyped' /\ Dead'  BY <1>1, <1>2, <1>5 DEF StoreTyped, Dead, stopVars
<1> QED BY <1>4, <1>5, <1>6, <1>7, Assembled

-----------------------------------------------------------------------------
\* A write: the call at the head of run r's lock, and what it does to the record.

Wrote(r, c) ==
    /\ ~Refuses(r, c) /\ mem'[r] = Written(r, c) /\ disk'[r] = Written(r, c)
    /\ phase'[r] = (IF c.by = "run" THEN "settled" ELSE phase[r])
    /\ \/ fails' = fails /\ (r \in reg' <=> ~Archivable(r, c)) /\ (r \in arch' <=> Archivable(r, c))
       \/ fails < fails' /\ Archivable(r, c) /\ r \in reg' /\ r \notin arch'
Missed(r, c) ==
    /\ ~Refuses(r, c) /\ fails < fails' /\ disk'[r] \in {disk[r], Written(r, c)}
    /\ mem'[r] = (IF c.by = "run" THEN Written(r, c) ELSE mem[r])
    /\ phase'[r] = (IF c.by = "run" THEN "stuck" ELSE phase[r])
    /\ r \in reg' /\ r \notin arch'
Refused(r, c) ==
    /\ Refuses(r, c) /\ fails' = fails /\ mem'[r] = mem[r] /\ disk'[r] = disk[r] /\ phase'[r] = phase[r]
    /\ (r \in reg' <=> r \in reg) /\ (r \in arch' <=> r \in arch)

LEMMA Outcomes ==
    ASSUME RunTyped, StopTyped, NEW r \in Runs, NEW c \in Calls, NEW result \in {"true", "false", "throws"},
           Outcome(r, c, result)
    PROVE  /\ RunTyped' /\ events' \in Nat /\ fails' \in Nat /\ fails <= fails'
           /\ \A j \in Runs : j # r => /\ mem'[j] = mem[j] /\ disk'[j] = disk[j] /\ phase'[j] = phase[j]
                                       /\ (j \in reg' <=> j \in reg) /\ (j \in arch' <=> j \in arch)
           /\ result = "true" => Wrote(r, c) /\ fails' = fails
           /\ result = "false" => Refused(r, c)
           /\ result = "throws" => fails < fails' /\ (Wrote(r, c) \/ Missed(r, c))
<1>1. Written(r, c) \in States  BY DEF Written, Calls, RunTyped
<1>2. ~Refuses(r, c) => r \in reg /\ r \notin arch  BY DEF Refuses, RunTyped
<1>3. CASE result = "true"
  <2>1. Succeeds(r, c)  BY <1>3 DEF Outcome
  <2>2. UNCHANGED <<events, fails>>  BY <2>1 DEF Succeeds, counts
  <2>3. /\ ~Refuses(r, c) /\ mem' = [mem EXCEPT ![r] = Written(r, c)] /\ disk' = [disk EXCEPT ![r] = Written(r, c)]
        /\ phase' = [phase EXCEPT ![r] = IF c.by = "run" THEN "settled" ELSE @]
        /\ arch' = (IF Archivable(r, c) THEN arch \cup {r} ELSE arch)
        /\ reg' = (IF Archivable(r, c) THEN reg \ {r} ELSE reg)
    BY <2>1 DEF Succeeds, Settles
  <2>4. RunTyped'  BY <1>1, <1>2, <2>3 DEF RunTyped
  <2>5. Wrote(r, c)  BY <1>1, <1>2, <2>2, <2>3 DEF Wrote, RunTyped
  <2>6. \A j \in Runs : j # r => /\ mem'[j] = mem[j] /\ disk'[j] = disk[j] /\ phase'[j] = phase[j]
                                 /\ (j \in reg' <=> j \in reg) /\ (j \in arch' <=> j \in arch)
    BY <2>3 DEF RunTyped
  <2> QED BY <1>3, <2>2, <2>4, <2>5, <2>6 DEF StopTyped
<1>4. CASE result = "false"
  <2>1. Refuses(r, c) /\ UNCHANGED <<runVars, counts>>  BY <1>4 DEF Outcome
  <2>2. UNCHANGED <<phase, mem, disk, reg, arch, events, fails>>  BY <2>1 DEF runVars, counts
  <2> QED BY <1>4, <2>1, <2>2 DEF RunTyped, Refused, StopTyped
<1>5. CASE result = "throws"
  <2>1. Throws(r, c)  BY <1>5 DEF Outcome
  <2>2. ~Refuses(r, c) /\ events' = events + 1 /\ fails' = fails + 1 /\ reg' = reg /\ arch' = arch  BY <2>1 DEF Throws
  <2>3. fails < fails' /\ fails' \in Nat /\ events' \in Nat  BY <2>2 DEF StopTyped
  <2>4. CASE /\ Archivable(r, c)
             /\ mem' = [mem EXCEPT ![r] = Written(r, c)]
             /\ disk' = [disk EXCEPT ![r] = Written(r, c)]
             /\ phase' = [phase EXCEPT ![r] = IF c.by = "run" THEN "settled" ELSE @]
    <3>1. RunTyped'  BY <1>1, <2>2, <2>4 DEF RunTyped
    <3>2. Wrote(r, c)  BY <1>1, <1>2, <2>2, <2>3, <2>4 DEF Wrote, RunTyped
    <3> QED BY <1>5, <2>2, <2>3, <2>4, <3>1, <3>2 DEF RunTyped, StopTyped
  <2>5. CASE /\ disk' \in {disk, [disk EXCEPT ![r] = Written(r, c)]}
             /\ mem' = [mem EXCEPT ![r] = IF c.by = "run" THEN Written(r, c) ELSE @]
             /\ phase' = [phase EXCEPT ![r] = IF c.by = "run" THEN "stuck" ELSE @]
    <3>1. RunTyped'
      <4>1. disk' \in [Runs -> States]  BY <1>1, <2>5 DEF RunTyped
      <4> QED BY <1>1, <2>2, <2>5, <4>1 DEF RunTyped
    <3>2. disk'[r] \in {disk[r], Written(r, c)} /\ \A j \in Runs : j # r => disk'[j] = disk[j]
      BY <1>1, <2>5 DEF RunTyped
    <3>3. Missed(r, c)  BY <1>1, <1>2, <2>2, <2>3, <2>5, <3>2 DEF Missed, RunTyped
    <3> QED BY <1>5, <2>2, <2>3, <2>5, <3>1, <3>2, <3>3 DEF RunTyped, StopTyped
  <2> QED BY <2>1, <2>4, <2>5 DEF Throws, Settles
<1> QED BY <1>3, <1>4, <1>5

Popped(r, s, c, t, result) ==
    /\ Up /\ s = lockq[r] /\ s # <<>> /\ c = Head(s) /\ t = Tail(s)
    /\ result \in {"true", "false", "throws"} /\ Outcome(r, c, result)
    /\ UNCHANGED <<target, reset, stage, round>>

LEMMA Remaining ==
    ASSUME IInv, NEW r \in Runs, NEW s, NEW c, NEW t, NEW result, Popped(r, s, c, t, result)
    PROVE  /\ c \in Calls /\ CallSound(r, c) /\ s \in Seq(Calls) /\ t \in Seq(Calls) /\ Apt(t)
           /\ \A i \in DOMAIN t : t[i] \in Calls /\ CallSound(r, t[i]) /\ Kind(t[i]) # Kind(c)
           /\ Lags(t) => flush \notin {"retiring", "sending"}
           /\ c.by = "retry" /\ (\E i \in DOMAIN t : t[i].by = "flush") => flush \notin {"retiring", "sending"}
           /\ hand = r /\ flush \in Writing /\ c.by # "flush" => \E i \in DOMAIN t : t[i].by = "flush"
           /\ \E i \in DOMAIN s : s[i] = c
           /\ \A i \in DOMAIN t : \E k \in DOMAIN s : s[k] = t[i]
           /\ \A k \in DOMAIN s : s[k] # c => \E i \in DOMAIN t : t[i] = s[k]
<1>1. LockTyped /\ Locked(r)  BY Typed DEF Sound
<1>2. s \in Seq(Calls) /\ s = lockq[r] /\ s # <<>> /\ c = Head(s) /\ t = Tail(s)  BY <1>1 DEF Popped, LockTyped
<1>3. Apt(s)  BY <1>1, <1>2 DEF Apt, Locked
<1>4. /\ t \in Seq(Calls) /\ Apt(t) /\ Head(s) \in Calls /\ Head(s) = s[1] /\ 1 \in DOMAIN s
  BY <1>2, <1>3, Shrunk
<1>5. \A i \in DOMAIN t : Kind(t[i]) # Kind(Head(s)) /\ \E k \in DOMAIN s : t[i] = s[k]  BY <1>2, <1>3, Shrunk
<1>6. ASSUME NEW k \in DOMAIN s, s[k] # Head(s) PROVE \E i \in DOMAIN t : t[i] = s[k]
  <2>1. k # 1  BY <1>4, <1>6
  <2>2. k - 1 \in DOMAIN t /\ t[k - 1] = s[k]  BY <1>2, <1>6, <2>1
  <2> QED BY <2>2
<1>7. Lags(t) => Lags(s)  BY <1>2, <1>3, Shrunk
<1>8. Head(s).by = "retry" /\ (\E i \in DOMAIN t : t[i].by = "flush") => Lags(s)  BY <1>2, <1>3, Shrunk
<1>9. Lags(s) => flush \notin {"retiring", "sending"}  BY <1>1, <1>2 DEF Lags, Locked
<1>10. \A k \in DOMAIN s : CallSound(r, s[k]) /\ s[k] \in Calls  BY <1>1, <1>2 DEF Locked
<1>11. CallSound(r, c)  BY <1>2, <1>4, <1>10
<1>12. \A i \in DOMAIN t : t[i] \in Calls /\ CallSound(r, t[i]) /\ Kind(t[i]) # Kind(c)
  BY <1>2, <1>5, <1>10
<1>13. hand = r /\ flush \in Writing /\ c.by # "flush" => \E i \in DOMAIN t : t[i].by = "flush"
  <2> SUFFICES ASSUME hand = r, flush \in Writing, c.by # "flush" PROVE \E i \in DOMAIN t : t[i].by = "flush"
    OBVIOUS
  <2>1. PICK k \in DOMAIN s : s[k].by = "flush"  BY <1>1, <1>2 DEF Locked
  <2> QED BY <1>2, <1>6, <2>1
<1> QED BY <1>2, <1>4, <1>5, <1>6, <1>7, <1>8, <1>9, <1>11, <1>12, <1>13

\* Who still waits for the lock of r when the call at its head has left it.
LEMMA StillWaits ==
    ASSUME IInv, NEW r \in Runs, NEW s, NEW c, NEW t, NEW result, Popped(r, s, c, t, result), NEW by, c.by # by,
           NEW u, lockq'[r] = u, \A i \in DOMAIN t : \E k \in DOMAIN u : u[k] = t[i]
    PROVE  /\ r \in InLock(by) => r \in InLock(by)'
           /\ u = t => (r \in InLock(by)' => r \in InLock(by))
<1>1. /\ \A i \in DOMAIN t : \E k \in DOMAIN s : s[k] = t[i]
      /\ \A k \in DOMAIN s : s[k] # c => \E i \in DOMAIN t : t[i] = s[k]
  BY Remaining
<1>2. s = lockq[r]  BY DEF Popped
<1>3. ASSUME r \in InLock(by) PROVE r \in InLock(by)'
  <2>1. PICK k \in DOMAIN s : s[k].by = by  BY <1>2, <1>3 DEF InLock
  <2>2. PICK i \in DOMAIN t : t[i] = s[k]  BY <1>1, <2>1
  <2>3. PICK m \in DOMAIN u : u[m] = t[i]  BY <2>2
  <2> QED BY <2>1, <2>2, <2>3 DEF InLock
<1>4. ASSUME u = t, r \in InLock(by)' PROVE r \in InLock(by)
  <2>1. PICK i \in DOMAIN t : t[i].by = by  BY <1>4 DEF InLock
  <2>2. PICK k \in DOMAIN s : s[k] = t[i]  BY <1>1, <2>1
  <2> QED BY <1>2, <2>1, <2>2 DEF InLock
<1> QED BY <1>3, <1>4

\* deliverWorkflowCompletion's write: only #executeRun has been here.
LEMMA DeliverKeeps ==
    ASSUME IInv, NEW r \in Runs, NEW s, NEW c, NEW t, NEW result, Popped(r, s, c, t, result),
           Deliver(r, c, result), UNCHANGED flushVars
    PROVE  Locked(r)' /\ Placed(r)' /\ Recorded(r)' /\ Settling(r)' /\ LockTyped' /\ StoreTyped' /\ Once'
<1>1. RunTyped /\ LockTyped /\ StoreTyped /\ RetryTyped /\ FlushTyped /\ StopTyped /\ Once /\ Dead
      /\ \A j \in Runs : Sound(j)
  BY Typed
<1>2. Locked(r) /\ Placed(r) /\ Recorded(r) /\ Settling(r)  BY <1>1 DEF Sound
<1>3. /\ c \in Calls /\ CallSound(r, c) /\ t \in Seq(Calls) /\ Apt(t)
      /\ \A i \in DOMAIN t : t[i] \in Calls /\ CallSound(r, t[i]) /\ Kind(t[i]) # Kind(c)
  BY Remaining
<1>4. /\ Up /\ s = lockq[r] /\ t = Tail(s) /\ result \in {"true", "false", "throws"} /\ Outcome(r, c, result)
      /\ UNCHANGED <<target, reset, stage, round>>
  BY DEF Popped
<1>5. PICK x : x = Call("run", "pending", FALSE)  OBVIOUS
<1>6. /\ c.by = "deliver" /\ UNCHANGED <<ret, tried, flush, hand, sends, lost, busy, userTurn>>
      /\ queue' = (IF result = "true" /\ c.state = "queued" THEN Append(queue, r) ELSE queue)
      /\ pend' = (IF result = "true" /\ c.state = "waiting-for-session" THEN pend \cup {r} ELSE pend)
      /\ lockq' = [[lockq EXCEPT ![r] = Tail(@)] EXCEPT ![r] = Append(@, x)]
  BY <1>5 DEF Deliver, Left, retryVars, flushVars, turnVars
<1>7. PICK u : u = Append(t, x)  OBVIOUS
<1>8. lockq'[r] = u /\ x \in Calls /\ u \in Seq(Calls)
  BY <1>1, <1>3, <1>4, <1>5, <1>6, <1>7 DEF LockTyped, Call, Calls
<1>9. LockTyped'  BY <1>1, <1>3, <1>4, <1>5, <1>6, <1>8 DEF LockTyped
<1>10. /\ c.state \in {"origin-retired", "queued", "waiting-for-session"} /\ phase[r] = "complete" /\ mem[r] = "pending"
       /\ sends[r] = 0 /\ ret[r] = "no" /\ tried[r] = "no" /\ ~Queued(r) /\ r \notin pend /\ ~InHand(r)
       /\ r \in reg /\ r \notin arch
  <2>1. Kind(c) = "own"  BY <1>6 DEF Kind
  <2>2. phase[r] = "complete" /\ c.state \in {"origin-retired", "queued", "waiting-for-session"}
    BY <1>3, <1>6, <2>1 DEF CallSound, Call
  <2> QED BY <1>1, <1>2, <1>3, <1>4, <1>6, <2>2 DEF CallSound, Placed, Recorded, RunTyped
<1>11. StoreTyped' /\ Once'  BY <1>1, <1>6, <1>10 DEF StoreTyped, Once, Queued
<1>12. \A i \in DOMAIN t : FALSE
  BY <1>3, <1>6, <1>10 DEF CallSound, Kind, Calls, InHand, Writing
<1>13. Written(r, c) = c.state /\ ~Archivable(r, c)  BY <1>6, <1>10 DEF Written, Archivable
<1>14. /\ result = "true" => Wrote(r, c)
       /\ result = "false" => Refused(r, c)
       /\ result = "throws" => fails < fails' /\ (Wrote(r, c) \/ Missed(r, c))
       /\ fails' \in Nat /\ fails \in Nat
  BY <1>1, <1>3, <1>4, Outcomes DEF StopTyped
<1>15. /\ phase'[r] = "complete" /\ r \in reg' /\ r \notin arch' /\ mem'[r] \in {mem[r], c.state}
       /\ disk'[r] \in {disk[r], c.state} /\ (mem'[r] # "pending" => result = "true" /\ mem'[r] = c.state)
       /\ (result = "true" => mem'[r] = c.state)
  BY <1>4, <1>6, <1>10, <1>13, <1>14 DEF Wrote, Missed, Refused
<1>16. ~InHand(r)'  BY <1>6, <1>10 DEF InHand
<1>17. Queued(r)' <=> result = "true" /\ c.state = "queued"
  BY <1>1, <1>6, <1>10 DEF Queued, StoreTyped
<1>18. Locked(r)'
  <2>1. Kind(x) = "own" /\ x = Call("run", "pending", FALSE) /\ x.by = "run"  BY <1>5 DEF Kind, Call
  <2>2. CallSound(r, x)'  BY <1>15, <2>1 DEF CallSound
  <2>3. Apt(u)  BY <1>3, <1>7, <1>8, <1>12, Grown
  <2>4. \A i \in DOMAIN u : u[i] = x  BY <1>3, <1>7, <1>12
  <2>5. ASSUME NEW i \in DOMAIN u PROVE CallSound(r, u[i])'
    <3>1. ASSUME NEW d, d = x PROVE CallSound(r, d)'  BY <2>2, <3>1
    <3> QED BY <2>4, <3>1
  <2>6. ~Lags(u)  BY <2>1, <2>4 DEF Lags
  <2>7. ~(hand' = r /\ flush' \in Writing)  BY <1>16 DEF InHand, Writing
  <2> QED BY <1>8, <2>3, <2>5, <2>6, <2>7, Relocked
<1>19. Placed(r)'
  BY <1>6, <1>10, <1>15, <1>16, <1>17 DEF Placed, Unsent
<1>20. Recorded(r)'
  BY <1>2, <1>6, <1>10, <1>15, <1>16, <1>17 DEF Recorded
<1>21. Settling(r)'
  <2>1. round' = 1 /\ stage' # "drain"  BY <1>1, <1>2, <1>4, <1>10 DEF Settling, StopTyped
  <2> QED BY <1>6, <1>10, <1>15, <2>1 DEF Settling
<1> QED BY <1>9, <1>11, <1>18, <1>19, <1>20, <1>21

\* The last block of #executeRun.
LEMMA FinishKeeps ==
    ASSUME IInv, NEW r \in Runs, NEW s, NEW c, NEW t, NEW result, Popped(r, s, c, t, result),
           Finish(r, c), UNCHANGED flushVars
    PROVE  Locked(r)' /\ Placed(r)' /\ Recorded(r)' /\ Settling(r)' /\ LockTyped'
<1>1. RunTyped /\ LockTyped /\ StoreTyped /\ RetryTyped /\ FlushTyped /\ StopTyped /\ Once /\ Dead
      /\ \A j \in Runs : Sound(j)
  BY Typed
<1>2. Locked(r) /\ Placed(r) /\ Recorded(r) /\ Settling(r)  BY <1>1 DEF Sound
<1>3. /\ c \in Calls /\ CallSound(r, c) /\ t \in Seq(Calls) /\ Apt(t)
      /\ \A i \in DOMAIN t : t[i] \in Calls /\ CallSound(r, t[i]) /\ Kind(t[i]) # Kind(c)
      /\ Lags(t) => flush \notin {"retiring", "sending"}
      /\ hand = r /\ flush \in Writing /\ c.by # "flush" => \E i \in DOMAIN t : t[i].by = "flush"
  BY Remaining
<1>4. /\ Up /\ s = lockq[r] /\ t = Tail(s) /\ result \in {"true", "false", "throws"} /\ Outcome(r, c, result)
      /\ UNCHANGED <<target, reset, stage, round>>
  BY DEF Popped
<1>5. /\ c.by = "run" /\ UNCHANGED <<queue, pend, ret, tried, flush, hand, sends, lost, busy, userTurn>>
      /\ lockq' = [lockq EXCEPT ![r] = Tail(@)]
  BY DEF Finish, Left, storeVars, retryVars, flushVars, turnVars
<1>6. lockq'[r] = t /\ LockTyped'  BY <1>1, <1>3, <1>4, <1>5 DEF LockTyped
<1>7. phase[r] = "complete" /\ r \in reg /\ r \notin arch /\ c.state = "pending"
  BY <1>1, <1>2, <1>3, <1>4, <1>5 DEF CallSound, Kind, Recorded, Call, RunTyped
<1>8. Written(r, c) = (IF mem[r] = "pending" THEN "failed-to-queue" ELSE mem[r])
  BY <1>5 DEF Written
<1>9. /\ result = "true" => Wrote(r, c)
      /\ result = "false" => Refused(r, c)
      /\ result = "throws" => fails < fails' /\ (Wrote(r, c) \/ Missed(r, c))
      /\ fails <= fails' /\ fails' \in Nat
  BY <1>1, <1>3, <1>4, Outcomes
<1>10. Refused(r, c) \/ (~Refused(r, c) /\ ~Refuses(r, c) /\ mem'[r] = Written(r, c) /\ disk'[r] \in {disk[r], Written(r, c)})
  BY <1>4, <1>5, <1>9 DEF Wrote, Missed, Refused
<1>11. UNCHANGED <<Queued(r), InHand(r)>>  BY <1>5 DEF Queued, InHand
<1>12. Locked(r)'
  <2>1. ASSUME NEW d \in Calls, CallSound(r, d), Kind(d) # Kind(c) PROVE CallSound(r, d)'
    <3>1. Kind(c) = "own" /\ Kind(d) # "own"  BY <1>5, <2>1 DEF Kind
    <3>2. d.by # "run" /\ d.by # "deliver"  BY <3>1 DEF Kind
    <3> QED BY <1>4, <1>5, <2>1, <3>1, <3>2 DEF CallSound, Asked, Kind
  <2>2. \A i \in DOMAIN t : CallSound(r, t[i])'  BY <1>3, <2>1
  <2>3. c.by # "flush"  BY <1>5
  <2> QED BY <1>3, <1>5, <1>6, <2>2, <2>3, Relocked
<1>13. mem[r] = "pending" => ~Queued(r) /\ (InHand(r) => flush \notin {"retiring", "sending", "unsending"})
  <2>1. mem[r] = "pending" /\ InHand(r) => flush \notin {"retiring", "sending", "unsending"}
    BY <1>2 DEF Placed, Unsent
  <2>2. mem[r] = "pending" /\ InHand(r) /\ Queued(r) => FALSE
    BY <1>1, <1>2, <2>1 DEF Placed, InHand, FlushTyped
  <2> QED BY <1>2, <2>1, <2>2 DEF Placed, Unsent
<1>14. Placed(r)'
  <2>1. CASE mem'[r] = mem[r] /\ phase'[r] # "running"
    <3>1. Unsent(r)  => Unsent(r)'  BY <1>1, <1>9, <2>1 DEF Unsent, StopTyped
    <3> QED BY <1>2, <1>4, <1>5, <1>11, <2>1, <3>1 DEF Placed
  <2>2. CASE mem[r] = "pending" /\ phase'[r] # "running"
    BY <1>2, <1>4, <1>5, <1>11, <1>13, <2>2 DEF Placed, InHand
  <2>3. phase'[r] # "running"  BY <1>4, <1>5, <1>7, <1>9 DEF Wrote, Missed, Refused
  <2> QED BY <1>8, <1>10, <2>1, <2>2, <2>3 DEF Refused
<1>15. Recorded(r)'
  <2>1. CASE Refused(r, c)
    <3>1. FinalRecord(r)' <=> FinalRecord(r)  BY <1>5, <2>1 DEF FinalRecord, Refused
    <3> QED BY <1>2, <1>4, <1>5, <1>11, <2>1, <3>1 DEF Recorded, Refused
  <2>2. CASE ~Refused(r, c)
    <3>1. /\ ~Refuses(r, c) /\ mem'[r] = Written(r, c) /\ disk'[r] \in {disk[r], Written(r, c)}
          /\ phase'[r] \in {"settled", "stuck"} /\ (r \in reg' \/ r \in arch')
          /\ (r \in arch' \/ phase'[r] = "settled" => disk'[r] = Written(r, c))
          /\ (r \in arch' => Written(r, c) \in Final)
      BY <1>4, <1>5, <1>9, <2>2 DEF Wrote, Missed, Refused, Archivable
    <3>2. mem[r] \notin {"delivered", "ambiguous"}  BY <1>7, <3>1 DEF Refuses
    <3>3. (r \in arch' => FinalRecord(r)') /\ (phase'[r] = "settled" /\ mem'[r] \in Final => FinalRecord(r)')
      BY <3>1 DEF FinalRecord
    <3>4. mem[r] # "not-ready"  BY <1>2, <1>4, <1>7 DEF Recorded
    <3>5. sends[r] = 1 => {mem'[r], disk'[r]} \subseteq {"sending", "delivered", "ambiguous"}
      BY <1>2, <1>8, <3>1 DEF Recorded
    <3>6. "delivered" \in {mem'[r], disk'[r]} => sends[r] = 1
      BY <1>2, <1>8, <3>1 DEF Recorded
    <3>7. mem'[r] \in {mem[r], "failed-to-queue"} /\ mem'[r] # "pending"  BY <1>8, <3>1
    <3> QED BY <1>2, <1>4, <1>5, <1>7, <1>11, <3>1, <3>3, <3>4, <3>5, <3>6, <3>7 DEF Recorded
  <2> QED BY <2>1, <2>2
<1>16. Settling(r)'
  <2>1. round' = 1 /\ stage' # "drain"  BY <1>1, <1>2, <1>4, <1>7 DEF Settling, StopTyped
  <2>2. c.by # "retry"  BY <1>5
  <2>3. r \in InLock("retry") => r \in InLock("retry")'  BY <1>6, <2>2, StillWaits
  <2>4. r \in reg' => r \in reg  BY <1>7
  <2>5. fails' = 0 => phase'[r] # "stuck" /\ fails = 0
    BY <1>1, <1>4, <1>5, <1>7, <1>9 DEF Wrote, Refused, StopTyped
  <2>6. fails' = 0 /\ tried[r] # "no" /\ r \notin InLock("retry")' => mem'[r] = mem[r]
    BY <1>2, <1>7, <1>8, <1>10, <2>3, <2>5 DEF Settling, Refused
  <2> QED BY <1>2, <1>5, <1>7, <2>1, <2>3, <2>4, <2>5, <2>6 DEF Settling
<1> QED BY <1>6, <1>12, <1>14, <1>15, <1>16

\* What a call other than #executeRun's own leaves of the record.
LEMMA Marked ==
    ASSUME IInv, NEW r \in Runs, NEW s, NEW c, NEW t, NEW result, Popped(r, s, c, t, result),
           Kind(c) # "own"
    PROVE  /\ phase'[r] = phase[r] /\ fails <= fails' /\ fails \in Nat /\ fails' \in Nat
           /\ r \in reg' => r \in reg
           /\ result # "throws" => fails' = fails
           /\ \/ /\ Refuses(r, c) /\ result = "false" /\ mem'[r] = mem[r] /\ disk'[r] = disk[r]
                 /\ (r \in reg' <=> r \in reg) /\ (r \in arch' <=> r \in arch)
              \/ /\ ~Refuses(r, c) /\ r \in reg /\ r \notin arch /\ result # "false" /\ (r \in reg' \/ r \in arch')
                 /\ mem'[r] = c.state /\ disk'[r] = c.state
                 /\ r \in arch' => phase[r] = "settled" /\ c.state \in Final
                 /\ result = "true" => (r \in reg' <=> ~(phase[r] = "settled" /\ c.state \in Final))
                 /\ result = "throws" => fails < fails' /\ r \in reg' /\ c.state \in Final
              \/ /\ ~Refuses(r, c) /\ r \in reg /\ r \notin arch /\ result = "throws" /\ fails < fails'
                 /\ mem'[r] = mem[r] /\ disk'[r] \in {disk[r], c.state} /\ r \in reg' /\ r \notin arch'
<1>1. RunTyped /\ StopTyped  BY Typed
<1>2. c \in Calls  BY Remaining
<1>3. result \in {"true", "false", "throws"} /\ Outcome(r, c, result)  BY DEF Popped
<1>4. c.by # "run"  BY <1>2 DEF Kind
<1>5. Written(r, c) = c.state /\ (Archivable(r, c) <=> phase[r] = "settled" /\ c.state \in Final)
  BY <1>4 DEF Written, Archivable
<1>6. fails' \in Nat /\ fails <= fails' /\ fails \in Nat  BY <1>1, <1>2, <1>3, Outcomes DEF StopTyped
<1>7. CASE result = "true"
  <2>1. Wrote(r, c) /\ fails' = fails  BY <1>1, <1>2, <1>3, <1>7, Outcomes
  <2>2. r \in reg /\ r \notin arch  BY <1>1, <2>1 DEF Wrote, Refuses, RunTyped
  <2> QED BY <1>4, <1>5, <1>6, <1>7, <2>1, <2>2 DEF Wrote
<1>8. CASE result = "false"
  <2>1. Refused(r, c)  BY <1>1, <1>2, <1>3, <1>8, Outcomes
  <2> QED BY <1>6, <1>8, <2>1 DEF Refused
<1>9. CASE result = "throws"
  <2>1. fails < fails' /\ (Wrote(r, c) \/ Missed(r, c))  BY <1>1, <1>2, <1>3, <1>9, Outcomes
  <2>2. ~Refuses(r, c)  BY <2>1 DEF Wrote, Missed
  <2>3. r \in reg /\ r \notin arch  BY <1>1, <2>2 DEF Refuses, RunTyped
  <2> QED BY <1>4, <1>5, <1>6, <1>9, <2>1, <2>2, <2>3 DEF Wrote, Missed
<1> QED BY <1>3, <1>7, <1>8, <1>9

\* The write of activateWorkflowDeliveries.
LEMMA ActivatedKeeps ==
    ASSUME IInv, NEW r \in Runs, NEW s, NEW c, NEW t, NEW result, Popped(r, s, c, t, result),
           Activated(r, c, result), UNCHANGED flushVars
    PROVE  Locked(r)' /\ Placed(r)' /\ Recorded(r)' /\ Settling(r)' /\ LockTyped'
<1>1. RunTyped /\ LockTyped /\ StoreTyped /\ RetryTyped /\ FlushTyped /\ StopTyped /\ Once /\ Dead
      /\ \A j \in Runs : Sound(j)
  BY Typed
<1>2. Locked(r) /\ Placed(r) /\ Recorded(r) /\ Settling(r)  BY <1>1 DEF Sound
<1>3. /\ c \in Calls /\ CallSound(r, c) /\ t \in Seq(Calls) /\ Apt(t)
      /\ \A i \in DOMAIN t : t[i] \in Calls /\ CallSound(r, t[i]) /\ Kind(t[i]) # Kind(c)
      /\ Lags(t) => flush \notin {"retiring", "sending"}
  BY Remaining
<1>4. /\ Up /\ s = lockq[r] /\ t = Tail(s) /\ result \in {"true", "false", "throws"}
      /\ UNCHANGED <<target, reset, stage, round>>
  BY DEF Popped
<1>5. /\ c.by \in {"activate", "activate-stop"} /\ Kind(c) = "activate"
      /\ UNCHANGED <<queue, ret, tried, flush, hand, sends, lost, busy, userTurn>>
      /\ lockq' = [lockq EXCEPT ![r] = Tail(@)]
      /\ pend' = (IF result = "true" \/ (result = "false" /\ c.by = "activate") THEN pend \ {r} ELSE pend)
  BY DEF Activated, Left, retryVars, flushVars, turnVars, Kind
<1>6. lockq'[r] = t /\ LockTyped'  BY <1>1, <1>3, <1>4, <1>5 DEF LockTyped
<1>7. c.state = "origin-retired" /\ c.sure = FALSE /\ r \in pend /\ (target = "gone" \/ stage # "up")
  BY <1>3, <1>5 DEF CallSound, Call
<1>8. sends[r] = 0 /\ ret[r] = "no" /\ tried[r] = "no" /\ ~InHand(r) /\ ~Queued(r) /\ phase[r] # "running"
  BY <1>2, <1>7 DEF Placed
<1>9. ~InHand(r)' /\ ~Queued(r)'  BY <1>5, <1>8 DEF Queued, InHand
<1>10. /\ phase'[r] = phase[r] /\ fails <= fails' /\ fails \in Nat /\ fails' \in Nat /\ (r \in reg' => r \in reg)
       /\ result # "throws" => fails' = fails
  BY <1>5, Marked
<1>11. \/ /\ Refuses(r, c) /\ result = "false" /\ mem'[r] = mem[r] /\ disk'[r] = disk[r]
          /\ (r \in reg' <=> r \in reg) /\ (r \in arch' <=> r \in arch)
       \/ /\ ~Refuses(r, c) /\ r \in reg /\ r \notin arch /\ result # "false" /\ (r \in reg' \/ r \in arch')
          /\ mem'[r] = c.state /\ disk'[r] = c.state
          /\ r \in arch' => phase[r] = "settled" /\ c.state \in Final
          /\ result = "true" => (r \in reg' <=> ~(phase[r] = "settled" /\ c.state \in Final))
          /\ result = "throws" => fails < fails' /\ r \in reg' /\ c.state \in Final
       \/ /\ ~Refuses(r, c) /\ r \in reg /\ r \notin arch /\ result = "throws" /\ fails < fails'
          /\ mem'[r] = mem[r] /\ disk'[r] \in {disk[r], c.state} /\ r \in reg' /\ r \notin arch'
  BY <1>5, Marked
<1>12. ASSUME NEW d \in Calls, CallSound(r, d), Kind(d) # Kind(c) PROVE d.by = "run" /\ CallSound(r, d)'
  <2>1. d.by = "run"
    BY <1>5, <1>7, <1>8, <1>12 DEF CallSound, Kind, Calls, InHand, Writing
  <2> QED BY <1>10, <1>12, <2>1 DEF CallSound, Kind
<1>13. \A i \in DOMAIN t : t[i].by = "run" /\ CallSound(r, t[i])'  BY <1>3, <1>12
<1>14. Locked(r)'
  <2>1. ~Lags(t)  BY <1>13 DEF Lags
  <2>2. ~(hand' = r /\ flush' \in Writing)  BY <1>9 DEF InHand, Writing
  <2> QED BY <1>3, <1>6, <1>13, <2>1, <2>2, Relocked
<1>15. Placed(r)'
  <2>1. r \in pend' => (target' = "gone" \/ stage' # "up")  BY <1>4, <1>7
  <2> QED BY <1>5, <1>8, <1>9, <1>10, <2>1 DEF Placed
<1>16. r \in reg => mem[r] # "sending"  BY <1>2, <1>8 DEF Recorded
<1>17. Recorded(r)'
  <2>1. CASE Refuses(r, c) /\ result = "false" /\ mem'[r] = mem[r] /\ disk'[r] = disk[r]
             /\ (r \in reg' <=> r \in reg) /\ (r \in arch' <=> r \in arch)
    <3>1. FinalRecord(r)' <=> FinalRecord(r)  BY <1>5, <1>10, <2>1 DEF FinalRecord
    <3>2. r \in reg => mem[r] \in {"delivered", "ambiguous"}  BY <1>16, <2>1 DEF Refuses
    <3> QED BY <1>2, <1>4, <1>5, <1>8, <1>10, <2>1, <3>1, <3>2 DEF Recorded
  <2>2. CASE mem'[r] = c.state /\ disk'[r] = c.state /\ (r \in reg' \/ r \in arch')
             /\ (r \in arch' => phase[r] = "settled") /\ r \in reg /\ (r \in reg' \/ phase[r] = "settled")
    BY <1>2, <1>4, <1>5, <1>7, <1>8, <1>10, <2>2 DEF Recorded, FinalRecord
  <2>3. CASE r \in reg /\ r \notin arch /\ result = "throws" /\ fails < fails'
          /\ mem'[r] = mem[r] /\ disk'[r] \in {disk[r], c.state} /\ r \in reg' /\ r \notin arch'
    <3>1. FinalRecord(r) => FinalRecord(r)'  BY <1>5, <1>7, <1>10, <2>3 DEF FinalRecord
    <3>2. pend' = pend  BY <1>5, <2>3
    <3> QED BY <1>2, <1>4, <1>5, <1>7, <1>8, <1>9, <1>10, <2>3, <3>1, <3>2 DEF Recorded
  <2> QED BY <1>11, <2>1, <2>2, <2>3
<1>18. Settling(r)'
  <2>1. fails' = 0 => fails = 0 /\ result # "throws"  BY <1>10, <1>11
  <2>2. fails' = 0 => ~Open(r)'
    <3>1. r \in reg /\ Refuses(r, c) => mem[r] \in Final  BY <1>16 DEF Refuses
    <3> QED BY <1>7, <1>10, <1>11, <2>1, <3>1 DEF Open
  <2>3. fails' = 0 /\ round = 2 /\ stage = "down" /\ r \in reg' => mem'[r] \notin Final
    <3> SUFFICES ASSUME fails' = 0, round = 2, stage = "down", r \in reg' PROVE FALSE  OBVIOUS
    <3>1. phase[r] = "settled" /\ mem[r] \notin Final  BY <1>2, <1>10, <2>1 DEF Settling
    <3>2. ~Refuses(r, c)  BY <1>10, <1>16, <3>1 DEF Refuses
    <3> QED BY <1>4, <1>7, <1>11, <2>1, <3>1, <3>2
  <2>4. r \notin InLock("retry")'  BY <1>6, <1>13 DEF InLock
  <2> QED BY <1>2, <1>4, <1>5, <1>8, <1>9, <1>10, <2>1, <2>2, <2>3, <2>4 DEF Settling
<1> QED BY <1>6, <1>14, <1>15, <1>17, <1>18

\* The write of retryWorkflowDeliveryRetirements.
LEMMA RetriedKeeps ==
    ASSUME IInv, NEW r \in Runs, NEW s, NEW c, NEW t, NEW result, Popped(r, s, c, t, result),
           Retried(r, c, result), UNCHANGED flushVars
    PROVE  Locked(r)' /\ Placed(r)' /\ Recorded(r)' /\ Settling(r)' /\ LockTyped' /\ RetryTyped'
<1>1. RunTyped /\ LockTyped /\ StoreTyped /\ RetryTyped /\ FlushTyped /\ StopTyped /\ Once /\ Dead
      /\ \A j \in Runs : Sound(j)
  BY Typed
<1>2. Locked(r) /\ Placed(r) /\ Recorded(r) /\ Settling(r)  BY <1>1 DEF Sound
<1>3. /\ c \in Calls /\ CallSound(r, c) /\ t \in Seq(Calls) /\ Apt(t)
      /\ \A i \in DOMAIN t : t[i] \in Calls /\ CallSound(r, t[i]) /\ Kind(t[i]) # Kind(c)
      /\ Lags(t) => flush \notin {"retiring", "sending"}
      /\ c.by = "retry" /\ (\E i \in DOMAIN t : t[i].by = "flush") => flush \notin {"retiring", "sending"}
      /\ hand = r /\ flush \in Writing /\ c.by # "flush" => \E i \in DOMAIN t : t[i].by = "flush"
      /\ \E i \in DOMAIN s : s[i] = c
  BY Remaining
<1>4. /\ Up /\ s = lockq[r] /\ t = Tail(s) /\ result \in {"true", "false", "throws"}
      /\ UNCHANGED <<target, reset, stage, round>>
  BY DEF Popped
<1>5. /\ c.by = "retry" /\ Kind(c) = "retry"
      /\ UNCHANGED <<queue, pend, flush, hand, sends, lost, busy, userTurn>>
      /\ lockq' = [lockq EXCEPT ![r] = Tail(@)]
      /\ ret' = (IF result = "true" /\ ret[r] = c.state THEN [ret EXCEPT ![r] = "no"] ELSE ret)
      /\ tried' = (IF result = "true" /\ ret[r] = c.state THEN [tried EXCEPT ![r] = "no"] ELSE tried)
  BY DEF Retried, Left, storeVars, flushVars, turnVars, Kind
<1>6. lockq'[r] = t /\ LockTyped' /\ RetryTyped'  BY <1>1, <1>3, <1>4, <1>5 DEF LockTyped, RetryTyped
<1>7. c.state = tried[r] /\ c.sure = FALSE /\ tried[r] \in {"origin-retired", "ambiguous"}
  BY <1>1, <1>3, <1>5 DEF CallSound, Call, RetryTyped
<1>8. ret[r] # "no" /\ ~Queued(r) /\ r \notin pend /\ phase[r] # "running" /\ (tried[r] = "ambiguous" => ret[r] = "ambiguous")
  BY <1>2, <1>7 DEF Placed
<1>9. /\ ret'[r] = (IF result = "true" /\ ret[r] = c.state THEN "no" ELSE ret[r])
      /\ tried'[r] = (IF result = "true" /\ ret[r] = c.state THEN "no" ELSE tried[r])
  BY <1>1, <1>5 DEF RetryTyped
<1>10. UNCHANGED <<Queued(r), InHand(r)>>  BY <1>5 DEF Queued, InHand
<1>11. /\ phase'[r] = phase[r] /\ fails <= fails' /\ fails \in Nat /\ fails' \in Nat /\ (r \in reg' => r \in reg)
       /\ result # "throws" => fails' = fails
  BY <1>5, Marked
<1>12. \/ /\ Refuses(r, c) /\ result = "false" /\ mem'[r] = mem[r] /\ disk'[r] = disk[r]
          /\ (r \in reg' <=> r \in reg) /\ (r \in arch' <=> r \in arch)
       \/ /\ ~Refuses(r, c) /\ r \in reg /\ r \notin arch /\ result # "false" /\ (r \in reg' \/ r \in arch')
          /\ mem'[r] = c.state /\ disk'[r] = c.state
          /\ r \in arch' => phase[r] = "settled" /\ c.state \in Final
          /\ result = "true" => (r \in reg' <=> ~(phase[r] = "settled" /\ c.state \in Final))
          /\ result = "throws" => fails < fails' /\ r \in reg' /\ c.state \in Final
       \/ /\ ~Refuses(r, c) /\ r \in reg /\ r \notin arch /\ result = "throws" /\ fails < fails'
          /\ mem'[r] = mem[r] /\ disk'[r] \in {disk[r], c.state} /\ r \in reg' /\ r \notin arch'
  BY <1>5, Marked
<1>13. InHand(r) => flush \notin {"retiring", "sending"}
  <2> SUFFICES ASSUME InHand(r), flush \in {"retiring", "sending"} PROVE FALSE  OBVIOUS
  <2>1. hand = r /\ flush \in Writing  BY DEF InHand, Writing
  <2> QED BY <1>3, <1>5, <2>1
<1>14. ASSUME NEW d \in Calls, CallSound(r, d), Kind(d) # Kind(c) PROVE CallSound(r, d)'
  <2>1. d.by # "retry" /\ d.by # "deliver" /\ Kind(d) # "activate"
    BY <1>5, <1>8, <1>14 DEF CallSound, Kind
  <2> QED BY <1>4, <1>5, <1>11, <1>14, <2>1 DEF CallSound, Kind, Asked
<1>15. Locked(r)'
  <2>1. \A i \in DOMAIN t : CallSound(r, t[i])'  BY <1>3, <1>14
  <2> QED BY <1>3, <1>5, <1>6, <2>1, Relocked
<1>16. ~Refuses(r, c) =>
         /\ tried[r] = "origin-retired" => sends[r] = 0 /\ mem[r] # "sending"
         /\ r \in reg
  BY <1>1, <1>2, <1>7 DEF Refuses, Recorded, FlushTyped
<1>17. Placed(r)'
  <2>1. InHand(r) /\ flush = "unsending" => mem'[r] = mem[r]
    BY <1>2, <1>7, <1>8, <1>12, <1>16 DEF Placed
  <2> QED BY <1>2, <1>4, <1>5, <1>8, <1>9, <1>10, <1>11, <1>13, <2>1 DEF Placed
<1>18. Recorded(r)'
  <2>1. CASE Refuses(r, c) /\ result = "false" /\ mem'[r] = mem[r] /\ disk'[r] = disk[r]
             /\ (r \in reg' <=> r \in reg) /\ (r \in arch' <=> r \in arch)
    <3>1. FinalRecord(r)' <=> FinalRecord(r)  BY <1>5, <1>11, <2>1 DEF FinalRecord
    <3> QED BY <1>2, <1>4, <1>5, <1>8, <1>9, <1>10, <1>11, <2>1, <3>1 DEF Recorded
  <2>2. CASE ~Refuses(r, c) /\ mem'[r] = c.state /\ disk'[r] = c.state /\ (r \in reg' \/ r \in arch')
             /\ (r \in arch' => phase[r] = "settled") /\ r \in reg /\ (r \in reg' \/ phase[r] = "settled")
    BY <1>1, <1>2, <1>4, <1>5, <1>7, <1>8, <1>11, <1>16, <2>2 DEF Recorded, FinalRecord, FlushTyped
  <2>3. CASE ~Refuses(r, c) /\ r \in reg /\ r \notin arch /\ result = "throws" /\ fails < fails'
          /\ mem'[r] = mem[r] /\ disk'[r] \in {disk[r], c.state} /\ r \in reg' /\ r \notin arch'
    <3>1. FinalRecord(r) => FinalRecord(r)'  BY <1>5, <1>7, <1>11, <2>3 DEF FinalRecord
    <3>2. ret'[r] = ret[r]  BY <1>9, <2>3
    <3> QED BY <1>2, <1>4, <1>5, <1>7, <1>8, <1>10, <1>11, <1>16, <2>3, <3>1, <3>2 DEF Recorded
  <2> QED BY <1>12, <2>1, <2>2, <2>3
<1>19. Settling(r)'
  <2>1. fails' = 0 => fails = 0 /\ result # "throws"  BY <1>11, <1>12
  <2>2. Open(r)' => Open(r)  BY <1>7, <1>11, <1>12 DEF Open
  <2>3. r \in InLock("retry")  BY <1>3, <1>4, <1>5 DEF InLock
  <2>4. /\ r \in InLock("activate") => r \in InLock("activate")'
        /\ r \in InLock("activate-stop") => r \in InLock("activate-stop")'
    <3>1. c.by # "activate" /\ c.by # "activate-stop"  BY <1>5
    <3>2. r \in InLock("activate") => r \in InLock("activate")'  BY <1>6, <3>1, StillWaits
    <3>3. r \in InLock("activate-stop") => r \in InLock("activate-stop")'  BY <1>6, <3>1, StillWaits
    <3> QED BY <3>2, <3>3
  <2>5. r \in Activating => r \in Activating'  BY <2>4 DEF Activating
  <2>6. fails' = 0 /\ r \in reg' /\ tried'[r] # "no" => mem'[r] \in {"sending", "origin-retired", "delivered", "ambiguous"}
    BY <1>7, <1>11, <1>12, <2>1 DEF Refuses
  <2>7. round = 2 /\ fails' = 0 => stage \notin {"stop-runs", "down"}  BY <1>2, <2>1, <2>3 DEF Settling
  <2> QED BY <1>2, <1>4, <1>5, <1>9, <1>10, <1>11, <2>1, <2>2, <2>4, <2>5, <2>6, <2>7 DEF Settling
<1> QED BY <1>6, <1>15, <1>17, <1>18, <1>19

\* What follows a write of the loop: the completion leaves its hands, or another
\* write is asked for, or the turn begins.
LEMMA FlushedKeeps ==
    ASSUME IInv, NEW r \in Runs, NEW s, NEW c, NEW t, NEW result, Popped(r, s, c, t, result),
           Flushed(r, c, result)
    PROVE  /\ Locked(r)' /\ Placed(r)' /\ Recorded(r)' /\ Settling(r)' /\ hand = r /\ round = 1
           /\ LockTyped' /\ RetryTyped' /\ FlushTyped' /\ busy' \in BOOLEAN
<1>1. RunTyped /\ LockTyped /\ StoreTyped /\ RetryTyped /\ FlushTyped /\ StopTyped /\ Once /\ Dead
      /\ \A j \in Runs : Sound(j)
  BY Typed
<1>2. Locked(r) /\ Placed(r) /\ Recorded(r) /\ Settling(r)  BY <1>1 DEF Sound
<1>3. /\ c \in Calls /\ CallSound(r, c) /\ t \in Seq(Calls) /\ Apt(t)
      /\ \A i \in DOMAIN t : t[i] \in Calls /\ CallSound(r, t[i]) /\ Kind(t[i]) # Kind(c)
  BY Remaining
<1>4. /\ Up /\ s = lockq[r] /\ t = Tail(s) /\ result \in {"true", "false", "throws"}
      /\ UNCHANGED <<target, reset, stage, round>>
  BY DEF Popped
<1>5. c.by = "flush" /\ Kind(c) = "flush" /\ UNCHANGED <<hand, userTurn, pend>>  BY DEF Flushed, Kind
<1>6. /\ hand = r /\ flush \in Writing /\ InHand(r) /\ round = 1 /\ c = Asked
  BY <1>1, <1>3, <1>5 DEF CallSound, InHand, Writing, StopTyped
<1>7. /\ c.state = (IF flush \in {"retiring", "unsending"} THEN "origin-retired"
                    ELSE IF flush = "sending" THEN "sending"
                    ELSE IF flush = "delivering" THEN "delivered" ELSE "ambiguous")
      /\ (c.sure <=> flush = "unsending")
  BY <1>6 DEF Asked, Call
<1>8. phase[r] # "running" /\ r \notin pend  BY <1>2, <1>6 DEF Placed
\* The lock after it.
<1>9. ASSUME NEW d \in Calls, CallSound(r, d), Kind(d) # Kind(c), phase'[r] = phase[r] PROVE d.by # "flush" /\ d.by # "deliver" /\ CallSound(r, d)'
  <2>1. d.by # "flush" /\ d.by # "deliver"  BY <1>5, <1>6, <1>9 DEF CallSound, Kind
  <2>2. d.by = "retry" => tried'[r] = tried[r]
    BY DEF Flushed, Send, retryVars, FlushGoesOn
  <2> QED BY <1>4, <1>5, <1>9, <2>1, <2>2 DEF CallSound, Kind
<1>10. phase'[r] = phase[r] /\ fails <= fails' /\ fails \in Nat /\ fails' \in Nat /\ (r \in reg' => r \in reg)
       /\ (result # "throws" => fails' = fails)
  BY <1>5, Marked
<1>11. \/ /\ Refuses(r, c) /\ result = "false" /\ mem'[r] = mem[r] /\ disk'[r] = disk[r]
          /\ (r \in reg' <=> r \in reg) /\ (r \in arch' <=> r \in arch)
       \/ /\ ~Refuses(r, c) /\ r \in reg /\ r \notin arch /\ result # "false" /\ (r \in reg' \/ r \in arch')
          /\ mem'[r] = c.state /\ disk'[r] = c.state
          /\ r \in arch' => phase[r] = "settled" /\ c.state \in Final
          /\ result = "true" => (r \in reg' <=> ~(phase[r] = "settled" /\ c.state \in Final))
          /\ result = "throws" => fails < fails' /\ r \in reg' /\ c.state \in Final
       \/ /\ ~Refuses(r, c) /\ r \in reg /\ r \notin arch /\ result = "throws" /\ fails < fails'
          /\ mem'[r] = mem[r] /\ disk'[r] \in {disk[r], c.state} /\ r \in reg' /\ r \notin arch'
  BY <1>5, Marked
<1>12. \A i \in DOMAIN t : t[i].by # "flush" /\ CallSound(r, t[i])'  BY <1>3, <1>9, <1>10
<1>13. PICK x : x = Call("flush", IF flush' = "unsending" THEN "origin-retired" ELSE "ambiguous", flush' = "unsending")
  OBVIOUS
<1>14. \/ lockq' = [lockq EXCEPT ![r] = Tail(@)] /\ flush' \in {"idle", "turn"}
       \/ lockq' = [[lockq EXCEPT ![r] = Tail(@)] EXCEPT ![r] = Append(@, x)] /\ flush' \in {"unsending", "ambiguating"}
  <2>1. flush' = "unsending" => x = Call("flush", "origin-retired", TRUE)  BY <1>13 DEF Call
  <2>2. flush' = "ambiguating" => x = Call("flush", "ambiguous", FALSE)  BY <1>13 DEF Call
  <2> QED BY <2>1, <2>2 DEF Flushed, FlushDone, FlushGoesOn, Send, Left
<1>15. x \in Calls /\ x.by = "flush" /\ Kind(x) = "flush" /\ (flush' \in {"unsending", "ambiguating"} => x = Asked')
  <2>1. x \in Calls  BY <1>13 DEF Call, Calls
  <2>2. flush' = "unsending" => x = Asked'  BY <1>13 DEF Call, Asked
  <2>3. flush' = "ambiguating" => x = Asked'  BY <1>13 DEF Call, Asked
  <2> QED BY <1>13, <2>1, <2>2, <2>3 DEF Call, Kind
<1>16. PICK u : u = Append(t, x)  OBVIOUS
<1>17. u \in Seq(Calls)  BY <1>3, <1>15, <1>16
<1>18. LockTyped' /\ lockq'[r] = (IF flush' \in {"idle", "turn"} THEN t ELSE u)
  <2>1. CASE lockq' = [lockq EXCEPT ![r] = Tail(@)] /\ flush' \in {"idle", "turn"}
    BY <1>1, <1>3, <1>4, <2>1 DEF LockTyped
  <2>2. CASE lockq' = [[lockq EXCEPT ![r] = Tail(@)] EXCEPT ![r] = Append(@, x)] /\ flush' \in {"unsending", "ambiguating"}
    BY <1>1, <1>3, <1>4, <1>16, <1>17, <2>2 DEF LockTyped
  <2> QED BY <1>14, <2>1, <2>2
<1>19. Locked(r)'
  <2>1. CASE flush' \in {"idle", "turn"}
    <3>1. ~Lags(t)  BY <1>12 DEF Lags
    <3>2. ~(hand' = r /\ flush' \in Writing)  BY <2>1 DEF Writing
    <3> QED BY <1>3, <1>12, <1>18, <2>1, <3>1, <3>2, Relocked
  <2>2. CASE flush' \in {"unsending", "ambiguating"}
    <3>1. c \in Calls /\ x \in Calls /\ \A i \in DOMAIN t : Kind(t[i]) # Kind(x)
      BY <1>3, <1>12, <1>15 DEF Kind
    <3>2. Apt(u)  BY <1>3, <1>16, <3>1, Grown
    <3>3. \A i \in DOMAIN u : u[i] = x \/ \E k \in DOMAIN t : u[i] = t[k]  BY <1>3, <1>16, <3>1, Grown
    <3>4. \E i \in DOMAIN u : u[i] = x  BY <1>3, <1>16, <3>1, Grown
    <3>5. CallSound(r, x)'  BY <1>5, <1>6, <1>15, <2>2 DEF CallSound, Writing
    <3>6. ASSUME NEW i \in DOMAIN u PROVE CallSound(r, u[i])'
      <4>1. CASE u[i] = x
        <5>1. ASSUME NEW d, d = x PROVE CallSound(r, d)'  BY <3>5, <5>1
        <5> QED BY <4>1, <5>1
      <4>2. CASE u[i] # x  BY <1>12, <3>3, <4>2
      <4> QED BY <4>1, <4>2
    <3>7. \E i \in DOMAIN u : u[i].by = "flush"  BY <1>15, <3>4
    <3> QED BY <1>17, <1>18, <2>2, <3>2, <3>6, <3>7, Relocked
  <2> QED BY <1>14, <2>1, <2>2
<1>20. /\ RetryTyped' /\ FlushTyped' /\ busy' \in BOOLEAN /\ tried' = tried
       /\ sends'[r] = (IF flush = "sending" /\ flush' = "turn" THEN 1 ELSE sends[r])
  <2>1. sends[r] \in {0, 1} /\ (flush = "sending" => sends[r] = 0)  BY <1>1, <1>2, <1>6 DEF FlushTyped, Placed
  <2>2. ret' = ret \/ ret' = [ret EXCEPT ![r] = "ambiguous"]  BY DEF Flushed, Send, retryVars, FlushGoesOn
  <2>3. tried' = tried  BY DEF Flushed, Send, retryVars, FlushGoesOn
  <2>4. busy' = busy \/ busy' = TRUE  BY DEF Flushed, Send, FlushDone, FlushGoesOn
  <2>5. \/ sends' = [sends EXCEPT ![r] = @ + 1] /\ flush = "sending" /\ flush' = "turn"
        \/ sends' = sends /\ ~(flush = "sending" /\ flush' = "turn")
    BY DEF Flushed, Send, FlushDone, FlushGoesOn
  <2>6. lost' \in {lost, Taken}  BY DEF Flushed, Send, FlushDone, FlushGoesOn
  <2>7. Taken \subseteq Runs \cup {User}  BY <1>1 DEF Taken, FlushTyped, StoreTyped
  <2>8. RetryTyped'  BY <1>1, <2>2, <2>3 DEF RetryTyped
  <2>9. busy' \in BOOLEAN  BY <1>1, <2>4, Zenon DEF StopTyped
  <2>10. sends' \in [Runs -> 0..1] /\ sends'[r] = (IF flush = "sending" /\ flush' = "turn" THEN 1 ELSE sends[r])
    BY <1>1, <2>1, <2>5 DEF FlushTyped
  <2>11. FlushTyped'
    <3>1. flush' \in {"idle", "turn", "unsending", "ambiguating"}  BY <1>14
    <3>2. lost' \subseteq Runs \cup {User}  BY <1>1, <2>6, <2>7 DEF FlushTyped
    <3> QED BY <1>1, <1>5, <1>6, <2>10, <3>1, <3>2 DEF FlushTyped
  <2> QED BY <2>3, <2>8, <2>9, <2>10, <2>11
\* Where the completion is after it.
<1>21. Queued(r) => sends[r] = 0 /\ ret[r] = "no"  BY <1>2 DEF Placed
<1>22. queue' = Shifted => (~Queued(r)' <=> (Queued(r) => queue[1] = r))
  <2>1. ASSUME queue' = Tail(queue), queue # <<>>, Queued(r), queue[1] = r PROVE ~Queued(r)'
    BY <1>1, <2>1 DEF Queued, StoreTyped, Once
  <2>2. ASSUME queue' = Tail(queue), queue # <<>>, ~Queued(r) PROVE ~Queued(r)'
    BY <1>1, <2>2 DEF Queued, StoreTyped
  <2>3. ASSUME queue' = Tail(queue), queue # <<>>, Queued(r), queue[1] # r PROVE Queued(r)'
    <3>1. PICK i \in DOMAIN queue : queue[i] = r  BY <2>3 DEF Queued
    <3>2. i - 1 \in DOMAIN queue' /\ queue'[i - 1] = r  BY <1>1, <2>3, <3>1 DEF StoreTyped
    <3> QED BY <3>2 DEF Queued
  <2>4. queue = <<>> => ~Queued(r)  BY DEF Queued
  <2>5. queue' = queue => (Queued(r)' <=> Queued(r))  BY DEF Queued
  <2> QED BY <2>1, <2>2, <2>3, <2>4, <2>5 DEF Shifted
<1>23. /\ flush \in {"retiring", "sending", "unsending"} =>
            /\ sends[r] = 0 /\ ret[r] # "ambiguous" /\ (Queued(r) => queue[1] = r)
            /\ flush = "unsending" => mem[r] = "sending"
            /\ flush # "unsending" => Unsent(r) /\ (Queued(r) \/ ret[r] # "no")
       /\ flush = "delivering" => sends[r] = 1
       /\ flush \in {"delivering", "ambiguating"} => ~Queued(r)
  BY <1>2, <1>6, <1>21 DEF Placed
<1>24. \/ /\ flush \in {"retiring", "unsending"} /\ result # "throws"
          /\ flush' = "idle" /\ ret' = ret /\ ~Queued(r)'
       \/ /\ \/ flush = "retiring" /\ result = "throws"
             \/ flush = "sending" /\ result # "true"
             \/ flush \in {"delivering", "ambiguating"} /\ result # "throws"
          /\ flush' = "idle" /\ ret' = ret /\ queue' = queue
       \/ flush = "sending" /\ result = "true" /\ flush' = "turn" /\ ret' = ret /\ ~Queued(r)'
       \/ flush = "sending" /\ result = "true" /\ flush' = "unsending" /\ ret' = ret /\ queue' = queue
       \/ flush \in {"unsending", "delivering"} /\ result = "throws" /\ flush' = "ambiguating" /\ ret' = ret /\ ~Queued(r)'
       \/ flush = "ambiguating" /\ result = "throws" /\ flush' = "idle" /\ ret'[r] = "ambiguous" /\ ~Queued(r)'
  <2>1. queue' = queue => (Queued(r)' <=> Queued(r))  BY DEF Queued
  <2>2. CASE flush \in {"retiring", "unsending"} /\ result # "throws"
    <3>1. flush' = "idle" /\ ret' = ret /\ queue' = Shifted  BY <2>2 DEF Flushed, FlushDone, retryVars
    <3> QED BY <1>22, <1>23, <2>2, <3>1
  <2>3. CASE \/ flush = "retiring" /\ result = "throws"
             \/ flush = "sending" /\ result # "true"
             \/ flush \in {"delivering", "ambiguating"} /\ result # "throws"
    BY <2>3 DEF Flushed, FlushDone, retryVars
  <2>4. CASE flush = "sending" /\ result = "true"
    <3>1. \/ flush' = "turn" /\ ret' = ret /\ queue' = Shifted
          \/ flush' = "unsending" /\ ret' = ret /\ queue' = queue
      BY <2>4 DEF Flushed, Send, FlushGoesOn
    <3> QED BY <1>22, <1>23, <2>4, <3>1
  <2>5. CASE flush = "unsending" /\ result = "throws"
    <3>1. flush' = "ambiguating" /\ ret' = ret /\ queue' = (IF queue # <<>> /\ Head(queue) = r THEN Tail(queue) ELSE queue)
      BY <2>5 DEF Flushed, retryVars
    <3>2. CASE Queued(r)
      <4>1. queue # <<>> /\ Head(queue) = r  BY <1>1, <1>23, <2>5, <3>2 DEF Queued, StoreTyped
      <4>2. queue' = Shifted  BY <3>1, <4>1 DEF Shifted
      <4> QED BY <1>22, <1>23, <2>5, <3>1, <4>2
    <3>3. CASE ~Queued(r)
      <4>1. ~(queue # <<>> /\ Head(queue) = r)  BY <1>1, <3>3 DEF Queued, StoreTyped
      <4> QED BY <2>1, <2>5, <3>1, <3>3, <4>1
    <3> QED BY <3>2, <3>3
  <2>6. CASE flush = "delivering" /\ result = "throws"
    <3>1. flush' = "ambiguating" /\ ret' = ret /\ queue' = queue  BY <2>6 DEF Flushed, FlushGoesOn
    <3> QED BY <1>23, <2>1, <2>6, <3>1
  <2>7. CASE flush = "ambiguating" /\ result = "throws"
    <3>1. flush' = "idle" /\ ret' = [ret EXCEPT ![r] = "ambiguous"] /\ queue' = queue  BY <2>7 DEF Flushed, FlushDone
    <3>2. ret'[r] = "ambiguous"  BY <1>1, <3>1 DEF RetryTyped
    <3> QED BY <1>23, <2>1, <2>7, <3>1, <3>2
  <2> QED BY <1>4, <1>6, <2>2, <2>3, <2>4, <2>5, <2>6, <2>7 DEF Writing
<1>25. queue' = queue => (Queued(r)' <=> Queued(r))  BY DEF Queued
<1>26. InHand(r)' <=> flush' # "idle"  BY <1>5, <1>6, <1>14 DEF InHand
<1>27. Unsent(r) /\ mem'[r] = mem[r] => Unsent(r)'  BY <1>10 DEF Unsent
<1>28. /\ r \in reg /\ Refuses(r, c) => /\ mem[r] \in {"sending", "delivered", "ambiguous"}
                                        /\ mem[r] = "sending" => flush = "retiring"
  BY <1>7 DEF Refuses
<1>29. Placed(r)'
  <2>1. CASE flush' = "idle" /\ ~Queued(r)' /\ (ret' = ret \/ ret'[r] = "ambiguous")
    BY <1>2, <1>5, <1>8, <1>10, <1>20, <1>26, <2>1 DEF Placed
  <2>2. CASE /\ \/ flush = "retiring" /\ result = "throws"
                \/ flush = "sending" /\ result # "true"
                \/ flush \in {"delivering", "ambiguating"} /\ result # "throws"
             /\ flush' = "idle" /\ ret' = ret /\ queue' = queue
    <3>1. CASE Queued(r)
      <4>1. Unsent(r)'
        <5>1. mem'[r] = mem[r] \/ (mem'[r] = "origin-retired" /\ fails' > 0)
          BY <1>4, <1>7, <1>10, <1>11, <1>23, <2>2, <3>1
        <5> QED BY <1>23, <1>27, <2>2, <3>1, <5>1 DEF Unsent
      <4>2. sends'[r] = 0 /\ ret'[r] = "no"  BY <1>20, <1>21, <2>2, <3>1
      <4> QED BY <1>2, <1>5, <1>8, <1>10, <1>20, <1>26, <2>2, <4>1, <4>2 DEF Placed
    <3>2. CASE ~Queued(r)
      <4>1. ~Queued(r)'  BY <1>25, <2>2, <3>2
      <4> QED BY <2>1, <2>2, <4>1
    <3> QED BY <3>1, <3>2
  <2>3. CASE flush = "sending" /\ result = "true" /\ flush' = "turn" /\ ret' = ret /\ ~Queued(r)'
    BY <1>2, <1>5, <1>8, <1>10, <1>20, <1>26, <2>3 DEF Placed
  <2>4. CASE flush = "sending" /\ result = "true" /\ flush' = "unsending" /\ ret' = ret /\ queue' = queue
    <3>1. mem'[r] = "sending"  BY <1>7, <1>11, <2>4
    <3> QED BY <1>2, <1>5, <1>8, <1>10, <1>20, <1>21, <1>23, <1>25, <1>26, <2>4, <3>1 DEF Placed
  <2>5. CASE flush' = "ambiguating" /\ ret' = ret /\ ~Queued(r)'
    BY <1>2, <1>5, <1>8, <1>10, <1>20, <1>26, <2>5 DEF Placed
  <2> QED BY <1>24, <2>1, <2>2, <2>3, <2>4, <2>5
<1>30. Recorded(r)'
  <2>1. sends'[r] = 1 => {mem'[r], disk'[r]} \subseteq {"sending", "delivered", "ambiguous"}
    <3>1. sends[r] = 1 => flush \in {"delivering", "ambiguating"} /\ sends'[r] = 1 /\ c.state \in {"delivered", "ambiguous"}
      BY <1>6, <1>7, <1>20, <1>23 DEF Writing
    <3>2. sends[r] # 1 /\ sends'[r] = 1 => flush = "sending" /\ result = "true"  BY <1>20, <1>24
    <3> QED BY <1>2, <1>7, <1>11, <3>1, <3>2 DEF Recorded
  <2>2. "delivered" \in {mem'[r], disk'[r]} => sends'[r] = 1
    <3>1. c.state = "delivered" => sends[r] = 1  BY <1>7, <1>23
    <3> QED BY <1>2, <1>11, <1>20, <3>1 DEF Recorded
  <2>3. (r \in arch' => FinalRecord(r)') /\ (phase'[r] = "settled" /\ mem'[r] \in Final => FinalRecord(r)')
    <3>1. CASE Refuses(r, c) /\ result = "false" /\ mem'[r] = mem[r] /\ disk'[r] = disk[r] /\ (r \in arch' <=> r \in arch)
      <4>1. sends'[r] = sends[r]  BY <1>20, <1>24, <3>1
      <4>2. FinalRecord(r) => FinalRecord(r)'  BY <1>10, <3>1, <4>1 DEF FinalRecord
      <4> QED BY <1>2, <1>10, <3>1, <4>2 DEF Recorded
    <3>2. CASE mem'[r] = c.state /\ disk'[r] = c.state /\ (r \in arch' => c.state \in Final)
      BY <3>2 DEF FinalRecord
    <3>3. CASE result = "throws" /\ fails < fails' /\ mem'[r] = mem[r] /\ disk'[r] \in {disk[r], c.state} /\ r \notin arch'
      <4>1. sends'[r] = sends[r]  BY <1>20, <1>24, <3>3
      <4>2. FinalRecord(r) /\ disk'[r] = disk[r] => FinalRecord(r)'  BY <1>10, <3>3, <4>1 DEF FinalRecord
      <4>3. c.state \notin Final => flush = "sending"  BY <1>7
      <4>4. flush = "sending" /\ mem[r] \in Final => sends'[r] = 0 /\ fails' > 1  BY <1>10, <1>23, <3>3, <4>1 DEF Unsent
      <4>5. disk'[r] = c.state /\ mem[r] \in Final => FinalRecord(r)'  BY <1>7, <4>3, <4>4 DEF FinalRecord
      <4> QED BY <1>2, <1>10, <3>3, <4>2, <4>5 DEF Recorded
    <3> QED BY <1>11, <3>1, <3>2, <3>3
  <2>4. r \in reg' \cup arch' /\ (phase'[r] \in {"running", "complete"} => r \in reg')
        /\ (mem'[r] = "not-ready" => phase'[r] = "running") /\ (mem'[r] = "pending" => phase'[r] = "complete")
    BY <1>2, <1>4, <1>7, <1>10, <1>11 DEF Recorded
  <2>5. r \in reg' /\ mem'[r] = "sending" =>
          ret'[r] = "ambiguous" \/ (InHand(r)' /\ flush' \notin {"retiring", "sending"})
    <3>1. r \in reg' /\ mem'[r] = "sending" /\ flush = "retiring" => FALSE
      BY <1>7, <1>10, <1>11, <1>23 DEF Unsent
    <3>2. r \in reg' /\ mem'[r] = "sending" /\ flush = "sending" => result = "true"
      BY <1>4, <1>7, <1>10, <1>11, <1>23, <1>28 DEF Unsent
    <3>3. r \in reg' /\ mem'[r] = "sending" /\ flush \in {"unsending", "delivering", "ambiguating"} => result = "throws"
      BY <1>7, <1>10, <1>11, <1>28
    <3> QED BY <1>24, <1>26, <3>1, <3>2, <3>3
  <2>6. r \in reg' /\ mem'[r] \in {"queued", "waiting-for-session"} =>
          Queued(r)' \/ r \in pend' \/ ret'[r] # "no" \/ r \in lost' \/ InHand(r)'
    <3> SUFFICES ASSUME r \in reg', mem'[r] \in {"queued", "waiting-for-session"}, flush' = "idle", ret'[r] = "no" PROVE Queued(r)'
      BY <1>26
    <3>1. mem'[r] = mem[r] /\ result = "throws" /\ ~Refuses(r, c)  BY <1>7, <1>10, <1>11, <1>28
    <3>2. flush \in {"retiring", "sending"} /\ ret' = ret /\ queue' = queue  BY <1>24, <3>1
    <3> QED BY <1>23, <1>25, <3>2
  <2> QED BY <2>1, <2>2, <2>3, <2>4, <2>5, <2>6 DEF Recorded
<1>31. Settling(r)'
  <2>1. fails' = 0 => fails = 0 /\ result # "throws"  BY <1>10, <1>11
  <2>2. fails' = 0 => ret'[r] # "ambiguous"  BY <1>2, <1>24, <2>1 DEF Settling
  <2>3. fails' = 0 /\ r \in reg' => mem'[r] \in {"sending", "origin-retired", "delivered", "ambiguous"}
    BY <1>7, <1>10, <1>11, <1>28, <2>1
  <2> QED BY <1>2, <1>4, <1>6, <1>10, <2>1, <2>2, <2>3 DEF Settling
<1> QED BY <1>5, <1>6, <1>18, <1>19, <1>20, <1>29, <1>30, <1>31

LEMMA StepKeeps == ASSUME IInv, NEW r \in Runs, Step(r) PROVE IInv'
<1>1. RunTyped /\ LockTyped /\ StoreTyped /\ RetryTyped /\ FlushTyped /\ StopTyped /\ Once /\ Dead
      /\ \A j \in Runs : Sound(j)
  BY Typed
<1>2. /\ Up /\ lockq[r] # <<>> /\ UNCHANGED <<sessionVars, stopVars>>
      /\ \E c \in {Head(lockq[r])} : \E result \in {"true", "false", "throws"} :
           /\ Outcome(r, c, result)
           /\ \/ Deliver(r, c, result) /\ UNCHANGED flushVars
              \/ Finish(r, c) /\ UNCHANGED flushVars
              \/ Activated(r, c, result) /\ UNCHANGED flushVars
              \/ Retried(r, c, result) /\ UNCHANGED flushVars
              \/ Flushed(r, c, result)
  BY DEF Step
<1>3. PICK c \in {Head(lockq[r])}, result \in {"true", "false", "throws"} :
        /\ c = Head(lockq[r]) /\ Outcome(r, c, result)
        /\ \/ Deliver(r, c, result) /\ UNCHANGED flushVars
           \/ Finish(r, c) /\ UNCHANGED flushVars
           \/ Activated(r, c, result) /\ UNCHANGED flushVars
           \/ Retried(r, c, result) /\ UNCHANGED flushVars
           \/ Flushed(r, c, result)
  BY <1>2
<1>4. PICK s : s = lockq[r]  OBVIOUS
<1>5. PICK t : t = Tail(s)  OBVIOUS
<1>6. UNCHANGED <<target, reset, stage, round>>  BY <1>2 DEF sessionVars, stopVars
<1>7. Popped(r, s, c, t, result)  BY <1>2, <1>3, <1>4, <1>5, <1>6 DEF Popped
<1>8. c \in Calls  BY <1>7, Remaining
<1>9. /\ RunTyped' /\ events' \in Nat /\ fails' \in Nat /\ fails <= fails'
      /\ \A j \in Runs : j # r => /\ mem'[j] = mem[j] /\ disk'[j] = disk[j] /\ phase'[j] = phase[j]
                                  /\ (j \in reg' <=> j \in reg) /\ (j \in arch' <=> j \in arch)
  BY <1>1, <1>3, <1>8, Outcomes
<1>10. StoreTyped' /\ Once' /\ pend' \in {pend, pend \cup {r}, pend \ {r}}
       /\ (\A j \in Runs : j # r => (Queued(j)' => Queued(j) /\ (queue[1] = j => queue'[1] = j)))
       /\ (queue' = queue \/ queue' = Append(queue, r) \/ (queue # <<>> /\ queue' = Tail(queue) /\ hand = r
                /\ (Head(queue) # r => lost' = lost \cup {Head(queue)})))
       /\ lost \subseteq lost'
  <2>1. \/ queue' = queue
        \/ queue' = Append(queue, r) /\ ~Queued(r)
        \/ queue # <<>> /\ queue' = Tail(queue) /\ hand = r /\ (Head(queue) # r => lost' = lost \cup {Head(queue)})
    <3>1. CASE Deliver(r, c, result) /\ UNCHANGED flushVars
      <4>1. ~Queued(r)
        <5>1. CallSound(r, c) /\ c.by = "deliver"  BY <1>7, <3>1, Remaining DEF Deliver
        <5> QED BY <5>1 DEF CallSound
      <4> QED BY <3>1, <4>1 DEF Deliver
    <3>2. CASE (Finish(r, c) \/ Activated(r, c, result) \/ Retried(r, c, result)) /\ UNCHANGED flushVars
      BY <3>2 DEF Finish, Activated, Retried, storeVars
    <3>3. CASE Flushed(r, c, result)
      <4>1. hand = r  BY <1>7, <3>3, FlushedKeeps
      <4>2. \/ queue' = queue \/ (queue' = Shifted /\ lost' = Taken)
            \/ queue' = (IF queue # <<>> /\ Head(queue) = r THEN Tail(queue) ELSE queue)
        BY <3>3 DEF Flushed, Send, FlushGoesOn
      <4> QED BY <4>1, <4>2 DEF Shifted, Taken
    <3> QED BY <1>3, <3>1, <3>2, <3>3
  <2>2. pend' = pend \/ pend' = pend \cup {r} \/ pend' = pend \ {r}
    BY <1>3 DEF Deliver, Finish, Activated, Retried, Flushed, storeVars
  <2>3. lost \subseteq lost'
    BY <1>3 DEF flushVars, Flushed, Taken, Send, FlushGoesOn
  <2>4. CASE queue' = queue  BY <1>1, <2>2, <2>3, <2>4 DEF StoreTyped, Once, Queued
  <2>5. CASE queue' = Append(queue, r) /\ ~Queued(r)
    BY <1>1, <2>2, <2>3, <2>5 DEF StoreTyped, Once, Queued
  <2>6. CASE queue # <<>> /\ queue' = Tail(queue) /\ hand = r /\ (Head(queue) # r => lost' = lost \cup {Head(queue)})
    <3>1. StoreTyped' /\ Once'  BY <1>1, <2>2, <2>6 DEF StoreTyped, Once
    <3>2. ASSUME NEW j \in Runs, Queued(j)' PROVE Queued(j) /\ queue[1] # j
      <4>1. PICK i \in DOMAIN queue' : queue'[i] = j  BY <3>2 DEF Queued
      <4>2. i + 1 \in DOMAIN queue /\ queue[i + 1] = j /\ 1 \in DOMAIN queue /\ i + 1 # 1  BY <1>1, <2>6, <4>1 DEF StoreTyped
      <4> QED BY <1>1, <4>2 DEF Once, Queued
    <3> QED BY <2>2, <2>3, <2>6, <3>1, <3>2
  <2> QED BY <2>1, <2>4, <2>5, <2>6
<1>11. StopTyped' /\ RetryTyped' /\ FlushTyped' /\ LockTyped'
       /\ Locked(r)' /\ Placed(r)' /\ Recorded(r)' /\ Settling(r)'
  <2>1. CASE Flushed(r, c, result)
    <3>1. /\ Locked(r)' /\ Placed(r)' /\ Recorded(r)' /\ Settling(r)' /\ round = 1
          /\ LockTyped' /\ RetryTyped' /\ FlushTyped' /\ busy' \in BOOLEAN
      BY <1>7, <2>1, FlushedKeeps
    <3>2. UNCHANGED userTurn  BY <2>1 DEF Flushed
    <3> QED BY <1>1, <1>6, <1>9, <3>1, <3>2 DEF StopTyped
  <2>2. ASSUME UNCHANGED flushVars, UNCHANGED turnVars PROVE StopTyped' /\ FlushTyped'
    BY <1>1, <1>6, <1>9, <2>2 DEF StopTyped, FlushTyped, flushVars, turnVars
  <2>3. ASSUME UNCHANGED retryVars PROVE RetryTyped'  BY <1>1, <2>3 DEF RetryTyped, retryVars
  <2>4. CASE Deliver(r, c, result) /\ UNCHANGED flushVars  BY <1>7, <2>2, <2>3, <2>4, DeliverKeeps DEF Deliver
  <2>5. CASE Finish(r, c) /\ UNCHANGED flushVars  BY <1>7, <2>2, <2>3, <2>5, FinishKeeps DEF Finish
  <2>6. CASE Activated(r, c, result) /\ UNCHANGED flushVars  BY <1>7, <2>2, <2>3, <2>6, ActivatedKeeps DEF Activated
  <2>7. CASE Retried(r, c, result) /\ UNCHANGED flushVars  BY <1>7, <2>2, <2>7, RetriedKeeps DEF Retried
  <2> QED BY <1>3, <2>1, <2>4, <2>5, <2>6, <2>7
<1>12. ASSUME NEW j \in Runs, j # r PROVE Apart(j)
  <2>1. lockq'[j] = lockq[j] /\ ret'[j] = ret[j] /\ tried'[j] = tried[j] /\ sends'[j] = sends[j]
    <3>1. lockq'[j] = lockq[j]
      <4>1. \/ lockq' = [lockq EXCEPT ![r] = Tail(@)]
            \/ \E x : lockq' = [[lockq EXCEPT ![r] = Tail(@)] EXCEPT ![r] = Append(@, x)]
        BY <1>3 DEF Deliver, Finish, Activated, Retried, Flushed, FlushDone, FlushGoesOn, Send, Left
      <4> QED BY <1>1, <1>12, <4>1 DEF LockTyped
    <3>2. ret'[j] = ret[j] /\ tried'[j] = tried[j]
      BY <1>1, <1>3, <1>12 DEF Deliver, Finish, Activated, Retried, Flushed, FlushDone, FlushGoesOn, Send, retryVars, RetryTyped
    <3>3. sends'[j] = sends[j]
      BY <1>1, <1>3, <1>12 DEF flushVars, Flushed, FlushDone, FlushGoesOn, Send, FlushTyped
    <3> QED BY <3>1, <3>2, <3>3
  <2>2. (InHand(j)' <=> InHand(j)) /\ (InHand(j) => flush' = flush)
    <3>1. CASE Flushed(r, c, result)
      <4>1. hand = r /\ hand' = r  BY <1>7, <3>1, FlushedKeeps DEF Flushed
      <4> QED BY <1>12, <4>1 DEF InHand
    <3>2. CASE UNCHANGED flushVars  BY <3>2 DEF flushVars, InHand
    <3> QED BY <1>3, <3>1, <3>2
  <2>3. Queued(j) /\ ~Queued(j)' => j \in lost' /\ ~InHand(j)
    <3> SUFFICES ASSUME NEW i \in DOMAIN queue, queue[i] = j, ~Queued(j)' PROVE j \in lost' /\ ~InHand(j)
      BY DEF Queued
    <3>1. queue' # queue /\ queue' # Append(queue, r)  BY <1>1 DEF Queued, StoreTyped
    <3>2. queue # <<>> /\ queue' = Tail(queue) /\ hand = r /\ (Head(queue) # r => lost' = lost \cup {Head(queue)})
      BY <1>10, <3>1
    <3>3. i = 1
      <4>1. SUFFICES ASSUME i # 1 PROVE FALSE  OBVIOUS
      <4>2. i - 1 \in DOMAIN queue' /\ queue'[i - 1] = j  BY <1>1, <3>2, <4>1 DEF StoreTyped
      <4> QED BY <4>2 DEF Queued
    <3> QED BY <1>1, <1>12, <3>2, <3>3 DEF InHand, StoreTyped
  <2>4. j \in pend' <=> j \in pend  BY <1>10, <1>12
  <2> QED BY <1>1, <1>6, <1>9, <1>10, <1>12, <2>1, <2>2, <2>3, <2>4 DEF Apart
<1>13. ASSUME NEW j \in Runs PROVE Locked(j)' /\ Placed(j)' /\ Recorded(j)' /\ Settling(j)'
  <2>1. CASE j = r  BY <1>11, <2>1
  <2>2. CASE j # r  BY <1>6, <1>11, <1>12, <2>2, SoundKept
  <2> QED BY <2>1, <2>2
<1>14. Dead'  BY <1>2, <1>6 DEF Dead
<1> QED BY <1>9, <1>10, <1>11, <1>13, <1>14, Assembled

-----------------------------------------------------------------------------
LEMMA InitSound == Init => IInv
<1> SUFFICES ASSUME Init PROVE IInv  OBVIOUS
<1> USE DEF Init
<1>1. RunTyped /\ StoreTyped /\ RetryTyped /\ FlushTyped /\ Once
  BY DEF RunTyped, StoreTyped, RetryTyped, FlushTyped, Once
<1>2. LockTyped /\ FlushLocked /\ Dead
  <2>1. LockTyped  BY DEF LockTyped
  <2>2. \A r \in Runs : DOMAIN lockq[r] = {}  OBVIOUS
  <2> QED BY <2>1, <2>2 DEF FlushLocked, Dead
<1>3. StopTyped
  <2>1. /\ busy = FALSE /\ userTurn = FALSE /\ target = "current" /\ reset = "no"
        /\ stage = "up" /\ round = 1 /\ events = 0 /\ fails = 0
    OBVIOUS
  <2>2. round = 2 => FALSE  BY <2>1
  <2>3. stage # "down"  BY <2>1
  <2>4. busy \in BOOLEAN /\ userTurn \in BOOLEAN  BY <2>1, Zenon
  <2>5. events \in Nat /\ fails \in Nat  BY <2>1
  <2> HIDE DEF Init
  <2> QED BY <2>1, <2>2, <2>3, <2>4, <2>5 DEF StopTyped
<1>4. ASSUME NEW r \in Runs PROVE Sound(r)
  <2>1. ~Queued(r) /\ ~InHand(r) /\ flush \notin Writing  BY DEF Queued, InHand, Writing
  <2>2. Locked(r)  BY <2>1 DEF Locked
  <2>3. Placed(r)  BY <2>1 DEF Placed
  <2>4. Recorded(r)  BY <2>1 DEF Recorded
  <2>5. Settling(r)  BY <2>1 DEF Settling
  <2> QED BY <2>2, <2>3, <2>4, <2>5 DEF Sound
<1> QED BY <1>1, <1>2, <1>3, <1>4, Typed

LEMMA NextKeeps == ASSUME IInv, [Next]_vars PROVE IInv'
<1>1. CASE UNCHANGED vars
  <2>1. UNCHANGED <<phase, mem, disk, reg, arch, lockq, queue, pend, ret, tried, flush, hand, sends, lost,
                    busy, userTurn, target, reset, stage, round, events, fails>>
    BY <1>1 DEF vars, runVars, storeVars, retryVars, flushVars, turnVars, sessionVars, stopVars, counts
  <2>2. RunTyped /\ LockTyped /\ StoreTyped /\ RetryTyped /\ FlushTyped /\ StopTyped /\ Once /\ Dead  BY Typed
  <2>3. RunTyped' /\ LockTyped' /\ StoreTyped' /\ RetryTyped' /\ FlushTyped' /\ StopTyped' /\ Once' /\ Dead'
    BY <2>1, <2>2 DEF RunTyped, LockTyped, StoreTyped, RetryTyped, FlushTyped, StopTyped, Once, Dead
  <2>4. \A j \in Runs : Apart(j)  BY <2>1, <2>2 DEF Apart, Queued, InHand, StopTyped
  <2> QED BY <2>1, <2>3, <2>4, SoundKept, Assembled
<1>2. ASSUME NEW r \in Runs, EndRun(r) \/ Activate(r) \/ Attempt(r) \/ Step(r) \/ Recover(r) PROVE IInv'
  BY <1>2, EndRunKeeps, ActivateKeeps, AttemptKeeps, StepKeeps, RecoverKeeps
<1>3. CASE Type \/ UserTurnEnds \/ Resume \/ Replace  BY <1>3, MovesKeep
<1>4. CASE RetryTimer \/ RetryAll  BY <1>4, PassKeeps
<1>5. CASE NewSession
  <2>1. CASE flush # "switched" \/ reset = "retiring"  BY <1>5, <2>1, NewSessionKeeps
  <2>2. CASE flush = "switched" /\ reset # "retiring"  BY <1>5, <2>2, SwitchedKeeps
  <2> QED BY <2>1, <2>2
<1>6. CASE FlushNext \/ TurnEnds \/ New  BY <1>6, FlushNextKeeps, TurnEndsKeeps, NewKeeps
<1>7. CASE Stop \/ ActivateAll \/ Retired \/ StopRuns \/ Drain \/ Crash
  BY <1>7, StopKeeps, ActivateAllKeeps, RetiredKeeps, StopRunsKeeps, DrainKeeps, CrashKeeps
<1>8. CASE Terminated  BY <1>1, <1>8 DEF Terminated
<1> QED BY <1>1, <1>2, <1>3, <1>4, <1>5, <1>6, <1>7, <1>8 DEF Next, Shutdown

-----------------------------------------------------------------------------
\* The invariant of run completion and delivery: whatever interleaving of writes,
\* failed writes, session changes, stops and deaths, every completion is where
\* its record, the queue, the retirements and the loop agree that it is.
THEOREM DeliveryConsistent == Spec => []IInv
<1>1. Init => IInv  BY InitSound
<1>2. IInv /\ [Next]_vars => IInv'  BY NextKeeps
<1> QED BY <1>1, <1>2, PTL DEF Spec

\* Every variable keeps to its values, and the calls to their locks.
THEOREM TypeCorrect == Spec => []TypeOK
<1>1. IInv => TypeOK  BY DEF IInv
<1> QED BY <1>1, DeliveryConsistent, PTL

\* A completion is given to a backend once at most, and its durable record never
\* denies it (markDelivery, flushPromptQueue, loadHistory).
THEOREM RecordsTellTheTruth == Spec => []SentTruth
<1>1. IInv => SentTruth
  <2> SUFFICES ASSUME IInv, NEW r \in Runs
               PROVE  /\ sends[r] <= 1
                      /\ sends[r] = 1 => disk[r] \in {"sending", "delivered", "ambiguous"}
                      /\ disk[r] = "delivered" => sends[r] = 1
    BY DEF SentTruth
  <2>1. FlushTyped /\ Recorded(r)  BY Typed DEF Sound
  <2> QED BY <2>1 DEF FlushTyped, Recorded
<1> QED BY <1>1, DeliveryConsistent, PTL

\* No completion is forgotten: before a shutdown every open one is in somebody's
\* hands, and a shutdown without a failed write archives what no retirement still
\* holds (stopAndExit's two rounds).
THEOREM EveryCompletionIsKept == Spec => []NothingForgotten
<1>1. IInv => NothingForgotten
  <2> SUFFICES ASSUME IInv PROVE NotStranded /\ ShutdownArchives  BY DEF NothingForgotten
  <2>1. RunTyped /\ StoreTyped /\ FlushTyped /\ StopTyped /\ \A r \in Runs : Sound(r)  BY Typed
  <2>2. NotStranded
    <3> SUFFICES ASSUME NEW r \in Runs, Up, r \in reg, phase[r] = "settled", mem[r] \notin Final
                 PROVE  \/ Contains(queue, r) \/ r \in pend \/ ret[r] # "no" \/ r \in lost
                        \/ hand = r /\ flush \notin {"idle", "user"}
      BY DEF NotStranded
    <3>1. Recorded(r)  BY <2>1 DEF Sound
    <3>2. Queued(r) => Contains(queue, r)  BY <2>1 DEF Queued, Contains, StoreTyped
    <3>3. mem[r] \in {"queued", "waiting-for-session", "sending"}  BY <2>1, <3>1 DEF Recorded, RunTyped
    <3> QED BY <3>1, <3>2, <3>3 DEF Recorded, InHand
  <2>3. ShutdownArchives
    <3> SUFFICES ASSUME stage = "down", fails = 0, NEW r \in Runs PROVE r \in arch \cup lost \cup InLock("activate")
      BY DEF ShutdownArchives
    <3>1. round = 2 /\ Settling(r) /\ Recorded(r)  BY <2>1 DEF Sound, StopTyped
    <3>2. r \in reg \cup arch  BY <3>1 DEF Recorded
    <3>3. r \in reg => Open(r)  BY <3>1 DEF Settling, Open
    <3> QED BY <3>1, <3>2, <3>3 DEF Settling
  <2> QED BY <2>2, <2>3
<1> QED BY <1>1, DeliveryConsistent, PTL

\* A completion is sent to the session that launched its run only, and what is
\* archived is final and stays as it is: no late caller of the lock changes it
\* (flushPromptQueue's second look; #inMetadata and #registeredRun).
LEMMA StepIsTimely ==
    ASSUME IInv, NEW r \in Runs, Step(r)
    PROVE  /\ \A j \in Runs : sends'[j] # sends[j] => target = "current"
           /\ \A j \in arch : disk'[j] = disk[j] /\ j \in arch'
<1>1. RunTyped /\ LockTyped /\ FlushTyped  BY Typed
<1>2. \E c \in {Head(lockq[r])} : \E result \in {"true", "false", "throws"} :
        /\ Outcome(r, c, result)
        /\ \/ UNCHANGED flushVars
           \/ Flushed(r, c, result)
  BY DEF Step
<1>3. PICK c \in {Head(lockq[r])}, result \in {"true", "false", "throws"} :
        Outcome(r, c, result) /\ (UNCHANGED flushVars \/ Flushed(r, c, result))
  BY <1>2
<1>4. sends' = sends \/ target = "current"
  BY <1>3 DEF flushVars, Flushed, FlushDone, FlushGoesOn, StillExact
<1>5. r \in arch => Refuses(r, c)  BY <1>1 DEF Refuses, RunTyped
<1>6. \/ Refuses(r, c) /\ UNCHANGED <<disk, arch>>
      \/ ~Refuses(r, c) /\ disk' \in {disk, [disk EXCEPT ![r] = Written(r, c)]} /\ arch' \in {arch, arch \cup {r}}
  BY <1>3 DEF Outcome, Succeeds, Throws, runVars
<1> QED BY <1>1, <1>4, <1>5, <1>6 DEF RunTyped

\* Whoever sends, and however late a call gets its lock: only the session that
\* launched a run is sent its completion, and what is archived is final and stays
\* as it is (flushPromptQueue, markDelivery).
THEOREM NothingComesLate == Spec => NothingLate
<1>1. ASSUME IInv, [Next]_vars
      PROVE  [/\ \A r \in Runs : sends'[r] # sends[r] => target = "current"
              /\ \A r \in arch : FinalRecord(r) /\ disk'[r] = disk[r] /\ r \in arch']_vars
  <2>1. RunTyped /\ StopTyped /\ Dead /\ \A r \in Runs : Sound(r)  BY <1>1, Typed
  <2>2. \A r \in arch : FinalRecord(r)  BY <2>1 DEF Sound, Recorded, RunTyped
  <2>3. CASE UNCHANGED vars  BY <2>3
  <2>4. ASSUME NEW r \in Runs, Step(r)
        PROVE  /\ \A j \in Runs : sends'[j] # sends[j] => target = "current"
               /\ \A j \in arch : disk'[j] = disk[j] /\ j \in arch'
    BY <1>1, <2>4, StepIsTimely
  <2>5. ASSUME NEW r \in Runs, EndRun(r) \/ Activate(r) \/ Attempt(r) \/ Recover(r)
        PROVE  sends' = sends /\ \A j \in arch : disk'[j] = disk[j] /\ j \in arch'
    <3>1. CASE EndRun(r)
      <4>1. sends' = sends /\ arch' = arch /\ disk' \in {disk, [disk EXCEPT ![r] = "pending"]} /\ phase[r] = "running" /\ Up
        BY <3>1 DEF EndRun, flushVars
      <4>2. r \in reg  BY <2>1, <4>1 DEF Sound, Recorded
      <4> QED BY <2>1, <4>1, <4>2 DEF RunTyped
    <3>2. CASE Activate(r) \/ Attempt(r)  BY <3>2 DEF Activate, Attempt, runVars, flushVars
    <3>3. CASE Recover(r)  BY <2>1, <3>3 DEF Recover, flushVars, RunTyped
    <3> QED BY <2>5, <3>1, <3>2, <3>3
  <2>6. ASSUME RetryTimer \/ FlushNext \/ TurnEnds \/ UserTurnEnds \/ Type \/ New \/ NewSession \/ Resume \/ Replace
        PROVE  sends' = sends /\ disk' = disk /\ arch' = arch
    BY <2>6 DEF RetryTimer, FlushNext, TurnEnds, UserTurnEnds, Type, New, NewSession, Resume, Replace, runVars, flushVars
  <2>7. ASSUME Stop \/ ActivateAll \/ RetryAll \/ Retired \/ StopRuns \/ Drain \/ Crash
        PROVE  sends' = sends /\ disk' = disk /\ arch \subseteq arch'
    BY <2>7 DEF Stop, ActivateAll, RetryAll, Retired, StopRuns, Drain, Crash, runVars, flushVars
  <2>8. CASE Terminated  BY <2>3, <2>8 DEF Terminated
  <2> QED BY <1>1, <2>2, <2>3, <2>4, <2>5, <2>6, <2>7, <2>8 DEF Next, Shutdown
<1> QED BY <1>1, DeliveryConsistent, PTL DEF Spec, NothingLate
=============================================================================
