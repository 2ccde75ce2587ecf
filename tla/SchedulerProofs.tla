-------------------------- MODULE SchedulerProofs --------------------------
(***************************************************************************)
(* Theorems about Scheduler, for any runs, harnesses, calls and limits.     *)
(*                                                                          *)
(* The invariant IInv joins the types, the exact accounting of slots, and   *)
(* the structure of queues and runOrder.  None is inductive alone: a release *)
(* keeps `active' a natural number only because the slot is counted, and a  *)
(* grant counts a slot once only because the picked call is queued and      *)
(* stands in one place of one queue.                                        *)
(***************************************************************************)
EXTENDS Scheduler, FiniteSetTheorems, SequenceTheorems, TLAPS

-----------------------------------------------------------------------------
(* Sequences *)

\* Removing position i of a queue keeps every other element, in order.
LEMMA DeleteFacts ==
  ASSUME NEW S, NEW s \in Seq(S), NEW i \in 1 .. Len(s)
  PROVE  /\ Delete(s, i) \in Seq(S)
         /\ Len(Delete(s, i)) = Len(s) - 1
         /\ \A j \in 1 .. Len(s) - 1 :
              Delete(s, i)[j] = IF j < i THEN s[j] ELSE s[j + 1]
<1> DEFINE front == SubSeq(s, 1, i - 1)
           back == SubSeq(s, i + 1, Len(s))
<1>1. /\ front \in Seq(S) /\ Len(front) = i - 1
      /\ back \in Seq(S) /\ Len(back) = Len(s) - i
      /\ Delete(s, i) \in Seq(S)
      /\ Len(Delete(s, i)) = Len(front) + Len(back)
  BY DEF Delete
<1>2. Len(Delete(s, i)) = Len(s) - 1
  <2> HIDE DEF front, back
  <2> QED BY <1>1
<1>3. ASSUME NEW j \in 1 .. Len(s) - 1
      PROVE  Delete(s, i)[j] = IF j < i THEN s[j] ELSE s[j + 1]
  <2>1. j \in 1 .. Len(front) + Len(back)  BY <1>1, <1>2, Zenon
  <2> QED BY <2>1, ConcatProperties, SubSeqProperties DEF Delete
<1> QED BY <1>1, <1>2, <1>3, Zenon

\* Removing position i of a sequence without duplicates removes that element
\* and no other.
LEMMA DeleteKeepsOthers ==
  ASSUME NEW S, NEW s \in Seq(S), NEW i \in 1 .. Len(s),
         \A j, k \in DOMAIN s : s[j] = s[k] => j = k
  PROVE  /\ \A j, k \in DOMAIN Delete(s, i) :
              Delete(s, i)[j] = Delete(s, i)[k] => j = k
         /\ \A j \in DOMAIN Delete(s, i) :
              /\ Delete(s, i)[j] # s[i]
              /\ \E k \in DOMAIN s : Delete(s, i)[j] = s[k]
         /\ \A k \in DOMAIN s : s[k] # s[i] =>
              \E j \in DOMAIN Delete(s, i) : Delete(s, i)[j] = s[k]
<1> DEFINE d == Delete(s, i)
<1>1. /\ d \in Seq(S) /\ Len(d) = Len(s) - 1
      /\ \A j \in 1 .. Len(s) - 1 : d[j] = IF j < i THEN s[j] ELSE s[j + 1]
  BY DeleteFacts
<1>2. Len(s) \in Nat /\ DOMAIN s = 1 .. Len(s) /\ DOMAIN d = 1 .. Len(s) - 1
  BY <1>1, LenProperties
<1> HIDE DEF d
<1>3. ASSUME NEW k \in DOMAIN s, s[k] # s[i] PROVE \E j \in DOMAIN d : d[j] = s[k]
  <2>1. CASE k < i
    <3>1. k \in DOMAIN d /\ d[k] = s[k]  BY <1>1, <1>2, <2>1
    <3> QED BY <3>1
  <2>2. CASE k > i
    <3>1. k - 1 \in DOMAIN d /\ d[k - 1] = s[k]  BY <1>1, <1>2, <2>2
    <3> QED BY <3>1
  <2> QED BY <1>2, <1>3, <2>1, <2>2
<1>4. ASSUME NEW j \in DOMAIN d PROVE d[j] # s[i] /\ \E k \in DOMAIN s : d[j] = s[k]
  <2>1. CASE j < i
    <3>1. j \in DOMAIN s /\ i \in DOMAIN s /\ j # i /\ d[j] = s[j]  BY <1>1, <1>2, <2>1
    <3> QED BY <3>1
  <2>2. CASE ~(j < i)
    <3>1. j + 1 \in DOMAIN s /\ i \in DOMAIN s /\ j + 1 # i /\ d[j] = s[j + 1]  BY <1>1, <1>2, <2>2
    <3> QED BY <3>1
  <2> QED BY <2>1, <2>2
<1>5. ASSUME NEW j \in DOMAIN d, NEW k \in DOMAIN d, d[j] = d[k] PROVE j = k
  <2> DEFINE at(n) == IF n < i THEN n ELSE n + 1
  <2>1. /\ at(j) \in DOMAIN s /\ d[j] = s[at(j)]
        /\ at(k) \in DOMAIN s /\ d[k] = s[at(k)]
    BY <1>1, <1>2
  <2>2. at(j) = at(k)  BY <1>5, <2>1
  <2> QED BY <1>2, <2>2
<1> QED BY <1>3, <1>4, <1>5 DEF d

\* The same for runOrder and its filter.
LEMMA WithoutKeepsOthers ==
  ASSUME NEW S, NEW s \in Seq(S), NEW r,
         \A j, k \in DOMAIN s : s[j] = s[k] => j = k
  PROVE  /\ Without(s, r) \in Seq(S)
         /\ \A j, k \in DOMAIN Without(s, r) : Without(s, r)[j] = Without(s, r)[k] => j = k
         /\ \A j \in DOMAIN Without(s, r) :
              Without(s, r)[j] # r /\ \E k \in DOMAIN s : Without(s, r)[j] = s[k]
         /\ \A k \in DOMAIN s : s[k] # r =>
              \E j \in DOMAIN Without(s, r) : Without(s, r)[j] = s[k]
<1>1. CASE \E i \in DOMAIN s : s[i] = r
  <2> DEFINE i == CHOOSE i \in DOMAIN s : s[i] = r
  <2>1. i \in DOMAIN s /\ s[i] = r  BY <1>1
  <2>2. Without(s, r) = Delete(s, i)  BY <1>1 DEF Without
  <2> HIDE DEF i
  <2>3. i \in 1 .. Len(s)  BY <2>1, LenProperties
  <2>4. Delete(s, i) \in Seq(S)  BY <2>3, DeleteFacts
  <2>5. /\ \A j, k \in DOMAIN Delete(s, i) :
              Delete(s, i)[j] = Delete(s, i)[k] => j = k
        /\ \A j \in DOMAIN Delete(s, i) :
              /\ Delete(s, i)[j] # s[i]
              /\ \E k \in DOMAIN s : Delete(s, i)[j] = s[k]
        /\ \A k \in DOMAIN s : s[k] # s[i] =>
              \E j \in DOMAIN Delete(s, i) : Delete(s, i)[j] = s[k]
    BY <2>3, DeleteKeepsOthers
  <2> QED BY <2>1, <2>2, <2>4, <2>5
<1>2. CASE ~ \E i \in DOMAIN s : s[i] = r
  BY <1>2 DEF Without
<1> QED BY <1>1, <1>2

-----------------------------------------------------------------------------
(* Counting slots *)

\* The calls of T that belong to k: a run (f is RunOf) or a harness (HarnessOf).
Having(T, f, k) == {x \in T : f[x] = k}

\* One more or one less held slot changes the count of its own key by one and
\* no other count.
LEMMA CountAdd ==
  ASSUME NEW T \in SUBSET Entries, NEW e \in Entries \ T, NEW f, NEW k
  PROVE  Cardinality(Having(T \cup {e}, f, k)) =
           IF f[e] = k THEN Cardinality(Having(T, f, k)) + 1
           ELSE Cardinality(Having(T, f, k))
<1>1. IsFiniteSet(Having(T, f, k)) /\ e \notin Having(T, f, k)
  BY FS_Subset, SchedulerAssumption DEF SchedulerAssumption, Having
<1>2. Having(T \cup {e}, f, k) =
        IF f[e] = k THEN Having(T, f, k) \cup {e} ELSE Having(T, f, k)
  BY DEF Having
<1>3. CASE f[e] = k
  <2>1. Having(T \cup {e}, f, k) = Having(T, f, k) \cup {e}  BY <1>2, <1>3
  <2>2. Cardinality(Having(T, f, k) \cup {e}) =
          Cardinality(Having(T, f, k)) + 1
    BY <1>1, <1>3, FS_AddElement
  <2> QED BY <1>3, <2>1, <2>2
<1>4. CASE f[e] # k
  <2>1. Having(T \cup {e}, f, k) = Having(T, f, k)  BY <1>2, <1>4
  <2> QED BY <1>4, <2>1
<1> QED BY <1>3, <1>4

LEMMA CountRemove ==
  ASSUME NEW T \in SUBSET Entries, NEW e \in T, NEW f, NEW k
  PROVE  Cardinality(Having(T \ {e}, f, k)) =
           IF f[e] = k THEN Cardinality(Having(T, f, k)) - 1
           ELSE Cardinality(Having(T, f, k))
<1>1. IsFiniteSet(Having(T, f, k)) /\ (f[e] = k => e \in Having(T, f, k))
  BY FS_Subset, SchedulerAssumption DEF SchedulerAssumption, Having
<1>2. Having(T \ {e}, f, k) =
        IF f[e] = k THEN Having(T, f, k) \ {e} ELSE Having(T, f, k)
  BY DEF Having
<1>3. CASE f[e] = k
  <2>1. Having(T \ {e}, f, k) = Having(T, f, k) \ {e}  BY <1>2, <1>3
  <2>2. Cardinality(Having(T, f, k) \ {e}) =
          Cardinality(Having(T, f, k)) - 1
    BY <1>1, <1>3, FS_RemoveElement
  <2> QED BY <1>3, <2>1, <2>2
<1>4. CASE f[e] # k
  <2>1. Having(T \ {e}, f, k) = Having(T, f, k)  BY <1>2, <1>4
  <2> QED BY <1>4, <2>1
<1> QED BY <1>3, <1>4

\* Counts are natural numbers, and positive when something is counted.
LEMMA CountNat ==
  ASSUME NEW T \in SUBSET Entries, NEW f, NEW k
  PROVE  /\ IsFiniteSet(T) /\ Cardinality(T) \in Nat
         /\ Cardinality(Having(T, f, k)) \in Nat
         /\ \A e \in T : Cardinality(T) > 0
         /\ \A e \in T : f[e] = k => Cardinality(Having(T, f, k)) > 0
<1> DEFINE K == Having(T, f, k)
<1>1. IsFiniteSet(T) /\ IsFiniteSet(K)
  BY FS_Subset, SchedulerAssumption DEF SchedulerAssumption, Having
<1>2. Cardinality(T) \in Nat /\ Cardinality(K) \in Nat
  BY <1>1, FS_CardinalityType
<1>3. T # {} => Cardinality(T) # 0  BY <1>1, FS_EmptySet
<1>4. K # {} => Cardinality(K) # 0  BY <1>1, FS_EmptySet
<1>5. \A e \in T : T # {} /\ (f[e] = k => K # {})  BY DEF Having
<1> HIDE DEF K
<1>6. \A e \in T : Cardinality(T) > 0 /\ (f[e] = k => Cardinality(K) > 0)
  BY <1>2, <1>3, <1>4, <1>5
<1> QED BY <1>1, <1>2, <1>6 DEF K

LEMMA HeldHaving ==
  /\ \A r : HeldByRun(r) = Having(Held, RunOf, r)
  /\ \A h : HeldByHarness(h) = Having(Held, HarnessOf, h)
  /\ Held \in SUBSET Entries
BY DEF HeldByRun, HeldByHarness, Having, Held

-----------------------------------------------------------------------------
(* The inductive invariant *)

IInv == TypeOK /\ AccountingExact /\ QueuesHoldQueued /\ RunOrderExact

LEMMA InitInv == Init => IInv
<1> SUFFICES ASSUME Init PROVE IInv  OBVIOUS
<1>1. TypeOK
  <2>1. <<>> \in Seq(Entries) /\ <<>> \in Seq(Runs)  BY EmptySeq
  <2> QED BY <2>1 DEF Init, TypeOK, Status
<1>2. Held = {} /\ Queued = {}
  BY DEF Init, Held, Queued
<1>3. AccountingExact
  <2>1. \A r \in Runs : HeldByRun(r) = {}  BY <1>2 DEF HeldByRun
  <2>2. \A h \in Harnesses : HeldByHarness(h) = {}  BY <1>2 DEF HeldByHarness
  <2> QED BY <1>2, <2>1, <2>2, FS_EmptySet DEF Init, AccountingExact
<1>4. QueuesHoldQueued /\ RunOrderExact
  BY <1>2 DEF Init, QueuesHoldQueued, RunOrderExact
<1> QED BY <1>1, <1>3, <1>4 DEF IInv

\* An action that touches neither the counters nor the set of held slots keeps
\* the accounts.
LEMMA SameSlots ==
  ASSUME AccountingExact, UNCHANGED counters, Held' = Held
  PROVE  AccountingExact'
<1>1. \A r : HeldByRun(r)' = HeldByRun(r)  BY DEF HeldByRun
<1>2. \A h : HeldByHarness(h)' = HeldByHarness(h)  BY DEF HeldByHarness
<1> QED BY <1>1, <1>2 DEF AccountingExact, counters

\* A change of the gates alone is harmless while no queue loses its run.
LEMMA GateStep ==
  ASSUME IInv, gate' \in [Runs -> {"absent", "open", "shut"}],
         \A r \in Runs : gate[r] # "absent" => gate'[r] # "absent",
         draining' \in BOOLEAN,
         UNCHANGED <<counters, queues, runOrder, nextRunIndex, status>>
  PROVE  IInv'
<1>1. Held' = Held /\ Queued' = Queued  BY DEF Held, Queued
<1>2. AccountingExact'  BY <1>1, SameSlots DEF IInv
<1>3. TypeOK'  BY DEF IInv, TypeOK, counters
<1>4. QueuesHoldQueued'
  <2>1. queues' = queues /\ status' = status  OBVIOUS
  <2> QED BY <1>1, <2>1 DEF IInv, QueuesHoldQueued
<1>5. RunOrderExact'  BY DEF IInv, RunOrderExact
<1> QED BY <1>2, <1>3, <1>4, <1>5 DEF IInv

LEMMA ConfigureRunInv == ASSUME IInv, NEW r \in Runs, ConfigureRun(r) PROVE IInv'
  BY GateStep DEF ConfigureRun, IInv, TypeOK

LEMMA PauseInv == ASSUME IInv, NEW r \in Runs, Pause(r) PROVE IInv'
  BY GateStep DEF Pause, IInv, TypeOK

LEMMA ResumeInv == ASSUME IInv, NEW r \in Runs, Resume(r) PROVE IInv'
  BY GateStep DEF Resume, IInv, TypeOK

LEMMA DrainReturnInv == ASSUME IInv, DrainReturn PROVE IInv'
  BY GateStep DEF DrainReturn, IInv, TypeOK

\* Dropping a queue rejects its calls and takes its run out of the order.
LEMMA DropQueueInv ==
  ASSUME IInv, NEW r \in Runs, DropQueue(r),
         gate' \in [Runs -> {"absent", "open", "shut"}],
         \A q \in Runs : q # r => gate'[q] = gate[q],
         UNCHANGED <<counters, nextRunIndex, draining>>
  PROVE  IInv'
<1> USE DEF IInv
<1>0. TypeOK /\ QueuesHoldQueued /\ RunOrderExact  OBVIOUS
<1>1. queues[r] \in Seq(Entries) /\ DOMAIN queues[r] = 1 .. Len(queues[r])
  BY <1>0, LenProperties DEF TypeOK
<1>2. \A i \in DOMAIN queues[r] : queues[r][i] \in Queued /\ RunOf[queues[r][i]] = r
  BY <1>0, <1>1, ElementOfSeq DEF QueuesHoldQueued, Queued
<1>3. Held' = Held
  BY <1>0, <1>2 DEF Held, Queued, DropQueue, TypeOK
<1>4. AccountingExact'  BY <1>3, SameSlots
<1>5. /\ runOrder' \in Seq(Runs)
      /\ \A j, k \in DOMAIN runOrder' : runOrder'[j] = runOrder'[k] => j = k
      /\ \A j \in DOMAIN runOrder' :
           runOrder'[j] # r /\ \E k \in DOMAIN runOrder : runOrder'[j] = runOrder[k]
      /\ \A k \in DOMAIN runOrder : runOrder[k] # r =>
           \E j \in DOMAIN runOrder' : runOrder'[j] = runOrder[k]
  <2>1. runOrder \in Seq(Runs)  BY <1>0 DEF TypeOK
  <2>2. \A j, k \in DOMAIN runOrder : runOrder[j] = runOrder[k] => j = k
    BY <1>0 DEF RunOrderExact
  <2>3. runOrder' = Without(runOrder, r)  BY DEF DropQueue
  <2> QED BY <2>1, <2>2, <2>3, WithoutKeepsOthers
<1>6. TypeOK'
  BY <1>0, <1>5 DEF TypeOK, DropQueue, Status, counters
<1>7. /\ queues'[r] = <<>>
      /\ \A q \in Runs : q # r => queues'[q] = queues[q]
  BY <1>0 DEF DropQueue, TypeOK
<1>8. \A e \in Entries : status'[e] =
        IF \E i \in DOMAIN queues[r] : queues[r][i] = e THEN "idle" ELSE status[e]
  BY DEF DropQueue
<1>9. QueuesHoldQueued'
  <2>1. ASSUME NEW q \in Runs, NEW i \in DOMAIN queues'[q]
        PROVE  /\ status'[queues'[q][i]] = "queued"
               /\ RunOf[queues'[q][i]] = q
               /\ gate'[q] # "absent"
               /\ \A j \in DOMAIN queues'[q] : queues'[q][i] = queues'[q][j] => i = j
    <3>1. q # r  BY <1>7, <2>1
    <3>2. queues'[q] = queues[q] /\ gate'[q] = gate[q]  BY <1>7, <3>1
    <3>3. queues[q][i] \in Entries
      BY <1>0, <3>2, ElementOfSeq, LenProperties DEF TypeOK
    <3>4. RunOf[queues[q][i]] = q /\ status[queues[q][i]] = "queued"
      BY <1>0, <3>2 DEF QueuesHoldQueued
    <3>5. ~ \E j \in DOMAIN queues[r] : queues[r][j] = queues[q][i]
      BY <1>2, <3>1, <3>4
    <3> QED BY <1>0, <1>8, <3>2, <3>3, <3>4, <3>5 DEF QueuesHoldQueued
  <2>2. ASSUME NEW e \in Entries, status'[e] = "queued"
        PROVE  \E i \in DOMAIN queues'[RunOf[e]] : queues'[RunOf[e]][i] = e
    <3>1. status[e] = "queued" /\ ~ \E i \in DOMAIN queues[r] : queues[r][i] = e
      BY <1>8, <2>2
    <3>2. \E i \in DOMAIN queues[RunOf[e]] : queues[RunOf[e]][i] = e
      BY <1>0, <3>1 DEF QueuesHoldQueued, Queued
    <3>3. RunOf[e] \in Runs /\ RunOf[e] # r
      BY <3>1, <3>2, SchedulerAssumption DEF SchedulerAssumption
    <3> QED BY <1>7, <3>2, <3>3
  <2> QED BY <2>1, <2>2 DEF QueuesHoldQueued, Queued
<1>10. RunOrderExact'
  <2>1. \A j \in DOMAIN runOrder' : runOrder'[j] \in Runs
    BY <1>5, ElementOfSeq, LenProperties
  <2>2. \A j \in DOMAIN runOrder' : queues'[runOrder'[j]] # <<>>
    BY <1>0, <1>5, <1>7, <2>1 DEF RunOrderExact
  <2>3. ASSUME NEW q \in Runs, queues'[q] # <<>>
        PROVE  \E j \in DOMAIN runOrder' : runOrder'[j] = q
    <3>1. q # r /\ queues[q] # <<>>  BY <1>7, <2>3
    <3>2. \E k \in DOMAIN runOrder : runOrder[k] = q  BY <1>0, <3>1 DEF RunOrderExact
    <3> QED BY <1>5, <3>1, <3>2
  <2> QED BY <1>5, <2>2, <2>3 DEF RunOrderExact
<1> QED BY <1>4, <1>6, <1>9, <1>10

LEMMA CancelRunInv == ASSUME IInv, NEW r \in Runs, CancelRun(r) PROVE IInv'
  BY DropQueueInv DEF CancelRun, IInv, TypeOK

LEMMA CloseRunInv == ASSUME IInv, NEW r \in Runs, CloseRun(r) PROVE IInv'
  BY DropQueueInv DEF CloseRun, IInv, TypeOK

\* What the order loses when a queue empties: that run, and nothing else.
OrderWithout(r) ==
  /\ runOrder' \in Seq(Runs)
  /\ \A j, k \in DOMAIN runOrder' : runOrder'[j] = runOrder'[k] => j = k
  /\ \A j \in DOMAIN runOrder' :
       runOrder'[j] # r /\ \E k \in DOMAIN runOrder : runOrder'[j] = runOrder[k]
  /\ \A k \in DOMAIN runOrder : runOrder[k] # r =>
       \E j \in DOMAIN runOrder' : runOrder'[j] = runOrder[k]

\* Taking one call out of its queue, for an abort or a grant, keeps the
\* structure of the queues when the call leaves the state "queued" with it.
LEMMA TakeOut ==
  ASSUME IInv, NEW r \in Runs, NEW i \in DOMAIN queues[r], NEW v \in Status,
         v # "queued",
         queues' = [queues EXCEPT ![r] = Delete(@, i)],
         status' = [status EXCEPT ![queues[r][i]] = v],
         gate' = gate,
         IF Len(queues[r]) = 1 THEN OrderWithout(r) ELSE runOrder' = runOrder
  PROVE  /\ queues' \in [Runs -> Seq(Entries)]
         /\ status' \in [Entries -> Status]
         /\ runOrder' \in Seq(Runs)
         /\ QueuesHoldQueued'
         /\ RunOrderExact'
<1> DEFINE q == queues[r]
           e == q[i]
<1>0. TypeOK /\ QueuesHoldQueued /\ RunOrderExact  BY DEF IInv
<1>1. q \in Seq(Entries) /\ DOMAIN q = 1 .. Len(q) /\ Len(q) \in Nat /\ i \in 1 .. Len(q)
  BY <1>0, LenProperties DEF TypeOK
<1>2. \A j, k \in DOMAIN q : q[j] = q[k] => j = k
  BY <1>0 DEF QueuesHoldQueued
<1>3. e \in Entries /\ status[e] = "queued" /\ RunOf[e] = r /\ gate[r] # "absent"
  BY <1>0, <1>1, ElementOfSeq DEF QueuesHoldQueued
<1>4. /\ queues'[r] = Delete(q, i)
      /\ \A p \in Runs : p # r => queues'[p] = queues[p]
  BY <1>0 DEF TypeOK
<1>5. /\ Delete(q, i) \in Seq(Entries)
      /\ Len(Delete(q, i)) = Len(q) - 1
  BY <1>1, DeleteFacts
<1>6. /\ \A j, k \in DOMAIN Delete(q, i) : Delete(q, i)[j] = Delete(q, i)[k] => j = k
      /\ \A j \in DOMAIN Delete(q, i) :
           Delete(q, i)[j] # e /\ \E k \in DOMAIN q : Delete(q, i)[j] = q[k]
      /\ \A k \in DOMAIN q : q[k] # e => \E j \in DOMAIN Delete(q, i) : Delete(q, i)[j] = q[k]
  BY <1>1, <1>2, DeleteKeepsOthers
<1>7. queues' \in [Runs -> Seq(Entries)] /\ status' \in [Entries -> Status]
  BY <1>0, <1>1, <1>5 DEF TypeOK
<1>8. \A x \in Entries : status'[x] = IF x = e THEN v ELSE status[x]
  BY <1>0 DEF TypeOK
<1> HIDE DEF q, e
<1>9. QueuesHoldQueued'
  <2>1. ASSUME NEW p \in Runs, NEW k \in DOMAIN queues'[p]
        PROVE  /\ status'[queues'[p][k]] = "queued"
               /\ RunOf[queues'[p][k]] = p
               /\ gate'[p] # "absent"
               /\ \A j \in DOMAIN queues'[p] : queues'[p][k] = queues'[p][j] => k = j
    <3>1. CASE p = r
      <4>1. PICK l \in DOMAIN q : Delete(q, i)[k] = q[l]
        BY <1>4, <1>6, <2>1, <3>1
      <4>2. q[l] # e  BY <1>4, <1>6, <2>1, <3>1, <4>1
      <4>3. q[l] \in Entries /\ status[q[l]] = "queued" /\ RunOf[q[l]] = r
        BY <1>0, <1>1, ElementOfSeq DEF QueuesHoldQueued, q
      <4> QED BY <1>3, <1>4, <1>6, <1>8, <2>1, <3>1, <4>1, <4>2, <4>3
    <3>2. CASE p # r
      <4>1. queues[p] \in Seq(Entries)  BY <1>0 DEF TypeOK
      <4>2. queues'[p] = queues[p] /\ k \in DOMAIN queues[p]  BY <1>4, <2>1, <3>2
      <4>3. queues[p][k] \in Entries  BY <4>1, <4>2, ElementOfSeq, LenProperties
      <4>4. /\ status[queues[p][k]] = "queued" /\ RunOf[queues[p][k]] = p
            /\ gate[p] # "absent"
            /\ \A j \in DOMAIN queues[p] : queues[p][k] = queues[p][j] => k = j
        BY <1>0, <4>2 DEF QueuesHoldQueued
      <4> QED BY <1>3, <1>8, <3>2, <4>2, <4>3, <4>4
    <3> QED BY <3>1, <3>2
  <2>2. ASSUME NEW x \in Entries, status'[x] = "queued"
        PROVE  \E k \in DOMAIN queues'[RunOf[x]] : queues'[RunOf[x]][k] = x
    <3>1. x # e /\ status[x] = "queued"  BY <1>8, <2>2
    <3>2. PICK k \in DOMAIN queues[RunOf[x]] : queues[RunOf[x]][k] = x
      BY <1>0, <3>1 DEF QueuesHoldQueued, Queued
    <3>3. RunOf[x] \in Runs  BY SchedulerAssumption DEF SchedulerAssumption
    <3>4. CASE RunOf[x] = r
      <4>1. k \in DOMAIN q /\ q[k] = x  BY <3>2, <3>4 DEF q
      <4> QED BY <1>4, <1>6, <3>1, <3>4, <4>1
    <3>5. CASE RunOf[x] # r
      BY <1>4, <3>2, <3>3, <3>5
    <3> QED BY <3>4, <3>5
  <2> QED BY <2>1, <2>2 DEF QueuesHoldQueued, Queued
<1>10. runOrder' \in Seq(Runs) /\ RunOrderExact'
  <2>1. runOrder \in Seq(Runs)  BY <1>0 DEF TypeOK
  <2>2. CASE Len(q) = 1
    <3>1. OrderWithout(r)  BY <2>2 DEF q
    <3>2. queues'[r] = <<>>  BY <1>4, <1>5, <2>2, EmptySeq
    <3>3. \A j \in DOMAIN runOrder' : runOrder'[j] \in Runs
      BY <3>1, ElementOfSeq, LenProperties DEF OrderWithout
    <3>4. \A j \in DOMAIN runOrder' : queues'[runOrder'[j]] # <<>>
      BY <1>0, <1>4, <3>1, <3>3 DEF RunOrderExact, OrderWithout
    <3>5. \A p \in Runs : queues'[p] # <<>> => \E j \in DOMAIN runOrder' : runOrder'[j] = p
      BY <1>0, <1>4, <3>1, <3>2 DEF RunOrderExact, OrderWithout
    <3> QED BY <3>1, <3>4, <3>5 DEF RunOrderExact, OrderWithout
  <2>3. CASE Len(q) # 1
    <3>1. runOrder' = runOrder  BY <2>3 DEF q
    <3>2. queues'[r] # <<>> /\ queues[r] # <<>>
      <4>1. Len(q) # 0 /\ Len(Delete(q, i)) # 0  BY <1>1, <1>5, <2>3
      <4>2. Len(<<>>) = 0  BY EmptySeq
      <4> QED BY <1>4, <4>1, <4>2 DEF q
    <3>3. \A p \in Runs : queues'[p] # <<>> <=> queues[p] # <<>>  BY <1>4, <3>2
    <3>4. \A j \in DOMAIN runOrder : runOrder[j] \in Runs
      BY <2>1, ElementOfSeq, LenProperties
    <3> QED BY <1>0, <2>1, <3>1, <3>3, <3>4 DEF RunOrderExact
  <2> QED BY <2>2, <2>3
<1> QED BY <1>7, <1>9, <1>10

LEMMA AcquireRejectedInv == ASSUME IInv, NEW e \in Entries, AcquireRejected(e) PROVE IInv'
<1> USE DEF AcquireRejected
<1>1. Held' = Held /\ Queued' = Queued
  BY DEF Held, Queued, IInv, TypeOK
<1>2. AccountingExact'  BY <1>1, SameSlots DEF IInv
<1>3. TypeOK'  BY DEF IInv, TypeOK, Status, counters
<1>4. QueuesHoldQueued'
  <2>1. \A x \in Entries : status'[x] = "queued" <=> status[x] = "queued"
    BY DEF IInv, TypeOK
  <2>2. \A r \in Runs : \A i \in DOMAIN queues[r] : queues[r][i] \in Entries
    BY ElementOfSeq, LenProperties DEF IInv, TypeOK
  <2> QED BY <1>1, <2>1, <2>2 DEF IInv, QueuesHoldQueued
<1>5. RunOrderExact'  BY DEF IInv, RunOrderExact
<1> QED BY <1>2, <1>3, <1>4, <1>5 DEF IInv

LEMMA AcquireInv == ASSUME IInv, NEW e \in Entries, Acquire(e) PROVE IInv'
<1> DEFINE r == RunOf[e]
           q == queues[r]
<1>0. TypeOK /\ QueuesHoldQueued /\ RunOrderExact  BY DEF IInv
<1>1. r \in Runs  BY SchedulerAssumption DEF SchedulerAssumption
<1>2. q \in Seq(Entries) /\ Len(q) \in Nat /\ DOMAIN q = 1 .. Len(q)
  BY <1>0, <1>1, LenProperties DEF TypeOK
<1>3. /\ Append(q, e) \in Seq(Entries) /\ Append(q, e) # <<>>
      /\ DOMAIN Append(q, e) = 1 .. Len(q) + 1
      /\ \A i \in 1 .. Len(q) : Append(q, e)[i] = q[i]
      /\ Append(q, e)[Len(q) + 1] = e
  BY <1>2, AppendProperties, LenProperties
<1>4. /\ queues'[r] = Append(q, e)
      /\ \A p \in Runs : p # r => queues'[p] = queues[p]
      /\ queues' \in [Runs -> Seq(Entries)]
  BY <1>0, <1>1, <1>3 DEF TypeOK, Acquire
<1>5. /\ \A x \in Entries : status'[x] = IF x = e THEN "queued" ELSE status[x]
      /\ status' \in [Entries -> Status]
      /\ status[e] # "queued" /\ status[e] # "held"
  BY <1>0 DEF TypeOK, Status, Acquire
<1>6. Held' = Held  BY <1>5 DEF Held
<1>7. AccountingExact'  BY <1>6, SameSlots DEF IInv, Acquire
<1>8. UNCHANGED <<counters, gate, nextRunIndex>> /\ draining' = TRUE /\ gate[r] # "absent"
  BY DEF Acquire
<1>9. runOrder' = IF q = <<>> THEN Append(runOrder, r) ELSE runOrder
  BY DEF Acquire
<1>10. runOrder \in Seq(Runs)  BY <1>0 DEF TypeOK
<1> HIDE DEF r, q
<1>11. runOrder' \in Seq(Runs)  BY <1>1, <1>9, <1>10, AppendProperties
<1>12. TypeOK'  BY <1>0, <1>4, <1>5, <1>8, <1>11 DEF TypeOK, counters
<1>13. QueuesHoldQueued'
  <2>1. ASSUME NEW p \in Runs, NEW i \in DOMAIN queues'[p]
        PROVE  /\ status'[queues'[p][i]] = "queued"
               /\ RunOf[queues'[p][i]] = p
               /\ gate'[p] # "absent"
               /\ \A j \in DOMAIN queues'[p] : queues'[p][i] = queues'[p][j] => i = j
    <3>1. \A k \in DOMAIN queues[p] :
            /\ queues[p][k] \in Entries /\ status[queues[p][k]] = "queued"
            /\ RunOf[queues[p][k]] = p /\ gate[p] # "absent"
            /\ \A j \in DOMAIN queues[p] : queues[p][k] = queues[p][j] => k = j
      BY <1>0, ElementOfSeq, LenProperties DEF TypeOK, QueuesHoldQueued
    <3>2. CASE p = r
      <4>1. \A k \in 1 .. Len(q) : /\ q[k] \in Entries /\ q[k] # e
                                   /\ status[q[k]] = "queued" /\ RunOf[q[k]] = r
                                   /\ \A j \in 1 .. Len(q) : q[k] = q[j] => k = j
        BY <1>2, <1>5, <3>1, <3>2 DEF q
      <4>2. RunOf[e] = r  BY DEF r
      <4>3. i \in 1 .. Len(q) + 1 /\ queues'[p] = Append(q, e)
        BY <1>3, <1>4, <2>1, <3>2
      <4>4. \A k \in 1 .. Len(q) + 1 :
              Append(q, e)[k] = IF k = Len(q) + 1 THEN e ELSE q[k]
        BY <1>2, <1>3
      <4>5. status'[Append(q, e)[i]] = "queued" /\ RunOf[Append(q, e)[i]] = p
        BY <1>2, <1>5, <3>2, <4>1, <4>2, <4>3, <4>4
      <4>6. ASSUME NEW j \in 1 .. Len(q) + 1, Append(q, e)[i] = Append(q, e)[j] PROVE i = j
        BY <1>2, <4>1, <4>3, <4>4, <4>6
      <4> QED BY <1>3, <1>8, <3>2, <4>3, <4>5, <4>6
    <3>3. CASE p # r
      BY <1>4, <1>5, <1>8, <2>1, <3>1, <3>3
    <3> QED BY <3>2, <3>3
  <2>2. ASSUME NEW x \in Entries, status'[x] = "queued"
        PROVE  \E i \in DOMAIN queues'[RunOf[x]] : queues'[RunOf[x]][i] = x
    <3>1. CASE x = e
      <4>1. RunOf[x] = r  BY <3>1 DEF r
      <4>2. Len(q) + 1 \in DOMAIN Append(q, e)  BY <1>2, <1>3
      <4> QED BY <1>3, <1>4, <3>1, <4>1, <4>2
    <3>2. CASE x # e
      <4>1. PICK i \in DOMAIN queues[RunOf[x]] : queues[RunOf[x]][i] = x
        BY <1>0, <1>5, <2>2, <3>2 DEF QueuesHoldQueued, Queued
      <4>2. CASE RunOf[x] = r
        <5>1. i \in 1 .. Len(q) /\ q[i] = x  BY <1>2, <4>1, <4>2 DEF q
        <5>2. i \in DOMAIN Append(q, e) /\ Append(q, e)[i] = x  BY <1>2, <1>3, <5>1
        <5> QED BY <1>4, <4>2, <5>2
      <4>3. CASE RunOf[x] # r
        <5>1. RunOf[x] \in Runs  BY SchedulerAssumption DEF SchedulerAssumption
        <5> QED BY <1>4, <4>1, <4>3, <5>1
      <4> QED BY <4>2, <4>3
    <3> QED BY <3>1, <3>2
  <2> QED BY <2>1, <2>2 DEF QueuesHoldQueued, Queued
<1>14. RunOrderExact'
  <2>1. \A j \in DOMAIN runOrder : runOrder[j] \in Runs
    BY <1>10, ElementOfSeq, LenProperties
  <2>2. \A p \in Runs : queues'[p] # <<>> <=> p = r \/ queues[p] # <<>>
    BY <1>3, <1>4
  <2>3. CASE q # <<>>
    <3>1. runOrder' = runOrder /\ queues[r] # <<>>  BY <1>9, <2>3 DEF q
    <3> QED BY <1>0, <2>1, <2>2, <3>1 DEF RunOrderExact
  <2>4. CASE q = <<>>
    <3>1. /\ runOrder' = Append(runOrder, r) /\ Len(runOrder) \in Nat
          /\ DOMAIN runOrder = 1 .. Len(runOrder)
          /\ DOMAIN runOrder' = 1 .. Len(runOrder) + 1
          /\ \A j \in 1 .. Len(runOrder) : runOrder'[j] = runOrder[j]
          /\ runOrder'[Len(runOrder) + 1] = r
      BY <1>1, <1>9, <1>10, <2>4, AppendProperties, LenProperties
    <3>2. \A j \in 1 .. Len(runOrder) : runOrder[j] # r
      BY <1>0, <2>4, <3>1 DEF RunOrderExact, q
    <3>3. \A j, k \in DOMAIN runOrder' : runOrder'[j] = runOrder'[k] => j = k
      <4>1. \A j, k \in 1 .. Len(runOrder) : runOrder[j] = runOrder[k] => j = k
        BY <1>0, <3>1 DEF RunOrderExact
      <4> QED BY <3>1, <3>2, <4>1
    <3>4. \A j \in DOMAIN runOrder' : queues'[runOrder'[j]] # <<>>
      BY <1>0, <1>1, <2>1, <2>2, <3>1 DEF RunOrderExact
    <3>5. ASSUME NEW p \in Runs, queues'[p] # <<>>
          PROVE  \E j \in DOMAIN runOrder' : runOrder'[j] = p
      <4>1. CASE p = r
        <5>1. Len(runOrder) + 1 \in DOMAIN runOrder'  BY <3>1
        <5> QED BY <3>1, <4>1, <5>1
      <4>2. CASE p # r
        <5>1. PICK j \in DOMAIN runOrder : runOrder[j] = p
          BY <1>0, <2>2, <3>5, <4>2 DEF RunOrderExact
        <5>2. j \in DOMAIN runOrder' /\ runOrder'[j] = p  BY <3>1, <5>1
        <5> QED BY <5>2
      <4> QED BY <4>1, <4>2
    <3> QED BY <3>3, <3>4, <3>5 DEF RunOrderExact
  <2> QED BY <2>3, <2>4
<1> QED BY <1>7, <1>12, <1>13, <1>14 DEF IInv

LEMMA AbortInv == ASSUME IInv, NEW e \in Entries, Abort(e) PROVE IInv'
<1> DEFINE r == RunOf[e]
<1>0. TypeOK /\ RunOrderExact  BY DEF IInv
<1>1. r \in Runs  BY SchedulerAssumption DEF SchedulerAssumption
<1>2. PICK i \in DOMAIN queues[r] :
        /\ queues[r][i] = e
        /\ queues' = [queues EXCEPT ![r] = Delete(@, i)]
        /\ runOrder' = IF Len(queues[r]) = 1 THEN Without(runOrder, r) ELSE runOrder
  BY DEF Abort
<1>3. OrderWithout(r) \/ Len(queues[r]) # 1
  <2>1. runOrder \in Seq(Runs)  BY <1>0 DEF TypeOK
  <2>2. \A j, k \in DOMAIN runOrder : runOrder[j] = runOrder[k] => j = k
    BY <1>0 DEF RunOrderExact
  <2> QED BY <1>2, <2>1, <2>2, WithoutKeepsOthers DEF OrderWithout
<1>4. /\ status' = [status EXCEPT ![queues[r][i]] = "idle"]
      /\ status[e] = "queued"
      /\ UNCHANGED <<counters, gate, nextRunIndex, draining>>
  BY <1>2 DEF Abort
<1>5. "idle" \in Status /\ "idle" # "queued"  BY DEF Status
<1> HIDE DEF r
<1>6. /\ queues' \in [Runs -> Seq(Entries)]
      /\ status' \in [Entries -> Status]
      /\ runOrder' \in Seq(Runs)
      /\ QueuesHoldQueued'
      /\ RunOrderExact'
  BY <1>1, <1>2, <1>3, <1>4, <1>5, TakeOut
<1>7. TypeOK'  BY <1>0, <1>4, <1>6 DEF TypeOK, counters
<1>8. Held' = Held  BY <1>0, <1>2, <1>4 DEF Held, TypeOK
<1>9. AccountingExact'  BY <1>4, <1>8, SameSlots DEF IInv
<1> QED BY <1>6, <1>7, <1>9 DEF IInv

LEMMA ReleaseInv == ASSUME IInv, NEW e \in Entries, Release(e) PROVE IInv'
<1> DEFINE r == RunOf[e]
           h == HarnessOf[e]
<1>0. TypeOK /\ AccountingExact /\ QueuesHoldQueued /\ RunOrderExact  BY DEF IInv
<1>1. r \in Runs /\ h \in Harnesses  BY SchedulerAssumption DEF SchedulerAssumption
<1>2. e \in Held /\ Held \in SUBSET Entries  BY DEF Release, NotReleased, Held
<1>3. Held' = Held \ {e}  BY <1>0 DEF Release, Held, TypeOK
<1>4. Queued' = Queued  BY <1>0 DEF Release, NotReleased, Queued, TypeOK
<1>5. ASSUME NEW p
      PROVE  Cardinality(HeldByRun(p)') =
               IF r = p THEN Cardinality(HeldByRun(p)) - 1 ELSE Cardinality(HeldByRun(p))
  <2>1. HeldByRun(p)' = Having(Held \ {e}, RunOf, p)  BY <1>3 DEF HeldByRun, Having
  <2> QED BY <1>2, <2>1, CountRemove, HeldHaving DEF r, h
<1>6. ASSUME NEW g
      PROVE  Cardinality(HeldByHarness(g)') =
               IF h = g THEN Cardinality(HeldByHarness(g)) - 1 ELSE Cardinality(HeldByHarness(g))
  <2>1. HeldByHarness(g)' = Having(Held \ {e}, HarnessOf, g)  BY <1>3 DEF HeldByHarness, Having
  <2> QED BY <1>2, <2>1, CountRemove, HeldHaving DEF r, h
<1>7. Cardinality(Held') = Cardinality(Held) - 1
  BY <1>2, <1>3, CountNat, FS_RemoveElement
<1>8. /\ Cardinality(Held) \in Nat /\ Cardinality(Held) > 0
      /\ Cardinality(HeldByRun(r)) > 0 /\ Cardinality(HeldByHarness(h)) > 0
  BY <1>2, CountNat, HeldHaving DEF r, h
<1>9. /\ active = Cardinality(Held) /\ active \in Nat
      /\ activeByRun[r] = Cardinality(HeldByRun(r)) /\ activeByRun[r] \in Nat
      /\ activeByHarness[h] = Cardinality(HeldByHarness(h)) /\ activeByHarness[h] \in Nat
  BY <1>0, <1>1 DEF AccountingExact, TypeOK
<1>10. /\ active' = active - 1
       /\ activeByRun' = [activeByRun EXCEPT ![r] = @ - 1]
       /\ activeByHarness' = [activeByHarness EXCEPT ![h] = @ - 1]
  BY <1>8, <1>9 DEF Release, Decrement
<1> HIDE DEF r, h
<1>11. AccountingExact'
  <2>1. \A p \in Runs : activeByRun'[p] = Cardinality(HeldByRun(p)')
    BY <1>0, <1>1, <1>5, <1>10 DEF AccountingExact, TypeOK
  <2>2. \A g \in Harnesses : activeByHarness'[g] = Cardinality(HeldByHarness(g)')
    BY <1>0, <1>1, <1>6, <1>10 DEF AccountingExact, TypeOK
  <2> QED BY <1>7, <1>9, <1>10, <2>1, <2>2 DEF AccountingExact
<1>12. TypeOK'
  <2>1. active' \in Nat /\ activeByRun' \in [Runs -> Nat] /\ activeByHarness' \in [Harnesses -> Nat]
    <3>1. active - 1 \in Nat /\ activeByRun[r] - 1 \in Nat /\ activeByHarness[h] - 1 \in Nat
      BY <1>8, <1>9
    <3> QED BY <1>0, <1>1, <1>10, <3>1 DEF TypeOK
  <2> QED BY <1>0, <2>1 DEF TypeOK, Release, Status
<1>13. QueuesHoldQueued'
  <2>1. \A x \in Entries : status'[x] = "queued" <=> status[x] = "queued"
    BY <1>0 DEF Release, NotReleased, TypeOK
  <2>2. \A p \in Runs : \A i \in DOMAIN queues[p] : queues[p][i] \in Entries
    BY <1>0, ElementOfSeq, LenProperties DEF TypeOK
  <2>3. queues' = queues /\ gate' = gate  BY DEF Release
  <2> QED BY <1>0, <1>4, <2>1, <2>2, <2>3 DEF QueuesHoldQueued
<1>14. RunOrderExact'  BY <1>0 DEF RunOrderExact, Release
<1> QED BY <1>11, <1>12, <1>13, <1>14 DEF IInv

\* Every place the search looks at is a place of runOrder, and the search looks
\* at every place: the cursor may point past the end after a run was dropped.
LEMMA IndexAtFacts ==
  ASSUME nextRunIndex \in Nat, NEW n \in Nat, n = Len(runOrder), n > 0
  PROVE  /\ \A offset \in 0 .. n - 1 : IndexAt(offset) \in 1 .. n
         /\ \A p \in 1 .. n : \E offset \in 0 .. n - 1 : IndexAt(offset) = p
<1> DEFINE start == nextRunIndex % n
<1>1. start \in 0 .. n - 1  OBVIOUS
<1>2. \A offset : IndexAt(offset) =
        IF start + offset < n THEN start + offset + 1 ELSE start + offset + 1 - n
  BY DEF IndexAt
<1> HIDE DEF start
<1>3. ASSUME NEW p \in 1 .. n PROVE \E offset \in 0 .. n - 1 : IndexAt(offset) = p
  <2>1. CASE p > start
    <3>1. p - 1 - start \in 0 .. n - 1 /\ IndexAt(p - 1 - start) = p
      BY <1>1, <1>2, <2>1
    <3> QED BY <3>1
  <2>2. CASE ~(p > start)
    <3>1. n + p - 1 - start \in 0 .. n - 1 /\ IndexAt(n + p - 1 - start) = p
      BY <1>1, <1>2, <2>2
    <3> QED BY <3>1
  <2> QED BY <2>1, <2>2
<1>4. ASSUME NEW offset \in 0 .. n - 1 PROVE IndexAt(offset) \in 1 .. n
  BY <1>1, <1>2
<1> QED BY <1>3, <1>4

\* A grant picks a queued call of some run of the order, which is eligible.
LEMMA DrainGrantPicks ==
  ASSUME IInv, DrainGrant
  PROVE  \E p \in DOMAIN runOrder : \E i \in DOMAIN queues[runOrder[p]] :
           /\ Eligible(queues[runOrder[p]][i])
           /\ Pick(p, i)
<1>1. runOrder \in Seq(Runs) /\ nextRunIndex \in Nat  BY DEF IInv, TypeOK
<1>2. Len(runOrder) \in Nat /\ DOMAIN runOrder = 1 .. Len(runOrder)  BY <1>1, LenProperties
<1>3. PICK offset \in 0 .. Len(runOrder) - 1 :
        \E i \in DOMAIN queues[runOrder[IndexAt(offset)]] :
          /\ FirstEligible(runOrder[IndexAt(offset)], i)
          /\ Pick(IndexAt(offset), i)
  BY DEF DrainGrant
<1>4. IndexAt(offset) \in DOMAIN runOrder
  <2>1. Len(runOrder) > 0  BY <1>2
  <2>2. \A o \in 0 .. Len(runOrder) - 1 : IndexAt(o) \in 1 .. Len(runOrder)
    BY <1>1, <1>2, <2>1, IndexAtFacts
  <2> QED BY <1>2, <2>2
<1> QED BY <1>3, <1>4 DEF FirstEligible

\* The state after a grant: one more slot, counted once for its run and once
\* for its harness.
LEMMA PickInv ==
  ASSUME IInv, NEW p \in DOMAIN runOrder, NEW i \in DOMAIN queues[runOrder[p]],
         Pick(p, i), UNCHANGED <<gate, draining>>
  PROVE  /\ IInv'
         /\ LET e == queues[runOrder[p]][i]
            IN  /\ e \in Queued
                /\ Held' = Held \cup {e}
                /\ Queued' = Queued \ {e}
<1> DEFINE r == runOrder[p]
           e == queues[r][i]
           h == HarnessOf[e]
<1>0. TypeOK /\ AccountingExact /\ QueuesHoldQueued /\ RunOrderExact  BY DEF IInv
<1>1. runOrder \in Seq(Runs) /\ p \in 1 .. Len(runOrder) /\ Len(runOrder) \in Nat
  BY <1>0, LenProperties DEF TypeOK
<1>2. r \in Runs  BY <1>1, ElementOfSeq
<1>3. queues[r] \in Seq(Entries) /\ i \in 1 .. Len(queues[r])
  BY <1>0, <1>2, LenProperties DEF TypeOK
<1>4. e \in Entries /\ status[e] = "queued" /\ RunOf[e] = r
  BY <1>0, <1>2, <1>3, ElementOfSeq DEF QueuesHoldQueued
<1>5. h \in Harnesses  BY <1>4, SchedulerAssumption DEF SchedulerAssumption
<1>6. /\ queues' = [queues EXCEPT ![r] = Delete(@, i)]
      /\ runOrder' = IF Len(queues[r]) = 1 THEN Delete(runOrder, p) ELSE runOrder
      /\ active' = active + 1
      /\ activeByRun' = [activeByRun EXCEPT ![r] = @ + 1]
      /\ activeByHarness' = [activeByHarness EXCEPT ![h] = @ + 1]
      /\ status' = [status EXCEPT ![e] = "held"]
      /\ gate' = gate /\ draining' = draining
  BY DEF Pick
<1>7. nextRunIndex' \in Nat  BY <1>1 DEF Pick
<1>8. OrderWithout(r) \/ Len(queues[r]) # 1
  <2>1. \A j, k \in DOMAIN runOrder : runOrder[j] = runOrder[k] => j = k
    BY <1>0 DEF RunOrderExact
  <2>2. CASE Len(queues[r]) = 1
    <3>1. runOrder' = Delete(runOrder, p)  BY <1>6, <2>2
    <3>2. runOrder' \in Seq(Runs)  BY <1>1, <3>1, DeleteFacts
    <3>3. /\ \A j, k \in DOMAIN Delete(runOrder, p) :
               Delete(runOrder, p)[j] = Delete(runOrder, p)[k] => j = k
          /\ \A j \in DOMAIN Delete(runOrder, p) :
               /\ Delete(runOrder, p)[j] # runOrder[p]
               /\ \E k \in DOMAIN runOrder : Delete(runOrder, p)[j] = runOrder[k]
          /\ \A k \in DOMAIN runOrder : runOrder[k] # runOrder[p] =>
               \E j \in DOMAIN Delete(runOrder, p) : Delete(runOrder, p)[j] = runOrder[k]
      BY <1>1, <2>1, DeleteKeepsOthers
    <3> QED BY <3>1, <3>2, <3>3 DEF OrderWithout
  <2> QED BY <2>2
<1>9. "held" \in Status  BY DEF Status
<1>10. e = queues[r][i] /\ i \in DOMAIN queues[r]  OBVIOUS
<1>11. e \in Entries \ Held /\ e \in Queued  BY <1>4 DEF Held, Queued
<1> HIDE DEF r, e
<1>12. /\ queues' \in [Runs -> Seq(Entries)]
       /\ status' \in [Entries -> Status]
       /\ runOrder' \in Seq(Runs)
       /\ QueuesHoldQueued'
       /\ RunOrderExact'
  BY <1>2, <1>6, <1>8, <1>9, <1>10, TakeOut
<1>13. Held' = Held \cup {e} /\ Queued' = Queued \ {e}
  BY <1>0, <1>4, <1>6 DEF Held, Queued, TypeOK
<1>14. ASSUME NEW k
       PROVE  /\ Cardinality(HeldByRun(k)') =
                   IF r = k THEN Cardinality(HeldByRun(k)) + 1 ELSE Cardinality(HeldByRun(k))
              /\ Cardinality(HeldByHarness(k)') =
                   IF h = k THEN Cardinality(HeldByHarness(k)) + 1 ELSE Cardinality(HeldByHarness(k))
  <2>1. HeldByRun(k)' = Having(Held \cup {e}, RunOf, k)  BY <1>13 DEF HeldByRun, Having
  <2>2. HeldByHarness(k)' = Having(Held \cup {e}, HarnessOf, k)
    BY <1>13 DEF HeldByHarness, Having
  <2> QED BY <1>4, <1>11, <2>1, <2>2, CountAdd, HeldHaving
<1>15. Cardinality(Held') = Cardinality(Held) + 1
  BY <1>11, <1>13, HeldHaving, CountNat, FS_AddElement
<1> HIDE DEF h
<1>16. AccountingExact'
  <2>1. \A k \in Runs : activeByRun'[k] = Cardinality(HeldByRun(k)')
    BY <1>0, <1>2, <1>6, <1>14 DEF AccountingExact, TypeOK
  <2>2. \A k \in Harnesses : activeByHarness'[k] = Cardinality(HeldByHarness(k)')
    BY <1>0, <1>5, <1>6, <1>14 DEF AccountingExact, TypeOK
  <2> QED BY <1>0, <1>6, <1>15, <2>1, <2>2 DEF AccountingExact
<1>17. TypeOK'
  <2>1. activeByRun' \in [Runs -> Nat] /\ activeByHarness' \in [Harnesses -> Nat] /\ active' \in Nat
    BY <1>0, <1>2, <1>5, <1>6 DEF TypeOK
  <2> QED BY <1>0, <1>6, <1>7, <1>12, <2>1 DEF TypeOK
<1> QED BY <1>11, <1>12, <1>13, <1>16, <1>17 DEF IInv, r, e

LEMMA DrainGrantInv == ASSUME IInv, DrainGrant PROVE IInv'
  BY DrainGrantPicks, PickInv DEF DrainGrant

LEMMA NextInv == IInv /\ [Next]_vars => IInv'
<1> SUFFICES ASSUME IInv, [Next]_vars PROVE IInv'  OBVIOUS
<1>1. CASE UNCHANGED vars
  <2>1. Held' = Held /\ Queued' = Queued  BY <1>1 DEF vars, Held, Queued
  <2>2. AccountingExact'  BY <1>1, <2>1, SameSlots DEF vars, counters, IInv
  <2>3. TypeOK'  BY <1>1 DEF IInv, TypeOK, vars
  <2>4. QueuesHoldQueued'
    <3>1. queues' = queues /\ status' = status /\ gate' = gate  BY <1>1 DEF vars
    <3> QED BY <2>1, <3>1 DEF IInv, QueuesHoldQueued
  <2>5. RunOrderExact'  BY <1>1 DEF IInv, RunOrderExact, vars
  <2> QED BY <2>2, <2>3, <2>4, <2>5 DEF IInv
<1>2. ASSUME NEW r \in Runs,
             ConfigureRun(r) \/ Pause(r) \/ Resume(r) \/ CancelRun(r) \/ CloseRun(r)
      PROVE IInv'
  BY <1>2, ConfigureRunInv, PauseInv, ResumeInv, CancelRunInv, CloseRunInv
<1>3. ASSUME NEW e \in Entries,
             AcquireRejected(e) \/ Acquire(e) \/ Abort(e) \/ Release(e)
      PROVE IInv'
  BY <1>3, AcquireRejectedInv, AcquireInv, AbortInv, ReleaseInv
<1>4. CASE DrainGrant  BY <1>4, DrainGrantInv
<1>5. CASE DrainReturn  BY <1>5, DrainReturnInv
<1> QED BY <1>1, <1>2, <1>3, <1>4, <1>5 DEF Next

\* All four parts hold in every reachable state of every scheduler.
THEOREM InvariantHolds == Spec => []IInv
<1> QED BY InitInv, NextInv, PTL DEF Spec

\* Every variable keeps its type; no counter goes below zero.
THEOREM TypeCorrect == Spec => []TypeOK
<1>1. IInv => TypeOK  BY DEF IInv
<1> QED BY <1>1, InvariantHolds, PTL

\* The counters equal the slots that are out, whatever the order in which runs
\* are configured, paused, cancelled, closed, and slots granted and released.
THEOREM AccountingCorrect == Spec => []AccountingExact
<1>1. IInv => AccountingExact  BY DEF IInv
<1> QED BY <1>1, InvariantHolds, PTL

\* runOrder and the queues agree: no queued call is out of the search's reach.
THEOREM QueuesCorrect == Spec => []QueuesExact
<1>1. IInv => QueuesExact  BY DEF IInv, QueuesExact
<1> QED BY <1>1, InvariantHolds, PTL

-----------------------------------------------------------------------------
(* The limits *)

\* Only a grant gives out slots.
LEMMA HeldShrinks ==
  ASSUME IInv, [Next]_vars, ~DrainGrant
  PROVE  Held' \subseteq Held
<1>1. CASE UNCHANGED vars  BY <1>1 DEF vars, Held
<1>2. ASSUME NEW r \in Runs, ConfigureRun(r) \/ Pause(r) \/ Resume(r) PROVE Held' \subseteq Held
  BY <1>2 DEF ConfigureRun, Pause, Resume, Held
<1>3. ASSUME NEW r \in Runs, CancelRun(r) \/ CloseRun(r) PROVE Held' \subseteq Held
  BY <1>3 DEF CancelRun, CloseRun, DropQueue, Held
<1>4. ASSUME NEW e \in Entries, AcquireRejected(e) \/ Acquire(e) \/ Abort(e) \/ Release(e)
      PROVE Held' \subseteq Held
  BY <1>4 DEF AcquireRejected, Acquire, Abort, Release, Held, IInv, TypeOK
<1>5. CASE DrainReturn  BY <1>5 DEF DrainReturn, Held
<1> QED BY <1>1, <1>2, <1>3, <1>4, <1>5 DEF Next

LEMMA CapacityStep ==
  ASSUME IInv, CapacityRespected, [Next]_vars
  PROVE  CapacityRespected'
<1>1. CASE ~DrainGrant
  <2>1. Held' \subseteq Held /\ IsFiniteSet(Held)
    BY <1>1, HeldShrinks, HeldHaving, CountNat
  <2>2. ASSUME NEW S, NEW T, IsFiniteSet(S), T \subseteq S, NEW n \in Nat, Cardinality(S) <= n
        PROVE  Cardinality(T) <= n
    <3>1. T \in SUBSET S  BY <2>2
    <3>2. Cardinality(T) <= Cardinality(S) /\ Cardinality(T) \in Nat /\ Cardinality(S) \in Nat
      BY <2>2, <3>1, FS_Subset, FS_CardinalityType
    <3> QED BY <2>2, <3>2
  <2>3. Cardinality(Held') <= GlobalLimit
    BY <2>1, <2>2, SchedulerAssumption DEF CapacityRespected, SchedulerAssumption
  <2>4. ASSUME NEW h \in Harnesses PROVE Cardinality(HeldByHarness(h)') <= HarnessLimit
    <3>1. HeldByHarness(h)' \subseteq HeldByHarness(h) /\ HeldByHarness(h) \in SUBSET Held
      BY <2>1 DEF HeldByHarness
    <3>2. IsFiniteSet(HeldByHarness(h))  BY <2>1, <3>1, FS_Subset
    <3> QED BY <2>2, <3>1, <3>2, SchedulerAssumption DEF CapacityRespected, SchedulerAssumption
  <2>5. ASSUME NEW r \in Runs PROVE Cardinality(HeldByRun(r)') <= EffectiveLimit(r)
    <3>1. HeldByRun(r)' \subseteq HeldByRun(r) /\ HeldByRun(r) \in SUBSET Held
      BY <2>1 DEF HeldByRun
    <3>2. IsFiniteSet(HeldByRun(r))  BY <2>1, <3>1, FS_Subset
    <3>3. EffectiveLimit(r) \in Nat
      BY SchedulerAssumption DEF SchedulerAssumption, EffectiveLimit
    <3> QED BY <2>2, <3>1, <3>2, <3>3 DEF CapacityRespected
  <2> QED BY <2>3, <2>4, <2>5 DEF CapacityRespected
<1>2. CASE DrainGrant
  <2>1. PICK p \in DOMAIN runOrder : \E i \in DOMAIN queues[runOrder[p]] :
          Eligible(queues[runOrder[p]][i]) /\ Pick(p, i)
    BY <1>2, DrainGrantPicks
  <2>2. PICK i \in DOMAIN queues[runOrder[p]] :
          Eligible(queues[runOrder[p]][i]) /\ Pick(p, i)
    BY <2>1
  <2> DEFINE e == queues[runOrder[p]][i]
  <2>3. UNCHANGED <<gate, draining>>  BY <1>2 DEF DrainGrant
  <2>4. IInv' /\ e \in Queued  BY <2>2, <2>3, PickInv
  <2>5. runOrder[p] = RunOf[e]
    <3>1. runOrder[p] \in Runs  BY ElementOfSeq, LenProperties DEF IInv, TypeOK
    <3> QED BY <3>1 DEF IInv, QueuesHoldQueued
  <2>6. /\ active' = active + 1
        /\ activeByRun' = [activeByRun EXCEPT ![RunOf[e]] = @ + 1]
        /\ activeByHarness' = [activeByHarness EXCEPT ![HarnessOf[e]] = @ + 1]
    BY <2>2, <2>5 DEF Pick
  <2>7. Eligible(e)  BY <2>2
  <2> HIDE DEF e
  <2>8. TypeOK /\ AccountingExact /\ AccountingExact'  BY <2>4 DEF IInv
  <2>9. Cardinality(Held') <= GlobalLimit
    BY <2>6, <2>7, <2>8, SchedulerAssumption DEF AccountingExact, Eligible, TypeOK, SchedulerAssumption
  <2>10. ASSUME NEW h \in Harnesses PROVE Cardinality(HeldByHarness(h)') <= HarnessLimit
    <3>1. /\ activeByHarness'[h] = Cardinality(HeldByHarness(h)')
          /\ activeByHarness[h] = Cardinality(HeldByHarness(h))
          /\ activeByHarness[h] \in Nat /\ HarnessLimit \in Nat
      BY <2>8, SchedulerAssumption DEF AccountingExact, TypeOK, SchedulerAssumption
    <3>2. activeByHarness'[h] = IF h = HarnessOf[e] THEN activeByHarness[h] + 1
                                ELSE activeByHarness[h]
      BY <2>6, <2>8 DEF TypeOK
    <3>3. h = HarnessOf[e] => activeByHarness[h] < HarnessLimit  BY <2>7 DEF Eligible
    <3>4. Cardinality(HeldByHarness(h)) <= HarnessLimit  BY DEF CapacityRespected
    <3> QED BY <3>1, <3>2, <3>3, <3>4
  <2>11. ASSUME NEW r \in Runs PROVE Cardinality(HeldByRun(r)') <= EffectiveLimit(r)
    <3>1. EffectiveLimit(r) \in Nat /\ 1 <= EffectiveLimit(r)
      BY SchedulerAssumption DEF SchedulerAssumption, EffectiveLimit
    <3>2. activeByRun'[r] = Cardinality(HeldByRun(r)') /\ activeByRun[r] = Cardinality(HeldByRun(r))
          /\ activeByRun[r] \in Nat
      BY <2>8 DEF AccountingExact, TypeOK
    <3>3. CASE r = RunOf[e]
      <4>1. activeByRun'[r] = activeByRun[r] + 1  BY <2>6, <2>8, <3>3 DEF TypeOK
      <4>2. activeByRun[r] < IF gate[r] = "absent" THEN 1 ELSE EffectiveLimit(r)
        BY <2>7, <3>3 DEF Eligible
      <4> QED BY <3>1, <3>2, <4>1, <4>2
    <3>4. CASE r # RunOf[e]
      <4>1. activeByRun'[r] = activeByRun[r]  BY <2>6, <2>8, <3>4 DEF TypeOK
      <4> QED BY <3>2, <4>1 DEF CapacityRespected
    <3> QED BY <3>3, <3>4
  <2> QED BY <2>9, <2>10, <2>11 DEF CapacityRespected
<1> QED BY <1>1, <1>2

\* The global, the per-harness and the per-run limit are never exceeded.
THEOREM CapacityCorrect == Spec => []CapacityRespected
<1>1. Init => CapacityRespected
  <2> SUFFICES ASSUME Init PROVE CapacityRespected  OBVIOUS
  <2>1. Held = {}  BY DEF Init, Held
  <2>2. \A r : HeldByRun(r) = {}  BY <2>1 DEF HeldByRun
  <2>3. \A h : HeldByHarness(h) = {}  BY <2>1 DEF HeldByHarness
  <2>4. Cardinality({}) = 0  BY FS_EmptySet
  <2>5. \A r \in Runs : 0 <= EffectiveLimit(r)
    BY SchedulerAssumption DEF SchedulerAssumption, EffectiveLimit
  <2> QED BY <2>1, <2>2, <2>3, <2>4, <2>5, SchedulerAssumption
          DEF CapacityRespected, SchedulerAssumption
<1>2. IInv /\ CapacityRespected /\ [Next]_vars => CapacityRespected'  BY CapacityStep
<1> QED BY <1>1, <1>2, InvariantHolds, PTL DEF Spec

\* All the books of the scheduler are exact in every reachable state: counters,
\* limits, queues and the order of the runs.
THEOREM BooksCorrect == Spec => []BooksExact
<1>1. AccountingExact /\ CapacityRespected /\ QueuesExact => BooksExact  BY DEF BooksExact
<1> QED BY <1>1, AccountingCorrect, CapacityCorrect, QueuesCorrect, PTL

-----------------------------------------------------------------------------
(* No lost wake-up *)

\* A step that frees no slot, opens no gate and queues no call cannot make a
\* queued call eligible.
LEMMA StaysIdle ==
  ASSUME IInv, WorkConserving, ~draining, UNCHANGED counters,
         \A e \in Queued' : /\ e \in Queued
                            /\ \/ gate'[RunOf[e]] = gate[RunOf[e]]
                               \/ gate'[RunOf[e]] = "shut"
  PROVE  WorkConserving'
BY DEF WorkConserving, Eligible, counters

LEMMA QueuedKnown ==
  ASSUME IInv, NEW e \in Queued
  PROVE  /\ e \in Entries /\ RunOf[e] \in Runs /\ gate[RunOf[e]] # "absent"
         /\ \E p \in DOMAIN runOrder : \E i \in DOMAIN queues[runOrder[p]] :
              runOrder[p] = RunOf[e] /\ queues[runOrder[p]][i] = e
<1>1. e \in Entries /\ RunOf[e] \in Runs
  BY SchedulerAssumption DEF SchedulerAssumption, Queued
<1>2. PICK i \in DOMAIN queues[RunOf[e]] : queues[RunOf[e]][i] = e
  BY DEF IInv, QueuesHoldQueued
<1>3. gate[RunOf[e]] # "absent"  BY <1>1, <1>2 DEF IInv, QueuesHoldQueued
<1>4. queues[RunOf[e]] # <<>>
  <2>1. DOMAIN queues[RunOf[e]] # {}  BY <1>2
  <2> QED BY <2>1
<1>5. PICK p \in DOMAIN runOrder : runOrder[p] = RunOf[e]
  BY <1>1, <1>4 DEF IInv, RunOrderExact
<1> QED BY <1>1, <1>2, <1>3, <1>5

LEMMA WorkConservingStep ==
  ASSUME IInv, WorkConserving, [Next]_vars
  PROVE  WorkConserving'
<1>0. TypeOK  BY DEF IInv
<1>1. CASE UNCHANGED vars
  BY <1>1 DEF vars, WorkConserving, Eligible, Queued
<1>2. ASSUME NEW r \in Runs, ConfigureRun(r) PROVE WorkConserving'
  <2>1. Queued' = Queued  BY <1>2 DEF ConfigureRun, Queued
  <2>2. \A e \in Queued : gate'[RunOf[e]] = gate[RunOf[e]]
    BY <1>0, <1>2, QueuedKnown DEF ConfigureRun, TypeOK
  <2> QED BY <1>2, <2>1, <2>2, StaysIdle DEF ConfigureRun
<1>3. ASSUME NEW r \in Runs, Pause(r) PROVE WorkConserving'
  <2>1. Queued' = Queued  BY <1>3 DEF Pause, Queued
  <2>2. \A e \in Queued : gate'[RunOf[e]] = gate[RunOf[e]] \/ gate'[RunOf[e]] = "shut"
    BY <1>0, <1>3, QueuedKnown DEF Pause, TypeOK
  <2> QED BY <1>3, <2>1, <2>2, StaysIdle DEF Pause
<1>4. ASSUME NEW r \in Runs, CancelRun(r) \/ CloseRun(r) PROVE WorkConserving'
  <2>1. Queued' \subseteq Queued
    BY <1>4 DEF CancelRun, CloseRun, DropQueue, Queued
  <2>2. ASSUME NEW e \in Queued' PROVE gate'[RunOf[e]] = gate[RunOf[e]]
    <3>1. e \in Queued /\ RunOf[e] \in Runs  BY <2>1, QueuedKnown
    <3>2. \E i \in DOMAIN queues[RunOf[e]] : queues[RunOf[e]][i] = e
      BY <3>1 DEF IInv, QueuesHoldQueued
    <3>3. RunOf[e] # r  BY <1>4, <3>1, <3>2 DEF CancelRun, CloseRun, DropQueue, Queued
    <3> QED BY <1>0, <1>4, <3>1, <3>3 DEF CancelRun, CloseRun, TypeOK
  <2> QED BY <1>4, <2>1, <2>2, StaysIdle DEF CancelRun, CloseRun
<1>5. ASSUME NEW e \in Entries, AcquireRejected(e) \/ Abort(e) PROVE WorkConserving'
  <2>1. Queued' \subseteq Queued
    BY <1>0, <1>5 DEF AcquireRejected, Abort, Queued, TypeOK
  <2> QED BY <1>5, <2>1, StaysIdle DEF AcquireRejected, Abort
<1>6. ASSUME NEW r \in Runs, Resume(r) PROVE WorkConserving'
  BY <1>6 DEF Resume, WorkConserving
<1>7. ASSUME NEW e \in Entries, Acquire(e) \/ Release(e) PROVE WorkConserving'
  BY <1>7 DEF Acquire, Release, WorkConserving
<1>8. CASE DrainGrant  BY <1>8 DEF DrainGrant, WorkConserving
<1>9. CASE DrainReturn
  <2>1. ASSUME NEW e \in Queued PROVE ~Eligible(e)
    <3>1. PICK p \in DOMAIN runOrder : \E i \in DOMAIN queues[runOrder[p]] :
            runOrder[p] = RunOf[e] /\ queues[runOrder[p]][i] = e
      BY QueuedKnown
    <3>2. CASE active >= GlobalLimit
      BY <1>0, <3>2, SchedulerAssumption DEF Eligible, TypeOK, SchedulerAssumption
    <3>3. CASE \A offset \in 0 .. Len(runOrder) - 1 : ~HasEligible(runOrder[IndexAt(offset)])
      <4>1. Len(runOrder) \in Nat /\ p \in 1 .. Len(runOrder) /\ nextRunIndex \in Nat
        BY <1>0, LenProperties DEF TypeOK
      <4>2. Len(runOrder) > 0  BY <4>1
      <4>3. \A k \in 1 .. Len(runOrder) :
              \E offset \in 0 .. Len(runOrder) - 1 : IndexAt(offset) = k
        BY <4>1, <4>2, IndexAtFacts
      <4>4. PICK offset \in 0 .. Len(runOrder) - 1 : IndexAt(offset) = p
        BY <4>1, <4>3
      <4> QED BY <3>1, <3>3, <4>4 DEF HasEligible
    <3> QED BY <1>9, <3>2, <3>3 DEF DrainReturn
  <2>2. Queued' = Queued /\ \A e \in Queued : Eligible(e)' = Eligible(e)
    BY <1>9 DEF DrainReturn, Queued, Eligible, counters
  <2> QED BY <2>1, <2>2 DEF WorkConserving
<1> QED BY <1>1, <1>2, <1>3, <1>4, <1>5, <1>6, <1>7, <1>8, <1>9 DEF Next

\* When no method is running, every queued call waits for a reason: its gate is
\* shut, or its run, its harness or the scheduler is at its limit.
THEOREM NoLostWakeup == Spec => []WorkConserving
<1>1. Init => WorkConserving  BY DEF Init, WorkConserving, Queued
<1>2. IInv /\ WorkConserving /\ [Next]_vars => WorkConserving'  BY WorkConservingStep
<1> QED BY <1>1, <1>2, InvariantHolds, PTL DEF Spec

-----------------------------------------------------------------------------
(* The scheduler implements the slot pool *)

LEMMA PoolCardinality == \A S : Pool!Cardinality(S) = Cardinality(S)
BY DEF Pool!Cardinality, Cardinality

LEMMA PoolCounts ==
  /\ \A r : Pool!HeldByRun(r) = HeldByRun(r)
  /\ \A h : Pool!HeldByHarness(h) = HeldByHarness(h)
BY DEF Pool!HeldByRun, Pool!HeldByHarness, HeldByRun, HeldByHarness

LEMMA PoolInitStep == Init => Pool!PoolInit
BY DEF Init, Pool!PoolInit, Held, Queued

LEMMA PoolGrantStep ==
  ASSUME IInv, DrainGrant
  PROVE  \E e \in Entries : Pool!Grant(e)
<1>1. PICK p \in DOMAIN runOrder : \E i \in DOMAIN queues[runOrder[p]] :
        Eligible(queues[runOrder[p]][i]) /\ Pick(p, i)
  BY DrainGrantPicks
<1>2. PICK i \in DOMAIN queues[runOrder[p]] :
        Eligible(queues[runOrder[p]][i]) /\ Pick(p, i)
  BY <1>1
<1> DEFINE e == queues[runOrder[p]][i]
<1>3. UNCHANGED <<gate, draining>>  BY DEF DrainGrant
<1>4. e \in Queued /\ Held' = Held \cup {e} /\ Queued' = Queued \ {e}
  BY <1>2, <1>3, PickInv
<1>5. Eligible(e)  BY <1>2
<1> HIDE DEF e
<1>6. RunOf[e] \in Runs /\ gate[RunOf[e]] = "open" /\ HarnessOf[e] \in Harnesses /\ e \in Entries
  BY <1>4, <1>5, QueuedKnown, SchedulerAssumption
  DEF Eligible, IInv, TypeOK, SchedulerAssumption
<1>7. AccountingExact  BY DEF IInv
<1>8. /\ Cardinality(HeldByRun(RunOf[e])) < EffectiveLimit(RunOf[e])
      /\ Cardinality(HeldByHarness(HarnessOf[e])) < HarnessLimit
      /\ Cardinality(Held) < GlobalLimit
  BY <1>5, <1>6, <1>7 DEF Eligible, AccountingExact
<1> QED BY <1>3, <1>4, <1>6, <1>8, PoolCounts, PoolCardinality DEF Pool!Grant

LEMMA PoolStep ==
  ASSUME IInv, [Next]_vars
  PROVE  [Pool!PoolNext]_(Pool!poolVars)
<1> DEFINE closed == {r \in Runs : gate[r] = "shut"}
<1> USE DEF Pool!poolVars
<1>0. TypeOK  BY DEF IInv
<1>1. CASE UNCHANGED vars
  BY <1>1 DEF vars, Held, Queued
<1>2. ASSUME NEW r \in Runs, ConfigureRun(r) PROVE UNCHANGED Pool!poolVars
  <2>1. Held' = Held /\ Queued' = Queued  BY <1>2 DEF ConfigureRun, Held, Queued
  <2>2. closed' = closed  BY <1>0, <1>2 DEF ConfigureRun, TypeOK
  <2> QED BY <2>1, <2>2
<1>3. ASSUME NEW r \in Runs, Pause(r) PROVE Pool!Shut(r)
  <2>1. Held' = Held /\ Queued' = Queued  BY <1>3 DEF Pause, Held, Queued
  <2>2. closed' = closed \cup {r}  BY <1>0, <1>3 DEF Pause, TypeOK
  <2> QED BY <2>1, <2>2 DEF Pool!Shut
<1>4. ASSUME NEW r \in Runs, Resume(r) PROVE Pool!Open(r)
  <2>1. Held' = Held /\ Queued' = Queued  BY <1>4 DEF Resume, Held, Queued
  <2>2. closed' = closed \ {r}  BY <1>0, <1>4 DEF Resume, TypeOK
  <2> QED BY <2>1, <2>2 DEF Pool!Open
<1>5. ASSUME NEW r \in Runs, DropQueue(r)
      PROVE  /\ Queued' = Queued \ {e \in Queued : RunOf[e] = r}
             /\ Held' = Held
  <2>1. \A e \in Entries : e \in Queued /\ RunOf[e] = r <=>
                           \E i \in DOMAIN queues[r] : queues[r][i] = e
    <3>1. \A e \in Queued : \E i \in DOMAIN queues[RunOf[e]] : queues[RunOf[e]][i] = e
      BY DEF IInv, QueuesHoldQueued
    <3>2. \A i \in DOMAIN queues[r] :
            /\ queues[r][i] \in Entries /\ status[queues[r][i]] = "queued"
            /\ RunOf[queues[r][i]] = r
      BY <1>0, ElementOfSeq, LenProperties DEF IInv, QueuesHoldQueued, TypeOK
    <3> QED BY <3>1, <3>2 DEF Queued
  <2>2. \A e \in Entries : status'[e] =
          IF e \in Queued /\ RunOf[e] = r THEN "idle" ELSE status[e]
    BY <1>5, <2>1 DEF DropQueue
  <2> QED BY <2>2 DEF Queued, Held
<1>6. ASSUME NEW r \in Runs, CancelRun(r)
      PROVE \E S \in SUBSET Entries : Pool!Withdraw(S) /\ UNCHANGED closed
  <2>1. Queued' = Queued \ {e \in Queued : RunOf[e] = r} /\ Held' = Held
    BY <1>5, <1>6 DEF CancelRun
  <2>2. closed' = closed  BY <1>6 DEF CancelRun
  <2>3. {e \in Queued : RunOf[e] = r} \in SUBSET Entries  BY DEF Queued
  <2> QED BY <2>1, <2>2, <2>3 DEF Pool!Withdraw
<1>7. ASSUME NEW r \in Runs, CloseRun(r) PROVE Pool!Retire(r)
  <2>1. Queued' = Queued \ {e \in Queued : RunOf[e] = r} /\ Held' = Held
    BY <1>5, <1>7 DEF CloseRun
  <2>2. closed' = closed \ {r}  BY <1>0, <1>7 DEF CloseRun, TypeOK
  <2> QED BY <2>1, <2>2 DEF Pool!Retire, Pool!Withdraw
<1>8. ASSUME NEW e \in Entries, AcquireRejected(e) PROVE UNCHANGED Pool!poolVars
  <2>1. Held' = Held /\ Queued' = Queued
    BY <1>0, <1>8 DEF AcquireRejected, Held, Queued, TypeOK
  <2> QED BY <1>8, <2>1 DEF AcquireRejected
<1>9. ASSUME NEW e \in Entries, Acquire(e) PROVE Pool!Request(e)
  <2>1. Held' = Held /\ Queued' = Queued \cup {e} /\ e \notin Queued \cup Held
    BY <1>0, <1>9 DEF Acquire, Held, Queued, TypeOK
  <2> QED BY <1>9, <2>1 DEF Acquire, Pool!Request
<1>10. ASSUME NEW e \in Entries, Abort(e)
       PROVE \E S \in SUBSET Entries : Pool!Withdraw(S) /\ UNCHANGED closed
  <2>1. Held' = Held /\ Queued' = Queued \ {e} /\ e \in Queued
    BY <1>0, <1>10 DEF Abort, Held, Queued, TypeOK
  <2>2. {e} \in SUBSET Entries /\ {e} \subseteq Queued  BY <2>1
  <2> QED BY <1>10, <2>1, <2>2 DEF Abort, Pool!Withdraw
<1>11. ASSUME NEW e \in Entries, Release(e) PROVE Pool!GiveBack(e)
  <2>1. Queued' = Queued /\ Held' = Held \ {e} /\ e \in Held
    BY <1>0, <1>11 DEF Release, NotReleased, Held, Queued, TypeOK
  <2> QED BY <1>11, <2>1 DEF Release, Pool!GiveBack
<1>12. CASE DrainGrant
  BY <1>12, PoolGrantStep DEF Pool!PoolNext
<1>13. CASE DrainReturn
  BY <1>13 DEF DrainReturn, Held, Queued
<1>14. ASSUME NEW r \in Runs,
              ConfigureRun(r) \/ Pause(r) \/ Resume(r) \/ CancelRun(r) \/ CloseRun(r)
       PROVE  [Pool!PoolNext]_(Pool!poolVars)
  <2>1. CASE CancelRun(r)
    <3>1. PICK S \in SUBSET Entries : Pool!Withdraw(S) /\ UNCHANGED closed  BY <1>6, <2>1
    <3> QED BY <3>1 DEF Pool!PoolNext
  <2> QED BY <1>2, <1>3, <1>4, <1>7, <1>14, <2>1 DEF Pool!PoolNext
<1>15. ASSUME NEW e \in Entries, AcquireRejected(e) \/ Acquire(e) \/ Abort(e) \/ Release(e)
       PROVE  [Pool!PoolNext]_(Pool!poolVars)
  <2>1. CASE Abort(e)
    <3>1. PICK S \in SUBSET Entries : Pool!Withdraw(S) /\ UNCHANGED closed  BY <1>10, <2>1
    <3> QED BY <3>1 DEF Pool!PoolNext
  <2> QED BY <1>8, <1>9, <1>11, <1>15, <2>1 DEF Pool!PoolNext
<1> HIDE DEF Pool!poolVars
<1> QED BY <1>1, <1>12, <1>13, <1>14, <1>15 DEF Next

\* Every behaviour of the scheduler is a behaviour of the slot pool.
THEOREM SchedulerImplementsPool == Spec => ImplementsPool
<1>1. IInv /\ [Next]_vars => [Pool!PoolNext]_(Pool!poolVars)  BY PoolStep
<1> QED BY <1>1, PoolInitStep, InvariantHolds, PTL DEF Spec, ImplementsPool, Pool!PoolSpec
-----------------------------------------------------------------------------
(* The order within a lane *)

\* Whether a call may have a slot depends on its run and its harness only.
LEMMA SameLane ==
  ASSUME NEW d, NEW e, RunOf[d] = RunOf[e], HarnessOf[d] = HarnessOf[e], Eligible(e)
  PROVE  Eligible(d)
BY DEF Eligible

\* No step gives a slot to a call while one that came earlier, of the same run
\* and harness, goes on waiting: the search stops at the first call it may grant.
LEMMA FifoStep ==
  ASSUME IInv, [Next]_vars,
         NEW r \in Runs, NEW i \in DOMAIN queues[r], NEW j \in DOMAIN queues[r],
         i < j, HarnessOf[queues[r][i]] = HarnessOf[queues[r][j]],
         status'[queues[r][j]] = "held"
  PROVE  status'[queues[r][i]] # "queued"
<1>1. /\ TypeOK /\ QueuesHoldQueued /\ queues[r] \in Seq(Entries)
      /\ DOMAIN queues[r] = 1 .. Len(queues[r]) /\ Len(queues[r]) \in Nat
  BY LenProperties DEF IInv, TypeOK
<1>2. /\ queues[r][j] \in Entries /\ status[queues[r][j]] = "queued"
      /\ RunOf[queues[r][j]] = r /\ RunOf[queues[r][i]] = r
  BY <1>1, ElementOfSeq DEF QueuesHoldQueued
<1>3. CASE ~DrainGrant
  <2>1. queues[r][j] \in Held' /\ queues[r][j] \notin Held  BY <1>2 DEF Held
  <2> QED BY <1>3, <2>1, HeldShrinks
<1>4. CASE DrainGrant
  <2>1. PICK o \in 0 .. Len(runOrder) - 1 :
          \E n \in DOMAIN queues[runOrder[IndexAt(o)]] :
            /\ FirstEligible(runOrder[IndexAt(o)], n)
            /\ Pick(IndexAt(o), n)
    BY <1>4 DEF DrainGrant
  <2> DEFINE q == runOrder[IndexAt(o)]
  <2>2. PICK n \in DOMAIN queues[q] : FirstEligible(q, n) /\ Pick(IndexAt(o), n)  BY <2>1
  <2>3. q \in Runs
    <3>1. runOrder \in Seq(Runs) /\ nextRunIndex \in Nat  BY <1>1 DEF TypeOK
    <3>2. Len(runOrder) \in Nat /\ Len(runOrder) > 0  BY <3>1, <2>1, LenProperties
    <3>3. IndexAt(o) \in 1 .. Len(runOrder)  BY <3>1, <3>2, IndexAtFacts
    <3> QED BY <3>1, <3>3, ElementOfSeq
  <2>4. status' = [status EXCEPT ![queues[q][n]] = "held"]  BY <2>2 DEF Pick
  <2>5. queues[r][j] = queues[q][n]  BY <1>1, <1>2, <2>4 DEF TypeOK
  <2> HIDE DEF q
  <2>6. RunOf[queues[q][n]] = q  BY <1>1, <2>2, <2>3 DEF QueuesHoldQueued
  <2>7. q = r  BY <1>2, <2>5, <2>6
  <2>8. j = n  BY <1>1, <2>2, <2>5, <2>7 DEF QueuesHoldQueued
  <2>9. Eligible(queues[r][j]) /\ \A m \in 1 .. j - 1 : ~Eligible(queues[r][m])
    BY <2>2, <2>7, <2>8 DEF FirstEligible
  <2>10. i \in 1 .. j - 1  BY <1>1
  <2> QED BY <1>2, <2>9, <2>10, SameLane
<1> QED BY <1>3, <1>4

\* Between calls of one run for one harness the queue is first in, first out,
\* whatever is paused, cancelled, aborted or released in between.
THEOREM LanesAreFifo == Spec => FifoWithinLane
<1>1. ASSUME IInv, [Next]_vars
      PROVE  [\A r \in Runs : \A i, j \in DOMAIN queues[r] :
               (/\ i < j
                /\ HarnessOf[queues[r][i]] = HarnessOf[queues[r][j]]
                /\ status'[queues[r][j]] = "held")
               => status'[queues[r][i]] # "queued"]_vars
  BY <1>1, FifoStep
<1>2. IInv /\ [Next]_vars =>
        [\A r \in Runs : \A i, j \in DOMAIN queues[r] :
               (/\ i < j
                /\ HarnessOf[queues[r][i]] = HarnessOf[queues[r][j]]
                /\ status'[queues[r][j]] = "held")
               => status'[queues[r][i]] # "queued"]_vars
  BY <1>1
<1> QED BY <1>2, InvariantHolds, PTL DEF Spec, FifoWithinLane

=============================================================================
