------------------------- MODULE LaunchCommitProofs -------------------------
(***************************************************************************)
(* Theorems about LaunchCommit, for any launches, limits and faults.        *)
(***************************************************************************)
EXTENDS LaunchCommit, SequenceTheorems, TLAPS

USE LaunchAssumption DEF LaunchAssumption
USE DEF Agents, Cleaners, Allocating, Starting, Waiting, Committing, Unaccepted, Told,
        Early, Undecided, Late, Calls, Stopping

-----------------------------------------------------------------------------
\* The type invariant, by the groups of variables that the actions leave alone.

NetTyped ==
    /\ client \in [Launches -> {"idle", "requested", "acked", "confirmed", "reconciling"} \cup Told]
    /\ clientOpen \in [Launches -> BOOLEAN] /\ hostOpen \in [Launches -> BOOLEAN]
    /\ toHost \in [Launches -> Seq({"request", "ack", "confirm"})]
    /\ toClient \in [Launches -> Seq({"response", "confirmation", "committed", "error"})]
    /\ \A l \in Launches : Len(toHost[l]) <= 1 /\ Len(toClient[l]) <= 2
CallTyped ==
    /\ pc \in [Launches -> Starting \cup Waiting
                             \cup {"idle", "commit", "rollback", "clean", "done"}]
    /\ ctrl \in [Launches -> BOOLEAN] /\ revoked \in [Launches -> BOOLEAN]
RunTyped ==
    /\ runs \subseteq Launches /\ ran \subseteq Launches
    /\ acc \in [Launches -> Unaccepted \cup {"none", "committed", "commit-ambiguous", "rolled-back"}]
    /\ commit \in [Launches -> {"idle", "writing", "published"}]
    /\ exec \in [Launches -> {"none", "starting", "running", "over"}]
CleanTyped ==
    /\ cleanups \subseteq Launches
    /\ roll \in [Launches -> {"idle", "waiting", "cleaning"}]
    /\ clean \in [Launches -> [Cleaners -> {"no", "index", "dir", "sync", "lease"}]]
FenceTyped ==
    /\ fence \in BOOLEAN
    /\ appr \in [Launches -> BOOLEAN] /\ runAborted \in [Launches -> BOOLEAN]
HostTyped ==
    /\ stopPc \in {"no", "rolling", "stopping", "cleaning", "done"}
    /\ awaited \subseteq Launches /\ hist \subseteq Launches
DiskTyped ==
    /\ dir \in [Launches -> {"none", "bare", "full", "unlinked"}]
    /\ idx \in [Launches -> {"no", "live", "archived"}]
    /\ mark \in [Launches -> {"none", "visible", "durable"}]
    /\ lease \in [Launches -> {"free", "live", "dead", "recovery"}]
StepTyped ==
    rstep \in [Launches -> {"no", "missing", "owned", "listed", "visited", "leased",
                             "unindexed", "settled"}]
CountTyped == crashes \in 0..MaxCrashes /\ fails \in 0..MaxFails /\ recoveries \in 0..MaxRecoveries

LEMMA TypeParts ==
    TypeOK <=> /\ NetTyped /\ CallTyped /\ RunTyped /\ CleanTyped /\ FenceTyped
               /\ HostTyped /\ DiskTyped /\ StepTyped /\ CountTyped
<1>1. ASSUME NEW S PROVE
        {clientOpen, hostOpen, ctrl, appr, revoked, runAborted} \subseteq S
          <=> /\ clientOpen \in S /\ hostOpen \in S /\ ctrl \in S
              /\ appr \in S /\ revoked \in S /\ runAborted \in S
  OBVIOUS
<1>2. {runs, ran, cleanups, awaited, hist} \subseteq SUBSET Launches
        <=> /\ runs \subseteq Launches /\ ran \subseteq Launches /\ cleanups \subseteq Launches
            /\ awaited \subseteq Launches /\ hist \subseteq Launches
  OBVIOUS
<1> QED
  BY <1>1, <1>2, ZenonT(30)
     DEF TypeOK, NetTyped, CallTyped, RunTyped, CleanTyped, FenceTyped, HostTyped, DiskTyped,
         StepTyped, CountTyped

LEMMA TypePartsNext ==
    TypeOK' <=> /\ NetTyped' /\ CallTyped' /\ RunTyped' /\ CleanTyped' /\ FenceTyped'
                /\ HostTyped' /\ DiskTyped' /\ StepTyped' /\ CountTyped'
BY TypeParts, PTL

LEMMA TypeSame ==
    /\ NetTyped /\ UNCHANGED <<clientVars, netVars>> => NetTyped'
    /\ CallTyped /\ UNCHANGED callVars => CallTyped'
    /\ RunTyped /\ UNCHANGED runVars => RunTyped'
    /\ CleanTyped /\ UNCHANGED cleanVars => CleanTyped'
    /\ FenceTyped /\ UNCHANGED fenceVars => FenceTyped'
    /\ HostTyped /\ UNCHANGED hostVars => HostTyped'
    /\ DiskTyped /\ UNCHANGED diskVars => DiskTyped'
    /\ StepTyped /\ UNCHANGED rstep => StepTyped'
    /\ CountTyped /\ UNCHANGED counts => CountTyped'
BY DEF NetTyped, CallTyped, RunTyped, CleanTyped, FenceTyped, HostTyped, DiskTyped, StepTyped,
       CountTyped, clientVars, netVars, callVars, runVars, cleanVars, fenceVars, hostVars,
       diskVars, counts

-----------------------------------------------------------------------------
\* What a step leaves alone of one launch, and what then still holds of it.

NetKept(j) ==
    /\ client'[j] = client[j] /\ clientOpen'[j] = clientOpen[j] /\ hostOpen'[j] = hostOpen[j]
    /\ toHost'[j] = toHost[j] /\ toClient'[j] = toClient[j]
PcKept(j) == pc'[j] = pc[j]
RunKept(j) == (j \in runs' <=> j \in runs) /\ acc'[j] = acc[j] /\ commit'[j] = commit[j] /\ exec'[j] = exec[j]
CleanKept(j) == roll'[j] = roll[j] /\ clean'[j] = clean[j] /\ (j \in cleanups' <=> j \in cleanups)
DiskKept(j) == dir'[j] = dir[j] /\ idx'[j] = idx[j] /\ mark'[j] = mark[j] /\ lease'[j] = lease[j]
StepKept(j) == rstep'[j] = rstep[j]
HistKept(j) == j \in hist' => j \in hist
StopKept == stopPc' = stopPc /\ awaited' = awaited
\* The fence stays up, and whoever it is raised on is told.
Aborts(j) ==
    /\ fence => fence'
    /\ runAborted[j] => runAborted'[j]
    /\ fence' /\ ~fence /\ exec[j] \in {"starting", "running"} => runAborted'[j]
Kept(j) ==
    NetKept(j) /\ PcKept(j) /\ RunKept(j) /\ CleanKept(j) /\ DiskKept(j) /\ StepKept(j) /\ HistKept(j)

LEMMA GroupsKept ==
    ASSUME NEW j \in Launches
    PROVE  /\ UNCHANGED <<clientVars, netVars>> => NetKept(j)
           /\ UNCHANGED pc => PcKept(j)
           /\ UNCHANGED runVars => RunKept(j)
           /\ UNCHANGED cleanVars => CleanKept(j)
           /\ UNCHANGED diskVars => DiskKept(j)
           /\ UNCHANGED rstep => StepKept(j)
           /\ UNCHANGED hist => HistKept(j)
           /\ UNCHANGED <<fence, runAborted>> => Aborts(j)
BY DEF NetKept, PcKept, RunKept, CleanKept, DiskKept, StepKept, HistKept, Aborts,
       clientVars, netVars, callVars, runVars, cleanVars, diskVars

LEMMA WireKept == ASSUME NEW j \in Launches, Wire(j), NetKept(j), PcKept(j) PROVE Wire(j)'
BY DEF Wire, NetKept, PcKept, FramesTo

LEMMA DecidedKept ==
    ASSUME NEW j \in Launches, Decided(j), PcKept(j), RunKept(j), CleanKept(j), mark'[j] = mark[j], fence => fence'
    PROVE  Decided(j)'
BY DEF Decided, PcKept, RunKept, CleanKept, AccOf

LEMMA OwnedKept ==
    ASSUME NEW j \in Launches, Owned(j), PcKept(j), RunKept(j), CleanKept(j), lease'[j] = lease[j], fence => fence'
    PROVE  Owned(j)'
BY DEF Owned, PcKept, RunKept, CleanKept

LEMMA RegisteredKept ==
    ASSUME NEW j \in Launches, Registered(j), PcKept(j), RunKept(j), CleanKept(j), DiskKept(j), StepKept(j)
    PROVE  Registered(j)'
BY DEF Registered, PcKept, RunKept, CleanKept, DiskKept, StepKept

LEMMA CleanedKept ==
    ASSUME NEW j \in Launches, Cleaned(j), PcKept(j), RunKept(j), CleanKept(j), DiskKept(j)
    PROVE  Cleaned(j)'
BY DEF Cleaned, PcKept, RunKept, CleanKept, DiskKept

LEMMA RecoveredKept ==
    ASSUME NEW j \in Launches, Recovered(j), DiskKept(j), StepKept(j)
    PROVE  Recovered(j)'
BY DEF Recovered, DiskKept, StepKept

LEMMA PromisedKept ==
    ASSUME NEW j \in Launches, Promised(j), client'[j] = client[j], toClient'[j] = toClient[j],
           mark'[j] = mark[j], acc'[j] = acc[j], HistKept(j)
    PROVE  Promised(j)'
BY DEF Promised, HistKept

LEMMA QuietKept ==
    ASSUME NEW j \in Launches, Quiet(j), PcKept(j), RunKept(j), CleanKept(j), StopKept, Aborts(j)
    PROVE  Quiet(j)'
BY DEF Quiet, PcKept, RunKept, CleanKept, StopKept, Aborts

LEMMA AllKept ==
    ASSUME NEW j \in Launches, LaunchOK(j), Kept(j), StopKept, Aborts(j)
    PROVE  LaunchOK(j)'
<1>1. fence => fence'  BY DEF Aborts
<1> QED
  BY <1>1, WireKept, DecidedKept, OwnedKept, RegisteredKept, CleanedKept, RecoveredKept, PromisedKept,
     QuietKept DEF LaunchOK, Kept, NetKept, RunKept, DiskKept

LEMMA OneMoves ==
    ASSUME IInv, NEW l \in Launches, TypeOK', LaunchOK(l)', StopKept,
           \A j \in Launches \ {l} : Kept(j) /\ Aborts(j)
    PROVE  IInv'
<1>1. ASSUME NEW j \in Launches \ {l} PROVE LaunchOK(j)'  BY AllKept DEF IInv
<1> QED BY <1>1 DEF IInv

LEMMA Typed ==
    IInv => /\ NetTyped /\ CallTyped /\ RunTyped /\ CleanTyped /\ FenceTyped
            /\ HostTyped /\ DiskTyped /\ StepTyped /\ CountTyped
BY TypeParts DEF IInv

\* A step of the sockets alone.
LEMMA NetMoves ==
    ASSUME IInv, NEW l \in Launches,
           UNCHANGED <<callVars, runVars, cleanVars, fenceVars, hostVars, diskVars, rstep, counts>>,
           NetTyped', Wire(l)', Promised(l)', \A j \in Launches \ {l} : NetKept(j)
    PROVE  IInv'
<1>1. TypeOK'  BY Typed, TypeSame, TypePartsNext
<1>2. ASSUME NEW j \in Launches
      PROVE  PcKept(j) /\ RunKept(j) /\ CleanKept(j) /\ DiskKept(j) /\ StepKept(j) /\ HistKept(j)
             /\ StopKept /\ Aborts(j)
  BY GroupsKept DEF callVars, hostVars, fenceVars, StopKept
<1>3. LaunchOK(l)'
  <2>1. LaunchOK(l) /\ (fence => fence')  BY <1>2 DEF IInv, Aborts
  <2> QED
    BY <1>2, <2>1, DecidedKept, OwnedKept, RegisteredKept, CleanedKept, RecoveredKept, QuietKept
    DEF LaunchOK, DiskKept
<1> QED BY <1>1, <1>2, <1>3, OneMoves DEF Kept

\* The frames that are read one after the other.
LEMMA FrameFacts ==
    ASSUME NEW step, NEW f \in FramesTo(step)
    PROVE  /\ f \in Seq({"response", "confirmation", "committed", "error"}) /\ Len(f) <= 2
           /\ f # <<>> => /\ Tail(f) \in {<<>>, <<"error">>} /\ Tail(f) \in FramesTo(step)
                          /\ f = <<Head(f)>> \/ Tail(f) = <<"error">>
                          /\ Head(f) \in {"response", "confirmation", "committed", "error"}
                          /\ Head(f) \in {"response", "confirmation"} <=> f \notin {<<"error">>, <<"committed">>}
<1>1. f \in {<<>>, <<"response">>, <<"confirmation">>, <<"error">>, <<"committed">>,
             <<"response", "error">>, <<"confirmation", "error">>}
  BY DEF FramesTo
<1>2. CASE f = <<>>  BY <1>2
<1>3. ASSUME NEW x, f = <<x>> PROVE Tail(f) = <<>> /\ Head(f) = x /\ Len(f) = 1  BY <1>3
<1>4. ASSUME NEW x, NEW y, f = <<x, y>> PROVE Tail(f) = <<y>> /\ Head(f) = x /\ Len(f) = 2  BY <1>4
<1>5. CASE f \in {<<"response">>, <<"confirmation">>, <<"error">>, <<"committed">>}
  <2>1. <<>> \in FramesTo(step)  BY DEF FramesTo, Calls
  <2>2. PICK x \in {"response", "confirmation", "committed", "error"} : f = <<x>>  BY <1>5
  <2>3. Tail(f) = <<>> /\ Head(f) = x /\ Len(f) = 1  BY <1>3, <2>2
  <2>4. Head(f) \in {"response", "confirmation"} <=> f \notin {<<"error">>, <<"committed">>}
    BY <2>2, <2>3
  <2> QED BY <2>1, <2>2, <2>3, <2>4
<1>6. CASE f \in {<<"response", "error">>, <<"confirmation", "error">>}
  <2>1. <<"error">> \in FramesTo(step)  BY <1>6 DEF FramesTo
  <2>2. PICK x \in {"response", "confirmation"} : f = <<x, "error">>  BY <1>6
  <2>3. Tail(f) = <<"error">> /\ Head(f) = x /\ Len(f) = 2  BY <1>4, <2>2
  <2>4. f \notin {<<"error">>, <<"committed">>}  BY <2>2
  <2> QED BY <2>1, <2>2, <2>3, <2>4
<1> QED BY <1>1, <1>2, <1>5, <1>6

\* A step of a call that changes nothing of its run.
LEMMA CallMoves ==
    ASSUME IInv, NEW l \in Launches,
           UNCHANGED <<runVars, cleanVars, fence, runAborted, hostVars, diskVars, rstep, counts>>,
           appr' \in [Launches -> BOOLEAN], CallTyped', NetTyped', Wire(l)', Promised(l)',
           \A j \in Launches \ {l} : NetKept(j) /\ PcKept(j),
           PcKept(l) \/ (acc[l] \in AccOf(pc'[l]) /\ pc'[l] \notin Allocating \cup {"clean"} /\ pc[l] \notin Allocating
                          /\ (pc'[l] \in Early \cup Starting => pc[l] \in Early /\ pc'[l] \in Early
                                /\ (stopPc # "no" => pc'[l] \notin Starting \/ pc[l] \in Starting))
                          /\ pc'[l] # "commit" /\ clean[l]["start"] = "no")
    PROVE  IInv'
<1>0. LaunchOK(l) /\ CallTyped  BY Typed DEF IInv
<1>1. TypeOK'
  <2>1. FenceTyped'  BY Typed DEF FenceTyped
  <2> QED BY <2>1, Typed, TypeSame, TypePartsNext
<1>2. ASSUME NEW j \in Launches
      PROVE  RunKept(j) /\ CleanKept(j) /\ DiskKept(j) /\ StepKept(j) /\ HistKept(j) /\ StopKept /\ Aborts(j)
  BY GroupsKept DEF hostVars, StopKept
<1>3. CASE PcKept(l)
  <2>1. LaunchOK(l)'
    BY <1>0, <1>2, <1>3, DecidedKept, OwnedKept, RegisteredKept, CleanedKept, RecoveredKept, QuietKept
    DEF LaunchOK, DiskKept, Aborts
  <2> QED BY <1>1, <1>2, <2>1, OneMoves DEF Kept
<1>4. CASE ~PcKept(l)
  <2>1. Decided(l)'  BY <1>0, <1>2, <1>4 DEF LaunchOK, Decided, RunKept, CleanKept, DiskKept, Aborts
  <2>2. Owned(l)'  BY <1>0, <1>2, <1>4 DEF LaunchOK, Owned, RunKept, CleanKept, DiskKept, Aborts
  <2>3. Registered(l)'
    BY <1>0, <1>2, <1>4 DEF LaunchOK, Registered, RunKept, CleanKept, DiskKept, StepKept
  <2>4. Cleaned(l)'  BY <1>0, <1>2, <1>4 DEF LaunchOK, Cleaned, RunKept, CleanKept, DiskKept
  <2>5. Quiet(l)'  BY <1>0, <1>2, <1>4 DEF LaunchOK, Quiet, RunKept, CleanKept, StopKept, Aborts
  <2>6. Recovered(l)'  BY <1>0, <1>2, RecoveredKept DEF LaunchOK
  <2>7. LaunchOK(l)'  BY <2>1, <2>2, <2>3, <2>4, <2>5, <2>6 DEF LaunchOK
  <2> QED BY <1>1, <1>2, <2>7, OneMoves DEF Kept
<1> QED BY <1>3, <1>4

-----------------------------------------------------------------------------
\* The bridge.

LEMMA CallKeeps == ASSUME IInv, NEW l \in Launches, Call(l) PROVE IInv'
<1> USE DEF Call
<1>1. NetTyped /\ CallTyped /\ LaunchOK(l)  BY Typed DEF IInv
<1>2. NetTyped' /\ \A j \in Launches \ {l} : NetKept(j)  BY <1>1 DEF NetTyped, NetKept
<1>3. Wire(l)'  BY <1>1 DEF LaunchOK, Wire, NetTyped, CallTyped, FramesTo, callVars
<1>4. Promised(l)'
  BY <1>1 DEF LaunchOK, Wire, Promised, Decided, Registered, AccOf, NetTyped, diskVars, runVars, hostVars
<1> QED BY <1>2, <1>3, <1>4, NetMoves

\* What a bridge that gives up turns to.
LEMMA GivesUp ==
    ASSUME IInv, NEW l \in Launches, clientOpen[l], CallFails(l), UNCHANGED hostOpen,
           UNCHANGED toClient \/ (toClient[l] # <<>> /\ toClient' = [toClient EXCEPT ![l] = Tail(@)]),
           UNCHANGED <<callVars, runVars, cleanVars, fenceVars, hostVars, diskVars, rstep, counts>>
    PROVE  IInv'
<1> USE DEF CallFails
<1>1. NetTyped /\ CallTyped /\ LaunchOK(l)  BY Typed DEF IInv
<1>2. \A j \in Launches \ {l} : NetKept(j)  BY <1>1 DEF NetTyped, NetKept
<1>3. /\ toClient'[l] \in FramesTo(pc[l])
      /\ toClient'[l] = toClient[l] \/ toClient'[l] \in {<<>>, <<"error">>}
      /\ l \notin Human
  <2>1. toClient[l] \in FramesTo(pc[l]) /\ l \notin Human  BY <1>1 DEF LaunchOK, Wire
  <2>2. toClient[l] # <<>> => Tail(toClient[l]) \in FramesTo(pc[l]) /\ Tail(toClient[l]) \in {<<>>, <<"error">>}
    BY <2>1, FrameFacts
  <2>3. toClient'[l] = toClient[l] \/ (toClient[l] # <<>> /\ toClient'[l] = Tail(toClient[l]))
    BY <1>1 DEF NetTyped
  <2> QED BY <2>1, <2>2, <2>3
<1>4. UNCHANGED toHost /\ pc' = pc /\ ~clientOpen'[l]  BY <1>1 DEF NetTyped, callVars
<1>5. client'[l] = IF client[l] = "confirmed" THEN "reconciling" ELSE "failed"  BY <1>1 DEF NetTyped
<1>6. Wire(l)'  BY <1>1, <1>3, <1>4, <1>5 DEF LaunchOK, Wire
<1>7. Promised(l)'
  <2>1. UNCHANGED <<acc, mark, hist>>  BY DEF diskVars, runVars, hostVars
  <2>2. client[l] \in {"requested", "acked", "confirmed"}  BY <1>1 DEF LaunchOK, Wire
  <2>3. client'[l] \in Late \/ client[l] \notin Late  BY <1>5, <2>2
  <2>4. toClient'[l] = <<"committed">> => toClient[l] = <<"committed">>  BY <1>3
  <2> QED BY <1>1, <1>3, <1>5, <2>1, <2>2, <2>3, <2>4 DEF LaunchOK, Promised
<1>8. NetTyped'
  <2>1. \A j \in Launches : toClient'[j] \in Seq({"response", "confirmation", "committed", "error"}) /\ Len(toClient'[j]) <= 2
    BY <1>1, <1>2, <1>3, FrameFacts DEF NetTyped, NetKept
  <2>2. toClient' \in [Launches -> Seq({"response", "confirmation", "committed", "error"})]
    BY <1>1, <2>1 DEF NetTyped
  <2>3. clientOpen' \in [Launches -> BOOLEAN] /\ hostOpen' \in [Launches -> BOOLEAN]  BY <1>1 DEF NetTyped
  <2> QED BY <1>1, <1>4, <2>1, <2>2, <2>3 DEF NetTyped
<1> QED BY <1>2, <1>6, <1>7, <1>8, NetMoves

LEMMA AbortKeeps == ASSUME IInv, NEW l \in Launches, ClientAbort(l) \/ ClientClosed(l) PROVE IInv'
<1>1. clientOpen[l] /\ CallFails(l) /\ UNCHANGED <<hostOpen, toClient>>
  BY DEF ClientAbort, ClientClosed
<1>2. UNCHANGED <<callVars, runVars, cleanVars, fenceVars, hostVars, diskVars, rstep, counts>>
  BY DEF ClientAbort, ClientClosed
<1> QED BY <1>1, <1>2, GivesUp

LEMMA ReadKeeps == ASSUME IInv, NEW l \in Launches, ClientRead(l) PROVE IInv'
<1> DEFINE frame == Head(toClient[l])
<1>1. NetTyped /\ CallTyped /\ LaunchOK(l)  BY Typed DEF IInv
<1>2. UNCHANGED <<callVars, runVars, cleanVars, fenceVars, hostVars, diskVars, rstep, counts>>
      /\ UNCHANGED hostOpen /\ clientOpen[l] /\ toClient[l] # <<>>
      /\ toClient' = [toClient EXCEPT ![l] = Tail(@)]
  BY DEF ClientRead
<1>3. CASE CallFails(l)  BY <1>2, <1>3, GivesUp
<1>4. /\ toClient[l] \in FramesTo(pc[l]) /\ Tail(toClient[l]) \in FramesTo(pc[l])
      /\ Tail(toClient[l]) \in {<<>>, <<"error">>} /\ l \notin Human
      /\ Tail(toClient[l]) \in Seq({"response", "confirmation", "committed", "error"})
      /\ Len(Tail(toClient[l])) <= 2 /\ Tail(toClient[l]) # <<"committed">>
      /\ toClient[l] = <<frame>> \/ Tail(toClient[l]) = <<"error">>
      /\ frame \in {"response", "confirmation"} => toHost[l] = <<>>
  <2>1. toClient[l] \in FramesTo(pc[l]) /\ l \notin Human  BY <1>1, <1>2 DEF LaunchOK, Wire
  <2>2. /\ Tail(toClient[l]) \in FramesTo(pc[l]) /\ Tail(toClient[l]) \in {<<>>, <<"error">>}
        /\ toClient[l] = <<frame>> \/ Tail(toClient[l]) = <<"error">>
        /\ frame \in {"response", "confirmation"} => toClient[l] \notin {<<"error">>, <<"committed">>}
    BY <1>2, <2>1, FrameFacts
  <2>3. Tail(toClient[l]) \in Seq({"response", "confirmation", "committed", "error"}) /\ Len(Tail(toClient[l])) <= 2
    BY <2>2, FrameFacts
  <2>4. frame \in {"response", "confirmation"} => toHost[l] = <<>>  BY <1>1, <1>2, <2>2 DEF LaunchOK, Wire
  <2>5. <<>> # <<"committed">> /\ <<"error">> # <<"committed">>  OBVIOUS
  <2>6. Tail(toClient[l]) # <<"committed">>  BY <2>2, <2>5
  <2> QED BY <2>1, <2>2, <2>3, <2>4, <2>6
<1>5. ASSUME NEW answer \in {"ack", "confirm"}, NEW next \in {"acked", "confirmed"}, Answers(l, answer, next),
             frame \in {"response", "confirmation"}, answer = "confirm" => next = "confirmed",
             client[l] \in {"requested", "acked"}
      PROVE  IInv'
  <2> USE DEF Answers
  <2>1. \A j \in Launches \ {l} : NetKept(j)  BY <1>1, <1>2, <1>5 DEF NetTyped, NetKept
  <2>2. /\ client'[l] = next /\ toHost'[l] = <<answer>> /\ clientOpen'[l] = clientOpen[l]
        /\ toClient'[l] = Tail(toClient[l]) /\ hostOpen'[l] = hostOpen[l]
    <3>1. toHost[l] = <<>>  BY <1>4, <1>5
    <3>2. toHost'[l] = Append(toHost[l], answer)  BY <1>1, <1>5 DEF NetTyped
    <3>3. toHost'[l] = <<answer>>  BY <3>1, <3>2
    <3> QED BY <1>1, <1>2, <1>5, <3>3 DEF NetTyped
  <2>7. <<answer>> # <<"request">> /\ <<answer>> \in {<<"ack">>, <<"confirm">>}
        /\ (<<answer>> = <<"confirm">> => next = "confirmed")
    BY <1>5
  <2>3. pc'[l] = pc[l] /\ UNCHANGED <<acc, mark, hist>>  BY <1>2 DEF callVars, runVars, diskVars, hostVars
  <2>8. pc[l] \notin Starting  BY <1>2, <1>4 DEF FramesTo
  <2>4. Wire(l)'
    BY <1>1, <1>2, <1>4, <1>5, <2>2, <2>3, <2>7, <2>8 DEF LaunchOK, Wire
  <2>5. Promised(l)'  BY <1>1, <1>4, <1>5, <2>2, <2>3 DEF LaunchOK, Promised
  <2>6. NetTyped'
    <3>1. toHost' \in [Launches -> Seq({"request", "ack", "confirm"})]  BY <1>1, <1>5 DEF NetTyped
    <3>2. \A j \in Launches : Len(toHost'[j]) <= 1 /\ Len(toClient'[j]) <= 2
      BY <1>1, <1>4, <1>5, <2>1, <2>2 DEF NetTyped, NetKept
    <3>3. toClient' \in [Launches -> Seq({"response", "confirmation", "committed", "error"})]
      BY <1>1, <1>2, <1>4 DEF NetTyped
    <3> QED BY <1>1, <1>2, <1>5, <3>1, <3>2, <3>3 DEF NetTyped
  <2> QED BY <1>2, <2>1, <2>4, <2>5, <2>6, NetMoves
<1>6. CASE frame = "response" /\ client[l] = "requested"  BY <1>5, <1>6 DEF ClientRead
<1>7. CASE frame = "confirmation" /\ client[l] = "acked"  BY <1>5, <1>7 DEF ClientRead
<1>8. CASE frame = "committed" /\ client[l] = "confirmed"
  <2>1. /\ client' = [client EXCEPT ![l] = "started"] /\ UNCHANGED toHost
        /\ clientOpen' = [clientOpen EXCEPT ![l] = FALSE]
    BY <1>8 DEF ClientRead
  <2>2. \A j \in Launches \ {l} : NetKept(j)  BY <1>1, <1>2, <2>1 DEF NetTyped, NetKept
  <2>3. /\ client'[l] = "started" /\ ~clientOpen'[l] /\ hostOpen'[l] = hostOpen[l] /\ toHost'[l] = toHost[l]
        /\ toClient'[l] = Tail(toClient[l])
    BY <1>1, <1>2, <2>1 DEF NetTyped
  <2>4. pc'[l] = pc[l] /\ UNCHANGED <<acc, mark, hist>>  BY <1>2 DEF callVars, runVars, diskVars, hostVars
  <2>5. Wire(l)'  BY <1>1, <1>2, <1>4, <2>3, <2>4 DEF LaunchOK, Wire
  <2>6. Promised(l)'  BY <1>1, <1>4, <2>3, <2>4 DEF LaunchOK, Promised
  <2>7. NetTyped'
    <3>1. \A j \in Launches : Len(toHost'[j]) <= 1 /\ Len(toClient'[j]) <= 2
      BY <1>1, <1>4, <2>2, <2>3 DEF NetTyped, NetKept
    <3>2. toClient' \in [Launches -> Seq({"response", "confirmation", "committed", "error"})]
      BY <1>1, <1>2, <1>4 DEF NetTyped
    <3> QED BY <1>1, <1>2, <2>1, <3>1, <3>2 DEF NetTyped
  <2> QED BY <1>2, <2>2, <2>5, <2>6, <2>7, NetMoves
<1> QED BY <1>3, <1>6, <1>7, <1>8 DEF ClientRead

LEMMA ReconcileKeeps == ASSUME IInv, NEW l \in Launches, Reconciled(l) \/ Unresolved(l) PROVE IInv'
<1> USE DEF Reconciled, Unresolved
<1>1. NetTyped /\ CallTyped /\ LaunchOK(l)  BY Typed DEF IInv
<1>2. NetTyped' /\ \A j \in Launches \ {l} : NetKept(j)  BY <1>1 DEF NetTyped, NetKept, netVars
<1>3. Wire(l)'  BY <1>1 DEF LaunchOK, Wire, NetTyped, CallTyped, FramesTo, callVars, netVars
<1>4. Promised(l)'
  BY <1>1 DEF LaunchOK, Wire, Promised, Decided, Registered, AccOf, NetTyped, diskVars, runVars, hostVars, netVars
<1> QED BY <1>2, <1>3, <1>4, NetMoves
-----------------------------------------------------------------------------
\* The call in the host, as far as it has no run.

\* A call that is not answered yet, and its frames.
LEMMA OpenCalls == \A f \in Calls : /\ f \in FramesTo("done") /\ f # <<"committed">> /\ f # <<"error">>
                                     /\ f \in FramesTo("rollback")
<1>1. \A f \in Calls : f # <<"committed">> /\ f # <<"error">>  OBVIOUS
<1> QED BY <1>1 DEF FramesTo

\* What the host may add to the frames under way.
LEMMA SentFacts ==
    /\ \A f \in Calls : /\ Append(f, "error") \in FramesTo("done") \ {<<"committed">>}
                        /\ f = <<>> => Append(f, "error") = <<"error">>
    /\ Append(<<>>, "response") = <<"response">> /\ Append(<<>>, "confirmation") = <<"confirmation">>
    /\ Append(<<>>, "committed") = <<"committed">>
<1>1. ASSUME NEW x PROVE Append(<<>>, x) = <<x>>  OBVIOUS
<1>2. ASSUME NEW x, NEW y PROVE Append(<<x>>, y) = <<x, y>>
  <2>1. <<x>> \in Seq({x, y}) /\ y \in {x, y} /\ <<x, y>> \in Seq({x, y}) /\ Len(<<x, y>>) = 2  OBVIOUS
  <2>2. /\ Append(<<x>>, y) \in Seq({x, y}) /\ Len(Append(<<x>>, y)) = 2
        /\ Append(<<x>>, y)[1] = x /\ Append(<<x>>, y)[2] = y
    BY <2>1
  <2>3. \A i \in 1..2 : Append(<<x>>, y)[i] = <<x, y>>[i]  BY <2>2
  <2> QED BY <2>1, <2>2, <2>3, SeqEqual
<1>3. <<"error">> # <<"committed">> /\ <<"response", "error">> # <<"committed">>
      /\ <<"confirmation", "error">> # <<"committed">>
  OBVIOUS
<1> QED BY <1>1, <1>2, <1>3 DEF FramesTo

\* A frame is sent to one bridge: the type of the frames, and the others' are the same.
LEMMA SendTyped ==
    ASSUME NetTyped, NEW l \in Launches, NEW x \in {"response", "confirmation", "committed", "error"},
           Send(l, x), NEW step, toClient'[l] \in FramesTo(step)
    PROVE  /\ toClient' \in [Launches -> Seq({"response", "confirmation", "committed", "error"})]
           /\ \A j \in Launches : Len(toClient'[j]) <= 2
           /\ \A j \in Launches \ {l} : toClient'[j] = toClient[j]
<1>1. /\ toClient' = [toClient EXCEPT ![l] = toClient'[l]]
      /\ \A j \in Launches \ {l} : toClient'[j] = toClient[j]
  BY DEF Send, NetTyped
<1>2. toClient'[l] \in Seq({"response", "confirmation", "committed", "error"}) /\ Len(toClient'[l]) <= 2
  BY FrameFacts
<1> QED BY <1>1, <1>2 DEF NetTyped

LEMMA RejectKeeps ==
    ASSUME IInv, NEW l \in Launches, pc[l] \in {"approve", "lease", "clean", "rollback"}, Reject(l),
           pc[l] = "clean" => clean[l]["start"] = "no",
           UNCHANGED <<ctrl, revoked, runVars, cleanVars, fenceVars, hostVars, diskVars, rstep, counts>>
    PROVE  IInv'
<1>1. NetTyped /\ CallTyped /\ FenceTyped /\ LaunchOK(l)  BY Typed DEF IInv
<1>2. /\ pc' = [pc EXCEPT ![l] = "done"] /\ Send(l, "error")
      /\ client' = [client EXCEPT ![l] = IF l \in Human THEN "failed" ELSE @]
      /\ UNCHANGED <<clientOpen, hostOpen, toHost, acc, mark, hist>>
  BY DEF Reject, runVars, diskVars, hostVars
<1>3. pc'[l] = "done" /\ client'[l] = (IF l \in Human THEN "failed" ELSE client[l])
      /\ toClient'[l] = (IF hostOpen[l] THEN Append(toClient[l], "error") ELSE toClient[l])
  BY <1>1, <1>2 DEF NetTyped, CallTyped, Send
<1>4. toClient[l] \in Calls  BY <1>1 DEF LaunchOK, Wire, FramesTo
<1>5. /\ toClient'[l] \in FramesTo("done") /\ toClient'[l] # <<"committed">>
      /\ toHost[l] = <<>> \/ toClient'[l] \in {<<>>, <<"error">>, <<"committed">>}
      /\ l \in Human => toClient'[l] = <<>>
  <2>1. toHost[l] = <<>> \/ toClient[l] = <<>>  BY <1>1, <1>4, OpenCalls DEF LaunchOK, Wire
  <2>2. l \in Human => ~hostOpen[l] /\ toClient[l] = <<>>  BY <1>1 DEF LaunchOK, Wire
  <2>3. CASE hostOpen[l]
    <3>1. toClient'[l] = Append(toClient[l], "error")  BY <1>3, <2>3
    <3> QED BY <1>4, <2>1, <2>2, <2>3, <3>1, SentFacts
  <2>4. CASE ~hostOpen[l]
    <3>1. toClient'[l] = toClient[l]  BY <1>3, <2>4
    <3> QED BY <1>4, <2>1, <2>2, <3>1, OpenCalls
  <2> QED BY <2>3, <2>4
<1>6. \A j \in Launches \ {l} : NetKept(j) /\ PcKept(j)
  BY <1>1, <1>2, <1>5, SendTyped DEF NetTyped, CallTyped, NetKept, PcKept
<1>7. NetTyped' /\ CallTyped' /\ appr' \in [Launches -> BOOLEAN]
  <2>1. NetTyped'  BY <1>1, <1>2, <1>5, SendTyped DEF NetTyped
  <2>2. CallTyped' /\ appr' \in [Launches -> BOOLEAN]  BY <1>1, <1>2 DEF CallTyped, FenceTyped, fenceVars
  <2> QED BY <2>1, <2>2
<1>8. Wire(l)'  BY <1>1, <1>2, <1>3, <1>5 DEF LaunchOK, Wire
<1>9. Promised(l)'
  <2>1. l \in Human => mark[l] = "none"  BY <1>1 DEF LaunchOK, Registered, Wire
  <2> QED BY <1>1, <1>2, <1>3, <1>5, <2>1 DEF LaunchOK, Promised
<1>10. acc[l] \in AccOf("done")  BY <1>1 DEF LaunchOK, Decided, AccOf
<1>11. UNCHANGED <<fence, runAborted>>  BY DEF fenceVars
<1>12. clean[l]["start"] = "no"  BY <1>1 DEF LaunchOK, Cleaned
<1> QED BY <1>3, <1>6, <1>7, <1>8, <1>9, <1>10, <1>11, <1>12, CallMoves

LEMMA FinishKeeps == ASSUME IInv, NEW l \in Launches, FinishClean(l) \/ FinishRollback(l) PROVE IInv'
<1>1. pc[l] \in {"clean", "rollback"} /\ Reject(l) /\ (pc[l] = "clean" => clean[l]["start"] = "no")
  BY DEF FinishClean, FinishRollback
<1>2. UNCHANGED <<ctrl, revoked, runVars, cleanVars, fenceVars, hostVars, diskVars, rstep, counts>>
  BY DEF FinishClean, FinishRollback
<1> QED BY <1>1, <1>2, RejectKeeps

LEMMA BeginKeeps ==
    ASSUME IInv, NEW l \in Launches, Begin(l), pc[l] = "idle",
           (l \in Human /\ UNCHANGED toHost)
             \/ (l \notin Human /\ client[l] # "idle" /\ toHost[l] = <<"request">> /\ toHost' = [toHost EXCEPT ![l] = Tail(@)]),
           UNCHANGED <<clientOpen, hostOpen, ctrl, revoked, runVars, cleanVars, fenceVars, hostVars,
                       diskVars, rstep, counts>>
    PROVE  IInv'
<1>1. NetTyped /\ CallTyped /\ FenceTyped /\ LaunchOK(l)  BY Typed DEF IInv
<1>2. UNCHANGED <<acc, mark, hist, fence, runAborted, appr>>  BY DEF runVars, diskVars, hostVars, fenceVars
<1>3. /\ pc' = [pc EXCEPT ![l] = pc'[l]] /\ pc'[l] \in {"approve", "done"} /\ (pc'[l] = "approve" => Admitted)
      /\ \A j \in Launches \ {l} : pc'[j] = pc[j]
  BY <1>1 DEF Begin, CallTyped
<1>4. toHost' = [toHost EXCEPT ![l] = <<>>] /\ toHost'[l] = <<>> /\ \A j \in Launches \ {l} : toHost'[j] = toHost[j]
  <2>1. Tail(<<"request">>) = <<>>  OBVIOUS
  <2> QED BY <1>1, <2>1 DEF NetTyped, LaunchOK, Wire
<1>5. /\ client' \in [Launches -> {"idle", "requested", "acked", "confirmed", "reconciling"} \cup Told]
      /\ \A j \in Launches \ {l} : client'[j] = client[j]
      /\ client'[l] # "idle"
      /\ l \in Human => client'[l] = (IF pc'[l] = "approve" THEN "requested" ELSE "failed")
      /\ l \notin Human => client'[l] = client[l]
  BY <1>1 DEF Begin, NetTyped, CallTyped
<1>6. toClient'[l] \in {<<>>, <<"error">>} /\ (pc'[l] = "approve" => toClient'[l] = <<>>)
      /\ (l \in Human => toClient'[l] = <<>>)
  <2>1. toClient[l] = <<>>  BY <1>1 DEF LaunchOK, Wire, FramesTo
  <2> QED BY <1>1, <2>1, SentFacts DEF Begin, Send, NetTyped, CallTyped
<1>7. toClient'[l] \in FramesTo(pc'[l]) /\ toClient'[l] # <<"committed">>
  <2>1. <<>> # <<"committed">> /\ <<"error">> # <<"committed">>  OBVIOUS
  <2> QED BY <1>3, <1>6, <2>1 DEF FramesTo
<1>8. NetTyped'
  <2>1. toHost' \in [Launches -> Seq({"request", "ack", "confirm"})] /\ \A j \in Launches : Len(toHost'[j]) <= 1
    BY <1>1, <1>4 DEF NetTyped
  <2>2. toClient' \in [Launches -> Seq({"response", "confirmation", "committed", "error"})]
        /\ \A j \in Launches : Len(toClient'[j]) <= 2
    <3>1. CASE UNCHANGED toClient  BY <1>1, <3>1 DEF NetTyped
    <3>2. CASE Send(l, "error")  BY <1>1, <1>7, <3>2, SendTyped
    <3> QED BY <3>1, <3>2 DEF Begin
  <2> QED BY <1>1, <1>5, <2>1, <2>2 DEF NetTyped
<1>9. \A j \in Launches \ {l} : NetKept(j) /\ PcKept(j)
  BY <1>1, <1>3, <1>4, <1>5 DEF NetTyped, NetKept, PcKept, Begin, Send
<1>10. CallTyped' /\ appr' \in [Launches -> BOOLEAN]  BY <1>1, <1>2, <1>3 DEF CallTyped, FenceTyped
<1>11. Wire(l)'
  <2>1. CASE l \in Human
    <3>1. ~clientOpen[l] /\ ~hostOpen[l]  BY <1>1, <2>1 DEF LaunchOK, Wire
    <3>2. ~clientOpen'[l] /\ ~hostOpen'[l]  BY <3>1
    <3>3. <<>> # <<"request">> /\ <<>> # <<"confirm">>  OBVIOUS
    <3> QED BY <1>3, <1>4, <1>5, <1>6, <1>7, <2>1, <3>2, <3>3 DEF Wire
  <2>2. CASE l \notin Human
    <3>1. clientOpen'[l] => client'[l] \in {"requested", "acked", "confirmed"}
      BY <1>1, <1>5, <2>2 DEF LaunchOK, Wire
    <3>2. <<>> # <<"request">> /\ <<>> # <<"confirm">>  OBVIOUS
    <3> QED BY <1>3, <1>4, <1>5, <1>7, <2>2, <3>1, <3>2 DEF Wire
  <2> QED BY <2>1, <2>2
<1>12. Promised(l)'
  <2>1. mark[l] = "none" /\ acc[l] = "none"  BY <1>1 DEF LaunchOK, Registered, Decided, AccOf
  <2> QED BY <1>1, <1>2, <1>7, <2>1 DEF LaunchOK, Promised
<1>13. acc[l] \in AccOf(pc'[l])  BY <1>1, <1>3 DEF LaunchOK, Decided, AccOf
<1>14. pc'[l] = "approve" => stopPc = "no"  BY <1>3 DEF Admitted
<1>15. clean[l]["start"] = "no"  BY <1>1 DEF LaunchOK, Cleaned
<1> QED BY <1>2, <1>3, <1>8, <1>9, <1>10, <1>11, <1>12, <1>13, <1>14, <1>15, CallMoves

LEMMA HumanStartKeeps == ASSUME IInv, NEW l \in Launches, HumanStart(l) PROVE IInv'
<1>1. l \in Human /\ client[l] = "idle" /\ Begin(l) /\ UNCHANGED toHost  BY DEF HumanStart
<1>2. UNCHANGED <<clientOpen, hostOpen, ctrl, revoked, runVars, cleanVars, fenceVars, hostVars,
                  diskVars, rstep, counts>>
  BY DEF HumanStart
<1>3. pc[l] = "idle"  BY <1>1 DEF IInv, LaunchOK, Wire
<1> QED BY <1>1, <1>2, <1>3, BeginKeeps

LEMMA ApproveKeeps == ASSUME IInv, NEW l \in Launches, Approve(l) PROVE IInv'
<1>1. UNCHANGED <<ctrl, revoked, runVars, cleanVars, fenceVars, hostVars, diskVars, rstep, counts>>
      /\ pc[l] = "approve"
  BY DEF Approve
<1>2. CASE Reject(l)  BY <1>1, <1>2, RejectKeeps
<1>3. CASE Active(l) /\ pc' = [pc EXCEPT ![l] = "lease"] /\ UNCHANGED <<clientVars, netVars>>
  <2>1. NetTyped /\ CallTyped /\ FenceTyped /\ LaunchOK(l)  BY Typed DEF IInv
  <2>2. pc'[l] = "lease" /\ \A j \in Launches \ {l} : PcKept(j)  BY <1>3, <2>1 DEF CallTyped, PcKept
  <2>3. \A j \in Launches : NetKept(j)  BY <1>3, GroupsKept
  <2>4. CallTyped' /\ appr' \in [Launches -> BOOLEAN] /\ NetTyped' /\ UNCHANGED <<fence, runAborted>>
    BY <1>1, <1>3, <2>1, TypeSame DEF CallTyped, FenceTyped, fenceVars
  <2>5. Wire(l)'  BY <1>1, <2>1, <2>2, <2>3 DEF LaunchOK, Wire, FramesTo, NetKept
  <2>6. Promised(l)'
    BY <1>1, <2>1, <2>3, PromisedKept DEF LaunchOK, NetKept, HistKept, hostVars, runVars, diskVars
  <2>7. acc[l] \in AccOf("lease") /\ clean[l]["start"] = "no"
    BY <1>1, <2>1 DEF LaunchOK, Decided, Cleaned, AccOf
  <2> QED BY <1>1, <2>2, <2>3, <2>4, <2>5, <2>6, <2>7, CallMoves
<1> QED BY <1>2, <1>3 DEF Approve

\* The request's controller, and the grant.
LEMMA AbortTyped ==
    ASSUME CallTyped, FenceTyped, NEW l \in Launches, AbortCall(l), UNCHANGED <<pc, revoked>> \/ revoked' = [revoked EXCEPT ![l] = TRUE]
    PROVE  /\ ctrl' \in [Launches -> BOOLEAN] /\ appr' \in [Launches -> BOOLEAN]
           /\ revoked' \in [Launches -> BOOLEAN]
BY DEF CallTyped, FenceTyped, AbortCall

LEMMA RevokeKeeps == ASSUME IInv, NEW l \in Launches, Revoke(l) PROVE IInv'
<1>1. NetTyped /\ CallTyped /\ FenceTyped /\ LaunchOK(l)  BY Typed DEF IInv
<1>2. UNCHANGED <<clientVars, netVars, pc, runVars, cleanVars, fence, runAborted, hostVars, diskVars, rstep, counts>>
      /\ revoked' = [revoked EXCEPT ![l] = TRUE]
  BY DEF Revoke
<1>3. CallTyped' /\ appr' \in [Launches -> BOOLEAN]
  <2>1. CASE AbortCall(l)  BY <1>1, <1>2, <2>1, AbortTyped DEF CallTyped
  <2>2. CASE UNCHANGED <<ctrl, appr>>  BY <1>1, <1>2, <2>2 DEF CallTyped, FenceTyped
  <2> QED BY <2>1, <2>2 DEF Revoke
<1>4. \A j \in Launches : NetKept(j) /\ PcKept(j)  BY <1>2, GroupsKept
<1>5. Wire(l)'  BY <1>1, <1>4, WireKept DEF LaunchOK
<1>6. Promised(l)'
  BY <1>1, <1>2, <1>4, PromisedKept DEF LaunchOK, NetKept, HistKept, hostVars, runVars, diskVars
<1>7. NetTyped'  BY <1>1, <1>2, TypeSame
<1> QED BY <1>2, <1>3, <1>4, <1>5, <1>6, <1>7, CallMoves

-----------------------------------------------------------------------------
\* The start, from the lease to the registered run.

LEMMA TakeLeaseKeeps == ASSUME IInv, NEW l \in Launches, TakeLease(l) PROVE IInv'
<1>1. NetTyped /\ CallTyped /\ CleanTyped /\ DiskTyped /\ LaunchOK(l)  BY Typed DEF IInv
<1>2. pc[l] = "lease" /\ UNCHANGED <<ctrl, revoked, runVars, cleanVars, fenceVars, hostVars, dir, idx, mark, rstep, counts>>
  BY DEF TakeLease
<1>3. CASE Reject(l) /\ UNCHANGED lease
  <2>1. UNCHANGED diskVars  BY <1>2, <1>3 DEF diskVars
  <2> QED BY <1>2, <1>3, <2>1, RejectKeeps
<1>4. CASE pc' = [pc EXCEPT ![l] = "mkdir"] /\ lease' = [lease EXCEPT ![l] = "live"] /\ UNCHANGED <<clientVars, netVars>>
  <2>1. pc'[l] = "mkdir" /\ lease'[l] = "live" /\ rstep[l] = "no" /\ lease[l] = "free" /\ mark[l] = "none" /\ acc[l] = "none"
    BY <1>1, <1>2, <1>4 DEF CallTyped, DiskTyped, LaunchOK, Registered, Decided, AccOf
  <2>2. \A j \in Launches : NetKept(j) /\ RunKept(j) /\ CleanKept(j) /\ StepKept(j) /\ HistKept(j) /\ StopKept /\ Aborts(j)
    BY <1>2, <1>4, GroupsKept DEF hostVars, fenceVars, StopKept
  <2>3. \A j \in Launches \ {l} : PcKept(j) /\ DiskKept(j)
    BY <1>1, <1>2, <1>4 DEF PcKept, DiskKept, CallTyped, DiskTyped
  <2>4. TypeOK'
    <3>1. CallTyped' /\ DiskTyped'  BY <1>1, <1>2, <1>4 DEF CallTyped, DiskTyped
    <3> QED BY <1>2, <1>4, <3>1, Typed, TypeSame, TypePartsNext
  <2>5. Wire(l)'  BY <1>1, <1>2, <2>1, <2>2 DEF LaunchOK, Wire, FramesTo, NetKept
  <2>6. Decided(l)'  BY <1>1, <1>2, <2>1, <2>2 DEF LaunchOK, Decided, AccOf, RunKept, CleanKept, Aborts
  <2>7. Owned(l)'  BY <2>1 DEF Owned
  <2>8. Registered(l)'  BY <1>1, <1>2, <2>1, <2>2 DEF LaunchOK, Registered, RunKept, CleanKept, StepKept
  <2>9. Cleaned(l)'  BY <1>1, <1>2, <2>1, <2>2 DEF LaunchOK, Cleaned, RunKept, CleanKept
  <2>10. Recovered(l)'  BY <1>1, <2>1, <2>2 DEF Recovered, StepKept
  <2>11. Promised(l)'  BY <1>1, <1>2, <2>1, <2>2, PromisedKept DEF LaunchOK, NetKept, RunKept
  <2>12. Quiet(l)'  BY <1>1, <1>2, <2>1, <2>2 DEF LaunchOK, Quiet, RunKept, CleanKept, StopKept, Aborts
  <2>13. LaunchOK(l)'  BY <2>5, <2>6, <2>7, <2>8, <2>9, <2>10, <2>11, <2>12 DEF LaunchOK
  <2> QED BY <2>2, <2>3, <2>4, <2>13, OneMoves DEF Kept
<1> QED BY <1>3, <1>4 DEF TakeLease

\* A start gives up: its catch has the run's files to clean up.
LEMMA CleanStartFacts ==
    ASSUME CallTyped, CleanTyped, NEW l \in Launches, CleanStart(l), UNCHANGED <<ctrl, revoked, roll>>
    PROVE  /\ CallTyped' /\ CleanTyped'
           /\ pc'[l] = "clean" /\ l \in cleanups'
           /\ clean'[l] = [clean[l] EXCEPT !["start"] = "index"]
           /\ clean'[l]["start"] = "index" /\ \A w \in {"roll", "stop"} : clean'[l][w] = clean[l][w]
           /\ \A j \in Launches \ {l} : PcKept(j) /\ CleanKept(j)
BY DEF CallTyped, CleanTyped, CleanStart, PcKept, CleanKept

LEMMA AllocationEnds ==
    ASSUME IInv, NEW l \in Launches, pc[l] \in Allocating, CleanStart(l),
           UNCHANGED <<clientVars, netVars, ctrl, revoked, runVars, roll, fenceVars, hostVars, mark, lease, rstep>>,
           DiskTyped', CountTyped', \A j \in Launches \ {l} : dir'[j] = dir[j] /\ idx'[j] = idx[j]
    PROVE  IInv'
<1>1. NetTyped /\ CallTyped /\ CleanTyped /\ DiskTyped /\ LaunchOK(l)  BY Typed DEF IInv
<1>2. /\ CallTyped' /\ CleanTyped' /\ pc'[l] = "clean" /\ l \in cleanups'
      /\ clean'[l]["start"] = "index" /\ \A w \in {"roll", "stop"} : clean'[l][w] = clean[l][w]
      /\ \A j \in Launches \ {l} : PcKept(j) /\ CleanKept(j)
  BY <1>1, CleanStartFacts
<1>3. \A j \in Launches : NetKept(j) /\ RunKept(j) /\ StepKept(j) /\ HistKept(j) /\ StopKept /\ Aborts(j)
  BY GroupsKept DEF hostVars, fenceVars, StopKept
<1>4. \A j \in Launches \ {l} : DiskKept(j)  BY DEF DiskKept
<1>5. TypeOK'  BY <1>2, Typed, TypeSame, TypePartsNext
<1>6. /\ lease[l] = "live" /\ mark[l] = "none" /\ acc[l] = "none" /\ l \notin runs
      /\ \A w \in Cleaners : clean[l][w] = "no"
  BY <1>1 DEF LaunchOK, Registered, Cleaned, Decided, AccOf
<1>7. Wire(l)'  BY <1>1, <1>2, <1>3 DEF LaunchOK, Wire, FramesTo, NetKept
<1>8. Decided(l)'  BY <1>1, <1>2, <1>3, <1>6 DEF LaunchOK, Decided, AccOf, RunKept, Aborts
<1>9. Owned(l)'  BY <1>2 DEF Owned
<1>10. Registered(l)'  BY <1>1, <1>2, <1>3, <1>6 DEF LaunchOK, Registered, RunKept, StepKept
<1>11. Cleaned(l)'  BY <1>1, <1>2, <1>3, <1>6 DEF LaunchOK, Cleaned, RunKept
<1>12. Recovered(l)'  BY <1>1, <1>3, <1>6 DEF LaunchOK, Recovered, StepKept
<1>13. Promised(l)'  BY <1>1, <1>3, PromisedKept DEF LaunchOK, NetKept, RunKept
<1>14. Quiet(l)'  BY <1>1, <1>2, <1>3, <1>6 DEF LaunchOK, Quiet, RunKept, StopKept, Aborts
<1>15. LaunchOK(l)'  BY <1>7, <1>8, <1>9, <1>10, <1>11, <1>12, <1>13, <1>14 DEF LaunchOK
<1> QED BY <1>2, <1>3, <1>4, <1>5, <1>15, OneMoves DEF Kept

\* What the allocation has written.
LEMMA WriteFacts ==
    ASSUME DiskTyped, NEW l \in Launches, pc[l] \in Allocating, Write(l) \/ UNCHANGED <<dir, idx>>
             \/ (dir' = [dir EXCEPT ![l] = "none"] /\ UNCHANGED idx), UNCHANGED <<mark, lease>>
    PROVE  DiskTyped' /\ \A j \in Launches \ {l} : dir'[j] = dir[j] /\ idx'[j] = idx[j]
BY DEF DiskTyped, Write

LEMMA AllocateFailsKeeps == ASSUME IInv, NEW l \in Launches, AllocateFails(l) PROVE IInv'
<1>1. pc[l] \in Allocating /\ CleanStart(l)  BY DEF AllocateFails
<1>2. UNCHANGED <<clientVars, netVars, ctrl, revoked, runVars, roll, fenceVars, hostVars, mark, lease, rstep>>
  BY DEF AllocateFails
<1>3. DiskTyped' /\ \A j \in Launches \ {l} : dir'[j] = dir[j] /\ idx'[j] = idx[j]
  BY <1>1, <1>2, WriteFacts, Typed DEF AllocateFails
<1>4. CountTyped'  BY Typed DEF CountTyped, AllocateFails
<1> QED BY <1>1, <1>2, <1>3, <1>4, AllocationEnds

LEMMA AllocateKeeps == ASSUME IInv, NEW l \in Launches, Allocate(l) PROVE IInv'
<1>1. pc[l] \in Allocating \ {"record"} /\ Write(l)
      /\ UNCHANGED <<clientVars, netVars, ctrl, revoked, runVars, roll, fenceVars, hostVars, mark, lease, rstep, counts>>
  BY DEF Allocate
<1>2. DiskTyped' /\ CountTyped' /\ \A j \in Launches \ {l} : dir'[j] = dir[j] /\ idx'[j] = idx[j]
  BY <1>1, WriteFacts, Typed, TypeSame
<1>3. CASE CleanStart(l)  BY <1>1, <1>2, <1>3, AllocationEnds
<1>4. CASE pc' = [pc EXCEPT ![l] = AfterStep(@)] /\ UNCHANGED <<clean, cleanups>>
  <2>1. NetTyped /\ CallTyped /\ CleanTyped /\ DiskTyped /\ LaunchOK(l)  BY Typed DEF IInv
  <2>2. /\ pc'[l] \in {"meta", "index", "record"}
        /\ pc'[l] \in {"index", "record"} => dir'[l] = "full"
        /\ pc'[l] = "record" => idx'[l] = "live"
        /\ \A j \in Launches \ {l} : PcKept(j) /\ DiskKept(j)
    BY <1>1, <1>2, <1>4, <2>1
    DEF CallTyped, DiskTyped, Write, AfterStep, PcKept, DiskKept, LaunchOK, Registered
  <2>3. \A j \in Launches : NetKept(j) /\ RunKept(j) /\ CleanKept(j) /\ StepKept(j) /\ HistKept(j) /\ StopKept /\ Aborts(j)
    BY <1>1, <1>4, GroupsKept DEF hostVars, fenceVars, cleanVars, StopKept
  <2>4. TypeOK'
    <3>1. CallTyped'  BY <1>1, <1>4, <2>1 DEF CallTyped, AfterStep
    <3> QED BY <1>1, <1>2, <1>4, <3>1, Typed, TypeSame, TypePartsNext DEF cleanVars
  <2>5. /\ lease[l] = "live" /\ mark[l] = "none" /\ acc[l] = "none" /\ l \notin runs /\ l \notin cleanups
        /\ \A w \in Cleaners : clean[l][w] = "no"
    BY <1>1, <2>1 DEF LaunchOK, Registered, Cleaned, Decided, AccOf
  <2>6. Wire(l)'  BY <1>1, <2>1, <2>2, <2>3 DEF LaunchOK, Wire, FramesTo, NetKept
  <2>7. Decided(l)'  BY <1>1, <2>1, <2>2, <2>3, <2>5 DEF LaunchOK, Decided, AccOf, RunKept, CleanKept, Aborts
  <2>8. Owned(l)'  BY <2>2 DEF Owned
  <2>9. Registered(l)'  BY <1>1, <2>1, <2>2, <2>3, <2>5 DEF LaunchOK, Registered, RunKept, CleanKept, StepKept
  <2>10. Cleaned(l)'  BY <1>1, <2>1, <2>2, <2>3, <2>5 DEF LaunchOK, Cleaned, RunKept, CleanKept
  <2>11. Recovered(l)'  BY <1>1, <2>1, <2>3, <2>5 DEF LaunchOK, Recovered, StepKept
  <2>12. Promised(l)'  BY <1>1, <2>1, <2>3, PromisedKept DEF LaunchOK, NetKept, RunKept
  <2>13. Quiet(l)'  BY <1>1, <2>1, <2>2, <2>3, <2>5 DEF LaunchOK, Quiet, RunKept, CleanKept, StopKept, Aborts
  <2>14. LaunchOK(l)'
    BY <2>6, <2>7, <2>8, <2>9, <2>10, <2>11, <2>12, <2>13 DEF LaunchOK
  <2> QED BY <2>2, <2>3, <2>4, <2>14, OneMoves DEF Kept
<1> QED BY <1>3, <1>4 DEF Allocate

\* From one to the next: the run is in the books, its bridge is answered.
LEMMA RegisterKeeps == ASSUME IInv, NEW l \in Launches, Register(l) PROVE IInv'
<1>1. NetTyped /\ CallTyped /\ RunTyped /\ CleanTyped /\ DiskTyped /\ LaunchOK(l)  BY Typed DEF IInv
<1>2. pc[l] = "record" /\ UNCHANGED <<clientVars, hostOpen, toHost, ctrl, revoked, exec, ran, fence, appr,
                                      hostVars, diskVars, rstep, counts>>
  BY DEF Register
<1>3. CASE ~Active(l)
  <2>1. CleanStart(l) /\ UNCHANGED <<toClient, runs, acc, commit, roll, runAborted>>  BY <1>3 DEF Register
  <2>2. UNCHANGED <<clientVars, netVars, ctrl, revoked, runVars, roll, fenceVars, hostVars, mark, lease, rstep>>
        /\ UNCHANGED <<dir, idx>>
    BY <1>2, <2>1 DEF netVars, runVars, fenceVars, diskVars
  <2>3. DiskTyped' /\ CountTyped'  BY <1>2, Typed, TypeSame
  <2> QED BY <1>2, <2>1, <2>2, <2>3, AllocationEnds
<1>4. CASE Active(l)
  <2>1. /\ runs' = runs \cup {l} /\ UNCHANGED <<clean, cleanups, roll, runAborted, fence, appr>>
        /\ fence = FALSE /\ stopPc = "no"
    BY <1>2, <1>4 DEF Register, Active, RestartRefusal, Stopping
  <2>2. /\ lease[l] = "live" /\ mark[l] = "none" /\ acc[l] = "none" /\ l \notin runs /\ l \notin cleanups
        /\ dir[l] = "full" /\ idx[l] = "live" /\ commit[l] = "idle" /\ exec[l] = "none" /\ roll[l] = "idle"
        /\ toClient[l] = <<>> /\ toHost[l] = <<>>
        /\ \A w \in Cleaners : clean[l][w] = "no"
    BY <1>1, <1>2, <2>1 DEF LaunchOK, Wire, Registered, Cleaned, Decided, AccOf, FramesTo, CleanTyped
  <2>3. \A j \in Launches : CleanKept(j) /\ DiskKept(j) /\ StepKept(j) /\ HistKept(j) /\ StopKept /\ Aborts(j)
    BY <1>2, <2>1, GroupsKept DEF hostVars, cleanVars, StopKept
  <2>4. \/ /\ l \in Human /\ acc'[l] = "committing" /\ commit'[l] = "writing" /\ pc'[l] = "commit"
           /\ toClient' = toClient
        \/ /\ l \notin Human /\ acc'[l] = "awaiting" /\ commit'[l] = "idle" /\ pc'[l] = "awaitAck"
           /\ Send(l, "response")
    BY <1>1, <1>4, <2>2 DEF Register, RunTyped, CallTyped
  <2>5. toClient'[l] \in FramesTo(pc'[l]) /\ toClient'[l] \in {<<>>, <<"response">>}
        /\ toClient'[l] # <<"committed">> /\ (l \in Human => toClient'[l] = <<>>)
    <3>1. <<>> # <<"committed">> /\ <<"response">> # <<"committed">>  OBVIOUS
    <3>2. toClient'[l] \in {<<>>, <<"response">>} /\ (l \in Human => toClient'[l] = <<>>)
      BY <1>1, <2>2, <2>4, SentFacts DEF Send, NetTyped
    <3> QED BY <2>4, <3>1, <3>2 DEF FramesTo
  <2>6. \A j \in Launches \ {l} : PcKept(j) /\ RunKept(j) /\ NetKept(j)
    <3>1. \A j \in Launches \ {l} : pc'[j] = pc[j] /\ acc'[j] = acc[j] /\ commit'[j] = commit[j]
      BY <1>1, <1>4 DEF Register, CallTyped, RunTyped
    <3>2. \A j \in Launches \ {l} : toClient'[j] = toClient[j]  BY <1>1, <2>4 DEF Send, NetTyped
    <3> QED BY <1>2, <2>1, <3>1, <3>2 DEF PcKept, RunKept, NetKept, clientVars
  <2>7. TypeOK'
    <3>1. toClient' \in [Launches -> Seq({"response", "confirmation", "committed", "error"})]
          /\ \A j \in Launches : Len(toClient'[j]) <= 2
      <4>1. CASE UNCHANGED toClient  BY <1>1, <4>1 DEF NetTyped
      <4>2. CASE Send(l, "response")  BY <1>1, <2>5, <4>2, SendTyped
      <4> QED BY <2>4, <4>1, <4>2
    <3>2. NetTyped'  BY <1>1, <1>2, <3>1 DEF NetTyped, clientVars
    <3>3. CallTyped' /\ RunTyped'  BY <1>1, <1>2, <1>4, <2>1 DEF CallTyped, RunTyped, Register
    <3> QED BY <1>2, <2>1, <3>2, <3>3, Typed, TypeSame, TypePartsNext DEF cleanVars, fenceVars
  <2>8. exec'[l] = "none" /\ l \in runs'  BY <1>2, <2>1, <2>2
  <2>9. UNCHANGED <<client, clientOpen, hostOpen, toHost>>  BY <1>2 DEF clientVars
  <2>10. Wire(l)'  BY <1>1, <1>2, <2>2, <2>4, <2>5, <2>9 DEF LaunchOK, Wire
  <2>11. Decided(l)'  BY <2>2, <2>3, <2>4, <2>8 DEF Decided, AccOf, CleanKept, DiskKept
  <2>12. Owned(l)'  BY <2>8 DEF Owned
  <2>13. Registered(l)'  BY <2>2, <2>3, <2>4, <2>8 DEF Registered, CleanKept, DiskKept, StepKept
  <2>14. Cleaned(l)'  BY <2>2, <2>3, <2>4 DEF Cleaned, CleanKept
  <2>15. Recovered(l)'  BY <1>1, <2>3, RecoveredKept DEF LaunchOK
  <2>16. Promised(l)'  BY <1>1, <2>2, <2>3, <2>4, <2>5, <2>9 DEF LaunchOK, Promised, DiskKept, HistKept
  <2>17. Quiet(l)'  BY <2>1, <2>2, <2>3, <2>4, <2>8 DEF Quiet, StopKept, CleanKept
  <2>18. LaunchOK(l)'
    BY <2>10, <2>11, <2>12, <2>13, <2>14, <2>15, <2>16, <2>17 DEF LaunchOK
  <2> QED BY <2>3, <2>6, <2>7, <2>18, OneMoves DEF Kept
<1> QED BY <1>3, <1>4

-----------------------------------------------------------------------------
\* Rollbacks.

\* One launch's rollback: it waits for the commit, it cleans up, or there is nothing to do.
RollsBack(l) ==
    \/ /\ acc'[l] = "commit-cancelled" /\ roll'[l] = "waiting" /\ clean'[l] = clean[l] /\ Await(l)
       /\ (l \in cleanups' <=> l \in cleanups)
    \/ /\ acc'[l] = "rolled-back" /\ roll'[l] = "cleaning" /\ CleanNow(l)
       /\ clean'[l] = [clean[l] EXCEPT !["roll"] = "index"] /\ l \in cleanups'
    \/ /\ acc'[l] = acc[l] /\ roll'[l] = roll[l] /\ clean'[l] = clean[l] /\ ~CanRoll(l)
       /\ (l \in cleanups' <=> l \in cleanups)

LEMMA RollbackFacts ==
    ASSUME RunTyped, CleanTyped, FenceTyped, NEW L \in SUBSET Launches, Rollback(L)
    PROVE  /\ RunTyped' /\ CleanTyped' /\ runAborted' \in [Launches -> BOOLEAN]
           /\ UNCHANGED <<runs, commit, exec, ran, fence>>
           /\ \A j \in Launches : runAborted[j] => runAborted'[j]
           /\ \A j \in L : RollsBack(j)
           /\ \A j \in Launches \ L : CleanKept(j) /\ RunKept(j) /\ runAborted'[j] = runAborted[j]
<1>1. UNCHANGED <<runs, commit, exec, ran, fence>>  BY DEF Rollback
<1>2. RunTyped'  BY <1>1 DEF Rollback, RunTyped
<1>3. CleanTyped'
  <2>1. cleanups' \subseteq Launches  BY DEF Rollback, CleanTyped
  <2>2. roll' \in [Launches -> {"idle", "waiting", "cleaning"}]  BY DEF Rollback, CleanTyped
  <2>3. clean' \in [Launches -> [Cleaners -> {"no", "index", "dir", "sync", "lease"}]]
    BY DEF Rollback, CleanTyped
  <2> QED BY <2>1, <2>2, <2>3 DEF CleanTyped
<1>4. runAborted' \in [Launches -> BOOLEAN]  BY DEF Rollback, FenceTyped
<1>5. \A j \in Launches : runAborted[j] => runAborted'[j]  BY DEF Rollback, FenceTyped
<1>6. ASSUME NEW j \in L PROVE RollsBack(j)
  BY DEF Rollback, RollsBack, Await, CleanNow, CanRoll, CleanTyped, RunTyped
<1>7. ASSUME NEW j \in Launches \ L
      PROVE  CleanKept(j) /\ RunKept(j) /\ runAborted'[j] = runAborted[j]
  BY <1>1 DEF Rollback, CleanKept, RunKept, CleanTyped, RunTyped, FenceTyped
<1> QED BY <1>1, <1>2, <1>3, <1>4, <1>5, <1>6, <1>7

LEMMA RollsBackKeeps ==
    ASSUME NEW j \in Launches, LaunchOK(j), RollsBack(j), acc[j] # "committed", CleanTyped,
           UNCHANGED <<runs, commit, exec, fence, client, toClient>>, DiskKept(j), StepKept(j), HistKept(j),
           Wire(j)', runAborted[j] => runAborted'[j],
           PcKept(j) \/ (pc'[j] = "rollback" /\ pc[j] # "clean" /\ j \in Agents /\ commit[j] = "idle"
                         /\ acc[j] \in Undecided \cup {"commit-ambiguous"}),
           StopKept \/ (stopPc = "no" /\ stopPc' = "rolling"
                         /\ (acc'[j] \in Unaccepted /\ j \in runs => j \in awaited'))
    PROVE  LaunchOK(j)'
<1>1. acc[j] \in Undecided \cup Committing => roll[j] # "cleaning" \/ acc[j] = "rolled-back"
  BY DEF LaunchOK, Decided
<1>2. Decided(j)'
  BY <1>1 DEF LaunchOK, Decided, Registered, RollsBack, Await, CleanNow, CanRoll, PcKept, AccOf, DiskKept, CleanTyped
<1>3. Owned(j)'
  <2>1. CASE j \in runs  BY <2>1 DEF Owned
  <2>2. CASE j \notin runs
    <3>1. clean'[j] = clean[j] /\ (j \in cleanups' <=> j \in cleanups)  BY <2>2 DEF RollsBack, CanRoll, Await, CleanNow
    <3>2. pc[j] \in Allocating => pc'[j] = pc[j]  BY DEF LaunchOK, Decided, AccOf, PcKept
    <3> QED BY <3>1, <3>2 DEF LaunchOK, Owned, DiskKept
  <2> QED BY <2>1, <2>2
<1>4. Registered(j)'
  BY DEF LaunchOK, Decided, Registered, RollsBack, CanRoll, Await, CleanNow, PcKept, AccOf, DiskKept, StepKept
<1>5. Cleaned(j)'
  BY DEF LaunchOK, Decided, Registered, Cleaned, RollsBack, CanRoll, Await, CleanNow, PcKept, AccOf, DiskKept, CleanTyped
<1>6. Recovered(j)'  BY RecoveredKept DEF LaunchOK
<1>7. Promised(j)'
  BY DEF LaunchOK, Decided, Promised, RollsBack, CanRoll, Await, CleanNow, DiskKept, HistKept
<1>8. Quiet(j)'
  <2>1. (fence \/ stopPc \notin {"no", "rolling"} => (exec[j] \in {"starting", "running"} => runAborted[j]))'
    BY DEF LaunchOK, Quiet, StopKept
  <2>2. (j \in runs /\ acc[j] \in Unaccepted /\ stopPc # "no" =>
           stopPc = "rolling" /\ j \in awaited /\ roll[j] = "waiting")'
    <3>1. SUFFICES ASSUME j \in runs, acc'[j] \in Unaccepted, stopPc' # "no"
                   PROVE  stopPc' = "rolling" /\ j \in awaited' /\ roll'[j] = "waiting"
      OBVIOUS
    <3>2. CASE CanRoll(j)
      <4>1. roll'[j] = "waiting" /\ acc[j] \in Unaccepted /\ roll[j] = "idle"
        BY <3>1, <3>2 DEF RollsBack, Await, CanRoll
      <4> QED BY <3>1, <4>1 DEF LaunchOK, Quiet, StopKept
    <3>3. CASE ~CanRoll(j)
      <4>1. acc'[j] = acc[j] /\ roll'[j] = roll[j]  BY <3>3 DEF RollsBack, Await, CleanNow
      <4>2. roll[j] # "idle"  BY <3>1, <3>3, <4>1 DEF CanRoll
      <4>3. roll[j] = "waiting"  BY <3>1, <4>1, <4>2 DEF LaunchOK, Decided, CleanTyped
      <4> QED BY <3>1, <4>1, <4>3 DEF LaunchOK, Quiet, StopKept
    <3> QED BY <3>2, <3>3
  <2>3. (stopPc \in {"cleaning", "done"} => pc[j] \notin Starting \cup {"clean"} /\ ~(j \in Human /\ pc[j] = "commit"))'
    BY DEF LaunchOK, Quiet, StopKept, PcKept
  <2>4. (stopPc \in {"cleaning", "done"} /\ j \in cleanups => fence \/ clean[j]["stop"] # "no")'
    <3>1. SUFFICES ASSUME stopPc' \in {"cleaning", "done"}, j \in cleanups'
                   PROVE  fence \/ clean'[j]["stop"] # "no"
      OBVIOUS
    <3>2. StopKept  BY <3>1
    <3>3. clean'[j]["stop"] = clean[j]["stop"]  BY DEF RollsBack, CleanTyped
    <3>4. CASE CleanNow(j)
      <4>1. acc[j] \notin Unaccepted /\ j \in runs /\ acc[j] # "commit-ambiguous"
        BY <3>1, <3>2, <3>4 DEF CleanNow, CanRoll, LaunchOK, Quiet, StopKept
      <4>2. acc[j] = "rolled-back"  BY <4>1 DEF LaunchOK, Decided, Registered, AccOf
      <4>3. j \in cleanups  BY <4>1, <4>2 DEF LaunchOK, Registered
      <4> QED BY <3>1, <3>2, <3>3, <4>3 DEF LaunchOK, Quiet, StopKept
    <3>5. CASE ~CleanNow(j)
      <4>1. j \in cleanups  BY <3>1, <3>5 DEF RollsBack
      <4> QED BY <3>1, <3>2, <3>3, <4>1 DEF LaunchOK, Quiet, StopKept
    <3> QED BY <3>4, <3>5
  <2>5. (stopPc = "done" => clean[j]["stop"] = "no")'
    <3>1. clean'[j]["stop"] = clean[j]["stop"]  BY DEF RollsBack, CleanTyped
    <3> QED BY <3>1 DEF LaunchOK, Quiet, StopKept
  <2>6. (stopPc = "done" /\ j \in runs => exec[j] \in {"none", "over"})'  BY DEF LaunchOK, Quiet, StopKept
  <2> QED BY <2>1, <2>2, <2>3, <2>4, <2>5, <2>6 DEF Quiet
<1> QED BY <1>2, <1>3, <1>4, <1>5, <1>6, <1>7, <1>8 DEF LaunchOK

\* The broker's catch rolls the launch back.
LEMMA FailKeeps ==
    ASSUME IInv, NEW l \in Launches, Fail(l), l \in Agents,
           pc[l] \in Waiting \/ (pc[l] = "commit" /\ commit[l] = "idle" /\ acc[l] # "committed"),
           UNCHANGED <<client, clientOpen, toClient, revoked, hostVars, diskVars, rstep, counts>>,
           NetTyped', ctrl' \in [Launches -> BOOLEAN], appr' \in [Launches -> BOOLEAN],
           toHost'[l] \in {toHost[l], <<>>}, \A j \in Launches \ {l} : NetKept(j)
    PROVE  IInv'
<1>1. NetTyped /\ CallTyped /\ RunTyped /\ CleanTyped /\ FenceTyped /\ LaunchOK(l)  BY Typed DEF IInv
<1>2. /\ RunTyped' /\ CleanTyped' /\ runAborted' \in [Launches -> BOOLEAN]
      /\ UNCHANGED <<runs, commit, exec, ran, fence>>
      /\ runAborted[l] => runAborted'[l]
      /\ RollsBack(l)
      /\ \A j \in Launches \ {l} : CleanKept(j) /\ RunKept(j) /\ runAborted'[j] = runAborted[j]
  <2>1. {l} \in SUBSET Launches /\ Rollback({l})  BY DEF Fail
  <2> QED BY <1>1, <2>1, RollbackFacts
<1>3. /\ pc' = [pc EXCEPT ![l] = "rollback"] /\ pc'[l] = "rollback"
      /\ \A j \in Launches \ {l} : PcKept(j)
  BY <1>1 DEF Fail, CallTyped, PcKept
<1>4. TypeOK'
  <2>1. CallTyped' /\ FenceTyped'  BY <1>1, <1>2, <1>3 DEF CallTyped, FenceTyped
  <2> QED BY <1>2, <2>1, Typed, TypeSame, TypePartsNext
<1>5. commit[l] = "idle" /\ acc[l] \in Undecided \cup {"commit-ambiguous"} /\ acc[l] # "committed"
  BY <1>1 DEF LaunchOK, Decided, AccOf
<1>6. Wire(l)'
  <2>1. toClient[l] \in Calls  BY <1>1 DEF LaunchOK, Wire, FramesTo
  <2>2. toClient[l] \in FramesTo("rollback")  BY <2>1, OpenCalls
  <2>3. toHost[l] # <<"request">>  BY <1>1 DEF LaunchOK, Wire
  <2>4. <<>> # <<"request">> /\ <<>> # <<"confirm">>  OBVIOUS
  <2>5. /\ toHost'[l] # <<"request">> /\ toHost'[l] \in {<<>>, <<"request">>, <<"ack">>, <<"confirm">>}
        /\ toHost'[l] = <<"confirm">> => toHost[l] = <<"confirm">>
        /\ toHost'[l] = <<>> \/ toHost'[l] = toHost[l]
    BY <1>1, <2>3, <2>4 DEF LaunchOK, Wire
  <2> QED BY <1>1, <1>3, <2>2, <2>5 DEF LaunchOK, Wire
<1>7. \A j \in Launches : DiskKept(j) /\ StepKept(j) /\ HistKept(j) /\ StopKept
  BY GroupsKept DEF hostVars, StopKept
<1>8. LaunchOK(l)'  BY <1>1, <1>2, <1>3, <1>5, <1>6, <1>7, RollsBackKeeps
<1>9. \A j \in Launches \ {l} : Aborts(j)  BY <1>2 DEF Aborts
<1> QED BY <1>2, <1>3, <1>4, <1>7, <1>8, <1>9, OneMoves DEF Kept

LEMMA AckTimeoutKeeps == ASSUME IInv, NEW l \in Launches, AckTimeout(l) PROVE IInv'
<1>1. NetTyped /\ CallTyped /\ FenceTyped /\ LaunchOK(l)  BY Typed DEF IInv
<1>2. pc[l] \in Waiting /\ Fail(l) /\ UNCHANGED <<clientVars, netVars, ctrl, revoked, appr, hostVars, diskVars, rstep, counts>>
  BY DEF AckTimeout
<1>3. l \in Agents  BY <1>1, <1>2 DEF LaunchOK, Wire
<1>4. NetTyped' /\ \A j \in Launches \ {l} : NetKept(j)  BY <1>1, <1>2, TypeSame, GroupsKept
<1>5. UNCHANGED <<client, clientOpen, toClient, toHost>> /\ ctrl' \in [Launches -> BOOLEAN] /\ appr' \in [Launches -> BOOLEAN]
  BY <1>1, <1>2 DEF clientVars, netVars, CallTyped, FenceTyped
<1> QED BY <1>2, <1>3, <1>4, <1>5, FailKeeps

\* A socket that closes on the host's side.
LEMMA CloseFacts ==
    ASSUME IInv, NEW l \in Launches, UNCHANGED <<clientVars, toClient>>,
           hostOpen' = [hostOpen EXCEPT ![l] = FALSE], toHost' = [toHost EXCEPT ![l] = <<>>]
    PROVE  NetTyped' /\ (\A j \in Launches \ {l} : NetKept(j)) /\ toHost'[l] = <<>>
           /\ (PcKept(l) => Wire(l)')
<1>1. NetTyped /\ LaunchOK(l)  BY Typed DEF IInv
<1>2. NetTyped'
  <2>1. toHost' \in [Launches -> Seq({"request", "ack", "confirm"})]  BY <1>1 DEF NetTyped
  <2>2. \A j \in Launches : Len(toHost'[j]) <= 1  BY <1>1 DEF NetTyped
  <2> QED BY <1>1, <2>1, <2>2 DEF NetTyped, clientVars
<1>3. toHost'[l] = <<>> /\ ~hostOpen'[l] /\ UNCHANGED <<client, clientOpen>>  BY <1>1 DEF NetTyped, clientVars
<1>4. \A j \in Launches \ {l} : NetKept(j)  BY <1>1, <1>3 DEF NetTyped, NetKept
<1>5. ASSUME PcKept(l) PROVE Wire(l)'
  <2>1. <<>> # <<"request">> /\ <<>> # <<"confirm">>  OBVIOUS
  <2> QED BY <1>1, <1>3, <1>5, <2>1 DEF LaunchOK, Wire, PcKept
<1> QED BY <1>2, <1>3, <1>4, <1>5

\* ... while no acknowledgement is waited for.
LEMMA CloseKeeps ==
    ASSUME IInv, NEW l \in Launches, UNCHANGED <<clientVars, toClient>>, AbortCall(l),
           hostOpen' = [hostOpen EXCEPT ![l] = FALSE], toHost' = [toHost EXCEPT ![l] = <<>>],
           UNCHANGED <<pc, revoked, runVars, cleanVars, fence, runAborted, hostVars, diskVars, rstep, counts>>
    PROVE  IInv'
<1>1. CallTyped /\ FenceTyped /\ LaunchOK(l)  BY Typed DEF IInv
<1>2. \A j \in Launches : PcKept(j)  BY DEF PcKept
<1>3. NetTyped' /\ Wire(l)' /\ \A j \in Launches \ {l} : NetKept(j)  BY <1>2, CloseFacts
<1>4. CallTyped' /\ appr' \in [Launches -> BOOLEAN]  BY <1>1, AbortTyped DEF CallTyped
<1>5. Promised(l)'
  BY <1>1, PromisedKept DEF LaunchOK, HistKept, clientVars, hostVars, runVars, diskVars
<1> QED BY <1>2, <1>3, <1>4, <1>5, CallMoves

LEMMA HostCloseKeeps == ASSUME IInv, NEW l \in Launches, HostClose(l) PROVE IInv'
<1> USE DEF HostClose, Disconnect
<1>1. CallTyped /\ FenceTyped /\ LaunchOK(l)  BY Typed DEF IInv
<1>2. /\ hostOpen' = [hostOpen EXCEPT ![l] = FALSE] /\ toHost' = [toHost EXCEPT ![l] = <<>>]
      /\ AbortCall(l) /\ UNCHANGED <<clientVars, toClient, revoked, hostVars, diskVars, rstep, counts>>
  OBVIOUS
<1>3. CASE pc[l] \in Waiting
  <2>1. l \in Agents  BY <1>1, <1>3 DEF LaunchOK, Wire
  <2>2. NetTyped' /\ toHost'[l] = <<>> /\ \A j \in Launches \ {l} : NetKept(j)  BY <1>2, CloseFacts
  <2>3. ctrl' \in [Launches -> BOOLEAN] /\ appr' \in [Launches -> BOOLEAN]
    BY <1>1, <1>2 DEF AbortCall, CallTyped, FenceTyped
  <2>4. UNCHANGED <<client, clientOpen>>  BY <1>2 DEF clientVars
  <2> QED BY <1>2, <1>3, <2>1, <2>2, <2>3, <2>4, FailKeeps
<1>4. CASE pc[l] \notin Waiting
  <2>1. UNCHANGED <<pc, runVars, cleanVars, fence, runAborted>>  BY <1>4
  <2> QED BY <1>2, <2>1, CloseKeeps
<1> QED BY <1>3, <1>4

\* An acknowledgement that is awaited.
LEMMA AckKeeps ==
    ASSUME IInv, NEW l \in Launches, pc[l] = "awaitAck", toHost[l] = <<"ack">>, OnAck(l),
           toHost' = [toHost EXCEPT ![l] = Tail(@)],
           UNCHANGED <<client, clientOpen, hostOpen, ctrl, revoked, hostVars, diskVars, rstep, counts>>
    PROVE  IInv'
<1>1. NetTyped /\ CallTyped /\ RunTyped /\ CleanTyped /\ FenceTyped /\ LaunchOK(l) /\ l \in Agents
  BY Typed DEF IInv, LaunchOK, Wire
<1>2. /\ toHost' = [toHost EXCEPT ![l] = <<>>] /\ toHost'[l] = <<>>
      /\ \A j \in Launches \ {l} : toHost'[j] = toHost[j]
      /\ toHost' \in [Launches -> Seq({"request", "ack", "confirm"})] /\ \A j \in Launches : Len(toHost'[j]) <= 1
  <2>1. Tail(<<"ack">>) = <<>>  OBVIOUS
  <2>2. toHost' = [toHost EXCEPT ![l] = <<>>]  BY <1>1, <2>1
  <2> QED BY <1>1, <2>2 DEF NetTyped
<1>3. CASE Fail(l) /\ UNCHANGED <<toClient, appr>>
  <2>1. NetTyped' /\ \A j \in Launches \ {l} : NetKept(j)  BY <1>1, <1>2, <1>3 DEF NetTyped, NetKept
  <2>2. ctrl' \in [Launches -> BOOLEAN] /\ appr' \in [Launches -> BOOLEAN]
    BY <1>1, <1>3 DEF CallTyped, FenceTyped
  <2> QED BY <1>1, <1>2, <1>3, <2>1, <2>2, FailKeeps
<1>4. CASE /\ Acceptable(l) /\ acc' = [acc EXCEPT ![l] = "accepted"] /\ pc' = [pc EXCEPT ![l] = "awaitConfirm"]
           /\ Send(l, "confirmation") /\ UNCHANGED <<runs, commit, exec, ran, cleanVars, fenceVars>>
  <2>1. /\ acc[l] = "awaiting" /\ l \in runs /\ stopPc = "no"
        /\ acc'[l] = "accepted" /\ pc'[l] = "awaitConfirm" /\ l \in runs'
        /\ \A j \in Launches \ {l} : PcKept(j) /\ RunKept(j)
    BY <1>1, <1>4 DEF Acceptable, CallTyped, RunTyped, PcKept, RunKept
  <2>2. toClient[l] = <<>>
    <3>1. toClient[l] \in {<<>>, <<"error">>, <<"committed">>} /\ toClient[l] \in {<<>>, <<"response">>}
      <4>1. <<"ack">> # <<>>  OBVIOUS
      <4> QED BY <1>1, <4>1 DEF LaunchOK, Wire, FramesTo
    <3>2. <<"response">> # <<"error">> /\ <<"response">> # <<"committed">>  OBVIOUS
    <3> QED BY <3>1, <3>2
  <2>3. toClient'[l] \in {<<>>, <<"confirmation">>}  BY <1>1, <1>4, <2>2, SentFacts DEF Send, NetTyped
  <2>4. toClient'[l] \in FramesTo("awaitConfirm") /\ toClient'[l] # <<"committed">>
    <3>1. <<>> # <<"committed">> /\ <<"confirmation">> # <<"committed">>  OBVIOUS
    <3> QED BY <2>3, <3>1 DEF FramesTo
  <2>5. NetTyped' /\ \A j \in Launches \ {l} : NetKept(j)
    BY <1>1, <1>2, <1>4, <2>4, SendTyped DEF NetTyped, NetKept
  <2>6. \A j \in Launches : CleanKept(j) /\ DiskKept(j) /\ StepKept(j) /\ HistKept(j) /\ StopKept /\ Aborts(j)
    BY <1>4, GroupsKept DEF hostVars, fenceVars, StopKept
  <2>7. TypeOK'
    <3>1. CallTyped' /\ RunTyped'  BY <1>1, <1>4 DEF CallTyped, RunTyped
    <3> QED BY <1>4, <2>5, <3>1, Typed, TypeSame, TypePartsNext
  <2>8. Wire(l)'
    <3>1. <<>> # <<"request">> /\ <<>> # <<"confirm">>  OBVIOUS
    <3> QED BY <1>1, <1>2, <2>1, <2>4, <3>1 DEF LaunchOK, Wire
  <2>9. UNCHANGED <<commit, exec, fence, client>>  BY <1>4 DEF fenceVars
  <2>10. Decided(l)'  BY <1>1, <2>1, <2>6, <2>9 DEF LaunchOK, Decided, AccOf, CleanKept, DiskKept
  <2>11. Owned(l)'  BY <2>1 DEF Owned
  <2>12. Registered(l)'  BY <1>1, <2>1, <2>6 DEF LaunchOK, Registered, CleanKept, DiskKept, StepKept
  <2>13. Cleaned(l)'  BY <1>1, <2>1, <2>6 DEF LaunchOK, Cleaned, CleanKept, DiskKept
  <2>14. Recovered(l)'  BY <1>1, <2>6, RecoveredKept DEF LaunchOK
  <2>15. Promised(l)'  BY <1>1, <2>1, <2>4, <2>6, <2>9 DEF LaunchOK, Promised, DiskKept, HistKept
  <2>16. Quiet(l)'  BY <1>1, <2>1, <2>6, <2>9 DEF LaunchOK, Quiet, CleanKept, StopKept, Aborts
  <2>17. LaunchOK(l)'  BY <2>8, <2>10, <2>11, <2>12, <2>13, <2>14, <2>15, <2>16 DEF LaunchOK
  <2> QED BY <2>1, <2>5, <2>6, <2>7, <2>17, OneMoves DEF Kept
<1> QED BY <1>3, <1>4 DEF OnAck

\* The confirmation that is awaited begins the commit.
LEMMA ConfirmKeeps ==
    ASSUME IInv, NEW l \in Launches, pc[l] = "awaitConfirm", toHost[l] = <<"confirm">>, OnConfirm(l),
           toHost' = [toHost EXCEPT ![l] = Tail(@)],
           UNCHANGED <<client, clientOpen, hostOpen, toClient, ctrl, appr, revoked, hostVars, diskVars, rstep, counts>>
    PROVE  IInv'
<1>1. NetTyped /\ CallTyped /\ RunTyped /\ CleanTyped /\ FenceTyped /\ LaunchOK(l) /\ l \in Agents
  BY Typed DEF IInv, LaunchOK, Wire
<1>2. /\ toHost' = [toHost EXCEPT ![l] = <<>>] /\ toHost'[l] = <<>>
      /\ NetTyped' /\ \A j \in Launches \ {l} : NetKept(j)
  <2>1. Tail(<<"confirm">>) = <<>>  OBVIOUS
  <2>2. toHost' = [toHost EXCEPT ![l] = <<>>]  BY <1>1, <2>1
  <2>3. toHost' \in [Launches -> Seq({"request", "ack", "confirm"})] /\ \A j \in Launches : Len(toHost'[j]) <= 1
    BY <1>1, <2>2 DEF NetTyped
  <2> QED BY <1>1, <2>2, <2>3 DEF NetTyped, NetKept
<1>3. CASE Fail(l)
  <2>1. ctrl' \in [Launches -> BOOLEAN] /\ appr' \in [Launches -> BOOLEAN]  BY <1>1 DEF CallTyped, FenceTyped
  <2> QED BY <1>1, <1>2, <1>3, <2>1, FailKeeps
<1>4. CASE /\ Committable(l) /\ acc' = [acc EXCEPT ![l] = "committing"] /\ commit' = [commit EXCEPT ![l] = "writing"]
           /\ pc' = [pc EXCEPT ![l] = "commit"] /\ UNCHANGED <<runs, exec, ran, cleanVars, fence, runAborted>>
  <2>1. /\ acc[l] = "accepted" /\ l \in runs
        /\ acc'[l] = "committing" /\ commit'[l] = "writing" /\ pc'[l] = "commit" /\ l \in runs'
        /\ \A j \in Launches \ {l} : PcKept(j) /\ RunKept(j)
    BY <1>1, <1>4 DEF Committable, CallTyped, RunTyped, PcKept, RunKept
  <2>2. /\ commit[l] = "idle" /\ mark[l] = "none" /\ exec[l] = "none" /\ roll[l] = "idle" /\ l \notin cleanups
        /\ idx[l] = "live" /\ dir[l] = "full" /\ lease[l] = "live" /\ client[l] \in Late /\ stopPc = "no"
        /\ \A w \in Cleaners : clean[l][w] = "no"
    BY <1>1, <2>1 DEF LaunchOK, Wire, Decided, Registered, Cleaned, Quiet, CleanTyped
  <2>3. toClient[l] = <<>>
    <3>1. toClient[l] \in {<<>>, <<"error">>, <<"committed">>} /\ toClient[l] \in {<<>>, <<"confirmation">>}
      <4>1. <<"confirm">> # <<>>  OBVIOUS
      <4> QED BY <1>1, <4>1 DEF LaunchOK, Wire, FramesTo
    <3>2. <<"confirmation">> # <<"error">> /\ <<"confirmation">> # <<"committed">>  OBVIOUS
    <3> QED BY <3>1, <3>2
  <2>4. \A j \in Launches : CleanKept(j) /\ DiskKept(j) /\ StepKept(j) /\ HistKept(j) /\ StopKept /\ Aborts(j)
    BY <1>4, GroupsKept DEF hostVars, StopKept
  <2>5. TypeOK'
    <3>1. CallTyped' /\ RunTyped' /\ FenceTyped'  BY <1>1, <1>4 DEF CallTyped, RunTyped, FenceTyped
    <3> QED BY <1>2, <1>4, <3>1, Typed, TypeSame, TypePartsNext
  <2>6. Wire(l)'
    <3>1. <<>> # <<"request">> /\ <<>> # <<"confirm">> /\ <<>> \in FramesTo("commit")  BY DEF FramesTo
    <3> QED BY <1>1, <1>2, <2>1, <2>3, <3>1 DEF LaunchOK, Wire
  <2>7. Decided(l)'  BY <1>4, <2>1, <2>2, <2>4 DEF Decided, AccOf, CleanKept, DiskKept
  <2>8. Owned(l)'  BY <2>1 DEF Owned
  <2>9. Registered(l)'  BY <2>1, <2>2, <2>4 DEF Registered, CleanKept, DiskKept, StepKept
  <2>10. Cleaned(l)'  BY <2>1, <2>2, <2>4 DEF Cleaned, CleanKept, DiskKept
  <2>11. Recovered(l)'  BY <1>1, <2>4, RecoveredKept DEF LaunchOK
  <2>12. Promised(l)'  BY <1>1, <2>2, <2>4 DEF LaunchOK, Promised, DiskKept, HistKept
  <2>13. Quiet(l)'  BY <1>4, <2>1, <2>2, <2>4 DEF Quiet, CleanKept, StopKept
  <2>14. LaunchOK(l)'  BY <2>6, <2>7, <2>8, <2>9, <2>10, <2>11, <2>12, <2>13 DEF LaunchOK
  <2> QED BY <1>2, <2>1, <2>4, <2>5, <2>14, OneMoves DEF Kept
<1> QED BY <1>3, <1>4 DEF OnConfirm

LEMMA HostReadKeeps == ASSUME IInv, NEW l \in Launches, HostRead(l) PROVE IInv'
<1> DEFINE frame == Head(toHost[l])
           read == toHost' = [toHost EXCEPT ![l] = Tail(@)]
<1>1. LaunchOK(l) /\ NetTyped  BY Typed DEF IInv
<1>2. UNCHANGED <<clientOpen, revoked, hostVars, diskVars, rstep, counts>> /\ toHost[l] # <<>> /\ hostOpen[l]
  BY DEF HostRead
<1>3. /\ toHost[l] \in {<<"request">>, <<"ack">>, <<"confirm">>}
      /\ toHost[l] = <<frame>> /\ frame \in {"request", "ack", "confirm"}
  <2>1. \A x : Head(<<x>>) = x  OBVIOUS
  <2> QED BY <1>1, <1>2, <2>1 DEF LaunchOK, Wire
<1>4. CASE frame = "request"
  <2>1. read /\ Begin(l) /\ UNCHANGED <<hostOpen, ctrl, runVars, cleanVars, fenceVars>>  BY <1>4 DEF HostRead
  <2>2. l \notin Human /\ pc[l] = "idle" /\ client[l] # "idle"  BY <1>1, <1>3, <1>4 DEF LaunchOK, Wire
  <2> QED BY <1>2, <1>3, <1>4, <2>1, <2>2, BeginKeeps
<1>5. CASE frame = "ack" /\ pc[l] = "awaitAck"
  <2>1. read /\ OnAck(l) /\ UNCHANGED <<client, hostOpen, ctrl>>  BY <1>5 DEF HostRead
  <2> QED BY <1>2, <1>3, <1>5, <2>1, AckKeeps
<1>6. CASE frame = "confirm" /\ pc[l] = "awaitConfirm"
  <2>1. read /\ OnConfirm(l) /\ UNCHANGED <<client, hostOpen, toClient, ctrl, appr>>  BY <1>6 DEF HostRead
  <2> QED BY <1>2, <1>3, <1>6, <2>1, ConfirmKeeps
<1>7. CASE frame # "request" /\ ~(frame = "ack" /\ pc[l] = "awaitAck") /\ ~(frame = "confirm" /\ pc[l] = "awaitConfirm")
  <2>1. /\ hostOpen' = [hostOpen EXCEPT ![l] = FALSE] /\ toHost' = [toHost EXCEPT ![l] = <<>>]
        /\ AbortCall(l) /\ UNCHANGED <<client, toClient, pc, runVars, cleanVars, fence, runAborted>>
    BY <1>7 DEF HostRead
  <2> QED BY <1>2, <2>1, CloseKeeps DEF clientVars
<1> QED BY <1>4, <1>5, <1>6, <1>7

-----------------------------------------------------------------------------
\* The commit transaction.

LEMMA BrokerCommittedKeeps == ASSUME IInv, NEW l \in Launches, BrokerCommitted(l) PROVE IInv'
<1>1. NetTyped /\ CallTyped /\ FenceTyped /\ LaunchOK(l)  BY Typed DEF IInv
<1>2. /\ l \in Agents /\ pc[l] = "commit" /\ commit[l] = "idle"
      /\ UNCHANGED <<clientVars, hostOpen, toHost, ctrl, revoked, appr, hostVars, diskVars, rstep, counts>>
  BY DEF BrokerCommitted
<1>3. CASE acc[l] = "committed"
  <2>1. /\ pc' = [pc EXCEPT ![l] = "done"] /\ pc'[l] = "done" /\ Send(l, "committed")
        /\ UNCHANGED <<runVars, cleanVars, fence, runAborted>>
    BY <1>1, <1>3 DEF BrokerCommitted, CallTyped
  <2>2. toClient[l] = <<>> /\ mark[l] = "durable"  BY <1>1, <1>2, <1>3 DEF LaunchOK, Wire, Decided, FramesTo
  <2>3. toClient'[l] \in {<<>>, <<"committed">>}  BY <1>1, <2>1, <2>2, SentFacts DEF Send, NetTyped
  <2>4. toClient'[l] \in FramesTo("done")  BY <2>3 DEF FramesTo
  <2>5. NetTyped' /\ \A j \in Launches \ {l} : NetKept(j) /\ PcKept(j)
    BY <1>1, <1>2, <2>1, <2>4, SendTyped DEF NetTyped, NetKept, PcKept, CallTyped, clientVars
  <2>6. CallTyped' /\ appr' \in [Launches -> BOOLEAN]  BY <1>1, <1>2, <2>1 DEF CallTyped, FenceTyped
  <2>7. UNCHANGED <<client, clientOpen, toHost, mark, acc, hist>>
    BY <1>2, <2>1 DEF clientVars, diskVars, runVars, hostVars
  <2>8. Wire(l)'  BY <1>1, <1>2, <2>1, <2>3, <2>4, <2>7 DEF LaunchOK, Wire
  <2>9. Promised(l)'  BY <1>1, <2>2, <2>7 DEF LaunchOK, Promised
  <2>10. acc[l] \in AccOf("done") /\ clean[l]["start"] = "no"  BY <1>1, <1>2, <1>3 DEF LaunchOK, Cleaned, AccOf
  <2> QED BY <1>2, <2>1, <2>5, <2>6, <2>8, <2>9, <2>10, CallMoves
<1>4. CASE acc[l] # "committed"
  <2>1. Fail(l) /\ UNCHANGED toClient  BY <1>4 DEF BrokerCommitted
  <2>2. UNCHANGED <<clientVars, netVars>> /\ UNCHANGED <<client, clientOpen>>  BY <1>2, <2>1 DEF clientVars, netVars
  <2>3. NetTyped' /\ \A j \in Launches \ {l} : NetKept(j)  BY <1>1, <2>2, TypeSame, GroupsKept
  <2>4. ctrl' \in [Launches -> BOOLEAN] /\ appr' \in [Launches -> BOOLEAN]  BY <1>1, <1>2 DEF CallTyped, FenceTyped
  <2> QED BY <1>2, <1>4, <2>1, <2>2, <2>3, <2>4, FailKeeps
<1> QED BY <1>3, <1>4

LEMMA HumanCommittedKeeps == ASSUME IInv, NEW l \in Launches, HumanCommitted(l) PROVE IInv'
<1>1. NetTyped /\ CallTyped /\ RunTyped /\ CleanTyped /\ FenceTyped /\ LaunchOK(l)  BY Typed DEF IInv
<1>2. /\ l \in Human /\ pc[l] = "commit" /\ commit[l] = "idle"
      /\ UNCHANGED <<clientOpen, netVars, ctrl, revoked, acc, commit, exec, ran, roll, fenceVars, hostVars,
                     diskVars, rstep, counts>>
  BY DEF HumanCommitted
<1>3. UNCHANGED <<hostOpen, toHost, toClient, acc, mark, hist, fence, runAborted, appr>>
  BY <1>2 DEF netVars, diskVars, hostVars, fenceVars
<1>4. CASE acc[l] \in {"committed", "commit-ambiguous"}
  <2>1. /\ pc' = [pc EXCEPT ![l] = "done"] /\ UNCHANGED <<runs, clean, cleanups>>
        /\ client' = [client EXCEPT ![l] = IF acc[l] = "committed" THEN "started" ELSE "unresolved"]
    BY <1>4 DEF HumanCommitted
  <2>2. /\ pc'[l] = "done" /\ client'[l] \in {"started", "unresolved"}
        /\ \A j \in Launches \ {l} : PcKept(j) /\ NetKept(j)
    BY <1>1, <1>2, <1>3, <2>1 DEF CallTyped, NetTyped, PcKept, NetKept
  <2>3. NetTyped' /\ CallTyped' /\ appr' \in [Launches -> BOOLEAN]
    BY <1>1, <1>2, <1>3, <2>1 DEF NetTyped, CallTyped, FenceTyped
  <2>4. UNCHANGED <<runVars, cleanVars>>  BY <1>2, <2>1 DEF runVars, cleanVars
  <2>5. toClient[l] = <<>> /\ <<>> \in FramesTo("done") /\ toHost[l] = <<>> /\ ~clientOpen[l] /\ ~hostOpen[l]
    BY <1>1, <1>2 DEF LaunchOK, Wire, FramesTo, Calls
  <2>6. <<>> # <<"request">> /\ <<>> # <<"confirm">> /\ <<>> # <<"committed">>  OBVIOUS
  <2>7. ~clientOpen'[l]  BY <1>2, <2>5
  <2>8. Wire(l)'  BY <1>2, <1>3, <2>2, <2>5, <2>6, <2>7 DEF Wire
  <2>9. Promised(l)'  BY <1>1, <1>2, <1>3, <2>2, <2>5, <2>6 DEF LaunchOK, Promised
  <2>10. acc[l] \in AccOf("done") /\ clean[l]["start"] = "no"  BY <1>1, <1>2, <1>4 DEF LaunchOK, Cleaned, AccOf
  <2> QED BY <1>2, <1>3, <2>2, <2>3, <2>4, <2>8, <2>9, <2>10, CallMoves
<1>5. CASE acc[l] \notin {"committed", "commit-ambiguous"}
  <2>1. /\ pc' = [pc EXCEPT ![l] = "clean"] /\ runs' = runs \ {l} /\ cleanups' = cleanups \cup {l}
        /\ clean' = [clean EXCEPT ![l]["start"] = "index"] /\ UNCHANGED client
    BY <1>5 DEF HumanCommitted
  <2>2. /\ CallTyped' /\ CleanTyped' /\ RunTyped' /\ pc'[l] = "clean" /\ l \in cleanups' /\ l \notin runs'
        /\ clean'[l]["start"] = "index" /\ \A w \in {"roll", "stop"} : clean'[l][w] = clean[l][w]
        /\ \A j \in Launches \ {l} : PcKept(j) /\ CleanKept(j) /\ RunKept(j)
    <3>1. CleanStart(l)  BY <2>1 DEF CleanStart
    <3>2. \A j \in Launches \ {l} : RunKept(j)  BY <1>2, <2>1 DEF RunKept
    <3>3. RunTyped'  BY <1>1, <1>2, <2>1 DEF RunTyped
    <3> QED BY <1>1, <1>2, <2>1, <3>1, <3>2, <3>3, CleanStartFacts
  <2>3. \A j \in Launches : NetKept(j) /\ DiskKept(j) /\ StepKept(j) /\ HistKept(j) /\ StopKept /\ Aborts(j)
    BY <1>2, <2>1, GroupsKept DEF hostVars, fenceVars, StopKept, clientVars
  <2>4. TypeOK'
    <3>1. UNCHANGED clientVars  BY <1>2, <2>1 DEF clientVars
    <3> QED BY <1>2, <2>2, <3>1, Typed, TypeSame, TypePartsNext
  <2>5. /\ acc[l] \in {"accepted", "rolled-back"} /\ mark[l] = "none" /\ exec[l] = "none"
        /\ lease[l] = "live" \/ dir[l] # "full"
        /\ stopPc \notin {"cleaning", "done"}
    BY <1>1, <1>2, <1>5 DEF LaunchOK, Decided, Registered, Quiet, AccOf
  <2>6. Wire(l)'
    <3>1. toClient[l] = <<>> /\ <<>> \in FramesTo("clean")  BY <1>1, <1>2 DEF LaunchOK, Wire, FramesTo
    <3> QED BY <1>1, <1>2, <2>2, <2>3, <3>1 DEF LaunchOK, Wire, NetKept
  <2>7. UNCHANGED <<acc, commit, exec, roll>>  BY <1>2
  <2>8. Decided(l)'  BY <1>1, <2>2, <2>3, <2>5, <2>7 DEF LaunchOK, Decided, AccOf, DiskKept, Aborts
  <2>9. Owned(l)'  BY <2>2 DEF Owned
  <2>10. Registered(l)'  BY <1>1, <1>2, <2>2, <2>3, <2>5, <2>7 DEF LaunchOK, Registered, DiskKept, StepKept
  <2>11. Cleaned(l)'  BY <1>1, <1>2, <2>2, <2>3, <2>5, <2>7 DEF LaunchOK, Cleaned, DiskKept
  <2>12. Recovered(l)'  BY <1>1, <2>3, RecoveredKept DEF LaunchOK
  <2>13. Promised(l)'  BY <1>1, <2>3, <2>7, PromisedKept DEF LaunchOK, NetKept, DiskKept
  <2>14. Quiet(l)'  BY <1>1, <2>2, <2>3, <2>5, <2>7 DEF LaunchOK, Quiet, StopKept, Aborts
  <2>15. LaunchOK(l)'  BY <2>6, <2>8, <2>9, <2>10, <2>11, <2>12, <2>13, <2>14 DEF LaunchOK
  <2> QED BY <2>2, <2>3, <2>4, <2>15, OneMoves DEF Kept
<1> QED BY <1>4, <1>5

\* Raising the fence aborts whatever could still execute.
LEMMA RestartFacts ==
    ASSUME IInv, RequireRestart
    PROVE  FenceTyped' /\ fence' /\ \A j \in Launches : Aborts(j)
<1>1. FenceTyped'  BY Typed DEF FenceTyped, RequireRestart
<1>2. ASSUME NEW j \in Launches PROVE Aborts(j)
  <2>1. exec[j] \in {"starting", "running"} => j \in runs  BY DEF IInv, LaunchOK, Decided
  <2>2. runAborted[j] \in BOOLEAN /\ runAborted'[j] = (runAborted[j] \/ Fenced(j))
    BY Typed DEF RequireRestart, FenceTyped, Fenced
  <2> QED BY <2>1, <2>2 DEF Aborts, RequireRestart, Fenced
<1> QED BY <1>1, <1>2 DEF RequireRestart

LEMMA CommitPublishKeeps == ASSUME IInv, NEW l \in Launches, CommitPublish(l) PROVE IInv'
<1>1. NetTyped /\ CallTyped /\ RunTyped /\ CleanTyped /\ DiskTyped /\ LaunchOK(l)  BY Typed DEF IInv
<1>2. /\ commit[l] = "writing"
      /\ UNCHANGED <<clientVars, netVars, callVars, runs, exec, ran, cleanVars, fenceVars, hostVars, dir, idx,
                     lease, rstep, counts>>
  BY DEF CommitPublish
<1>3. acc[l] \in {"committing", "commit-cancelled"} /\ pc[l] = "commit"
  BY <1>1, <1>2 DEF LaunchOK, Decided, RunTyped, AccOf
<1>4. /\ commit'[l] = "published" /\ mark'[l] = "visible"
      /\ acc'[l] = IF acc[l] = "committing" THEN "published" ELSE acc[l]
      /\ \A j \in Launches \ {l} : RunKept(j) /\ DiskKept(j)
  BY <1>1, <1>2 DEF CommitPublish, RunTyped, DiskTyped, RunKept, DiskKept
<1>5. \A j \in Launches : NetKept(j) /\ PcKept(j) /\ CleanKept(j) /\ StepKept(j) /\ HistKept(j) /\ StopKept /\ Aborts(j)
  BY <1>2, GroupsKept DEF callVars, hostVars, fenceVars, StopKept
<1>6. TypeOK'
  <2>1. RunTyped' /\ DiskTyped'  BY <1>1, <1>2 DEF CommitPublish, RunTyped, DiskTyped
  <2> QED BY <1>2, <2>1, Typed, TypeSame, TypePartsNext
<1>7. l \in runs /\ l \notin cleanups /\ idx[l] = "live" /\ dir[l] = "full" /\ lease[l] = "live" /\ exec[l] = "none"
  BY <1>1, <1>3 DEF LaunchOK, Registered, Decided
<1>8. \A w \in Cleaners : clean[l][w] = "no"  BY <1>1, <1>3 DEF LaunchOK, Cleaned
<1>9. Wire(l)'  BY <1>1, <1>5, WireKept DEF LaunchOK
<1>10. Decided(l)'  BY <1>1, <1>2, <1>3, <1>4, <1>5, <1>7 DEF LaunchOK, Decided, PcKept, CleanKept, AccOf
<1>11. Owned(l)'  BY <1>2, <1>7 DEF Owned
<1>12. Registered(l)'  BY <1>2, <1>3, <1>4, <1>5, <1>7 DEF Registered, PcKept, CleanKept
<1>13. Cleaned(l)'  BY <1>5, <1>7, <1>8 DEF Cleaned, CleanKept
<1>14. Recovered(l)'  BY <1>1, <1>2, <1>7 DEF LaunchOK, Recovered
<1>15. Promised(l)'
  <2>1. l \in Agents => client[l] \in Late  BY <1>1, <1>3 DEF LaunchOK, Promised
  <2>2. l \in Human => client[l] = "requested" /\ toClient[l] = <<>>  BY <1>1, <1>3 DEF LaunchOK, Wire
  <2>3. toClient[l] # <<"committed">>
    <3>1. <<>> # <<"committed">>  OBVIOUS
    <3> QED BY <1>1, <1>3, <3>1 DEF LaunchOK, Wire, FramesTo
  <2>4. l \notin hist'  BY <1>1, <1>2, <1>5 DEF LaunchOK, Decided, Promised, HistKept
  <2> QED BY <1>4, <1>5, <2>1, <2>2, <2>3, <2>4 DEF Promised, NetKept
<1>16. Quiet(l)'  BY <1>1, <1>2, <1>3, <1>4, <1>5 DEF LaunchOK, Quiet, PcKept, CleanKept, StopKept, Aborts
<1>17. LaunchOK(l)'
  BY <1>9, <1>10, <1>11, <1>12, <1>13, <1>14, <1>15, <1>16 DEF LaunchOK
<1> QED BY <1>4, <1>5, <1>6, <1>17, OneMoves DEF Kept

LEMMA CommitDoneKeeps == ASSUME IInv, NEW l \in Launches, CommitDone(l) PROVE IInv'
<1>1. NetTyped /\ CallTyped /\ RunTyped /\ CleanTyped /\ FenceTyped /\ DiskTyped /\ LaunchOK(l)  BY Typed DEF IInv
<1>2. /\ commit[l] = "published"
      /\ UNCHANGED <<clientVars, netVars, callVars, runs, ran, clean, cleanups, fence, appr, hostVars, dir, idx,
                     lease, rstep, counts>>
  BY DEF CommitDone
<1>3. acc[l] \in {"published", "commit-cancelled"} /\ pc[l] = "commit" /\ mark[l] = "visible"
  BY <1>1, <1>2 DEF LaunchOK, Decided, RunTyped, AccOf
<1>4. /\ commit'[l] = "idle" /\ mark'[l] = "durable" /\ acc'[l] = "committed" /\ roll'[l] = "idle"
      /\ runAborted'[l] = (runAborted[l] \/ fence)
      /\ exec'[l] = IF runAborted'[l] THEN "over" ELSE "starting"
      /\ \A j \in Launches \ {l} : RunKept(j) /\ DiskKept(j) /\ CleanKept(j) /\ runAborted'[j] = runAborted[j]
  BY <1>1, <1>2 DEF CommitDone, RunTyped, DiskTyped, CleanTyped, FenceTyped, RunKept, DiskKept, CleanKept
<1>5. \A j \in Launches : NetKept(j) /\ PcKept(j) /\ StepKept(j) /\ HistKept(j) /\ StopKept
  BY <1>2, GroupsKept DEF callVars, hostVars, StopKept
<1>6. \A j \in Launches \ {l} : Aborts(j)  BY <1>2, <1>4 DEF Aborts
<1>7. TypeOK'
  <2>1. exec' \in [Launches -> {"none", "starting", "running", "over"}]  BY <1>1 DEF CommitDone, RunTyped
  <2>2. RunTyped' /\ DiskTyped' /\ CleanTyped' /\ FenceTyped'
    BY <1>1, <1>2, <2>1 DEF CommitDone, RunTyped, DiskTyped, CleanTyped, FenceTyped
  <2> QED BY <1>2, <2>2, Typed, TypeSame, TypePartsNext
<1>8. /\ l \in runs /\ l \notin cleanups /\ idx[l] = "live" /\ dir[l] = "full" /\ lease[l] = "live"
      /\ \A w \in Cleaners : clean[l][w] = "no"
  BY <1>1, <1>3 DEF LaunchOK, Registered, Cleaned
<1>9. Wire(l)'  BY <1>1, <1>5, WireKept DEF LaunchOK
<1>10. Decided(l)'  BY <1>2, <1>3, <1>4, <1>5, <1>8 DEF Decided, PcKept, AccOf
<1>11. Owned(l)'  BY <1>2, <1>8 DEF Owned
<1>12. Registered(l)'  BY <1>2, <1>3, <1>4, <1>5, <1>8 DEF Registered, PcKept
<1>13. Cleaned(l)'  BY <1>2, <1>8 DEF Cleaned
<1>14. Recovered(l)'  BY <1>1, <1>2, <1>8 DEF LaunchOK, Recovered
<1>15. Promised(l)'  BY <1>1, <1>3, <1>4, <1>5 DEF LaunchOK, Promised, NetKept
<1>16. Quiet(l)'
  <2>1. stopPc \in {"no", "rolling"}  BY <1>1, <1>3, <1>8 DEF LaunchOK, Quiet
  <2>2. fence' => exec'[l] = "over"  BY <1>2, <1>4
  <2> QED BY <1>1, <1>2, <1>4, <1>5, <2>1, <2>2 DEF Quiet, StopKept
<1>17. LaunchOK(l)'
  BY <1>9, <1>10, <1>11, <1>12, <1>13, <1>14, <1>15, <1>16 DEF LaunchOK
<1> QED BY <1>4, <1>5, <1>6, <1>7, <1>17, OneMoves DEF Kept

LEMMA CommitFailsKeeps == ASSUME IInv, NEW l \in Launches, CommitFails(l) PROVE IInv'
<1>1. NetTyped /\ CallTyped /\ RunTyped /\ CleanTyped /\ FenceTyped /\ LaunchOK(l)  BY Typed DEF IInv
<1>2. /\ commit[l] # "idle" /\ commit' = [commit EXCEPT ![l] = "idle"] /\ commit'[l] = "idle"
      /\ UNCHANGED <<clientVars, netVars, callVars, runs, exec, ran, hostVars, diskVars, rstep, crashes, recoveries>>
  BY <1>1 DEF CommitFails, RunTyped
<1>3. /\ acc[l] \in Committing /\ pc[l] = "commit" /\ roll[l] \in {"idle", "waiting"}
      /\ l \in runs /\ l \notin cleanups /\ idx[l] = "live" /\ dir[l] = "full" /\ lease[l] = "live"
      /\ exec[l] = "none" /\ \A w \in Cleaners : clean[l][w] = "no"
  BY <1>1, <1>2 DEF LaunchOK, Decided, Registered, Cleaned, RunTyped, CleanTyped, AccOf
<1>4. \A j \in Launches : NetKept(j) /\ PcKept(j) /\ DiskKept(j) /\ StepKept(j) /\ HistKept(j) /\ StopKept
  BY <1>2, GroupsKept DEF callVars, hostVars, StopKept
<1>5. CountTyped'  BY Typed DEF CountTyped, CommitFails
<1>6. Wire(l)' /\ Recovered(l)'  BY <1>1, <1>4, WireKept, RecoveredKept DEF LaunchOK
<1>7. Owned(l)'  BY <1>2, <1>3 DEF Owned
<1>8. CASE commit[l] = "published"
  <2>1. /\ acc' = [acc EXCEPT ![l] = "commit-ambiguous"] /\ roll' = [roll EXCEPT ![l] = "idle"]
        /\ RequireRestart /\ UNCHANGED <<clean, cleanups>>
    BY <1>8 DEF CommitFails
  <2>2. /\ acc'[l] = "commit-ambiguous" /\ roll'[l] = "idle" /\ fence' /\ FenceTyped' /\ RunTyped' /\ CleanTyped'
        /\ (\A j \in Launches : Aborts(j)) /\ \A j \in Launches \ {l} : RunKept(j) /\ CleanKept(j)
    BY <1>1, <1>2, <2>1, RestartFacts DEF RunTyped, CleanTyped, RunKept, CleanKept
  <2>3. TypeOK'  BY <1>2, <1>5, <2>2, Typed, TypeSame, TypePartsNext
  <2>4. mark[l] = "visible"  BY <1>1, <1>8 DEF LaunchOK, Decided
  <2>5. Decided(l)'  BY <1>2, <1>3, <1>4, <2>1, <2>2, <2>4 DEF Decided, PcKept, DiskKept, AccOf
  <2>6. Registered(l)'  BY <1>2, <1>3, <1>4, <2>1, <2>2 DEF Registered, PcKept, DiskKept
  <2>7. Cleaned(l)'  BY <1>3, <2>1 DEF Cleaned
  <2>8. Promised(l)'  BY <1>1, <1>3, <1>4, <2>2 DEF LaunchOK, Promised, NetKept, DiskKept, HistKept
  <2>9. Quiet(l)'  BY <1>1, <1>2, <1>3, <1>4, <2>1, <2>2 DEF LaunchOK, Quiet, PcKept, StopKept
  <2>10. LaunchOK(l)'  BY <1>6, <1>7, <2>5, <2>6, <2>7, <2>8, <2>9 DEF LaunchOK
  <2> QED BY <1>4, <2>2, <2>3, <2>10, OneMoves DEF Kept
<1>9. CASE commit[l] = "writing" /\ roll[l] = "idle"
  <2>1. acc' = [acc EXCEPT ![l] = "accepted"] /\ UNCHANGED <<cleanVars, fenceVars>>  BY <1>9 DEF CommitFails
  <2>2. /\ acc'[l] = "accepted" /\ RunTyped' /\ \A j \in Launches \ {l} : RunKept(j)
    BY <1>1, <1>2, <2>1 DEF RunTyped, RunKept
  <2>3. \A j \in Launches : CleanKept(j) /\ Aborts(j)  BY <2>1, GroupsKept DEF fenceVars
  <2>4. TypeOK'  BY <1>2, <1>5, <2>1, <2>2, Typed, TypeSame, TypePartsNext
  <2>5. mark[l] = "none" /\ stopPc = "no"  BY <1>1, <1>3, <1>9 DEF LaunchOK, Decided, Quiet
  <2>6. Decided(l)'  BY <1>1, <1>2, <1>3, <1>4, <1>9, <2>2, <2>3, <2>5 DEF LaunchOK, Decided, PcKept, CleanKept, DiskKept, AccOf
  <2>7. Registered(l)'  BY <1>2, <1>3, <1>4, <2>2, <2>3 DEF Registered, PcKept, CleanKept, DiskKept
  <2>8. Cleaned(l)'  BY <1>3, <2>3 DEF Cleaned, CleanKept
  <2>9. Promised(l)'  BY <1>1, <1>3, <1>4, <2>2 DEF LaunchOK, Promised, NetKept, DiskKept, HistKept
  <2>10. Quiet(l)'  BY <1>2, <1>3, <1>4, <2>1, <2>5 DEF Quiet, StopKept
  <2>11. LaunchOK(l)'  BY <1>6, <1>7, <2>6, <2>7, <2>8, <2>9, <2>10 DEF LaunchOK
  <2> QED BY <1>4, <2>2, <2>3, <2>4, <2>11, OneMoves DEF Kept
<1>10. CASE commit[l] = "writing" /\ roll[l] = "waiting"
  <2>1. /\ acc' = [acc EXCEPT ![l] = "rolled-back"] /\ roll' = [roll EXCEPT ![l] = "cleaning"]
        /\ clean' = [clean EXCEPT ![l]["roll"] = "index"] /\ cleanups' = cleanups \cup {l} /\ UNCHANGED fenceVars
    BY <1>10 DEF CommitFails
  <2>2. /\ acc'[l] = "rolled-back" /\ roll'[l] = "cleaning" /\ l \in cleanups'
        /\ clean'[l]["roll"] = "index" /\ \A w \in {"start", "stop"} : clean'[l][w] = "no"
        /\ RunTyped' /\ CleanTyped' /\ \A j \in Launches \ {l} : RunKept(j) /\ CleanKept(j)
    BY <1>1, <1>2, <1>3, <2>1 DEF RunTyped, CleanTyped, RunKept, CleanKept
  <2>3. \A j \in Launches : Aborts(j)  BY <2>1, GroupsKept DEF fenceVars
  <2>4. TypeOK'  BY <1>2, <1>5, <2>1, <2>2, Typed, TypeSame, TypePartsNext
  <2>5. mark[l] = "none" /\ stopPc \in {"no", "rolling"}  BY <1>1, <1>3, <1>10 DEF LaunchOK, Decided, Quiet
  <2>6. Decided(l)'  BY <1>2, <1>3, <1>4, <2>2, <2>5 DEF Decided, PcKept, DiskKept, AccOf
  <2>7. Registered(l)'  BY <1>2, <1>3, <1>4, <2>2 DEF Registered, PcKept, DiskKept
  <2>8. Cleaned(l)'  BY <1>3, <1>4, <2>2, <2>5 DEF Cleaned, PcKept, DiskKept
  <2>9. Promised(l)'  BY <1>1, <1>3, <1>4, <2>2 DEF LaunchOK, Promised, NetKept, DiskKept, HistKept
  <2>10. Quiet(l)'  BY <1>2, <1>3, <1>4, <2>2, <2>5 DEF Quiet, StopKept
  <2>11. LaunchOK(l)'  BY <1>6, <1>7, <2>6, <2>7, <2>8, <2>9, <2>10 DEF LaunchOK
  <2> QED BY <1>4, <2>2, <2>3, <2>4, <2>11, OneMoves DEF Kept
<1>11. commit[l] \in {"writing", "published"}  BY <1>1, <1>2 DEF RunTyped
<1> QED BY <1>3, <1>8, <1>9, <1>10, <1>11

-----------------------------------------------------------------------------
\* A cleanup, one call after the other.

\* What a call of the cleanup does to the files.
LEMMA CleanDiskFacts ==
    ASSUME DiskTyped, CleanTyped, NEW l \in Launches, NEW w \in Cleaners, clean[l][w] # "no", Cleaned(l), CleanDisk(l, w)
    PROVE  /\ DiskTyped' /\ mark'[l] = "none" /\ (\A j \in Launches \ {l} : DiskKept(j))
           /\ dir'[l] = "full" => dir[l] = "full" /\ clean[l][w] \in {"index"}
           /\ clean[l][w] # "lease" => lease'[l] = lease[l]
           /\ clean[l][w] = "lease" => lease'[l] # "live" /\ dir'[l] = dir[l] /\ idx'[l] = idx[l]
           /\ lease'[l] = lease[l] \/ (lease[l] = "live" /\ lease'[l] = "free")
           /\ idx'[l] = "archived" <=> idx[l] = "archived" /\ clean[l][w] # "index"
<1>1. DiskTyped'  BY DEF DiskTyped, CleanDisk
<1>2. \A j \in Launches \ {l} : DiskKept(j)  BY DEF DiskTyped, CleanDisk, DiskKept
<1>3. mark[l] = "none"  BY DEF Cleaned
<1>4. mark'[l] = "none"  BY <1>3 DEF DiskTyped, CleanDisk
<1>5. clean[l][w] \in {"index", "dir", "sync", "lease"}  BY DEF CleanTyped
<1>6. clean[l][w] \in {"sync", "lease"} => dir[l] # "full"  BY DEF Cleaned
<1>7. dir'[l] = CASE clean[l][w] = "dir" /\ dir[l] = "full" -> "unlinked"
                  [] clean[l][w] = "dir" /\ dir[l] = "bare" -> "none"
                  [] clean[l][w] = "sync" /\ dir[l] = "unlinked" -> "none"
                  [] OTHER -> dir[l]
  BY DEF CleanDisk, DiskTyped
<1>8. dir'[l] = "full" => dir[l] = "full" /\ clean[l][w] \in {"index"}  BY <1>5, <1>6, <1>7
<1>9. clean[l][w] = "lease" => dir'[l] = dir[l]  BY <1>7
<1>10. /\ idx'[l] = IF clean[l][w] = "index" THEN "no" ELSE idx[l]
       /\ lease'[l] = IF clean[l][w] = "lease" /\ lease[l] = "live" THEN "free" ELSE lease[l]
  BY DEF CleanDisk, DiskTyped
<1> QED BY <1>1, <1>2, <1>4, <1>8, <1>9, <1>10

LEMMA CleanStepKeeps == ASSUME IInv, NEW l \in Launches, NEW w \in Cleaners, CleanStep(l, w) PROVE IInv'
<1>1. NetTyped /\ CallTyped /\ RunTyped /\ CleanTyped /\ DiskTyped /\ LaunchOK(l)  BY Typed DEF IInv
<1>2. /\ clean[l][w] # "no" /\ clean[l][w] \in {"index", "dir", "sync", "lease"}
      /\ UNCHANGED <<clientVars, netVars, callVars, acc, commit, exec, ran, fenceVars, hostVars, rstep, counts>>
  BY <1>1 DEF CleanStep, CleanTyped
<1>3. /\ acc[l] \in {"none", "accepted", "rolled-back"} /\ mark[l] = "none" /\ exec[l] = "none"
      /\ acc[l] = "accepted" => l \notin runs
      /\ pc[l] \notin Starting \cup {"idle"}
      /\ lease[l] = "live" \/ dir[l] # "full"
      /\ clean[l][w] \in {"sync", "lease"} => dir[l] # "full"
      /\ w = "start" => pc[l] = "clean" /\ l \notin runs
  BY <1>1, <1>2 DEF LaunchOK, Cleaned, Decided, Registered
<1>4. /\ DiskTyped' /\ mark'[l] = "none" /\ (\A j \in Launches \ {l} : DiskKept(j))
      /\ dir'[l] = "full" => dir[l] = "full" /\ clean[l][w] \in {"index"}
      /\ clean[l][w] # "lease" => lease'[l] = lease[l]
      /\ clean[l][w] = "lease" => lease'[l] # "live" /\ dir'[l] = dir[l] /\ idx'[l] = idx[l]
      /\ lease'[l] = lease[l] \/ (lease[l] = "live" /\ lease'[l] = "free")
  <2>1. Cleaned(l) /\ CleanDisk(l, w)  BY <1>1 DEF LaunchOK, CleanStep
  <2> QED BY <1>1, <1>2, <2>1, CleanDiskFacts
<1>5. /\ CleanTyped' /\ RunTyped'
      /\ clean'[l][w] = AfterClean(clean[l][w]) /\ (\A v \in Cleaners \ {w} : clean'[l][v] = clean[l][v])
      /\ \A j \in Launches \ {l} : CleanKept(j) /\ RunKept(j)
  <2>1. clean' = [clean EXCEPT ![l][w] = AfterClean(@)]  BY DEF CleanStep
  <2>2. AfterClean(clean[l][w]) \in {"no", "index", "dir", "sync", "lease"}  BY <1>2 DEF AfterClean
  <2>3. clean' \in [Launches -> [Cleaners -> {"no", "index", "dir", "sync", "lease"}]]
        /\ \A j \in Launches \ {l} : clean'[j] = clean[j]
    BY <1>1, <2>1, <2>2 DEF CleanTyped
  <2>4. /\ clean'[l] = [clean[l] EXCEPT ![w] = AfterClean(@)]  BY <1>1, <2>1 DEF CleanTyped
  <2>5. clean'[l][w] = AfterClean(clean[l][w]) /\ \A v \in Cleaners \ {w} : clean'[l][v] = clean[l][v]
    BY <1>1, <2>4 DEF CleanTyped
  <2>6. /\ cleanups' \subseteq Launches /\ runs' \subseteq Launches
        /\ roll' \in [Launches -> {"idle", "waiting", "cleaning"}]
        /\ \A j \in Launches \ {l} : (j \in runs' <=> j \in runs) /\ (j \in cleanups' <=> j \in cleanups) /\ roll'[j] = roll[j]
    BY <1>1 DEF CleanStep, CleanTyped, RunTyped
  <2> QED BY <1>1, <1>2, <2>3, <2>5, <2>6 DEF CleanTyped, RunTyped, CleanKept, RunKept
<1>6. \A j \in Launches : NetKept(j) /\ PcKept(j) /\ StepKept(j) /\ HistKept(j) /\ StopKept /\ Aborts(j)
  BY <1>2, GroupsKept DEF callVars, hostVars, fenceVars, StopKept
<1>7. TypeOK'  BY <1>2, <1>4, <1>5, Typed, TypeSame, TypePartsNext
<1>8. CASE clean[l][w] # "lease"
  <2>1. UNCHANGED <<cleanups, roll, runs>>  BY <1>8 DEF CleanStep
  <2>2. clean'[l][w] # "no" /\ clean'[l][w] # "index" /\ (clean'[l][w] \in {"sync", "lease"} => clean[l][w] \in {"dir", "sync"})
    BY <1>2, <1>5, <1>8 DEF AfterClean
  <2>3. Wire(l)'  BY <1>1, <1>6, WireKept DEF LaunchOK
  <2>4. Decided(l)'  BY <1>1, <1>2, <1>3, <1>4, <1>5, <1>6, <2>1, <2>2 DEF LaunchOK, Decided, PcKept, Aborts
  <2>5. lease'[l] = lease[l] /\ (lease[l] = "live" => l \in cleanups)
    BY <1>1, <1>2, <1>4, <1>8 DEF LaunchOK, Cleaned
  <2>6. Owned(l)'  BY <2>1, <2>2, <2>5 DEF Owned
  <2>7. Registered(l)'
    BY <1>1, <1>2, <1>3, <1>4, <1>6, <2>1, <2>5 DEF LaunchOK, Registered, PcKept, StepKept
  <2>8. Cleaned(l)'
    <3>1. dir'[l] = "full" => dir[l] = "full" /\ clean[l][w] = "index"  BY <1>4
    <3>2. \A v \in Cleaners : clean'[l][v] # "no" => clean[l][v] # "no"  BY <1>2, <1>5
    <3>3. \A v \in Cleaners : clean'[l][v] \in {"sync", "lease"} => dir'[l] # "full"
      <4>1. ASSUME NEW v \in Cleaners, v # w, clean'[l][v] \in {"sync", "lease"} PROVE dir'[l] # "full"
        BY <1>1, <1>5, <3>1, <4>1 DEF LaunchOK, Cleaned
      <4>2. clean'[l][w] \in {"sync", "lease"} => dir'[l] # "full"  BY <2>2, <3>1
      <4> QED BY <4>1, <4>2
    <3> QED BY <1>1, <1>2, <1>3, <1>4, <1>5, <1>6, <2>1, <2>5, <3>1, <3>2, <3>3 DEF LaunchOK, Cleaned, PcKept
  <2>9. Recovered(l)'  BY <1>1, <1>3, <1>4, <1>6, <2>5 DEF LaunchOK, Recovered, StepKept
  <2>10. Promised(l)'  BY <1>1, <1>2, <1>3, <1>4, <1>6 DEF LaunchOK, Promised, NetKept, HistKept
  <2>11. Quiet(l)'
    BY <1>1, <1>2, <1>5, <1>6, <2>1, <2>2 DEF LaunchOK, Quiet, PcKept, StopKept, Aborts
  <2>12. LaunchOK(l)'
    BY <2>3, <2>4, <2>6, <2>7, <2>8, <2>9, <2>10, <2>11 DEF LaunchOK
  <2> QED BY <1>4, <1>5, <1>6, <1>7, <2>12, OneMoves DEF Kept
<1>9. CASE clean[l][w] = "lease"
  <2>1. /\ cleanups' = cleanups \ {l} /\ roll' = [roll EXCEPT ![l] = IF w = "roll" THEN "idle" ELSE @]
        /\ runs' = IF Removed(l, w) THEN runs \ {l} ELSE runs
    BY <1>9 DEF CleanStep
  <2>2. /\ l \notin cleanups' /\ roll'[l] = (IF w = "roll" THEN "idle" ELSE roll[l])
        /\ clean'[l][w] = "no" /\ lease'[l] # "live" /\ dir'[l] = dir[l] /\ idx'[l] = idx[l] /\ dir[l] # "full"
    BY <1>1, <1>3, <1>4, <1>5, <1>9, <2>1 DEF CleanTyped, AfterClean
  <2>3. l \notin runs'
    <3>1. CASE w = "start"  BY <1>3, <2>1, <3>1
    <3>2. CASE w = "roll"  BY <2>1, <3>2 DEF Removed
    <3>3. CASE w = "stop"
      <4>1. acc[l] = "rolled-back" \/ l \notin runs  BY <1>1, <1>3 DEF LaunchOK, Registered
      <4> QED BY <1>3, <2>1, <3>3, <4>1 DEF Removed
    <3> QED BY <3>1, <3>2, <3>3
  <2>4. Wire(l)'  BY <1>1, <1>6, WireKept DEF LaunchOK
  <2>5. Decided(l)'  BY <1>1, <1>2, <1>3, <1>4, <1>5, <1>6, <2>2 DEF LaunchOK, Decided, PcKept, Aborts
  <2>6. Owned(l)'  BY <2>2 DEF Owned
  <2>7. Registered(l)'
    <3>1. ~(acc[l] = "accepted" /\ l \in Agents)  BY <1>1, <1>3 DEF LaunchOK, Registered
    <3> QED BY <1>2, <1>3, <1>4, <1>6, <2>2, <2>3, <3>1 DEF Registered, PcKept
  <2>8. Cleaned(l)'
    <3>1. \A v \in Cleaners : clean'[l][v] # "no" => clean[l][v] # "no"  BY <1>2, <1>5, <2>2
    <3> QED BY <1>1, <1>2, <1>3, <1>4, <1>6, <2>2, <2>3, <3>1 DEF LaunchOK, Cleaned, PcKept
  <2>9. Recovered(l)'  BY <1>1, <1>3, <1>4, <1>6, <2>2 DEF LaunchOK, Recovered, StepKept
  <2>10. Promised(l)'  BY <1>1, <1>2, <1>3, <1>4, <1>6 DEF LaunchOK, Promised, NetKept, HistKept
  <2>11. Quiet(l)'
    BY <1>1, <1>2, <1>3, <1>5, <1>6, <2>2, <2>3 DEF LaunchOK, Quiet, PcKept, StopKept, Aborts
  <2>12. LaunchOK(l)'
    BY <2>4, <2>5, <2>6, <2>7, <2>8, <2>9, <2>10, <2>11 DEF LaunchOK
  <2> QED BY <1>4, <1>5, <1>6, <1>7, <2>12, OneMoves DEF Kept
<1> QED BY <1>8, <1>9

LEMMA CleanFailsKeeps == ASSUME IInv, NEW l \in Launches, NEW w \in Cleaners, CleanFails(l, w) PROVE IInv'
<1>1. NetTyped /\ CallTyped /\ RunTyped /\ CleanTyped /\ DiskTyped /\ LaunchOK(l)  BY Typed DEF IInv
<1>2. /\ clean[l][w] # "no" /\ RequireRestart
      /\ clean' = [clean EXCEPT ![l][w] = "no"] /\ roll' = [roll EXCEPT ![l] = IF w = "roll" THEN "idle" ELSE @]
      /\ UNCHANGED <<clientVars, netVars, callVars, runVars, cleanups, hostVars, rstep, crashes, recoveries>>
  BY DEF CleanFails
<1>3. /\ acc[l] \in {"none", "accepted", "rolled-back"} /\ mark[l] = "none" /\ exec[l] = "none"
      /\ acc[l] = "accepted" => l \notin runs
      /\ pc[l] \notin Starting \cup {"idle"}
      /\ lease[l] = "live" \/ dir[l] # "full"
  BY <1>1, <1>2 DEF LaunchOK, Cleaned, Decided
<1>4. /\ DiskTyped' /\ mark'[l] = "none" /\ (\A j \in Launches \ {l} : DiskKept(j))
      /\ dir'[l] = "full" => dir[l] = "full"
      /\ lease'[l] = lease[l]
  <2>1. CASE UNCHANGED diskVars  BY <1>1, <1>3, <2>1, TypeSame, GroupsKept DEF diskVars
  <2>2. CASE clean[l][w] # "lease" /\ CleanDisk(l, w)
    <3>1. Cleaned(l)  BY <1>1 DEF LaunchOK
    <3> QED BY <1>1, <1>2, <2>2, <3>1, CleanDiskFacts
  <2> QED BY <2>1, <2>2 DEF CleanFails
<1>5. /\ CleanTyped'
      /\ clean'[l][w] = "no" /\ (\A v \in Cleaners \ {w} : clean'[l][v] = clean[l][v])
      /\ roll'[l] = (IF w = "roll" THEN "idle" ELSE roll[l])
      /\ \A j \in Launches \ {l} : CleanKept(j)
  BY <1>1, <1>2 DEF CleanTyped, CleanKept
<1>6. \A j \in Launches : NetKept(j) /\ PcKept(j) /\ RunKept(j) /\ StepKept(j) /\ HistKept(j) /\ StopKept /\ Aborts(j)
  BY <1>2, GroupsKept, RestartFacts DEF callVars, hostVars, StopKept
<1>7. TypeOK'
  <2>1. CountTyped'  BY Typed DEF CountTyped, CleanFails
  <2> QED BY <1>2, <1>4, <1>5, <2>1, RestartFacts, Typed, TypeSame, TypePartsNext
<1>8. fence'  BY <1>2 DEF RequireRestart
<1>9. Wire(l)'  BY <1>1, <1>6, WireKept DEF LaunchOK
<1>10. Decided(l)'  BY <1>1, <1>3, <1>4, <1>5, <1>6 DEF LaunchOK, Decided, PcKept, RunKept, Aborts
<1>11. Owned(l)'  BY <1>1, <1>2, <1>3, <1>4, <1>6, <1>8 DEF LaunchOK, Owned, Cleaned, RunKept
<1>12. Registered(l)'  BY <1>1, <1>2, <1>3, <1>4, <1>6 DEF LaunchOK, Registered, PcKept, RunKept, StepKept
<1>13. Cleaned(l)'
  <2>1. \A v \in Cleaners : clean'[l][v] # "no" => clean[l][v] # "no" /\ clean'[l][v] = clean[l][v]  BY <1>5
  <2> QED BY <1>1, <1>2, <1>3, <1>4, <1>6, <2>1 DEF LaunchOK, Cleaned, PcKept, RunKept
<1>14. Recovered(l)'  BY <1>1, <1>3, <1>4, <1>6 DEF LaunchOK, Recovered, StepKept
<1>15. Promised(l)'  BY <1>1, <1>3, <1>4, <1>6 DEF LaunchOK, Promised, NetKept, RunKept, HistKept
<1>16. Quiet(l)'  BY <1>1, <1>2, <1>3, <1>5, <1>6, <1>8 DEF LaunchOK, Quiet, PcKept, RunKept, StopKept, Aborts
<1>17. LaunchOK(l)'
  BY <1>9, <1>10, <1>11, <1>12, <1>13, <1>14, <1>15, <1>16 DEF LaunchOK
<1> QED BY <1>4, <1>5, <1>6, <1>7, <1>17, OneMoves DEF Kept

-----------------------------------------------------------------------------
\* The run, and what stops it.

\* The execution of one run moves; it is committed.
LEMMA ExecMoves ==
    ASSUME IInv, NEW l \in Launches, exec[l] \in {"starting", "running"}, exec' = [exec EXCEPT ![l] = exec'[l]],
           exec'[l] = "over" \/ (exec'[l] = "running" /\ ~runAborted[l]), ran' \subseteq Launches,
           UNCHANGED <<clientVars, netVars, callVars, runs, acc, commit, cleanVars, fenceVars, hostVars, diskVars,
                       rstep, counts>>
    PROVE  IInv'
<1>1. RunTyped /\ LaunchOK(l)  BY Typed DEF IInv
<1>2. \A j \in Launches : /\ NetKept(j) /\ PcKept(j) /\ CleanKept(j) /\ DiskKept(j) /\ StepKept(j) /\ HistKept(j)
                          /\ StopKept
  BY GroupsKept DEF callVars, hostVars, StopKept
<1>3. \A j \in Launches \ {l} : RunKept(j) /\ Aborts(j)  BY <1>1, GroupsKept DEF RunTyped, RunKept, fenceVars
<1>4. TypeOK'
  <2>1. RunTyped'  BY <1>1 DEF RunTyped
  <2> QED BY <2>1, Typed, TypeSame, TypePartsNext
<1>5. UNCHANGED <<fence, runAborted>>  BY DEF fenceVars
<1>6. Wire(l)' /\ Recovered(l)'  BY <1>1, <1>2, WireKept, RecoveredKept DEF LaunchOK
<1>7. Decided(l)'  BY <1>1, <1>2, <1>5 DEF LaunchOK, Decided, PcKept, CleanKept, DiskKept
<1>8. Owned(l)'  BY <1>1, <1>2, <1>5 DEF LaunchOK, Owned, PcKept, CleanKept, DiskKept
<1>9. Registered(l)'  BY <1>1, <1>2 DEF LaunchOK, Registered, PcKept, CleanKept, DiskKept, StepKept
<1>10. Cleaned(l)'  BY <1>1, <1>2 DEF LaunchOK, Cleaned, PcKept, CleanKept, DiskKept
<1>11. Promised(l)'  BY <1>1, <1>2, PromisedKept DEF LaunchOK, NetKept, DiskKept
<1>12. Quiet(l)'  BY <1>1, <1>2, <1>5 DEF LaunchOK, Quiet, PcKept, CleanKept, StopKept
<1>13. LaunchOK(l)'  BY <1>6, <1>7, <1>8, <1>9, <1>10, <1>11, <1>12 DEF LaunchOK
<1> QED BY <1>2, <1>3, <1>4, <1>13, OneMoves DEF Kept

LEMMA RunKeeps == ASSUME IInv, NEW l \in Launches, RunSource(l) \/ EndRun(l) PROVE IInv'
<1>1. RunTyped  BY Typed
<1>2. exec[l] \in {"starting", "running"}  BY DEF RunSource, EndRun
<1>3. exec' = [exec EXCEPT ![l] = exec'[l]] /\ (exec'[l] = "over" \/ (exec'[l] = "running" /\ ~runAborted[l]))
  BY <1>1 DEF RunSource, EndRun, RunTyped
<1>4. ran' \subseteq Launches  BY <1>1 DEF RunSource, EndRun, RunTyped
<1>5. UNCHANGED <<clientVars, netVars, callVars, runs, acc, commit, cleanVars, fenceVars, hostVars, diskVars,
                  rstep, counts>>
  BY DEF RunSource, EndRun
<1> QED BY <1>2, <1>3, <1>4, <1>5, ExecMoves

LEMMA ArchiveKeeps == ASSUME IInv, NEW l \in Launches, Archive(l) PROVE IInv'
<1>1. NetTyped /\ RunTyped /\ DiskTyped /\ HostTyped /\ LaunchOK(l)  BY Typed DEF IInv
<1>2. /\ l \in runs /\ exec[l] = "over" /\ lease[l] = "live"
      /\ runs' = runs \ {l} /\ hist' = hist \cup {l}
      /\ UNCHANGED <<clientVars, netVars, callVars, acc, commit, exec, ran, cleanVars,
                     fenceVars, stopPc, awaited, dir, mark, rstep, counts>>
  BY DEF Archive
<1>3. /\ idx'[l] = "archived" /\ lease'[l] = "free" /\ DiskTyped'
      /\ \A j \in Launches \ {l} : RunKept(j) /\ DiskKept(j) /\ HistKept(j)
  BY <1>1, <1>2 DEF Archive, DiskTyped, DiskKept, RunKept, HistKept
<1>4. \A j \in Launches : NetKept(j) /\ PcKept(j) /\ CleanKept(j) /\ StepKept(j) /\ StopKept /\ Aborts(j)
  BY <1>2, GroupsKept DEF callVars, fenceVars, StopKept
<1>5. TypeOK'
  <2>1. RunTyped' /\ HostTyped'  BY <1>1, <1>2 DEF RunTyped, HostTyped
  <2> QED BY <1>2, <1>3, <2>1, Typed, TypeSame, TypePartsNext
<1>6. /\ acc[l] = "committed" /\ mark[l] = "durable" /\ pc[l] \in {"commit", "done"}
      /\ l \notin cleanups /\ \A w \in Cleaners : clean[l][w] = "no"
  BY <1>1, <1>2 DEF LaunchOK, Decided, Registered, Cleaned, CallTyped, AccOf
<1>7. Wire(l)'  BY <1>1, <1>4, WireKept DEF LaunchOK
<1>8. Decided(l)'  BY <1>1, <1>2, <1>4 DEF LaunchOK, Decided, PcKept, CleanKept, Aborts
<1>9. Owned(l)'  BY <1>3 DEF Owned
<1>10. Registered(l)'  BY <1>2, <1>4, <1>6 DEF Registered, PcKept, CleanKept
<1>11. Cleaned(l)'  BY <1>4, <1>6 DEF Cleaned, PcKept, CleanKept
<1>12. Recovered(l)'  BY <1>1, <1>2, <1>3, <1>4 DEF LaunchOK, Recovered, StepKept
<1>13. Promised(l)'  BY <1>1, <1>2, <1>4, <1>6 DEF LaunchOK, Promised, NetKept
<1>14. Quiet(l)'  BY <1>1, <1>2, <1>4, <1>6 DEF LaunchOK, Quiet, PcKept, CleanKept, Aborts
<1>15. LaunchOK(l)'
  BY <1>7, <1>8, <1>9, <1>10, <1>11, <1>12, <1>13, <1>14 DEF LaunchOK
<1> QED BY <1>3, <1>4, <1>5, <1>15, OneMoves DEF Kept

\* A step that only raises the fence or aborts runs.
LEMMA FenceMoves ==
    ASSUME IInv, UNCHANGED <<clientVars, netVars, callVars, runVars, cleanVars, hostVars, diskVars, rstep>>,
           FenceTyped', CountTyped', \A j \in Launches : Aborts(j)
    PROVE  IInv'
<1>1. TypeOK'  BY Typed, TypeSame, TypePartsNext
<1>2. \A j \in Launches : Kept(j) /\ StopKept  BY GroupsKept DEF callVars, hostVars, Kept, StopKept
<1> QED BY <1>1, <1>2, AllKept DEF IInv

LEMMA FenceElsewhereKeeps == ASSUME IInv, FenceElsewhere PROVE IInv'
<1>1. FenceTyped' /\ \A j \in Launches : Aborts(j)  BY RestartFacts DEF FenceElsewhere
<1>2. CountTyped'  BY Typed DEF CountTyped, FenceElsewhere
<1>3. UNCHANGED <<clientVars, netVars, callVars, runVars, cleanVars, hostVars, diskVars, rstep>>
  BY DEF FenceElsewhere
<1> QED BY <1>1, <1>2, <1>3, FenceMoves

LEMMA StopKeeps == ASSUME IInv, NEW l \in Launches, Stop(l) PROVE IInv'
<1>1. NetTyped /\ CallTyped /\ RunTyped /\ CleanTyped /\ FenceTyped /\ LaunchOK(l)  BY Typed DEF IInv
<1>2. l \in runs /\ UNCHANGED <<clientVars, netVars, callVars, appr, hostVars, diskVars, rstep, counts>>  BY DEF Stop
<1>3. CASE exec[l] = "none"
  <2>1. acc[l] \in Unaccepted /\ Rollback({l}) /\ {l} \in SUBSET Launches  BY <1>3 DEF Stop
  <2>2. /\ RunTyped' /\ CleanTyped' /\ runAborted' \in [Launches -> BOOLEAN]
        /\ UNCHANGED <<runs, commit, exec, ran, fence>>
        /\ runAborted[l] => runAborted'[l]
        /\ RollsBack(l)
        /\ \A j \in Launches \ {l} : CleanKept(j) /\ RunKept(j) /\ runAborted'[j] = runAborted[j]
    BY <1>1, <2>1, RollbackFacts
  <2>3. \A j \in Launches : NetKept(j) /\ PcKept(j) /\ DiskKept(j) /\ StepKept(j) /\ HistKept(j) /\ StopKept
    BY <1>2, GroupsKept DEF callVars, hostVars, StopKept
  <2>4. TypeOK'
    <3>1. FenceTyped'  BY <1>1, <1>2, <2>2 DEF FenceTyped
    <3> QED BY <1>2, <2>2, <3>1, Typed, TypeSame, TypePartsNext
  <2>5. Wire(l)'  BY <1>1, <2>3, WireKept DEF LaunchOK
  <2>6. acc[l] # "committed" /\ UNCHANGED <<client, toClient>>  BY <1>2, <2>1 DEF clientVars, netVars
  <2>7. LaunchOK(l)'  BY <1>1, <2>2, <2>3, <2>5, <2>6, RollsBackKeeps
  <2>8. \A j \in Launches \ {l} : Aborts(j)  BY <2>2 DEF Aborts
  <2> QED BY <2>2, <2>3, <2>4, <2>7, <2>8, OneMoves DEF Kept
<1>4. CASE exec[l] # "none"
  <2>1. runAborted' = [runAborted EXCEPT ![l] = TRUE] /\ UNCHANGED <<runVars, cleanVars, fence>>  BY <1>4 DEF Stop
  <2>2. FenceTyped' /\ \A j \in Launches : Aborts(j)  BY <1>1, <1>2, <2>1 DEF FenceTyped, Aborts
  <2>3. CountTyped'  BY <1>2, Typed, TypeSame
  <2> QED BY <1>2, <2>1, <2>2, <2>3, FenceMoves
<1> QED BY <1>3, <1>4

-----------------------------------------------------------------------------
\* Shutdown, phase after phase.

LEMMA StopAllKeeps == ASSUME IInv, StopAll PROVE IInv'
<1>1. NetTyped /\ CallTyped /\ RunTyped /\ CleanTyped /\ FenceTyped /\ HostTyped /\ \A j \in Launches : LaunchOK(j)
  BY Typed DEF IInv
<1>2. /\ stopPc = "no" /\ stopPc' = "rolling" /\ awaited' = {l \in NotExecuting : acc[l] \in Unaccepted}
      /\ Rollback(awaited') /\ appr' = [l \in Launches |-> appr[l] \/ InStart(l)]
      /\ UNCHANGED <<clientVars, netVars, callVars, hist, diskVars, rstep, counts>>
  BY DEF StopAll
<1>3. awaited' \in SUBSET Launches  BY <1>1, <1>2 DEF NotExecuting, RunTyped
<1>4. /\ RunTyped' /\ CleanTyped' /\ runAborted' \in [Launches -> BOOLEAN]
      /\ UNCHANGED <<runs, commit, exec, ran, fence>>
      /\ \A j \in Launches : runAborted[j] => runAborted'[j]
      /\ \A j \in awaited' : RollsBack(j)
      /\ \A j \in Launches \ awaited' : CleanKept(j) /\ RunKept(j) /\ runAborted'[j] = runAborted[j]
  BY <1>1, <1>2, <1>3, RollbackFacts
<1>5. \A j \in Launches : NetKept(j) /\ PcKept(j) /\ DiskKept(j) /\ StepKept(j) /\ HistKept(j)
  BY <1>2, GroupsKept DEF callVars, hostVars
<1>6. TypeOK'
  <2>1. appr' \in [Launches -> BOOLEAN]  BY <1>1, <1>2 DEF FenceTyped
  <2>2. FenceTyped' /\ HostTyped'  BY <1>1, <1>2, <1>3, <1>4, <2>1 DEF FenceTyped, HostTyped
  <2> QED BY <1>2, <1>4, <2>2, Typed, TypeSame, TypePartsNext
<1>7. ASSUME NEW j \in awaited' PROVE LaunchOK(j)'
  <2>1. j \in Launches /\ acc[j] # "committed" /\ UNCHANGED <<client, toClient>>
    BY <1>2, <1>3 DEF clientVars, netVars
  <2>2. Wire(j)'  BY <1>1, <1>5, <2>1, WireKept DEF LaunchOK
  <2> QED BY <1>1, <1>2, <1>4, <1>5, <2>1, <2>2, RollsBackKeeps
<1>8. ASSUME NEW j \in Launches \ awaited' PROVE LaunchOK(j)'
  <2>1. CleanKept(j) /\ RunKept(j) /\ Aborts(j)  BY <1>4 DEF Aborts
  <2>2. ~(j \in runs /\ acc[j] \in Unaccepted)
    <3>1. acc[j] \in Unaccepted => exec[j] = "none"  BY <1>1 DEF LaunchOK, Decided
    <3> QED BY <1>2, <3>1 DEF NotExecuting
  <2>3. Quiet(j)'  BY <1>1, <1>2, <1>5, <2>1, <2>2 DEF LaunchOK, Quiet, PcKept, RunKept, CleanKept, Aborts
  <2> QED
    BY <1>1, <1>5, <2>1, <2>3, WireKept, DecidedKept, OwnedKept, RegisteredKept, CleanedKept, RecoveredKept, PromisedKept
    DEF LaunchOK, NetKept, RunKept, DiskKept, Aborts
<1> QED BY <1>6, <1>7, <1>8 DEF IInv

\* A phase of stopAll that leaves the launches alone.
LEMMA PhaseMoves ==
    ASSUME IInv, UNCHANGED <<clientVars, netVars, callVars, runVars, cleanVars, fence, hist, diskVars, rstep, counts>>,
           FenceTyped', HostTyped', \A j \in Launches : Aborts(j) /\ Quiet(j)'
    PROVE  IInv'
<1>1. TypeOK'  BY Typed, TypeSame, TypePartsNext
<1>2. ASSUME NEW j \in Launches PROVE LaunchOK(j)'
  <2>1. LaunchOK(j)  BY DEF IInv
  <2>2. NetKept(j) /\ PcKept(j) /\ RunKept(j) /\ CleanKept(j) /\ DiskKept(j) /\ StepKept(j) /\ HistKept(j)
    BY GroupsKept DEF callVars
  <2> QED
    BY <2>1, <2>2, WireKept, DecidedKept, OwnedKept, RegisteredKept, CleanedKept, RecoveredKept, PromisedKept
    DEF LaunchOK, NetKept, RunKept, DiskKept, Aborts
<1> QED BY <1>1, <1>2 DEF IInv

LEMMA StopRunsKeeps == ASSUME IInv, StopRuns PROVE IInv'
<1>1. /\ stopPc = "rolling" /\ stopPc' = "stopping" /\ \A l \in awaited : roll[l] = "idle"
      /\ UNCHANGED <<clientVars, netVars, callVars, runVars, cleanVars, fence, appr, awaited, hist, diskVars, rstep, counts>>
      /\ runAborted' = [l \in Launches |-> runAborted[l] \/ (l \in runs /\ exec[l] # "none")]
  BY DEF StopRuns
<1>2. FenceTyped' /\ HostTyped' /\ \A j \in Launches : Aborts(j)
  BY <1>1, Typed DEF FenceTyped, HostTyped, Aborts
<1>3. ASSUME NEW j \in Launches PROVE Quiet(j)'
  <2>1. LaunchOK(j)  BY DEF IInv
  <2>2. exec[j] \in {"starting", "running"} => runAborted'[j]
    BY <1>1, <2>1, Typed DEF LaunchOK, Decided, FenceTyped
  <2>3. ~(j \in runs /\ acc[j] \in Unaccepted)  BY <1>1, <2>1 DEF LaunchOK, Quiet
  <2>4. UNCHANGED <<runs, acc, exec>>  BY <1>1 DEF runVars
  <2> QED BY <1>1, <2>2, <2>3, <2>4 DEF Quiet
<1> QED BY <1>1, <1>2, <1>3, PhaseMoves

LEMMA StopDoneKeeps == ASSUME IInv, StopDone PROVE IInv'
<1>1. /\ stopPc = "cleaning" /\ stopPc' = "done" /\ (\A l \in Launches : clean[l]["stop"] = "no")
      /\ (\A l \in runs : exec[l] \in {"none", "over"})
      /\ UNCHANGED <<clientVars, netVars, callVars, runVars, cleanVars, fenceVars, awaited, hist, diskVars, rstep, counts>>
  BY DEF StopDone
<1>2. FenceTyped' /\ HostTyped' /\ (\A j \in Launches : Aborts(j)) /\ UNCHANGED fence
  BY <1>1, Typed, TypeSame, GroupsKept DEF HostTyped, fenceVars
<1>3. ASSUME NEW j \in Launches PROVE Quiet(j)'
  <2>1. Quiet(j)  BY DEF IInv, LaunchOK
  <2> QED BY <1>1, <2>1 DEF Quiet, runVars, cleanVars, callVars, fenceVars
<1> QED BY <1>1, <1>2, <1>3, PhaseMoves

LEMMA RetryCleanupsKeeps == ASSUME IInv, RetryCleanups PROVE IInv'
<1>1. /\ stopPc = "stopping" /\ PendingStarts = {} /\ stopPc' = "cleaning"
      /\ UNCHANGED <<clientVars, netVars, callVars, runVars, roll, cleanups, fenceVars, awaited, hist, diskVars, rstep, counts>>
      /\ clean' = [l \in Launches |-> IF l \in cleanups THEN [clean[l] EXCEPT !["stop"] = "index"] ELSE clean[l]]
  BY DEF RetryCleanups
<1>2. TypeOK'
  <2>1. CleanTyped'  BY <1>1, Typed DEF CleanTyped
  <2>2. HostTyped'  BY <1>1, Typed DEF HostTyped
  <2> QED BY <1>1, <2>1, <2>2, Typed, TypeSame, TypePartsNext
<1>3. ASSUME NEW j \in Launches PROVE LaunchOK(j)'
  <2>1. LaunchOK(j) /\ CleanTyped  BY Typed DEF IInv
  <2>2. NetKept(j) /\ PcKept(j) /\ RunKept(j) /\ DiskKept(j) /\ StepKept(j) /\ HistKept(j) /\ Aborts(j)
    BY <1>1, GroupsKept DEF callVars, fenceVars
  <2>3. /\ \A w \in {"start", "roll"} : clean'[j][w] = clean[j][w]
        /\ clean'[j]["stop"] = IF j \in cleanups THEN "index" ELSE clean[j]["stop"]
        /\ UNCHANGED <<roll, cleanups>>
    BY <1>1, <2>1 DEF CleanTyped
  <2>4. Decided(j)'  BY <2>1, <2>2, <2>3 DEF LaunchOK, Decided, PcKept, RunKept, DiskKept, Aborts
  <2>5. Owned(j)'  BY <2>1, <2>2, <2>3 DEF LaunchOK, Owned, PcKept, RunKept, DiskKept, Aborts
  <2>6. Registered(j)'  BY <2>1, <2>2, <2>3 DEF LaunchOK, Registered, PcKept, RunKept, DiskKept, StepKept
  <2>7. Cleaned(j)'  BY <2>1, <2>2, <2>3 DEF LaunchOK, Registered, Cleaned, PcKept, RunKept, DiskKept
  <2>8. Quiet(j)'
    <3>1. pc[j] \notin Starting \cup {"clean"} /\ ~(j \in Human /\ pc[j] = "commit")
      BY <1>1 DEF PendingStarts, InStart
    <3> QED BY <1>1, <2>1, <2>2, <2>3, <3>1 DEF LaunchOK, Quiet, PcKept, RunKept, Aborts
  <2> QED
    BY <2>1, <2>2, <2>4, <2>5, <2>6, <2>7, <2>8, WireKept, RecoveredKept, PromisedKept
    DEF LaunchOK, NetKept, RunKept, DiskKept
<1> QED BY <1>2, <1>3 DEF IInv

-----------------------------------------------------------------------------
\* Startup recovery in another process, which works on files alone.

\* What a step of the recovery may do to one launch.
RecoverKept(j) ==
    /\ mark'[j] = mark[j]
    /\ lease'[j] = "live" <=> lease[j] = "live"
    /\ dir'[j] = "full" => dir[j] = "full"
    /\ lease[j] = "live" => (dir[j] = "full" => dir'[j] = "full") /\ (idx[j] = "live" => idx'[j] = "live")
    /\ pc[j] \in Early => DiskKept(j) /\ rstep'[j] = "no"
    /\ Recovered(j)'

LEMMA RecoverMoves ==
    ASSUME IInv, UNCHANGED <<clientVars, netVars, callVars, runVars, cleanVars, fenceVars, hostVars>>,
           DiskTyped', StepTyped', CountTyped', \A j \in Launches : RecoverKept(j)
    PROVE  IInv'
<1>1. TypeOK'  BY Typed, TypeSame, TypePartsNext
<1>2. ASSUME NEW j \in Launches PROVE LaunchOK(j)'
  <2>1. LaunchOK(j) /\ RecoverKept(j)  BY DEF IInv
  <2>2. NetKept(j) /\ PcKept(j) /\ RunKept(j) /\ CleanKept(j) /\ HistKept(j) /\ StopKept /\ Aborts(j)
    BY GroupsKept DEF callVars, hostVars, fenceVars, StopKept
  <2>3. Wire(j)'  BY <2>1, <2>2, WireKept DEF LaunchOK
  <2>4. Decided(j)'  BY <2>1, <2>2, DecidedKept DEF LaunchOK, RecoverKept, Aborts
  <2>5. Owned(j)'  BY <2>1, <2>2 DEF LaunchOK, RecoverKept, Owned, PcKept, RunKept, CleanKept, Aborts
  <2>6. Registered(j)'
    BY <2>1, <2>2 DEF LaunchOK, RecoverKept, Registered, PcKept, RunKept, CleanKept, DiskKept
  <2>7. Cleaned(j)'  BY <2>1, <2>2 DEF LaunchOK, RecoverKept, Cleaned, PcKept, RunKept, CleanKept
  <2>8. Promised(j)'  BY <2>1, <2>2, PromisedKept DEF LaunchOK, RecoverKept, NetKept, RunKept
  <2>9. Quiet(j)'  BY <2>1, <2>2, QuietKept DEF LaunchOK
  <2> QED BY <2>1, <2>3, <2>4, <2>5, <2>6, <2>7, <2>8, <2>9 DEF LaunchOK, RecoverKept
<1> QED BY <1>1, <1>2 DEF IInv

\* A launch that the step does not touch.
LEMMA RecoverSame ==
    ASSUME IInv, NEW j \in Launches, DiskKept(j), StepKept(j)
    PROVE  RecoverKept(j)
<1>1. LaunchOK(j)  BY DEF IInv
<1>2. Recovered(j)'  BY <1>1, RecoveredKept DEF LaunchOK
<1>3. pc[j] \in Early => rstep'[j] = "no"  BY <1>1 DEF LaunchOK, Registered, StepKept
<1> QED BY <1>2, <1>3 DEF RecoverKept, DiskKept

LEMMA RecoverOneKeeps ==
    ASSUME IInv, NEW l \in Launches,
           RecoverMissing(l) \/ RecoverReindex(l) \/ RecoverVisit(l) \/ RecoverLease(l) \/ RecoverJudge(l) \/ RecoverDiscard(l)
    PROVE  IInv'
<1>1. DiskTyped /\ StepTyped /\ LaunchOK(l)  BY Typed DEF IInv
<1>2. UNCHANGED <<clientVars, netVars, callVars, runVars, cleanVars, fenceVars, hostVars, counts>>
  BY DEF RecoverMissing, RecoverReindex, RecoverVisit, RecoverLease, RecoverJudge, RecoverDiscard
<1>3. CountTyped'  BY <1>2, Typed, TypeSame
<1>4. /\ Recovered(l) /\ rstep[l] # "no" /\ pc[l] \notin Early
  <2>1. rstep[l] # "no"
    BY DEF RecoverMissing, RecoverReindex, RecoverVisit, RecoverLease, RecoverJudge, RecoverDiscard
  <2> QED BY <1>1, <2>1 DEF LaunchOK, Registered
<1>5. ASSUME DiskTyped', StepTyped', RecoverKept(l), \A j \in Launches \ {l} : DiskKept(j) /\ StepKept(j)
      PROVE  IInv'
  BY <1>2, <1>3, <1>5, RecoverMoves, RecoverSame
<1>6. CASE RecoverMissing(l)
  <2>1. DiskTyped' /\ StepTyped' /\ \A j \in Launches \ {l} : DiskKept(j) /\ StepKept(j)
    BY <1>1, <1>6 DEF RecoverMissing, DiskTyped, StepTyped, DiskKept, StepKept
  <2>2. RecoverKept(l)
    BY <1>1, <1>4, <1>6 DEF RecoverMissing, RecoverKept, Recovered, DiskTyped, StepTyped, Gone, Protected
  <2> QED BY <1>5, <2>1, <2>2
<1>7. CASE RecoverReindex(l)
  <2>1. DiskTyped' /\ StepTyped' /\ \A j \in Launches \ {l} : DiskKept(j) /\ StepKept(j)
    BY <1>1, <1>7 DEF RecoverReindex, DiskTyped, StepTyped, DiskKept, StepKept
  <2>2. RecoverKept(l)  BY <1>1, <1>4, <1>7 DEF RecoverReindex, RecoverKept, Recovered, DiskTyped, StepTyped
  <2> QED BY <1>5, <2>1, <2>2
<1>8. CASE RecoverVisit(l)
  <2>1. DiskTyped' /\ StepTyped' /\ \A j \in Launches \ {l} : DiskKept(j) /\ StepKept(j)
    BY <1>1, <1>8 DEF RecoverVisit, DiskTyped, StepTyped, DiskKept, StepKept
  <2>2. RecoverKept(l)  BY <1>1, <1>4, <1>8 DEF RecoverVisit, RecoverKept, Recovered, DiskTyped, StepTyped, Gone
  <2> QED BY <1>5, <2>1, <2>2
<1>9. CASE RecoverLease(l)
  <2>1. DiskTyped' /\ StepTyped' /\ \A j \in Launches \ {l} : DiskKept(j) /\ StepKept(j)
    BY <1>1, <1>9 DEF RecoverLease, DiskTyped, StepTyped, DiskKept, StepKept
  <2>2. RecoverKept(l)
    BY <1>1, <1>4, <1>9 DEF RecoverLease, RecoverKept, Recovered, DiskTyped, StepTyped, Protected
  <2> QED BY <1>5, <2>1, <2>2
<1>10. CASE RecoverJudge(l)
  <2>1. DiskTyped' /\ StepTyped' /\ \A j \in Launches \ {l} : DiskKept(j) /\ StepKept(j)
    BY <1>1, <1>10 DEF RecoverJudge, DiskTyped, StepTyped, DiskKept, StepKept
  <2>2. RecoverKept(l)  BY <1>1, <1>4, <1>10 DEF RecoverJudge, RecoverKept, Recovered, DiskTyped, StepTyped
  <2> QED BY <1>5, <2>1, <2>2
<1>11. CASE RecoverDiscard(l)
  <2>1. DiskTyped' /\ StepTyped' /\ \A j \in Launches \ {l} : DiskKept(j) /\ StepKept(j)
    BY <1>1, <1>11 DEF RecoverDiscard, DiskTyped, StepTyped, DiskKept, StepKept
  <2>2. RecoverKept(l)  BY <1>1, <1>4, <1>11 DEF RecoverDiscard, RecoverKept, Recovered, DiskTyped, StepTyped
  <2> QED BY <1>5, <2>1, <2>2
<1> QED BY <1>6, <1>7, <1>8, <1>9, <1>10, <1>11

LEMMA RecoverAllKeeps == ASSUME IInv, RecoverList \/ RecoverEnd \/ RecoverDies PROVE IInv'
<1>1. DiskTyped /\ StepTyped /\ \A j \in Launches : LaunchOK(j)  BY Typed DEF IInv
<1>2. UNCHANGED <<clientVars, netVars, callVars, runVars, cleanVars, fenceVars, hostVars, dir, idx, mark>>
  BY DEF RecoverList, RecoverEnd, RecoverDies, diskVars
<1>3. CountTyped'
  BY Typed DEF CountTyped, RecoverList, RecoverEnd, RecoverDies, counts
<1>4. DiskTyped' /\ StepTyped'
  BY <1>1, <1>2 DEF RecoverList, RecoverEnd, RecoverDies, DiskTyped, StepTyped, diskVars
<1>5. ASSUME NEW j \in Launches PROVE RecoverKept(j)
  <2>1. Recovered(j) /\ (pc[j] \in Early => lease[j] = "free" /\ dir[j] = "none" /\ idx[j] = "no")
    BY <1>1 DEF LaunchOK, Registered
  <2>2. CASE RecoverList
    BY <1>1, <1>2, <2>1, <2>2 DEF RecoverList, RecoverKept, Recovered, DiskKept, Idle, Missing, diskVars
  <2>3. CASE RecoverEnd
    BY <1>1, <1>2, <2>1, <2>3 DEF RecoverEnd, RecoverKept, Recovered, DiskKept, DiskTyped, LaunchOK, Registered
  <2>4. CASE RecoverDies
    BY <1>1, <1>2, <2>1, <2>4 DEF RecoverDies, RecoverKept, Recovered, DiskKept, DiskTyped
  <2> QED BY <2>2, <2>3, <2>4
<1> QED BY <1>2, <1>3, <1>4, <1>5, RecoverMoves

-----------------------------------------------------------------------------
\* The host dies, with or without the machine.

LEMMA CrashKeeps == ASSUME IInv, NEW power \in BOOLEAN, Crash(power) PROVE IInv'
<1>1. NetTyped /\ CallTyped /\ RunTyped /\ DiskTyped /\ StepTyped /\ CountTyped /\ \A j \in Launches : LaunchOK(j)
  BY Typed DEF IInv
<1>2. /\ hostOpen' = [l \in Launches |-> FALSE] /\ toHost' = [l \in Launches |-> <<>>]
      /\ pc' = [l \in Launches |-> IF client[l] = "idle" THEN "idle" ELSE "done"]
      /\ revoked' = [l \in Launches |-> revoked[l] \/ (l \in Agents /\ client[l] # "idle")]
      /\ ctrl' = [l \in Launches |-> FALSE] /\ appr' = [l \in Launches |-> FALSE]
      /\ runs' = {} /\ hist' = {} /\ cleanups' = {}
      /\ acc' = [l \in Launches |-> "none"] /\ commit' = [l \in Launches |-> "idle"]
      /\ exec' = [l \in Launches |-> "none"] /\ runAborted' = [l \in Launches |-> FALSE]
      /\ roll' = [l \in Launches |-> "idle"]
      /\ clean' = [l \in Launches |-> [w \in Cleaners |-> "no"]]
      /\ fence' = FALSE /\ stopPc' = "no" /\ awaited' = {} /\ ran' = ran /\ idx' = idx
  BY DEF Crash
<1>3. /\ client' = [l \in Launches |->
                    IF (power \/ l \in Human) /\ Unsettled(l) THEN "unresolved" ELSE client[l]]
      /\ clientOpen' = [l \in Launches |-> clientOpen[l] /\ ~power]
      /\ toClient' = [l \in Launches |-> IF power THEN <<>> ELSE toClient[l]]
      /\ lease' = [l \in Launches |->
                   IF lease[l] = "live" \/ (power /\ lease[l] = "recovery") THEN "dead" ELSE lease[l]]
      /\ crashes < MaxCrashes /\ crashes' = crashes + 1 /\ UNCHANGED <<fails, recoveries>>
  BY DEF Crash
<1>4. DiskTyped' /\ StepTyped' /\ CountTyped'
  <2>1. lease' \in [Launches -> {"free", "live", "dead", "recovery"}]  BY <1>1, <1>3 DEF DiskTyped
  <2>2. dir' \in [Launches -> {"none", "bare", "full", "unlinked"}]  BY <1>1 DEF Crash, DiskTyped
  <2>3. mark' \in [Launches -> {"none", "visible", "durable"}]  BY <1>1 DEF Crash, DiskTyped
  <2>4. StepTyped'  BY <1>1 DEF Crash, StepTyped
  <2> QED BY <1>1, <1>2, <1>3, <2>1, <2>2, <2>3, <2>4 DEF DiskTyped, CountTyped
<1>5. ASSUME NEW j \in Launches
      PROVE  /\ mark[j] = "none" => mark'[j] = "none"
             /\ mark[j] = "durable" => mark'[j] = "durable"
             /\ dir[j] \in {"none", "bare"} => dir'[j] = dir[j]
             /\ power => rstep'[j] = "no"
             /\ ~power => rstep'[j] = rstep[j] /\ mark'[j] = mark[j] /\ (dir'[j] = "full" <=> dir[j] = "full")
             /\ lease'[j] = (IF lease[j] = "live" \/ (power /\ lease[j] = "recovery") THEN "dead" ELSE lease[j])
  BY <1>1, <1>3 DEF Crash, DiskTyped
<1>6. ASSUME NEW j \in Launches
      PROVE  /\ client'[j] = client[j] \/ (client[j] \notin Told \cup {"idle"} /\ client'[j] = "unresolved" /\ (power \/ j \in Human))
             /\ clientOpen'[j] = (clientOpen[j] /\ ~power)
             /\ toClient'[j] = <<>> \/ toClient'[j] = toClient[j]
             /\ ~hostOpen'[j] /\ toHost'[j] = <<>>
             /\ pc'[j] = (IF client[j] = "idle" THEN "idle" ELSE "done")
  BY <1>2, <1>3 DEF Unsettled
<1>7. NetTyped'
  <2>1. client' \in [Launches -> {"idle", "requested", "acked", "confirmed", "reconciling"} \cup Told]
    BY <1>1, <1>3, <1>6 DEF NetTyped
  <2>2. toClient' \in [Launches -> Seq({"response", "confirmation", "committed", "error"})]
    BY <1>1, <1>3 DEF NetTyped
  <2>3. \A j \in Launches : Len(toClient'[j]) <= 2  BY <1>1, <1>6 DEF NetTyped
  <2>4. toHost' \in [Launches -> Seq({"request", "ack", "confirm"})] /\ \A j \in Launches : Len(toHost'[j]) <= 1
    BY <1>2
  <2>5. clientOpen' \in [Launches -> BOOLEAN] /\ hostOpen' \in [Launches -> BOOLEAN]  BY <1>1, <1>2, <1>3 DEF NetTyped
  <2> QED BY <2>1, <2>2, <2>3, <2>4, <2>5 DEF NetTyped
<1>8. TypeOK'
  <2>1. CallTyped'
    <3>1. revoked' \in [Launches -> BOOLEAN]  BY <1>1, <1>2 DEF CallTyped
    <3> QED BY <1>2, <3>1 DEF CallTyped
  <2>2. RunTyped' /\ CleanTyped' /\ FenceTyped' /\ HostTyped'
    BY <1>1, <1>2 DEF RunTyped, CleanTyped, FenceTyped, HostTyped
  <2> QED BY <1>4, <1>7, <2>1, <2>2, TypePartsNext
<1>9. ASSUME NEW j \in Launches PROVE LaunchOK(j)'
  <2>1. /\ acc'[j] = "none" /\ commit'[j] = "idle" /\ exec'[j] = "none" /\ roll'[j] = "idle"
        /\ (\A w \in Cleaners : clean'[j][w] = "no") /\ j \notin runs' /\ j \notin cleanups' /\ j \notin hist'
        /\ fence' = FALSE /\ stopPc' = "no" /\ lease'[j] # "live"
    BY <1>2, <1>5
  <2>2. Wire(j) /\ Registered(j) /\ Recovered(j) /\ Promised(j)  BY <1>1 DEF LaunchOK
  <2>3. <<>> \in FramesTo("idle") /\ <<>> \in FramesTo("done")  BY DEF FramesTo
  <2>4. client[j] = "idle" => toClient[j] = <<>>  BY <2>2 DEF Wire, FramesTo
  <2>5. toClient'[j] \in FramesTo(pc'[j])
    <3>1. CASE client[j] = "idle"  BY <1>6, <2>3, <2>4, <3>1
    <3>2. CASE client[j] # "idle"
      <4>1. toClient[j] \in FramesTo(pc[j])  BY <2>2 DEF Wire
      <4>2. toClient[j] \in FramesTo("done")  BY <4>1 DEF FramesTo
      <4> QED BY <1>6, <2>3, <3>2, <4>2
    <3> QED BY <3>1, <3>2
  <2>6. <<>> # <<"request">> /\ <<>> # <<"confirm">> /\ <<>> # <<"committed">>  OBVIOUS
  <2>7. Wire(j)'
    <3>1. clientOpen'[j] => client'[j] \in {"requested", "acked", "confirmed"}
      <4>1. CASE clientOpen'[j]
        <5>1. clientOpen[j] /\ ~power /\ j \notin Human  BY <1>1, <1>6, <2>2, <4>1 DEF Wire, NetTyped
        <5> QED BY <1>6, <2>2, <5>1 DEF Wire
      <4> QED BY <4>1
    <3>2. client'[j] = "idle" <=> client[j] = "idle"  BY <1>6
    <3>3. j \in Human => ~clientOpen'[j] /\ toClient'[j] = <<>>  BY <1>1, <1>6, <2>2 DEF Wire, NetTyped
    <3> QED BY <1>6, <2>5, <2>6, <3>1, <3>2, <3>3 DEF Wire
  <2>8. Decided(j)'  BY <1>6, <2>1 DEF Decided, AccOf
  <2>9. Owned(j)'  BY <2>1 DEF Owned
  <2>10. Registered(j)'
    <3>1. pc'[j] \in Early => pc[j] = "idle" /\ rstep[j] = "no"  BY <1>6, <2>2 DEF Wire, Registered
    <3> QED BY <1>2, <1>5, <1>6, <2>1, <2>2, <3>1 DEF Registered
  <2>11. Cleaned(j)'  BY <2>1 DEF Cleaned
  <2>12. Recovered(j)'
    <3>1. CASE power  BY <1>5, <2>2, <3>1 DEF Recovered
    <3>2. CASE ~power  BY <1>2, <1>5, <2>2, <3>2 DEF Recovered
    <3> QED BY <3>1, <3>2
  <2>13. Promised(j)'  BY <1>5, <1>6, <2>1, <2>2, <2>6 DEF Promised
  <2>14. Quiet(j)'  BY <2>1 DEF Quiet
  <2> QED
    BY <2>7, <2>8, <2>9, <2>10, <2>11, <2>12, <2>13, <2>14 DEF LaunchOK
<1> QED BY <1>8, <1>9 DEF IInv

-----------------------------------------------------------------------------
\* The inductive invariant.

LEMMA InitOK == Init => IInv
<1> SUFFICES ASSUME Init PROVE IInv  OBVIOUS
<1> USE DEF Init
<1>1. NetTyped /\ CallTyped  BY DEF NetTyped, CallTyped
<1>2. RunTyped /\ CleanTyped /\ FenceTyped /\ HostTyped  BY DEF RunTyped, CleanTyped, FenceTyped, HostTyped
<1>3. DiskTyped /\ StepTyped /\ CountTyped  BY DEF DiskTyped, StepTyped, CountTyped
<1>4. TypeOK  BY <1>1, <1>2, <1>3, TypeParts
<1>5. ASSUME NEW l \in Launches PROVE LaunchOK(l)
  <2>1. Wire(l)
    <3>1. <<>> # <<"request">> /\ <<>> # <<"confirm">> /\ <<>> \in FramesTo("idle")  BY DEF FramesTo
    <3> QED BY <3>1 DEF Wire
  <2>2. Decided(l) /\ Owned(l) /\ Registered(l) /\ Cleaned(l) /\ Recovered(l) /\ Quiet(l)
    BY DEF Decided, AccOf, Owned, Registered, Cleaned, Recovered, Quiet
  <2>3. Promised(l)
    <3>1. <<>> # <<"committed">>  OBVIOUS
    <3> QED BY <3>1 DEF Promised
  <2> QED BY <2>1, <2>2, <2>3 DEF LaunchOK
<1> QED BY <1>4, <1>5 DEF IInv

LEMMA StutterKeeps == ASSUME IInv, UNCHANGED vars PROVE IInv'
<1>1. UNCHANGED <<clientVars, netVars, callVars, runVars, cleanVars, hostVars, diskVars, rstep>>
      /\ UNCHANGED fenceVars /\ UNCHANGED counts
  BY DEF vars
<1>2. FenceTyped' /\ CountTyped' /\ \A j \in Launches : Aborts(j)
  BY <1>1, Typed, TypeSame, GroupsKept DEF fenceVars
<1> QED BY <1>1, <1>2, FenceMoves

LEMMA NextKeeps == ASSUME IInv, [Next]_vars PROVE IInv'
<1>1. ASSUME NEW l \in Launches, Bridge(l) PROVE IInv'
  BY <1>1, CallKeeps, ReadKeeps, AbortKeeps, ReconcileKeeps DEF Bridge
<1>2. ASSUME NEW l \in Launches, Start(l) PROVE IInv'
  BY <1>2, HumanStartKeeps, ApproveKeeps, TakeLeaseKeeps, AllocateKeeps, AllocateFailsKeeps, RegisterKeeps, FinishKeeps
  DEF Start
<1>3. ASSUME NEW l \in Launches, Broker(l) PROVE IInv'
  BY <1>3, HostReadKeeps, HostCloseKeeps, AckTimeoutKeeps, RevokeKeeps, FinishKeeps, BrokerCommittedKeeps, HumanCommittedKeeps
  DEF Broker
<1>4. ASSUME NEW l \in Launches, Commit(l) PROVE IInv'
  BY <1>4, CommitPublishKeeps, CommitDoneKeeps, CommitFailsKeeps DEF Commit
<1>5. ASSUME NEW l \in Launches, Clean(l) PROVE IInv'
  BY <1>5, CleanStepKeeps, CleanFailsKeeps DEF Clean
<1>6. ASSUME NEW l \in Launches, Execute(l) PROVE IInv'
  BY <1>6, RunKeeps, ArchiveKeeps, StopKeeps DEF Execute
<1>7. CASE FenceElsewhere  BY <1>7, FenceElsewhereKeeps
<1>8. CASE Shutdown
  BY <1>8, StopAllKeeps, StopRunsKeeps, RetryCleanupsKeeps, StopDoneKeeps DEF Shutdown
<1>9. CASE Recover  BY <1>9, RecoverAllKeeps, RecoverOneKeeps DEF Recover
<1>10. ASSUME NEW power \in BOOLEAN, Crash(power) PROVE IInv'  BY <1>10, CrashKeeps
<1>11. CASE UNCHANGED vars  BY <1>11, StutterKeeps
<1> QED
  BY <1>1, <1>2, <1>3, <1>4, <1>5, <1>6, <1>7, <1>8, <1>9, <1>10, <1>11 DEF Next

\* The inductive invariant of the launch, for any launches, limits and faults.
THEOREM LaunchConsistent == Spec => []IInv
BY InitOK, NextKeeps, PTL DEF Spec

\* Every variable keeps its type.
THEOREM TypeCorrect == Spec => []TypeOK
<1>1. IInv => TypeOK  BY DEF IInv
<1> QED BY LaunchConsistent, <1>1, PTL

-----------------------------------------------------------------------------
\* The safety invariants.

\* A live lease has somebody who will release it, and behind an ambiguous
\* marker everything is kept (cleanupUncommittedRun, commitStart).
THEOREM NothingIsOrphaned == Spec => []NothingOrphaned
<1>1. ASSUME IInv PROVE NothingOrphaned
  <2>1. LeaseOwned  BY <1>1 DEF IInv, LaunchOK, LeaseOwned
  <2>2. ASSUME NEW l \in runs, mark[l] = "visible", commit[l] = "idle"
        PROVE  fence /\ idx[l] = "live" /\ dir[l] = "full" /\ lease[l] = "live"
    <3>1. l \in Launches /\ RunTyped /\ LaunchOK(l)  BY <1>1, Typed DEF IInv, RunTyped
    <3>2. acc[l] = "commit-ambiguous"  BY <2>2, <3>1 DEF RunTyped, LaunchOK, Decided, Registered
    <3> QED BY <3>1, <3>2 DEF LaunchOK, Decided, Registered
  <2> QED BY <2>1, <2>2 DEF NothingOrphaned, AmbiguousKept
<1> QED BY <1>1, LaunchConsistent, PTL

\* A recovery touches no launch that its host still works on (loadHistory
\* takes the lease first).
THEOREM RecoveryIsExclusive == Spec => []RecoveryExclusive
<1>1. ASSUME IInv PROVE RecoveryExclusive
  <2>1. ASSUME NEW l \in Launches, rstep[l] \in {"leased", "unindexed", "settled"}
        PROVE  l \notin runs /\ pc[l] \notin Allocating /\ exec[l] \in {"none", "over"}
    <3>1. RunTyped /\ LaunchOK(l)  BY <1>1, Typed DEF IInv
    <3>2. lease[l] = "recovery"  BY <2>1, <3>1 DEF LaunchOK, Recovered
    <3> QED BY <3>1, <3>2 DEF LaunchOK, Registered, Decided, RunTyped
  <2> QED BY <2>1 DEF RecoveryExclusive
<1> QED BY <1>1, LaunchConsistent, PTL

\* Once stopAll is done, whatever was neither executed nor deleted is behind
\* the restart fence.
THEOREM ShutdownIsComplete == Spec => []ShutdownConverges
<1>1. ASSUME IInv PROVE ShutdownConverges
  <2>1. ASSUME stopPc = "done", NEW l \in Launches, l \in runs \cup cleanups, exec[l] # "over"
        PROVE  fence
    <3>1. RunTyped /\ LaunchOK(l)  BY <1>1, Typed DEF IInv
    <3>2. CASE l \in cleanups  BY <2>1, <3>1, <3>2 DEF LaunchOK, Quiet
    <3>3. CASE l \in runs /\ l \notin cleanups
      <4>1. acc[l] \notin Unaccepted /\ exec[l] = "none"  BY <2>1, <3>1, <3>3 DEF LaunchOK, Quiet
      <4>2. acc[l] = "commit-ambiguous"  BY <3>1, <3>3, <4>1 DEF LaunchOK, Decided, Registered, RunTyped
      <4> QED BY <3>1, <4>2 DEF LaunchOK, Decided
    <3> QED BY <2>1, <3>2, <3>3
  <2> QED BY <2>1 DEF ShutdownConverges
<1> QED BY <1>1, LaunchConsistent, PTL

-----------------------------------------------------------------------------
\* The action property.

\* Most steps neither begin a source nor touch a lease or a marker.
LEMMA CallsAreSilent ==
    ASSUME NEW l \in Launches, Bridge(l) \/ (Start(l) /\ ~TakeLease(l)) \/ Broker(l)
    PROVE  UNCHANGED <<ran, lease, mark>>
BY DEF Bridge, Call, ClientRead, ClientAbort, ClientClosed, Reconciled, Unresolved,
       Start, HumanStart, Approve, Allocate, AllocateFails, Register, CleanStart, FinishClean, Reject,
       Broker, HostRead, HostClose, Disconnect, AckTimeout, Revoke, FinishRollback, BrokerCommitted,
       HumanCommitted, OnAck, OnConfirm, Fail, Rollback, runVars, diskVars

LEMMA TakeLeaseSilent ==
    ASSUME DiskTyped, NEW l \in Launches, TakeLease(l)
    PROVE  UNCHANGED <<ran, mark>> /\ \A j \in Launches : lease'[j] = lease[j] \/ lease'[j] = "live"
BY DEF TakeLease, runVars, DiskTyped

LEMMA RestSilent ==
    /\ \A l \in Launches : Commit(l) => UNCHANGED <<ran, lease>>
    /\ \A l \in Launches : RunSource(l) \/ EndRun(l) \/ Stop(l) => UNCHANGED <<lease, mark>>
    /\ \A l \in Launches : EndRun(l) \/ Stop(l) \/ Archive(l) => UNCHANGED <<ran, mark>>
    /\ FenceElsewhere \/ Shutdown => UNCHANGED <<ran, lease, mark>>
    /\ Recover => UNCHANGED ran
<1>1. ASSUME NEW l \in Launches, Commit(l) PROVE UNCHANGED <<ran, lease>>
  BY <1>1 DEF Commit, CommitPublish, CommitDone, CommitFails, diskVars
<1>2. ASSUME NEW l \in Launches, RunSource(l) \/ EndRun(l) \/ Stop(l) PROVE UNCHANGED <<lease, mark>>
  BY <1>2 DEF RunSource, EndRun, Stop, diskVars
<1>3. ASSUME NEW l \in Launches, EndRun(l) \/ Stop(l) \/ Archive(l) PROVE UNCHANGED <<ran, mark>>
  BY <1>3 DEF Archive, EndRun, Stop, Rollback, runVars, diskVars
<1>4. FenceElsewhere \/ Shutdown => UNCHANGED <<ran, lease, mark>>
  BY DEF FenceElsewhere, Shutdown, StopAll, StopRuns, RetryCleanups, StopDone, Rollback, runVars, diskVars
<1>5. Recover => UNCHANGED ran
  BY DEF Recover, RecoverList, RecoverEnd, RecoverDies, RecoverMissing, RecoverReindex, RecoverVisit, RecoverLease,
         RecoverJudge, RecoverDiscard, runVars
<1> QED BY <1>1, <1>2, <1>3, <1>4, <1>5

LEMMA CleanSteps ==
    ASSUME IInv, NEW l \in Launches, Clean(l)
    PROVE  /\ UNCHANGED ran /\ \A j \in Launches : mark'[j] = mark[j]
           /\ \A j \in Launches : lease[j] # "free" /\ lease'[j] = "free" => dir'[j] # "full"
<1>1. PICK w \in Cleaners : CleanStep(l, w) \/ CleanFails(l, w)  BY DEF Clean
<1>2. DiskTyped /\ CleanTyped /\ LaunchOK(l)  BY Typed DEF IInv
<1>3. clean[l][w] # "no" /\ UNCHANGED ran  BY <1>1 DEF CleanStep, CleanFails, runVars
<1>4. Cleaned(l) /\ mark[l] = "none"  BY <1>2, <1>3 DEF LaunchOK, Cleaned
<1>5. CASE CleanDisk(l, w)
  <2>1. /\ mark'[l] = "none" /\ \A j \in Launches \ {l} : DiskKept(j)
        /\ lease'[l] = lease[l] \/ clean[l][w] = "lease"
        /\ clean[l][w] = "lease" => dir'[l] = dir[l]
    BY <1>2, <1>3, <1>4, <1>5, CleanDiskFacts
  <2>2. clean[l][w] = "lease" => dir[l] # "full"  BY <1>4 DEF Cleaned
  <2> QED BY <1>3, <1>4, <2>1, <2>2 DEF DiskKept
<1>6. CASE UNCHANGED diskVars  BY <1>3, <1>6 DEF diskVars
<1> QED BY <1>1, <1>5, <1>6 DEF CleanStep, CleanFails

LEMMA RecoverSteps ==
    ASSUME IInv, Recover
    PROVE  /\ \A j \in Launches : mark'[j] = mark[j]
           /\ \A j \in Launches : lease[j] # "free" /\ lease'[j] = "free" => idx'[j] = "archived" \/ dir'[j] # "full"
<1>1. DiskTyped /\ \A j \in Launches : Recovered(j)  BY Typed DEF IInv, LaunchOK
<1>2. CASE RecoverEnd  BY <1>1, <1>2 DEF RecoverEnd, Recovered, DiskTyped
<1>3. CASE RecoverDies  BY <1>1, <1>3 DEF RecoverDies, DiskTyped
<1>4. CASE RecoverList  BY <1>4 DEF RecoverList, diskVars
<1>5. ASSUME NEW l \in Launches, RecoverMissing(l) \/ RecoverLease(l)
      PROVE  UNCHANGED mark /\ \A j \in Launches : lease'[j] = lease[j] \/ lease'[j] = "recovery"
  BY <1>1, <1>5 DEF RecoverMissing, RecoverLease, DiskTyped
<1>6. ASSUME NEW l \in Launches, RecoverReindex(l) \/ RecoverVisit(l) \/ RecoverJudge(l)
      PROVE  UNCHANGED <<mark, lease>>
  BY <1>6 DEF RecoverReindex, RecoverVisit, RecoverJudge
<1>7. ASSUME NEW l \in Launches, RecoverDiscard(l)
      PROVE  UNCHANGED lease /\ \A j \in Launches : mark'[j] = mark[j]
  BY <1>1, <1>7 DEF RecoverDiscard, Recovered, DiskTyped
<1> QED BY <1>2, <1>3, <1>4, <1>5, <1>6, <1>7 DEF Recover

\* No source begins behind the fence, nor once the runs are stopped
\* (#executeRun), and a lease goes only after what it protects is settled
\* (#archiveIfSettled, #cleanupUncommittedRun, loadHistory).
THEOREM FencesAreHeld == Spec => FencesHold
<1> DEFINE Step == /\ ran' # ran => ~fence /\ stopPc \in {"no", "rolling"}
                   /\ \A l \in Launches : lease[l] # "free" /\ lease'[l] = "free" =>
                         idx'[l] = "archived" \/ dir'[l] # "full"
<1>1. ASSUME IInv, Next PROVE Step
  <2>1. DiskTyped  BY <1>1, Typed
  <2>2. ASSUME NEW l \in Launches, RunSource(l) PROVE Step
    <3>1. UNCHANGED lease  BY <2>2, RestSilent
    <3>2. LaunchOK(l) /\ exec[l] = "starting"  BY <1>1, <2>2 DEF IInv, RunSource
    <3>3. ran' # ran => ~runAborted[l]  BY <2>2 DEF RunSource
    <3> QED BY <3>1, <3>2, <3>3 DEF LaunchOK, Quiet
  <2>3. ASSUME NEW l \in Launches, Archive(l) PROVE Step
    BY <2>1, <2>3 DEF Archive, DiskTyped
  <2>4. ASSUME NEW l \in Launches, Execute(l) PROVE Step  BY <2>2, <2>3, <2>4, RestSilent DEF Execute
  <2>5. ASSUME NEW l \in Launches, Bridge(l) \/ Start(l) \/ Broker(l) PROVE Step
    BY <2>1, <2>5, CallsAreSilent, TakeLeaseSilent
  <2>6. ASSUME NEW l \in Launches, Commit(l) \/ Clean(l) PROVE Step
    BY <1>1, <2>6, RestSilent, CleanSteps
  <2>7. CASE FenceElsewhere \/ Shutdown  BY <2>7, RestSilent
  <2>8. CASE Recover  BY <1>1, <2>8, RestSilent, RecoverSteps
  <2>9. ASSUME NEW power \in BOOLEAN, Crash(power) PROVE Step
    <3>1. \A l \in Launches : lease'[l] = lease[l] \/ lease'[l] = "dead"  BY <2>1, <2>9 DEF Crash, DiskTyped
    <3>2. UNCHANGED ran  BY <2>9 DEF Crash
    <3> QED BY <3>1, <3>2
  <2> QED BY <1>1, <2>4, <2>5, <2>6, <2>7, <2>8, <2>9 DEF Next
<1>2. ASSUME IInv, [Next]_vars PROVE [Step]_vars  BY <1>1, <1>2
<1> HIDE DEF Step
<1>3. Spec => [][Step]_vars  BY <1>2, LaunchConsistent, PTL DEF Spec
<1> QED BY <1>3 DEF FencesHold, Step

-----------------------------------------------------------------------------
\* The refinement of LaunchContract.

\* What the caller of one launch was told, and whether the launch is kept.
Answer(l) == IF client[l] \in Told THEN client[l] ELSE "nothing"
Durable(l) == mark[l] = "durable"

LEMMA ContractVars ==
    /\ (\A j \in Launches : Answer(j)' = Answer(j) /\ (Durable(j)' <=> Durable(j))) /\ UNCHANGED ran
         => UNCHANGED Contract!vars
    /\ (\A j \in Launches : Durable(j)' <=> Durable(j))
         => {l \in Launches : mark[l] = "durable"}' = {l \in Launches : mark[l] = "durable"}
BY DEF Contract!vars, Answer, Durable

\* The answers that a step may give.
LEMMA Tells ==
    ASSUME NEW l \in Launches, UNCHANGED ran, \A j \in Launches : mark'[j] = mark[j],
           \A j \in Launches \ {l} : client'[j] = client[j],
           client'[l] = client[l]
             \/ /\ client[l] \notin Told
                /\ client'[l] = "started" => mark[l] = "durable"
                /\ client'[l] = "failed" => mark[l] # "durable"
    PROVE  [Contract!Next]_(Contract!vars)
<1>1. \A j \in Launches : Durable(j)' <=> Durable(j)  BY DEF Durable
<1>2. \A j \in Launches \ {l} : Answer(j)' = Answer(j)  BY DEF Answer
<1>3. CASE Answer(l)' = Answer(l)  BY <1>1, <1>2, <1>3, ContractVars
<1>4. CASE Answer(l)' # Answer(l)
  <2>1. client[l] \notin Told /\ client'[l] \in Told /\ Answer(l)' = client'[l]  BY <1>4 DEF Answer
  <2>2. [j \in Launches |-> IF client'[j] \in Told THEN client'[j] ELSE "nothing"]
          = [[j \in Launches |-> IF client[j] \in Told THEN client[j] ELSE "nothing"] EXCEPT ![l] = client'[l]]
    BY <2>1
  <2>3. {j \in Launches : mark'[j] = "durable"} = {j \in Launches : mark[j] = "durable"}  OBVIOUS
  <2>4. client'[l] = "started" => l \in {j \in Launches : mark[j] = "durable"}  BY <2>1
  <2>5. client'[l] = "failed" => l \notin {j \in Launches : mark[j] = "durable"}  BY <2>1
  <2>6. [j \in Launches |-> IF client[j] \in Told THEN client[j] ELSE "nothing"][l] = "nothing"  BY <2>1
  <2>7. client'[l] \in {"started", "failed", "unresolved"}  BY <2>1
  <2>8. ASSUME NEW answer \in {"started", "failed", "unresolved"}, answer = client'[l] PROVE Contract!Next
    <3>1. Contract!Tell(l, answer)  BY <2>2, <2>3, <2>4, <2>5, <2>6, <2>8 DEF Contract!Tell
    <3> QED BY <3>1 DEF Contract!Next
  <2> QED BY <2>7, <2>8
<1> QED BY <1>3, <1>4

\* The bridge and a person are told what their step's guards know.
LEMMA BridgeTells == ASSUME IInv, NEW l \in Launches, Bridge(l) PROVE [Contract!Next]_(Contract!vars)
<1>1. NetTyped /\ LaunchOK(l)  BY Typed DEF IInv
<1>2. UNCHANGED <<ran, mark>>  BY CallsAreSilent
<1>3. \A j \in Launches \ {l} : client'[j] = client[j]
  BY <1>1 DEF Bridge, Call, ClientRead, ClientAbort, ClientClosed, Reconciled, Unresolved, CallFails, Answers, NetTyped
<1>4. clientOpen[l] => client[l] \in {"requested", "acked", "confirmed"} /\ l \in Agents
  BY <1>1 DEF LaunchOK, Wire
<1>5. ASSUME CallFails(l), clientOpen[l]
      PROVE  client[l] \notin Told /\ client'[l] # "started" /\ (client'[l] = "failed" => mark[l] # "durable")
  BY <1>1, <1>4, <1>5 DEF CallFails, NetTyped, LaunchOK, Promised
<1>6. CASE Call(l)  BY <1>1, <1>2, <1>3, <1>6, Tells DEF Call, NetTyped
<1>7. CASE ClientAbort(l) \/ ClientClosed(l)
  <2>1. CallFails(l) /\ clientOpen[l]  BY <1>7 DEF ClientAbort, ClientClosed
  <2> QED BY <1>2, <1>3, <1>5, <2>1, Tells
<1>8. CASE ClientRead(l)
  <2>1. clientOpen[l] /\ toClient[l] # <<>>  BY <1>8 DEF ClientRead
  <2>2. CASE CallFails(l)  BY <1>2, <1>3, <1>5, <2>1, <2>2, Tells
  <2>3. ASSUME NEW a, NEW next \in {"acked", "confirmed"}, Answers(l, a, next) PROVE [Contract!Next]_(Contract!vars)
    <3>1. client'[l] = next /\ client[l] \notin Told  BY <1>1, <1>4, <2>1, <2>3 DEF Answers, NetTyped
    <3> QED BY <1>2, <1>3, <2>3, <3>1, Tells
  <2>4. CASE Head(toClient[l]) = "committed" /\ client' = [client EXCEPT ![l] = "started"]
    <3>1. toClient[l] \in FramesTo(pc[l])  BY <1>1 DEF LaunchOK, Wire
    <3>2. toClient[l] = <<"committed">>
      <4>1. toClient[l] \in {<<"response">>, <<"confirmation">>, <<"error">>, <<"committed">>,
                             <<"response", "error">>, <<"confirmation", "error">>}
        BY <2>1, <3>1 DEF FramesTo
      <4>2. (\A x : Head(<<x>>) = x) /\ \A x, y : Head(<<x, y>>) = x  OBVIOUS
      <4> QED BY <2>4, <4>1, <4>2
    <3>3. mark[l] = "durable"  BY <1>1, <3>2 DEF LaunchOK, Promised
    <3>4. client'[l] = "started" /\ client[l] \notin Told  BY <1>1, <1>4, <2>1, <2>4 DEF NetTyped
    <3> QED BY <1>2, <1>3, <3>3, <3>4, Tells
  <2> QED BY <1>8, <2>2, <2>3, <2>4 DEF ClientRead
<1>9. CASE Reconciled(l)
  <2>1. client'[l] = "started" /\ client[l] \notin Told /\ Committed(l)  BY <1>1, <1>9 DEF Reconciled, NetTyped
  <2>2. mark[l] = "durable"  BY <1>1, <2>1 DEF Committed, LaunchOK, Decided, Promised
  <2> QED BY <1>2, <1>3, <2>1, <2>2, Tells
<1>10. CASE Unresolved(l)
  <2>1. client'[l] = "unresolved" /\ client[l] \notin Told  BY <1>1, <1>10 DEF Unresolved, NetTyped
  <2> QED BY <1>2, <1>3, <2>1, Tells
<1> QED BY <1>6, <1>7, <1>8, <1>9, <1>10 DEF Bridge

LEMMA HostTells ==
    ASSUME IInv, NEW l \in Launches, Start(l) \/ Broker(l) PROVE [Contract!Next]_(Contract!vars)
<1>1. NetTyped /\ DiskTyped /\ LaunchOK(l)  BY Typed DEF IInv
<1>2. UNCHANGED <<ran, mark>>  BY <1>1, CallsAreSilent, TakeLeaseSilent
<1>3. CASE UNCHANGED client  BY <1>2, <1>3, Tells
<1>4. ASSUME Begin(l), client[l] = "idle", l \in Human PROVE [Contract!Next]_(Contract!vars)
  <2>1. /\ client'[l] \in {"requested", "failed"} /\ \A j \in Launches \ {l} : client'[j] = client[j]
    BY <1>1, <1>4 DEF Begin, NetTyped
  <2>2. mark[l] = "none"  BY <1>1, <1>4 DEF LaunchOK, Wire, Registered
  <2> QED BY <1>2, <1>4, <2>1, <2>2, Tells
<1>5. ASSUME Reject(l), pc[l] \in {"approve", "lease", "clean", "rollback"} PROVE [Contract!Next]_(Contract!vars)
  <2>1. /\ client'[l] = (IF l \in Human THEN "failed" ELSE client[l])
        /\ \A j \in Launches \ {l} : client'[j] = client[j]
    BY <1>1, <1>5 DEF Reject, NetTyped
  <2>2. l \in Human => client[l] = "requested" /\ mark[l] = "none"
    BY <1>1, <1>5 DEF LaunchOK, Wire, Registered
  <2> QED BY <1>2, <2>1, <2>2, Tells
<1>6. CASE HumanStart(l)  BY <1>4, <1>6 DEF HumanStart
<1>7. CASE Approve(l) \/ TakeLease(l) \/ FinishClean(l) \/ FinishRollback(l)
  BY <1>3, <1>5, <1>7 DEF Approve, TakeLease, FinishClean, FinishRollback, clientVars
<1>8. CASE HumanCommitted(l)
  <2>1. l \in Human /\ pc[l] = "commit"  BY <1>8 DEF HumanCommitted
  <2>2. CASE acc[l] \in {"committed", "commit-ambiguous"}
    <3>1. /\ client'[l] = (IF acc[l] = "committed" THEN "started" ELSE "unresolved")
          /\ \A j \in Launches \ {l} : client'[j] = client[j]
      BY <1>1, <1>8, <2>2 DEF HumanCommitted, NetTyped
    <3>2. client[l] = "requested" /\ (acc[l] = "committed" => mark[l] = "durable")
      BY <1>1, <2>1 DEF LaunchOK, Wire, Decided
    <3> QED BY <1>2, <3>1, <3>2, Tells
  <2>3. CASE acc[l] \notin {"committed", "commit-ambiguous"}
    BY <1>3, <1>8, <2>3 DEF HumanCommitted
  <2> QED BY <2>2, <2>3
<1>9. CASE HostRead(l)
  <2>1. CASE Head(toHost[l]) = "request"
    <3>1. toHost[l] # <<>>  BY <1>9 DEF HostRead
    <3>2. l \notin Human  BY <1>1, <3>1 DEF LaunchOK, Wire
    <3>3. Begin(l)  BY <1>9, <2>1 DEF HostRead
    <3> QED BY <1>3, <3>2, <3>3 DEF Begin
  <2>2. CASE Head(toHost[l]) # "request"
    <3>1. UNCHANGED client  BY <1>9, <2>2 DEF HostRead
    <3> QED BY <1>3, <3>1
  <2> QED BY <2>1, <2>2
<1>10. CASE Allocate(l) \/ AllocateFails(l) \/ Register(l) \/ HostClose(l) \/ AckTimeout(l) \/ Revoke(l) \/ BrokerCommitted(l)
  <2>1. UNCHANGED client
    BY <1>10 DEF Allocate, AllocateFails, Register, HostClose, Disconnect, AckTimeout, Revoke, BrokerCommitted, clientVars
  <2> QED BY <1>3, <2>1
<1> QED BY <1>6, <1>7, <1>8, <1>9, <1>10 DEF Start, Broker

\* The commit is what keeps a launch, and only what is kept runs.
LEMMA CommitKeepsLaunch == ASSUME IInv, NEW l \in Launches, Commit(l) PROVE [Contract!Next]_(Contract!vars)
<1>1. NetTyped /\ DiskTyped /\ LaunchOK(l)  BY Typed DEF IInv
<1>2. UNCHANGED <<ran, client>>
  BY RestSilent DEF Commit, CommitPublish, CommitDone, CommitFails, clientVars
<1>3. CASE CommitPublish(l)
  <2>1. mark[l] = "none" /\ mark' = [mark EXCEPT ![l] = "visible"]  BY <1>1, <1>3 DEF CommitPublish, LaunchOK, Decided
  <2>2. \A j \in Launches : Durable(j)' <=> Durable(j)  BY <1>1, <2>1 DEF Durable, DiskTyped
  <2> QED BY <1>2, <2>2, ContractVars DEF Answer
<1>4. CASE CommitDone(l)
  <2>1. mark' = [mark EXCEPT ![l] = "durable"]  BY <1>4 DEF CommitDone
  <2>2. mark[l] = "visible" /\ client[l] # "failed"
    BY <1>1, <1>4 DEF CommitDone, LaunchOK, Decided, Promised
  <2>3. {j \in Launches : mark'[j] = "durable"} = {j \in Launches : mark[j] = "durable"} \cup {l}
    BY <1>1, <2>1 DEF DiskTyped
  <2>4. [j \in Launches |-> IF client[j] \in Told THEN client[j] ELSE "nothing"][l] # "failed"
    BY <2>2
  <2>5. [j \in Launches |-> IF client'[j] \in Told THEN client'[j] ELSE "nothing"]
          = [j \in Launches |-> IF client[j] \in Told THEN client[j] ELSE "nothing"]
    BY <1>2
  <2>6. Contract!Keep(l)  BY <1>2, <2>3, <2>4, <2>5 DEF Contract!Keep
  <2> QED BY <2>6 DEF Contract!Next
<1>5. CASE CommitFails(l)
  <2>1. UNCHANGED mark  BY <1>5 DEF CommitFails, diskVars
  <2> QED BY <1>2, <2>1, Tells
<1> QED BY <1>3, <1>4, <1>5 DEF Commit

LEMMA ExecuteRuns == ASSUME IInv, NEW l \in Launches, Execute(l) PROVE [Contract!Next]_(Contract!vars)
<1>1. RunTyped /\ LaunchOK(l)  BY Typed DEF IInv
<1>2. UNCHANGED <<client, mark>>
  BY RestSilent DEF Execute, RunSource, EndRun, Stop, Archive, clientVars, diskVars
<1>3. CASE UNCHANGED ran  BY <1>2, <1>3, Tells
<1>4. CASE ran' # ran
  <2>1. RunSource(l)  BY <1>4, RestSilent DEF Execute
  <2>2. ran' = ran \cup {l} /\ exec[l] = "starting"  BY <1>4, <2>1 DEF RunSource
  <2>3. l \in {j \in Launches : mark[j] = "durable"}  BY <1>1, <2>2 DEF LaunchOK, Decided
  <2>4. Contract!Run(l)  BY <1>2, <1>4, <2>2, <2>3 DEF Contract!Run
  <2> QED BY <2>4 DEF Contract!Next
<1> QED BY <1>3, <1>4

\* A crash decides what was on its way to the disk, and what nobody will hear.
LEMMA CrashDecides ==
    ASSUME IInv, NEW power \in BOOLEAN, Crash(power) PROVE [Contract!Next]_(Contract!vars)
<1> DEFINE K == {l \in Launches : mark[l] # "durable" /\ mark'[l] = "durable"}
           U == {l \in Launches : client[l] \notin Told /\ client'[l] = "unresolved"}
           told == [l \in Launches |-> IF client[l] \in Told THEN client[l] ELSE "nothing"]
<1>1. DiskTyped /\ UNCHANGED ran  BY Typed DEF Crash
<1>2. ASSUME NEW j \in Launches
      PROVE  /\ client'[j] = client[j] \/ (client[j] \notin Told /\ client'[j] = "unresolved")
             /\ mark[j] = "durable" => mark'[j] = "durable"
             /\ mark[j] = "none" => mark'[j] = "none"
  <2>1. client'[j] = client[j] \/ (client[j] \notin Told /\ client'[j] = "unresolved")  BY DEF Crash, Unsettled
  <2>2. mark[j] = "durable" => mark'[j] = "durable"  BY <1>1 DEF Crash, DiskTyped
  <2>3. ASSUME mark[j] = "none" PROVE mark'[j] = "none"
    <3>1. CASE ~power  BY <2>3, <3>1 DEF Crash
    <3>2. CASE power
      <4>1. PICK M \in SUBSET {l \in Launches : mark[l] = "visible"} :
              mark' = [l \in Launches |-> IF l \in M THEN "durable"
                                         ELSE IF mark[l] = "visible" THEN "none" ELSE mark[l]]
        BY <3>2 DEF Crash
      <4> QED BY <2>3, <4>1
    <3> QED BY <3>1, <3>2
  <2> QED BY <2>1, <2>2, <2>3
<1>3. {j \in Launches : mark'[j] = "durable"} = {j \in Launches : mark[j] = "durable"} \cup K  BY <1>2
<1>4. [l \in Launches |-> IF client'[l] \in Told THEN client'[l] ELSE "nothing"]
        = [l \in Launches |-> IF l \in U THEN "unresolved" ELSE told[l]]
  BY <1>2
<1>5. K \in SUBSET {l \in Launches : told[l] # "failed"}
  <2>1. ASSUME NEW l \in K PROVE told[l] # "failed"
    <3>1. mark[l] # "none"  BY <1>1, <1>2
    <3>2. client[l] # "failed"  BY <3>1 DEF IInv, LaunchOK, Promised
    <3> QED BY <3>2
  <2> QED BY <2>1
<1>6. U \in SUBSET {l \in Launches : told[l] = "nothing"}  OBVIOUS
<1> HIDE DEF K, U
<1>7. Contract!Crash  BY <1>1, <1>3, <1>4, <1>5, <1>6 DEF Contract!Crash
<1> QED BY <1>7 DEF Contract!Next

LEMMA StepKeepsContract == ASSUME IInv, [Next]_vars PROVE [Contract!Next]_(Contract!vars)
<1>1. ASSUME NEW l \in Launches, Clean(l) PROVE [Contract!Next]_(Contract!vars)
  <2>1. UNCHANGED client  BY <1>1 DEF Clean, CleanStep, CleanFails, clientVars
  <2> QED BY <1>1, <2>1, CleanSteps, ContractVars DEF Answer, Durable
<1>2. CASE FenceElsewhere \/ Shutdown
  <2>1. UNCHANGED client
    BY <1>2 DEF FenceElsewhere, Shutdown, StopAll, StopRuns, RetryCleanups, StopDone, clientVars
  <2> QED BY <1>2, <2>1, RestSilent, ContractVars DEF Answer, Durable
<1>3. CASE Recover
  <2>1. UNCHANGED client
    BY <1>3 DEF Recover, RecoverList, RecoverEnd, RecoverDies, RecoverMissing, RecoverReindex, RecoverVisit, RecoverLease,
                RecoverJudge, RecoverDiscard, clientVars
  <2> QED BY <1>3, <2>1, RestSilent, RecoverSteps, ContractVars DEF Answer, Durable
<1>4. CASE UNCHANGED vars
  <2>1. UNCHANGED <<client, mark, ran>>  BY <1>4 DEF vars, clientVars, diskVars, runVars
  <2> QED BY <2>1, ContractVars DEF Answer, Durable
<1> QED
  BY <1>1, <1>2, <1>3, <1>4, BridgeTells, HostTells, CommitKeepsLaunch, ExecuteRuns, CrashDecides DEF Next

\* Whatever the transport, the disk and the manager do, a launch keeps
\* LaunchContract's promise to its caller.
THEOREM ContractIsKept == Spec => ContractHolds
<1>1. ASSUME Init PROVE Contract!Init
  BY <1>1 DEF Init, Contract!Init
<1>2. Spec => Contract!Init /\ [][Contract!Next]_(Contract!vars)
  BY <1>1, LaunchConsistent, StepKeepsContract, PTL DEF Spec
<1> QED BY <1>2 DEF ContractHolds, Contract!Spec
=============================================================================
