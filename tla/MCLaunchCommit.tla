--------------------------- MODULE MCLaunchCommit ---------------------------
(* Instances of LaunchCommit for TLC. *)
EXTENDS LaunchCommit

CONSTANTS a1, h1   \* an agent's launch and a person's

OneEach == {a1, h1}
OneAgent == {a1}
OneHuman == {h1}
NoHuman == {}

\* The faults that meet each other: a person's launch with two deaths, two
\* recoveries and a failed call; both launches without a fault; an agent's
\* launch with one crash and one failed call.
Scope ==
    \/ client[a1] = "idle" /\ pc[a1] = "idle" /\ a1 \notin awaited
    \/ fails = 0 /\ recoveries = 0 /\ crashes = 0
    \/ recoveries = 0 /\ crashes <= 1 /\ client[h1] = "idle" /\ pc[h1] = "idle"
FairScopedSpec == Init /\ [][Next /\ Scope']_vars /\ Fairness
=============================================================================
