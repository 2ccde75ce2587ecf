--------------------------- MODULE LaunchContract ---------------------------
(***************************************************************************)
(* What a workflow launch promises its caller, whatever the transport, the  *)
(* disk and the manager do: its source runs only once the launch is durably *)
(* kept; the caller is told that it started only then; and a launch that    *)
(* the caller was told had failed is never kept, hence never runs.  A       *)
(* caller may also be told that the outcome is unresolved.                  *)
(***************************************************************************)
CONSTANT Launches

VARIABLES kept, ran, told

vars == <<kept, ran, told>>

Init == kept = {} /\ ran = {} /\ told = [l \in Launches |-> "nothing"]

Keep(l) ==
    /\ told[l] # "failed"
    /\ kept' = kept \cup {l}
    /\ UNCHANGED <<ran, told>>

Run(l) ==
    /\ l \in kept \ ran
    /\ ran' = ran \cup {l}
    /\ UNCHANGED <<kept, told>>

Tell(l, answer) ==
    /\ told[l] = "nothing"
    /\ answer = "started" => l \in kept
    /\ answer = "failed" => l \notin kept
    /\ told' = [told EXCEPT ![l] = answer]
    /\ UNCHANGED <<kept, ran>>

\* A power failure decides several launches at once.
Crash ==
    /\ \E K \in SUBSET {l \in Launches : told[l] # "failed"},
          U \in SUBSET {l \in Launches : told[l] = "nothing"} :
         /\ kept' = kept \cup K
         /\ told' = [l \in Launches |-> IF l \in U THEN "unresolved" ELSE told[l]]
    /\ UNCHANGED ran

Next ==
    \/ \E l \in Launches :
         \/ Keep(l) \/ Run(l)
         \/ \E answer \in {"started", "failed", "unresolved"} : Tell(l, answer)
    \/ Crash

Spec == Init /\ [][Next]_vars
=============================================================================
