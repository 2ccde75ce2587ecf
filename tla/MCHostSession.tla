---------------------------- MODULE MCHostSession ----------------------------
(* HostSession on a small instance. *)
EXTENDS HostSession

CONSTANTS p1, p2, q1, MaxInputs

ThreePrompts == {p1, p2, q1}
OneQuestion == {q1}

\* p1 and p2 are interchangeable: p1 is typed first.  The more is typed, the
\* fewer events: three prompts and one, or two and two.
Ordered == p2 \in typed => p1 \in typed
Few == Cardinality(typed) + events <= MaxInputs
FairSpec == Init /\ [][Next /\ Ordered' /\ Few']_vars /\ Fairness
=============================================================================
