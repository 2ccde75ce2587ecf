--------------------------- MODULE MCWorktreeApply ---------------------------
(* WorktreeApply on a small instance. *)
EXTENDS WorktreeApply

CONSTANTS p1, p2, a1, a2
TwoProcs == {p1, p2}
TwoOps == {a1, a2}

\* Applications are interchangeable: a2 begins when a1 has.
Ordered == op[a2].pc # "idle" => op[a1].pc # "idle"
Faults == crashes + fails + edits <= 3
Bounds == NoLateEdit /\ Ordered' /\ Faults'
MCSpec == Init /\ [][Next /\ Snapped /\ Bounds]_vars
BlindSpec == Init /\ [][Next /\ Bounds]_vars

=============================================================================
