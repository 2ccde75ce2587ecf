--------------------------- MODULE ChannelPointers ---------------------------
(***************************************************************************)
(* What a channel promises its user: it is at one release and remembers the *)
(* one before it; a promotion moves both in one step, a rollback swaps them, *)
(* and nothing else changes them.                                           *)
(***************************************************************************)
CONSTANTS Releases, None

VARIABLES current, previous

vars == <<current, previous>>

Init ==
    /\ current \in Releases \cup {None}
    /\ previous \in Releases \cup {None}
    /\ current = None => previous = None

Promote(r) ==
    /\ r # current
    /\ current' = r
    /\ previous' = current

RollBack ==
    /\ previous # None
    /\ current' = previous
    /\ previous' = current

Next == RollBack \/ \E r \in Releases : Promote(r)

Spec == Init /\ [][Next]_vars
=============================================================================
