---------------------------- MODULE MCScheduler ----------------------------
(***************************************************************************)
(* A small instance of Scheduler for TLC.                                   *)
(***************************************************************************)
EXTENDS Scheduler, TLC

CONSTANTS A, B, C, H1, H2, a1, a2, b1, b2, c1

\* A uses both harnesses, B only the first, C only the second.
MCRunOf == (a1 :> A) @@ (a2 :> A) @@ (b1 :> B) @@ (b2 :> B) @@ (c1 :> C)
MCHarnessOf == (a1 :> H1) @@ (a2 :> H2) @@ (b1 :> H1) @@ (b2 :> H1) @@ (c1 :> H2)
MCRunLimit == (A :> 2) @@ (B :> 1) @@ (C :> 1)
=============================================================================
