---------------------------- MODULE MCRunDelivery ----------------------------
(***************************************************************************)
(* RunDelivery on small instances.                                          *)
(***************************************************************************)
EXTENDS RunDelivery

CONSTANTS r1, r2, u

MC_Run == {r1}
MC_Runs == {r1, r2}
=============================================================================
