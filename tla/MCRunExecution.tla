--------------------------- MODULE MCRunExecution ---------------------------
(* A call that works in the project and one in a worktree; the worktree is   *)
(* removed under the lock of the repository's root.                          *)
EXTENDS RunExecution

CONSTANTS a1, a2

MCKind == (a1 :> "shared") @@ (a2 :> "worktree")
MCKeys == {"cwd", "git", "root"}
MCSetupLocks == <<"cwd", "git">>
MCCleanupLocks == <<"root", "git">>
=============================================================================
