------------------------------ MODULE LockUsers ------------------------------
(***************************************************************************)
(* Who uses the locks of src/team/state/locks.ts, and what a lock is when  *)
(* none of them owns it.                                                   *)
(***************************************************************************)
CONSTANTS
  Proc,    \* the processes that may own a lock
  Free,    \* nobody owns it
  Orphan   \* its owner crashed

ASSUME LockAssumption ==
  Free \notin Proc /\ Orphan \notin Proc /\ Free # Orphan
=============================================================================
