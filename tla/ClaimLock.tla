------------------------------ MODULE ClaimLock ------------------------------
(***************************************************************************)
(* What the team's file operations expect of a lock directory              *)
(* (src/team/state/locks.ts): one owner at a time, and a lock whose owner  *)
(* crashed becomes free again.  TeamTasks uses such a lock for every task; *)
(* DirLock shows when mkdir, stat and rm provide it.                       *)
(***************************************************************************)
EXTENDS LockUsers

VARIABLE lock

Init == lock = Free

Take(p) == lock = Free /\ lock' = p

Give(p) == lock = p /\ lock' = Free

Die(p) == lock = p /\ lock' = Orphan

Recover == lock = Orphan /\ lock' = Free

Next == Recover \/ \E p \in Proc : Take(p) \/ Give(p) \/ Die(p)

Spec == Init /\ [][Next]_lock
=============================================================================
