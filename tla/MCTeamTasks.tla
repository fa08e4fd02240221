---------------------------- MODULE MCTeamTasks ----------------------------
(***************************************************************************)
(* TeamTasks for TLC.                                                     *)
(***************************************************************************)
EXTENDS TeamTasks, TLC

CONSTANTS t1, t2

MCDeps == [t \in Task |-> {}]

\* The tasks start independent; an update makes a task wait for t1 (t1 for
\* itself, so that it is not ready), or for nothing again.
MCDepChoices == {{}, {t1}}

Symmetric == Permutations(Worker) \cup Permutations(Proc \ {Monitor})

\* What an idle process ran last, and what it has written already, have no
\* effect on later steps.
LiveState ==
  <<task, lock, pc, clock, issued, events, snapshot, crashes,
    [p \in Proc |-> IF pc[p] = "idle" THEN "none" ELSE req[p]],
    [p \in Proc |-> IF pc[p] = "write" THEN out[p] ELSE "none"],
    [p \in Proc |-> IF pc[p] = "snapWrite" THEN copy[p] ELSE "none"]>>
=============================================================================
