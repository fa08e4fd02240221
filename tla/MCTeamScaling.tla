--------------------------- MODULE MCTeamScaling ---------------------------
(***************************************************************************)
(* TeamScaling for TLC.                                                    *)
(***************************************************************************)
EXTENDS TeamScaling, TLC

Symmetric == Permutations(Proc)

\* Whether a worker is at work decides nothing but what SparesTheBusy says, and
\* that speaks of no state in which a change was lost.
WorkUntilLoss == why # {} => busy = {}
=============================================================================
