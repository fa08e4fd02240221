--------------------------- MODULE MCTeamDispatch ---------------------------
(***************************************************************************)
(* TeamDispatch for TLC.                                                   *)
(***************************************************************************)
EXTENDS TeamDispatch, TLC

Symmetric == Permutations(Hook)

\* A writer of another team is in hand, or has overwritten something.
Disturbed ==
  \/ \E t \in Team : team[t] # NoWriter
  \/ \E r \in Request : "overwritten" \in why[r]

\* Nothing else goes wrong beside such a writer: what it overwrites is excused
\* from most properties whatever befalls the request.
NoOtherAccident == Disturbed => faults + kills + slow = 0
=============================================================================
