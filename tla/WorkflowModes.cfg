CONSTANTS
  Proc = {p1, p2}
  Mode = {"autopilot", "ralplan", "ralph", "team"}
  MaxCalls = 3
  MaxKills = 1
SPECIFICATION Spec
SYMMETRY Symmetric
INVARIANTS
  TypeOK
  Exclusive
  ListIsTrue
PROPERTY CancelHolds
\* After the last call nothing is left to do.
CHECK_DEADLOCK FALSE
