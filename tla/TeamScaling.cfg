CONSTANTS
  Proc = {p1, p2}
  Nobody = Nobody
  FirstWorkers = 2
  MaxWorkers = 4
  MaxCalls = 2
  MaxFaults = 1
SPECIFICATION Spec
SYMMETRY Symmetric
CONSTRAINT WorkUntilLoss
INVARIANTS
  TypeOK
  Roster
PROPERTIES
  TasksAreKept
  SparesTheBusy
\* When the calls are used up and the workers are gone nothing is left to do.
CHECK_DEADLOCK FALSE
