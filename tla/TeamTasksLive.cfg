CONSTANTS
  t1 = t1
  t2 = t2
  Task = {t1}
  Worker = {w1}
  Monitor = monitor
  Proc = {monitor, p1}
  NoOwner = NoOwner
  Free = Free
  Orphan = Orphan
  InitDeps <- MCDeps
  DepChoices = {{}}
  Assigned = {}
  Operations = {"claim", "release", "reclaim"}
  Lease = 1
  MaxClock = 1
  MaxClaims = 2
  MaxVersion = 2
  MaxCrashes = 1
SPECIFICATION FairSpec
PROPERTY LapsedClaimEnds
\* A team whose calls are all refused, and whose clock is at its bound, is idle.
CHECK_DEADLOCK FALSE
