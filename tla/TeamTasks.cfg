CONSTANTS
  t1 = t1
  t2 = t2
  Task = {t1}
  Worker = {w1, w2}
  Monitor = monitor
  Proc = {monitor, p1}
  NoOwner = NoOwner
  Free = Free
  Orphan = Orphan
  InitDeps <- MCDeps
  DepChoices <- MCDepChoices
  Assigned = {t1}
  Operations = {"claim", "transition", "release", "reclaim", "update"}
  Lease = 1
  MaxClock = 2
  MaxClaims = 2
  MaxVersion = 2
  MaxCrashes = 1
SPECIFICATION Spec
VIEW LiveState
SYMMETRY Symmetric
INVARIANT Sound
PROPERTIES
  VersionsCountWrites
  FinishedForGood
  ClaimEndsByHolderOrLease
  UsesClaimLocks
  ImplementsLifecycle
\* A team whose calls are all refused, and whose clock is at its bound, is idle.
CHECK_DEADLOCK FALSE
