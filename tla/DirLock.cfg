CONSTANTS
  Proc = {p1, p2, p3}
  NoToken = NoToken
  Free = Free
  Orphan = Orphan
  Stale = 1
  Patience = 0
  MaxDeaths = 1
  Prompt = TRUE
SPECIFICATION DirFairSpec
INVARIANTS
  DirTypeOK
  ExclusiveUnlessRobbed
PROPERTIES
  CallsEnd
  OrphanRecovered
