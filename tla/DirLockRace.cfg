CONSTANTS
  Proc = {p1, p2, p3}
  NoToken = NoToken
  Free = Free
  Orphan = Orphan
  Stale = 2
  Patience = 1
  MaxDeaths = 1
  Prompt = TRUE
SPECIFICATION DirSpec
SYMMETRY Symmetric
INVARIANT MutualExclusion
