CONSTANTS
  Task = {t1, t2}
  Worker = {w1}
  Monitor = {m1}
  MaxCrashes = 1
SPECIFICATION FairSpec
INVARIANT Sound
PROPERTIES
  CaughtUp
  Announced
