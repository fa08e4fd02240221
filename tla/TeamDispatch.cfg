CONSTANTS
  Request = {r1}
  Message = {}
  Owner = {}
  Hook = {h1, h2}
  Nobody = Nobody
  Team = {t1}
  MaxUnconfirmed = 2
  MaxFaults = 1
  MaxKills = 1
  MaxSlow = 1
  MaxOther = 1
SPECIFICATION Spec
SYMMETRY Symmetric
CONSTRAINT NoOtherAccident
INVARIANTS
  TypeOK
  SaidIsTyped
  TypedOnce
  LostAfterFallback
PROPERTY FailedIsLeft
\* When every request is settled nothing is left to do.
CHECK_DEADLOCK FALSE
