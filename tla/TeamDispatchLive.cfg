CONSTANTS
  Request = {r1}
  Message = {}
  Owner = {}
  Hook = {h1}
  Nobody = Nobody
  Team = {}
  MaxUnconfirmed = 2
  MaxFaults = 1
  MaxKills = 2
  MaxSlow = 1
  MaxOther = 1
SPECIFICATION FairSpec
PROPERTY Settled
\* When every request is settled nothing is left to do.
CHECK_DEADLOCK FALSE
