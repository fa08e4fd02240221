CONSTANTS
  Request = {r1}
  Message = {m1}
  Owner = {o1, o2}
  Exec = {p1, p2}
  NoEvent = NoEvent
  MaxCommands = 4
  MaxKills = 1
SPECIFICATION Spec
SYMMETRY Symmetric
INVARIANTS
  TypeOK
  AckedIsKept
  MailboxFollowsLog
  ViewFollowsLog
PROPERTY ImplementsEventLog
\* When the bound on commands is reached the system is idle.
CHECK_DEADLOCK FALSE
