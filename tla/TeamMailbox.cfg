CONSTANTS
  Sender = {s1}
  Monitor = Monitor
  Nobody = Nobody
  Body = {b1}
  MaxMessages = 2
  MaxSends = 2
  MaxFaults = 1
SPECIFICATION Spec
INVARIANTS
  TypeOK
  NotifiedWasTold
  TypedOnce
  SentOnce
