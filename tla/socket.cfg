SPECIFICATION FairSpec
CONSTANTS
  a = a
  b = b
  Clients = {a, b}
  Worker = Worker
  Nobody = Nobody
  MaxKept = 1
  Unavailable = 0
  MaxMessages = 2
  MaxFaults = 2
INVARIANTS
  TypeOK
  OneOrder
  QuoteTrueAtFirst
PROPERTY StopEnds
CHECK_DEADLOCK FALSE
