SPECIFICATION FairSpec
CONSTANTS
  e1 = e1
  e2 = e2
  r1 = r1
  r2 = r2
  Events = {e1, e2}
  Relays = {r1, r2}
  NoRelay = NoRelay
  Targets <- TargetsOfTwo
  RejectThreshold = 1
  BreakerThreshold = 2
  BaseCooldown = 1
  MaxCooldown = 1
  TtlDelivered = 0
  TtlUndelivered = 0
  MaxFaults = 1
INVARIANTS
  TypeOK
  WorkFresh
  ProbesResolved
  NoSleepOnWork
PROPERTIES
  Delivers
  RelayServed
