SPECIFICATION FairSpec
CONSTANTS
  Calls = 2
  Capacity = 4
  MaxTries = 3
CHECK_DEADLOCK FALSE
INVARIANTS
  TypeOK
  OwnAnswer
  TurnOver
PROPERTY CallReturns
