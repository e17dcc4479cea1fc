SPECIFICATION FairSpec
CONSTANTS
  Worker = Worker
  Loop = Loop
  Callers = {Worker, Loop}
  Capacity = 1
  MaxCalls = 3
  MaxNotes = 2
INVARIANTS
  TypeOK
  OwnResponse
  NothingLeft
PROPERTIES
  DaemonDeathEndsRun
  StopEndsOrJams
CHECK_DEADLOCK FALSE
