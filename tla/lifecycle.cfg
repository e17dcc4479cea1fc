SPECIFICATION LifecycleSpec
CONSTANTS
  u1 = u1
  u2 = u2
  t1 = t1
  Prompts = {u1, u2}
  Triggers = {t1}
  Reminders = {t1}
  Stops = {}
  Restarts = {}
  Compacts = {}
  Ticker = Ticker
  Reaper = Reaper
  Loop = Loop
  NoCaller = NoCaller
  SequentialBackend = FALSE
  MaxFaults = 1
  Budget <- LifecycleBudget
INVARIANTS
  OrderUntilShutdown
PROPERTIES
  Keeps
SYMMETRY PromptSymmetry
CHECK_DEADLOCK FALSE
