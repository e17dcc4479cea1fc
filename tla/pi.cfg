SPECIFICATION AbortSpec
CONSTANTS
  u1 = u1
  u2 = u2
  t1 = t1
  s1 = s1
  r1 = r1
  c1 = c1
  Prompts = {u1}
  Triggers = {}
  Reminders = {}
  Stops = {s1}
  Restarts = {r1}
  Compacts = {}
  Ticker = Ticker
  Reaper = Reaper
  Loop = Loop
  NoCaller = NoCaller
  SequentialBackend = FALSE
  Budget <- PiBudget
PROPERTIES CancelReleases ShutdownStops
INVARIANT NoLeak
