SPECIFICATION Spec
CONSTANTS
  u1 = u1
  u2 = u2
  t1 = t1
  s1 = s1
  r1 = r1
  c1 = c1
  Prompts = {u1}
  Triggers = {t1}
  Reminders = {}
  Stops = {}
  Restarts = {}
  Compacts = {}
  Ticker = Ticker
  Reaper = Reaper
  Loop = Loop
  NoCaller = NoCaller
  SequentialBackend = FALSE
  Budget <- NoFaults
PROPERTY PreemptedTriggerKept
