SPECIFICATION Spec
CONSTANTS
  a = a
  b = b
  alice = alice
  bob = bob
  Rumors = {a, b}
  Sender <- Senders
  Self = Self
  Allowed = {}
  Resets = {a}
  Nobody = Nobody
  Window = 1
  Margin = 2
  SeenTtl = 3
  Days = 6
  MaxStops = 1
  MaxFaults = 1
INVARIANTS
  TypeOK
  NothingMissed
  ReactionsKept
  HandledOnce
CHECK_DEADLOCK FALSE
