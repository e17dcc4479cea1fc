SPECIFICATION Spec
CONSTANTS
  A = A
  B = B
  a1 = a1
  b1 = b1
  reset = reset
  Rooms = {A, B}
  NoRoom = NoRoom
  Prompts = {a1, b1}
  Resets = {reset}
  RoomOf <- RoomOfMessage
  MaxEvents = 2
  MaxCrashes = 1
INVARIANTS
  TypeOK
  NeverBehind
  LeftRoomFreed
CHECK_DEADLOCK FALSE
