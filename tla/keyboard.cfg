CONSTANTS
  Keys <- SomeKeys
  MaxEvents = 2
  QueueSize = 1
  LostAfter = 2
  Faults <- AllFaults
  MaxFailures = 2
  MaxTaps = 2
  MaxShifts = 2

SPECIFICATION FairSpec
INVARIANTS
  RightKey
  TypedInOrder
PROPERTIES
  NothingVanishes
  KeysArrive
  StatusSettles

CHECK_DEADLOCK FALSE
