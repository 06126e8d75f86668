CONSTANTS
  PlatNames <- MCCollide
  BoardNames = {"b1", "b2"}
  ProjectNames = {"p1"}
  BakSlots = 1
  MaxRuns = 3
  Interrupts = FALSE
INIT Init
NEXT Next
INVARIANTS PlatformListedOnce
CHECK_DEADLOCK FALSE
