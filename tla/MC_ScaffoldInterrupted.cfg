CONSTANTS
  PlatNames <- MCOnePlatform
  BoardNames = {"b1", "b2"}
  ProjectNames = {"p1"}
  BakSlots = 1
  MaxRuns = 4
  Interrupts = TRUE
INIT Init
NEXT Next
INVARIANTS BoardListedAtMostOnce
CHECK_DEADLOCK FALSE
