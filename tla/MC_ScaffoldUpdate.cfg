CONSTANTS
  PlatNames <- MCOnePlatform
  BoardNames = {"b1", "b2"}
  ProjectNames = {"p1"}
  BakSlots = 1
  MaxRuns = 4
  Interrupts = FALSE
INIT Init
NEXT Next
INVARIANTS BoardsListed
CHECK_DEADLOCK FALSE
