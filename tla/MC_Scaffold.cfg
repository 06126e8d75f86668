CONSTANTS
  PlatNames <- MCPlatforms
  BoardNames = {"b1", "b2"}
  ProjectNames = {"p1"}
  BakSlots = 2
  MaxRuns = 5
  Interrupts = TRUE
INIT Init
NEXT Next
INVARIANTS TypeOK KconfigWellFormed
PROPERTIES BackupsKeepVersions
CHECK_DEADLOCK FALSE
