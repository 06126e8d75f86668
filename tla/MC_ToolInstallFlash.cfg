CONSTANTS
  MaxRuns = 4
  Interrupts = FALSE
INIT Init
NEXT Next
INVARIANTS ReadyMeansUsable
CHECK_DEADLOCK FALSE
