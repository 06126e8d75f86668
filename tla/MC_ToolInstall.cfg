CONSTANTS
  MaxRuns = 4
  Interrupts = TRUE
INIT Init
NEXT Next
INVARIANTS TypeOK UpdateRepairs
CHECK_DEADLOCK FALSE
