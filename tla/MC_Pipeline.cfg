\* process_video over every combination of the options on up to 4 frames.
CONSTANTS
  None = None
  TargetW = 384
  TargetH = 168
  MaxLoad = 4
  Shapes <- MCShapes
  FpsSet <- MCFps
  BudgetSet <- MCBudgets
  TimeSet <- MCTimes
  AlgoSet <- MCAlgos
  ExposureSet <- MCExposures
  DitherNames <- MCDitherNames
SPECIFICATION FairSpec
\* process_video returns or raises: the system really stops.
CHECK_DEADLOCK FALSE
INVARIANTS TypeOK FramesInOrder CutKeepsFrame CropFits AllOrNothing
  ZeroDivisionExplained
PROPERTIES BudgetExact Termination EndToEnd ImplementsProcessVideo
