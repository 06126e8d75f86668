\* trim(seq, 0, len(seq) / fps) for 3 frames at 47 fps.
CONSTANTS
  None = None
  TargetW = 384
  TargetH = 168
  MaxLoad = 3
  Shapes <- MCOneShape
  FpsSet <- MCFps47
  BudgetSet <- MCNoTime
  TimeSet <- MCWindow
  AlgoSet <- MCFS
  ExposureSet <- MCExposure0
  DitherNames <- MCDitherNames
SPECIFICATION Spec
INVARIANTS TrimWholeWindow
\* process_video returns or raises: the system really stops.
CHECK_DEADLOCK FALSE
