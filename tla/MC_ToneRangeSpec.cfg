\* Does filter_color_range compute the spec's clamped linear map?
CONSTANTS
  None = None
  Pixels <- MCPixels
  Samples <- MCSamples
  MinSet <- MCBounds
  MaxSet <- MCBounds
  ExposureSet <- MCExposures
  AlgoSet <- MCAlgos
SPECIFICATION Spec
INVARIANTS RangeFilterSpec
\* The tone stages end at dither_frame: the system really stops.
CHECK_DEADLOCK FALSE
