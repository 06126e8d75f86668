\* The tone stages over every option, on a two-pixel frame.
CONSTANTS
  None = None
  Pixels <- MCPixels
  Samples <- MCSamples
  MinSet <- MCBounds
  MaxSet <- MCBounds
  ExposureSet <- MCExposures
  AlgoSet <- MCAlgos
SPECIFICATION Spec
INVARIANTS TypeOK ToneOrder BinaryFixed OrderedCoverage
\* The tone stages end at dither_frame: the system really stops.
CHECK_DEADLOCK FALSE
