\* The four exact kernels on a 2 x 3 frame: error accounting per the spec's totals.
CONSTANTS
  Height = 2
  Width = 3
  Levels <- MCLevels2
  Algos <- MCExactAlgos
  Scale <- MCScale2
SPECIFICATION Spec
INVARIANTS ErrorAccounting
\* dither_frame returns once the scan is over: the system really stops.
CHECK_DEADLOCK FALSE
