\* All five diffusion kernels on a 3 x 3 frame: binary output, forward-only.
CONSTANTS
  Height = 3
  Width = 3
  Levels <- MCLevels3
  Algos <- MCAllAlgos
  Scale <- MCScale3
SPECIFICATION Spec
INVARIANTS TypeOK OutputBinary
PROPERTIES ForwardOnly ImplementsDitherSpec
\* dither_frame returns once the scan is over: the system really stops.
CHECK_DEADLOCK FALSE
