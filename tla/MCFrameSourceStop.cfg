SPECIFICATION Spec
CONSTANTS
  Pixels = {bgra, rgba}
  FrameSizes = {small, large}
  AllocMayFail = FALSE
  MaxFrames = 3
INVARIANT ValidUntilNextCall
INVARIANT ScalerFits
CHECK_DEADLOCK FALSE
