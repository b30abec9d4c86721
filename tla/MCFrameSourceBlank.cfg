SPECIFICATION Spec
CONSTANTS
  Pixels = {bgra, rgba}
  FrameSizes = {small, large}
  AllocMayFail = FALSE
  MaxFrames = 3
PROPERTY OnlyCaptured
CHECK_DEADLOCK FALSE
