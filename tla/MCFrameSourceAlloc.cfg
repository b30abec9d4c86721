SPECIFICATION Spec
CONSTANTS
  Pixels = {bgra, rgba}
  FrameSizes = {small, large}
  AllocMayFail = TRUE
  MaxFrames = 3
INVARIANT PreviousFrameKept
INVARIANT ConsumerAlone
CHECK_DEADLOCK FALSE
