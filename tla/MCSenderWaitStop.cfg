SPECIFICATION FairSpec
CONSTANTS
  MaxFrames = 1
  MaxRepairs = 1
PROPERTY StopReturns
CHECK_DEADLOCK FALSE
