SPECIFICATION FairSpec
CONSTANTS
  MaxChildren = 1
  MaxTimers = 2
  MaxPipe = 3
PROPERTY ReadsReturn
CHECK_DEADLOCK FALSE
