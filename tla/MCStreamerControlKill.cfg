SPECIFICATION Spec
CONSTANTS
  MaxChildren = 2
  MaxTimers = 2
  MaxPipe = 3
PROPERTY KillsOnlyStopped
CHECK_DEADLOCK FALSE
