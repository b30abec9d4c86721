SPECIFICATION FairSpec
CONSTANTS
  MaxChildren = 3
  MaxTimers = 2
  MaxPipe = 3
INVARIANTS OwnChild StopEscalates
PROPERTY StopEndsChild
CHECK_DEADLOCK FALSE
