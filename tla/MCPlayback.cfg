CONSTANTS
  MaxPending = 2
  WedgeAfter = 2
  MaxRetries = 1
  Buffers = 1
  MaxRecovers = 1
SPECIFICATION Spec
INVARIANTS ChainHolds
PROPERTIES PictureReturns
CHECK_DEADLOCK FALSE
