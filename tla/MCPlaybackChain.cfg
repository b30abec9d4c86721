CONSTANTS
  MaxPending = 2
  WedgeAfter = 2
  MaxRetries = 1
  Buffers = 1
  MaxRecovers = 1
SPECIFICATION Spec
INVARIANT InputChain
CHECK_DEADLOCK FALSE
