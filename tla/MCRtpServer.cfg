SPECIFICATION FairSpec
CONSTANTS
  kMaxQueuedPackets = 3
  kMaxRepairs = 1
  kRepairBurst = 1
  Rates = {1, 2}
  Sizes = {1, 2, 4}
  MaxUnits = 2
  MaxSessions = 2
INVARIANT QueueAccounting
INVARIANT RecoveryArmed
INVARIANT PacerMatches
PROPERTY SendsStream
PROPERTY RepairsRepeat
PROPERTY VideoNotStarved
CHECK_DEADLOCK FALSE
