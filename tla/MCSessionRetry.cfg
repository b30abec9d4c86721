CONSTANTS
  MaxObjects = 2
  Backlog = 1
SPECIFICATION SessionSpec
PROPERTY RetrySucceeds
CHECK_DEADLOCK FALSE
