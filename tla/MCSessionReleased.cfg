CONSTANTS
  MaxObjects = 2
  Backlog = 1
SPECIFICATION SessionSpec
INVARIANT Released
CHECK_DEADLOCK FALSE
