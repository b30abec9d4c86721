CONSTANTS
  MaxObjects = 2
  Backlog = 1
SPECIFICATION SessionSpec
INVARIANTS InStep StopsClean
PROPERTIES Reconnects ServerStops WorkerEnds
CHECK_DEADLOCK FALSE
