CONSTANTS
  Actions = {"DOWN", "MOVE", "UP", "CANCEL", "SCROLL", "TEXT", "TOGGLE"}
  LastEvent = 3
  LastSession = 2
  QueueCap = 2
  ErrorLimit = 1
SPECIFICATION Spec
INVARIANTS PressesAimed Mirrored WaitsRightly
PROPERTIES InOrder
CHECK_DEADLOCK FALSE
