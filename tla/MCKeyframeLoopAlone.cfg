CONSTANT MaxFlight = 2
SPECIFICATION LoopSpec
PROPERTY RequestsSuffice
CHECK_DEADLOCK FALSE
