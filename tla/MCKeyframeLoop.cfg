CONSTANT MaxFlight = 2
SPECIFICATION LoopSpec
PROPERTIES Undamaged RequestsRepair PictureComes
CHECK_DEADLOCK FALSE
