SPECIFICATION Spec
CONSTANTS
  KeyLayouts <- MCKeyLayouts
  DeltaLayouts <- MCDeltaLayouts
  SeqMod = 16
  Starts = {14}
  Reach = 7
  JitterMax = 2
  NackMaxGap = 2
  MaxFrame = 3
  MaxUnits = 1
INVARIANT WholeUnits
