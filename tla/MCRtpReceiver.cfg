SPECIFICATION Spec
CONSTANTS
  KeyLayouts <- MCKeyLayouts
  DeltaLayouts <- MCDeltaLayouts
  SeqMod = 16
  Starts = {14}
  Reach = 7
  JitterMax = 2
  NackMaxGap = 2
  MaxFrame = 2
  MaxUnits = 3
INVARIANT JitterAhead
INVARIANT GapsReported
PROPERTY DecodableStream
