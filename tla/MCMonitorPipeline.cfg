SPECIFICATION FairPipelineSpec
CONSTANTS
  Pixels = {bgra}
  FrameSizes = {small, large}
  AllocMayFail = TRUE
  MaxFrames = 2
  Monitors = 2
  Codecs = {hevc, h264}
INVARIANT LentExclusively
INVARIANT Released
INVARIANT TargetsAlive
INVARIANT InputGranted
INVARIANT RightNode
PROPERTY NewestOrBlank
PROPERTY StopsWhenAsked
CHECK_DEADLOCK FALSE
