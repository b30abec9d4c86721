SPECIFICATION FairSpec
CONSTANTS
  MaxFrames = 2
  MaxRepairs = 2
INVARIANT NoForgottenWork
INVARIANT SocketOutlivesThreads
PROPERTY FramesAreTaken
CHECK_DEADLOCK FALSE
