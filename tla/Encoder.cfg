SPECIFICATION FairSpec
CONSTANTS
  NIn = 5
  NOut = 1
  MaxGop = 4
  GopSizes = {1, 2}
  Legal <- Commanding
  Allow = {"error"}
  MaxFrames = 5
  MaxBroken = 2
INVARIANTS BuffersOwned EventsInStep FramesKept
PROPERTIES StreamEnds
CHECK_DEADLOCK FALSE
