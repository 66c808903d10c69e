SPECIFICATION Spec
CONSTANTS
  NIn = 3
  NOut = 1
  MaxGop = 2
  GopSizes = {1}
  Legal <- EncodeOnly
  Allow = {}
  MaxFrames = 3
  MaxBroken = 0
INVARIANT EosAfterTarget
CHECK_DEADLOCK FALSE
