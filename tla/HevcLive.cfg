SPECIFICATION FairSpec
CONSTANTS
  Ids = {0, 1, 2, 3}
  DpbSize = 2
  MaxReorder = 0
  MaxRefs = 0
  Cores = {c1}
  Modes = {TRUE, FALSE}
  Allow = {}
  MaxSem = 2
  MaxPics = 3
PROPERTY AllocServed
PROPERTY EosDelivered
PROPERTY AbortEnds
CHECK_DEADLOCK FALSE
