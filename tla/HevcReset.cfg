SPECIFICATION Spec
CONSTANTS
  Ids = {0, 1, 2, 3}
  DpbSize = 2
  MaxReorder = 0
  MaxRefs = 1
  Cores = {c1}
  Modes = {FALSE}
  Allow = {"reinit"}
  MaxSem = 3
  MaxPics = 3
INVARIANT ResetUnused
CHECK_DEADLOCK FALSE
