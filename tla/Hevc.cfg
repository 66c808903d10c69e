SPECIFICATION Spec
CONSTANTS
  Ids = {0, 1, 2, 3}
  DpbSize = 2
  MaxReorder = 1
  MaxRefs = 1
  Cores = {c1, c2}
  Modes = {TRUE, FALSE}
  Allow = {"cra"}
  MaxSem = 2
  MaxPics = 3
SYMMETRY CoreSymmetry
INVARIANT NoAssertFails
INVARIANT FreeCount
INVARIANT CountsExact
INVARIANT DecodesIntoUnused
INVARIANT OutputOnce
INVARIANT WakeupNotLost
INVARIANT FullnessCovers
CHECK_DEADLOCK FALSE
