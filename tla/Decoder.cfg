SPECIFICATION Spec
CONSTANTS
  InBufs = {i1, i2}
  OutBufs = {o1,o2}
  NULL = NULL
  CountMin = 2
  Legal <- PlayReconf
  FillStates = {"Executing"}
  Allow = {}
  MaxQueue = 1
  MaxPics = 2
INVARIANT TypeOK
INVARIANT NoAssertFails
INVARIANT OneOwner
INVARIANT NoneLost
INVARIANT CodecWritesQueued
INVARIANT IdleHoldsNothing
INVARIANT CodecOutlivesOutput
INVARIANT JoinWillEnd
INVARIANT ReturnAlone
CHECK_DEADLOCK FALSE
SYMMETRY Symmetry
