SPECIFICATION FairSpec
CONSTANTS
  InBufs = {i1, i2}
  OutBufs = {o1}
  NULL = NULL
  CountMin = 1
  Legal <- PlayFlush
  FillStates = {"Executing"}
  Allow = {}
  MaxQueue = 1
  MaxPics = 2
PROPERTY CommandsComplete
PROPERTY StreamEnds
CHECK_DEADLOCK FALSE
