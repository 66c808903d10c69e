SPECIFICATION Spec
CONSTANTS
  InBufs = {i1}
  OutBufs = {o1}
  NULL = NULL
  CountMin = 1
  Legal <- Transitions
  FillStates = {"Executing"}
  Allow = {"headers", "pipeline", "refill"}
  MaxQueue = 1
  MaxPics = 1
INVARIANT TransitionPending
INVARIANT EventsInStep
CHECK_DEADLOCK FALSE
