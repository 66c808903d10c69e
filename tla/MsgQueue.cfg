SPECIFICATION Spec
CONSTANTS
  Threads = {t1, t2, t3}
  Nodes = {n1, n2, n3}
  Msgs = {m1, m2}
  NULL = NULL
  MaxFaults = 1
SYMMETRY Symmetry
INVARIANTS TypeOK ListInOrder EventMatchesQueue NoFaultNoLeak
PROPERTY ImplementsFifo
CHECK_DEADLOCK FALSE
