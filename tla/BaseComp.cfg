SPECIFICATION FairCompSpec
CONSTANTS
  Threads = {c1, c2, comp, owner}
  Clients = {c1, c2}
  Comp = comp
  Owner = owner
  Nodes = {n1, n2, n3}
  Msgs = {work, fatal, exit}
  EXIT = exit
  Fatal = {fatal}
  NULL = NULL
  MaxFaults = 1
PROPERTIES CommandsFetched DeinitEnds
CHECK_DEADLOCK FALSE
