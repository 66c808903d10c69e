SPECIFICATION FairSpec
CONSTANTS
  f1 = f1
  f2 = f2
  p1 = p1
  p2 = p2
  Files = {f1, f2}
  NoFile = NoFile
  NCores = 2
  Formats = {"a", "b"}
  Layouts <- MCLayouts
  Threads <- MCThreads
  Processes = {p1, p2}
  Process <- MCProcess
  MultiCore = {f1}
  Mortal = {p1}
  Allow = {}
  MaxPics = 2
INVARIANT SemExact RunsForOwner ReadyWhenDone RegsOfCore
CHECK_DEADLOCK FALSE
PROPERTY ReserveServed ComesToRest
