CONSTANTS
  f1 = f1
  f2 = f2
  p1 = p1
  p2 = p2
  None = None
  Flows = {f1, f2}
  Ports = {p1}
  Pids = {2, 3}
  Pair <- OneSwap
  Queues = {0, 1}
  QueuesOf <- OneQueue
  Cells = 2
  Loads <- MixedLoads
  MaxEvents = 0
  Faults = {"setup", "insert", "drop", "counter", "reconfigure"}
  DestroyAny = TRUE
SPECIFICATION Spec
SYMMETRY Symmetric
INVARIANTS QueuesOwned CellsCounted
CHECK_DEADLOCK FALSE
