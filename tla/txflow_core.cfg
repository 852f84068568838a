CONSTANTS
  f1 = f1
  f2 = f2
  p1 = p1
  p2 = p2
  None = None
  Flows = {f1, f2}
  Ports = {p1}
  Pids = {2, 3}
  Pair <- OneSwap
  Queues = {0, 1, 2}
  QueuesOf <- UnevenQueues
  Cells = 2
  Loads <- HardLoads
  MaxEvents = 2
  Faults = {"pause"}
  DestroyAny = FALSE
SPECIFICATION FairSpec
INVARIANTS TypeOK LinkDownIsNoticed StartedIsBound AbortsHaveCause
PROPERTY LinkDownStops
CHECK_DEADLOCK FALSE
