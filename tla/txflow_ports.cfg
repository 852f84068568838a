CONSTANTS
  f1 = f1
  f2 = f2
  p1 = p1
  p2 = p2
  None = None
  Flows = {f1, f2}
  Ports = {p1, p2}
  Pids = {2, 3, 4, 5}
  Pair <- TwoPorts
  Queues = {0}
  QueuesOf <- OneQueue
  Cells = 2
  Loads <- SomeLoads
  MaxEvents = 1
  Faults = {}
  DestroyAny = FALSE
SPECIFICATION Spec
SYMMETRY Symmetric
INVARIANTS PairInForce Covered
PROPERTIES ReconfiguredAfterFlows ImplementsService
