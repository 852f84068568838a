CONSTANTS
  f1 = f1
  f2 = f2
  t1 = t1
  t2 = t2
  q1 = q1
  q2 = q2
  None = None
  Flows = {f1, f2}
  Tracks = {t1, t2}
  Offsets = {1, 2}
  Pkts <- TwoPkts
  Cosqs = {q1, q2}
  NumVids = 1
  Queues = {0, 1}
  Cells = 9
  MaxFlying = 1
SPECIFICATION Spec
CHECK_DEADLOCK FALSE
SYMMETRY Symmetric
INVARIANTS TypeOK Accounted StampsAreOwn
