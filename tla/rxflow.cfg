CONSTANTS
  f1 = f1
  f2 = f2
  v1 = v1
  v2 = v2
  t1 = t1
  t2 = t2
  t3 = t3
  None = None
  Step = 2
  Pids = {2, 3, 4}
  Udfs <- AllUdfs
  Offsets = {2, 6, 10, 14}
  Tpids = {t1, t2, t3}
  Reserved = t1
  Rules = {v1, v2}
  ChunkMax = 2
  TpidMax = 1
  ClassMax = 1
  VfpSlots = 1
  Flows = {f1, f2}
  Ports = {1, 2}
  PidsOf <- Swapped
  Uses <- TwoUses
  Queues = {0, 1}
  Byte = 4
  Buffer = 1
  MaxRefs = 2
SPECIFICATION Spec
SYMMETRY Symmetric
INVARIANTS TypeOK MatchesItsBytes ClassesAgree TagsRecognised QueuesAreOwned KeepsOwnPorts PairInForce
