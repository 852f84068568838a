CONSTANTS
  p = p
  q = q
  None = None
  Names = {p, q}
  Templates <- TwoTemplates
  Extras <- OneExtra
  Values <- TwoValues
  Steps <- TwoSteps
  Counts = {2}
  Sizes = {2}
  Patterns <- OnePattern
  Byte = 2
  MaxNodes = 6
  MaxCalls = 5
SPECIFICATION Spec
CHECK_DEADLOCK FALSE
SYMMETRY Symmetric
INVARIANTS TypeOK CachesAgree PacketsParse WrittenIsRead
