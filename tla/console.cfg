CONSTANTS
  None = None
  TxNames = {1, 2}
  RxNames = {1}
  TrxNames = {1}
  PortNames = {1, 2}
  MaxWord = 9
  MaxPkts = 1
  MaxTotal = 3
  MaxFails = 1
SPECIFICATION Spec
CONSTRAINT Bounded
INVARIANTS TypeOK CountsAddUp 
