SPECIFICATION Spec
CONSTANTS
  SN <- TwoPackets
  MaxStamp = 7
  MaxWait = 1
  Rounds = 2
  Stamps <- NearTurn
  Delays <- OneOrTwo
  Jitter = 1
  CanThrow = TRUE
INVARIANTS
  TypeOK
  RoundsDontMix
PROPERTY
  LatencyIsMean
