SPECIFICATION FairSpec
CONSTANTS
  FifoWords = 7
  HdrWords = 2
  MaxLen = 3
  Modulus = 64
  MaxPackets = 4
  Streaming = FALSE
INVARIANTS HeaderIntact
PROPERTIES CallReturns ImplementsPipe
CHECK_DEADLOCK FALSE
