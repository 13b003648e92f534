SPECIFICATION Spec
CONSTANTS
  LastBlock = 5
  Starts = {0, 1, 5, 6}
  Sizes = {0, 1, 4, 5}
  MaxTrans = 3
  LineBlocks = 2
  CountWidth = 4
  slot = 1
  ProtectedLast = 0
  LineRetries = 2
  CmdRetries = 2
  TransRetries = 2
INVARIANTS TransfersWhereAsked SuccessOfManyBlocks DmaWithinCommand CleanStart
PROPERTIES CallsReturn
CHECK_DEADLOCK FALSE
