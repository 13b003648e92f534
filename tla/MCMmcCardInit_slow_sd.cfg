SPECIFICATION Spec
CONSTANTS
  MaxPhases = 4
  MaxDriverType = 3
  Systems <- SdCards
INVARIANTS TakenOnAgreedBus
CHECK_DEADLOCK FALSE
