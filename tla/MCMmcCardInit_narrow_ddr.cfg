SPECIFICATION Spec
CONSTANTS
  MaxPhases = 4
  MaxDriverType = 3
  Systems <- DdrCards
INVARIANTS TakenOnAgreedBus
CHECK_DEADLOCK FALSE
