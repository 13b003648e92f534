SPECIFICATION Spec
CONSTANTS
  MaxPhases = 4
  MaxDriverType = 3
  Systems <- TwoTypes
INVARIANTS ChosenPhaseWorked
CHECK_DEADLOCK FALSE
