SPECIFICATION Spec
CONSTANTS
  MaxPhases = 4
  MaxDriverType = 3
  Systems <- TwoTypes
INVARIANTS PhaseIsSet
CHECK_DEADLOCK FALSE
