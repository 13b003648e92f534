SPECIFICATION Spec
CONSTANTS
  MaxPhases = 4
  MaxDriverType = 3
  Systems <- TwoTypes
INVARIANTS ChangeIsKnown
CHECK_DEADLOCK FALSE
