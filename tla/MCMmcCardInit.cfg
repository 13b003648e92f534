SPECIFICATION Spec
CONSTANTS
  MaxPhases = 5
  MaxDriverType = 3
  Systems <- MCSystems
INVARIANTS DataOnAgreedBus LongestRunChosen
PROPERTIES InitEnds
CHECK_DEADLOCK FALSE
