CONSTANTS
  Periods = {2, 3}
  DefaultPeriod = 2
  Num = 3
  Den = 2
  Wide = 64
  TvalHalf = 16
  Longest = 20
SPECIFICATION Spec
PROPERTIES MinimumPeriod
CHECK_DEADLOCK FALSE
