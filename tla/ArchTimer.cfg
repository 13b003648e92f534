CONSTANTS
  Periods = {2, 3, 12, 24}
  DefaultPeriod = 3
  Num = 3
  Den = 2
  Wide = 64
  TvalHalf = 16
  Longest = 16
SPECIFICATION FairSpec
INVARIANTS StoppedIsQuiet ReloadFitsPeriod
PROPERTIES TickNotEarly TicksGoOn
CHECK_DEADLOCK FALSE
