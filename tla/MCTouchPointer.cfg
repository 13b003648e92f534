CONSTANTS
  Devices <- MCDevices
  F12 = 18
  TOUCH_RMI_MAX_FUNCTIONS = 3
  TOUCH_RMI_PAGE_INFO_ADDRESS = 25
  TOUCH_RMI_PAGE_INFO_BYTES = 6
  MaxReadings = 4
SPECIFICATION FairSpec
INVARIANTS OneReadingAtCallback TouchKept
PROPERTIES ProbeFindsF12 ProbeEnds NewerEachTime
CHECK_DEADLOCK FALSE
