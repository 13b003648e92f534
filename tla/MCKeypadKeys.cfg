SPECIFICATION KeysSpec
CONSTANTS
  KeyList <- MCKeyList
  Power = "Power"
  VolumeUp = "VolumeUp"
  VolumeDown = "VolumeDown"
  GpioKeys = {"VolumeUp"}
  LongTime = 3
  RepeatTime = 2
  ReleaseTime = 1
  Deltas = {0, 1}
  TimeCap = 3
INVARIANTS PowerReportedOnce RepeatsAreSpaced
PROPERTIES NoSilentHold
