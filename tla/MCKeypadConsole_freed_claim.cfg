SPECIFICATION Spec
CONSTANTS
  KEYPAD_EFI_KEY_MAX_COUNT = 3
  KeyData <- MCKeyData
  NoData = NoData
  NullCode = "null"
  Inputs <- MCInputs
  Registrable <- MCCovering
  Fns = {f}
  Clients = {c, d}
  MaxPresses = 2
  MaxHandles = 2
  MaxClaims = 2
CHECK_DEADLOCK FALSE
INVARIANTS ClaimStaysAlive
