SPECIFICATION RingSpec
CONSTANTS
  KEYPAD_EFI_KEY_MAX_COUNT = 5
  KeyData = {k1, k2}
  NoData = NoData
INVARIANT NoUnwrittenKey
PROPERTIES ImplementsQueue
