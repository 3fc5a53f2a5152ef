SPECIFICATION CallbacksSpec
CONSTANTS
  MaxCallbacks = 8
  Configs <- MCConfigs
  ChangesTo <- MCAny
  Overlapping = FALSE
  MaxMessages = 4
INVARIANT NullNeverRead
CHECK_DEADLOCK FALSE
