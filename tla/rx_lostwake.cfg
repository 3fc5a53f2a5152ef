SPECIFICATION RxTaskSpec
CONSTANTS
  Boards <- MCOneShot
  MaxMessage = 4
PROPERTY EventuallyHandled
CHECK_DEADLOCK FALSE
