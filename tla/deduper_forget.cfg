SPECIFICATION DedupSpec
CONSTANTS
  Slots = 1
  v1 = v1
  v2 = v2
  http = http
  None = None
  Main = Main
  Http = {}
  Value <- MCValue
  MinInterval = 1
  Expire = 3
  Lossy = TRUE
  MallocFails = FALSE

INVARIANT AcceptedIsDeliveredOrKept
