SPECIFICATION GroupSpec
CONSTANTS
  a = a
  b = b
  http = http
  Ticker = main
  Members <- MCMembers
  Senders <- MCSenders
  SeqMod = 8
  HardReset = 1
  QueueSize = 2
  MaxMembers = 2
  Starts <- FewSent
  MaxChanges = 3
  MaxFaults = 0
PROPERTY OlderIgnored
CHECK_DEADLOCK FALSE
