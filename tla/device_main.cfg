SPECIFICATION Spec
CONSTANTS
  Threshold = 2
  Width = 16
  Kept <- MCKept
  main = main
  web = web
  plain = plain
  other = other
  fatal = fatal
  Threads <- MCThreads
  Main <- main
  Settings <- MCSettings
  Default <- plain
  Preempt = FALSE
  Bad <- MCBad
  MaxStops = 2
  Again = 1
  Patience = 3
  OpenDelay = 2
  WatchAfter = 1
  Unanswered = 2
  Tries = 1
  Networks <- MCNetworks
  MaxLinkChanges = 1
  MaxDeaths = 1
  MaxOpens = 1
  MaxGuests = 1
  MaxLates = 1
  HeartbeatPause = 2
  Missed = 3
  Resend = 3
  Kinds <- MCKinds
  Backlog = 2
  MaxDisturbed = 3
  a = a
  b = b
  http = http
  Ticker = main
  Members <- MCMembers
  Senders <- MCSenders
  SeqMod = 8
  HardReset = 1
  QueueSize = 2
  MaxMembers = 2
  Starts <- MCStarts
  MaxChanges = 3
  MaxFaults = 1
INVARIANTS
  TypeOK
  NothingLost
  NeverStranded
  
PROPERTIES
  SafeModeKept ResetKeepsConfig
  ComesBack
  PairingKept
  OlderNeverTaken
  GroupRests
CHECK_DEADLOCK FALSE
