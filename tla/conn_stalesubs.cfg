SPECIFICATION ConnSpec
CONSTANTS
  a = a
  b = b
  Topics <- MCTopics
  NoSubs = NoSubs
  LoopsMax = 3
  ReconnectDelay = 2
  DnsPatience = 2
  MemErrorMax = 2
  FastConnect = FALSE
  ErrorsGoOn = FALSE
  MutexBusy = FALSE
  MaxFaults = 3
INVARIANT NewSubscriptionReconnects
