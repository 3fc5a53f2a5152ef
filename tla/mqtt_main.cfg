SPECIFICATION Spec
CONSTANTS
  Slots = 2
  v1 = v1
  v2 = v2
  http = http
  None = None
  Main = Main
  Http = {}
  Value <- MCValue
  MinInterval = 1
  Expire = 3
  Lossy = FALSE
  MallocFails = TRUE
  MaxQueue = 3
  AtOnce = 2
  PerSecond = 1
  QueueIndex = 1
  LightIndex = 2
  LastIndex = 5
  Preempt = FALSE
  NullIgnored = FALSE
  MaxCommands = 5
  a = a
  b = b
  Topics <- MCTopics
  NoSubs = NoSubs
  LoopsMax = 3
  ReconnectDelay = 2
  DnsPatience = 2
  MemErrorMax = 2
  FastConnect = FALSE
  ErrorsGoOn = FALSE
  MutexBusy = TRUE
  MaxFaults = 3
  Boards <- MCBoards
  MaxMessage = 3
INVARIANTS
  AcceptedIsDeliveredOrKept NoFasterThanInterval
  PublishTypeOK CounterMatches QueueBounded
  StaleSubscriptionsReconnect
  HandledInOrder
  TypeOK
PROPERTIES
  CatchesUpInTime
  QueueGoesOn
  ConnectionRecovers NoStaleConnection
  MessagesReachCallbacks
CHECK_DEADLOCK FALSE
