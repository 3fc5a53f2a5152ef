SPECIFICATION Spec
CONSTANTS
  Message <- MCMessage
  BufferMax = 12
  Base = 2
  TopicCap = 1
  DataCap = 2
  MaxCallbacks = 8
  Configs <- MCConfigs
  ChangesTo <- MCGrows
  Overlapping = FALSE
  MaxMessages = 3
  c1 = c1
  c2 = c2
  EventCommands = {c1, c2}
  UserIds = {1, 2}
  Intervals = {1, 2}
  Repeats <- MCRepeats
  Does <- MCDoes
  Given <- MCGiven
  MaxEvents = 2
  MaxGiven = 3
  UartByte = {0, 1, 2, 3}
  RingSize = 9
  ByteBase = 4
  Streams <- MCStreams
  MaxPacket = 7
  Mappings <- MCMappings
  DimmerMin = 0
  DimmerMax = 2
  PointValues = {0, 1, 2}
  UserValues = {0, 1, 60}
  MaxMoves = 3
  MaxPackets = 3
  met = met
  None = None
  Ids <- MCIds
  Conditions <- MCConditions
  Delays <- MCDelays
  Deltas <- MCDeltas
  Lines = 2
  StartupLines = 3
  MaxDelay = 2
  MaxThreads = 2
  main = main
  ChannelNos = {1, 2, 3}
  Highest = 2
  MaxOf <- MCMaxOf
  Remembered = {1, 2}
  Handlers <- MCHandlers
  ChannelCmds <- MCChannelCmds
  Setters = {main}
  Overlap = FALSE
  MaxCmds = 3
  Debounce = 2
  Short = 3
  Long = 5
  HoldRepeat = 2
  TickWidth = 8
  RepeatWidth = 8
  Lates <- MCLates
  MaxLevels = 12
  w1 = w1
  w2 = w2
  Writers <- MCWriters
  LineOf <- MCLineOf
  LogSize = 4
  Chunk = 2
  FifoSize = 2
  Hurry = FALSE
  PendFails = FALSE
  MaxLines = 3
  DayLength = 3
  WeekLength = 2
  CatchUp = 3
  ClockEvents <- MCClockEvents
  Suns <- MCSuns
  Corrections <- MCCorrections
  LastSecond = 20
  MaxCorrections = 1
INVARIANTS
  TypeOK
  TableSound
  EventsSound
  EveryPacketDelivered
  ClickCountRight
  LogSound
  ChangesCarriedOut
  OnceADay
PROPERTIES
  RingIsFifo
  KeepsLastBytes
  MappingFaithful
  ScriptsKeepTurns ScriptsGoOn
  ButtonFaithful
  LocalRests ReadersSeeAFifo
CHECK_DEADLOCK FALSE
