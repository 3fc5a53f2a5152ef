SPECIFICATION PublishSpec
CONSTANTS
  MaxQueue = 3
  AtOnce = 2
  PerSecond = 1
  QueueIndex = 1
  LightIndex = 2
  LastIndex = 5
  Preempt = TRUE
  NullIgnored = FALSE
  MaxCommands = 5
INVARIANT CounterMatches
