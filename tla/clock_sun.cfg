SPECIFICATION TimedSpec
CONSTANTS
  DayLength = 3
  WeekLength = 2
  CatchUp = 3
  ClockEvents <- Weekly
  Suns <- MCSuns
  Corrections = {2}
  LastSecond = 20
  MaxCorrections = 0
INVARIANT SunEveryWeek
CHECK_DEADLOCK FALSE
