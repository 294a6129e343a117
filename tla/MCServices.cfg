SPECIFICATION MCSpec
CONSTANTS
  Records = 3
  MaxSession = 6
  MaxBoots = 5
  ClockMod = 24
  DebounceMs = 3
  PeriodMs = 3
  MaxStall = 5
  Period = 2
  MaxClock = 9
  WireMax = 7
  ValidityUnit = 2
  MaxValidity = 2
  WireLines = {1}
  DelayMs = {0, 2}
  Validities = {2}
  MaxSession16 = 2
  MaxSimCommands = 2
  MaxSimRx = 1
  MaxStarts = 2
INVARIANTS
  IdentityIsDurable
  GridIsKept
  HandshakeIsTrue
  DeadlineIsWatched
  StopIsComplete
PROPERTIES
  IdentityChanges
  ReportsAreTrue
  StopConverges
  OutputFallsBack
  DaemonComesDown
CHECK_DEADLOCK FALSE
