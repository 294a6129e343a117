SPECIFICATION MCSpec
CONSTANTS
  MaxPosition = 3
  MaxVelocity = 2
  HomingDuration = 2
  JogDeadman = 2
  MaxJog = 3
  TrackingLimit = 0
  TrackingCycles = 2
  MaxElapsed = 2
  Generations = 2
  MinHeartbeats = 1
  Snapshots <- MCSnapshots
  Window = 2
  Interval = 1
  Timeout = 3
  RunIds = {i1, i2}
  MaxRuns = 2
  RuntimeViews = {"Idle", "Active"}
  MaxReplies = 3
INVARIANTS
  MotionIsAuthorised
  JogIsHeldByPanel
  PassIsEarned
  CancelDecides
  PageIsOfTheSession
PROPERTIES
  MotionEnds
  EvidenceIsKept
  TestComesBack
