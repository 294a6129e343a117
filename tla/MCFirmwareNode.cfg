SPECIFICATION FwSpec
CONSTANTS
  Frames <- MCFrames
  Noise = Noise
  SequenceNumbers = {1, 2}
  Validities = {1}
  WireMax = 3
  ValidityUnit = 1
  MaxValidity = 2
  WireLines = {0}
  ClockMod = 6
  RxCapacity = 1
  WatchdogPeriod = 1
  MaxSession = 2
INVARIANTS
  FwAuthority
  PinsOutliveLeaseBriefly
PROPERTIES
  LostFrameIsFatal
