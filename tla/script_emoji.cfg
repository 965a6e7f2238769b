SPECIFICATION Spec
CONSTANTS
  Never = Never
  Delay = 1
  MaxSegments = 2
  MaxText = 10
  LongEvent = 2
  LongExpression = 4
  Pieces <- ScriptPieces
  MaxPieces = 4
  MaxNow = 3
  MaxClock = 0
  Null = Null
  Caller = {c1}
  Center = {"EU", "US", "e_u"}
  WellNamed = {"EU", "US"}
  RawOffers <- SomeOffers
  Volumes <- SomeVolumes
  PodCounts = {0, 1}
  Configs <- SomeConfigs
  Ttl = 2
  Span = 1
CHECK_DEADLOCK FALSE
INVARIANT WellFormedAccepted
