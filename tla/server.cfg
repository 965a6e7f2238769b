SPECIFICATION FairSpec
CONSTANTS
  Handler = {h1, h2}
  Key = {k1}
  Voice = {v1}
  Id = {1, 2}
  Requests = {"post", "poll", "look", "cancel", "retry", "start", "stop", "extend", "reset", "upload", "remove"}
  Durations = {1}
  Longest = 2
  MaxClock = 3
  MaxRequests = 2
  MaxLost = 1
  MaxTakes = 2
CHECK_DEADLOCK FALSE
INVARIANTS TypeOK CreateOnce SuccessIsReal SessionBounded VoiceFilesExist OutputsExist
PROPERTIES SessionEnds JobsSettle
