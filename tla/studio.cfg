SPECIFICATION StudioSpec
CONSTANTS
  Job = {j1, j2}
  NoJob = NoJob
  Scenarios = {"normal", "unavailable", "disconnected"}
  Durations = {1}
  IdleTimes = {1}
  Longest = 2
  MaxTime = 2
  ServerJob = {s1}
  Call = {1, 2}
  MaxClicks = 2
  MaxLost = 1
CHECK_DEADLOCK FALSE
INVARIANTS StudioTypeOK TimersBelong OneAction
PROPERTIES DemoSettles PageCatchesUp DemoContractSpec
