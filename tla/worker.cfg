SPECIFICATION FairSpec
CONSTANTS
  script = script plain = plain doomed = doomed
  Job = {script, plain, doomed}
  SegCount <- SegmentCounts
  Scenario <- Scenarios
  Modes = {"simulation", "voxcpm2"}
  Faults = {"model", "crash"}
  MaxRuns = 2
  MaxRestarts = 1
CHECK_DEADLOCK FALSE
INVARIANTS ThreadsMatchJobs AudioIsCurrent SegmentsMatchFiles
PROPERTIES CancelIsFinal JobsEnd JobContractSpec
