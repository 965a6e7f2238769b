SPECIFICATION Spec
CONSTANTS
  u1 = u1 u2 = u2 w = w j = j
  Proc = {u1, w, j}
  Roles <- WithJobs
  Pod = {q1}
  StartKey = {s1}
  StopKey = {}
  ExtendKey = {}
  Nil = Nil
  Faults = {"pod"}
  Lease = 2
  Duration = 4
  Extension = 1
  MaxSession = 4
  Cutoff = 1
  IdleTicks = 2
  Backoff = 1
  MaxFailures = 3
  Horizon = 0
  MaxTime = 3
CHECK_DEADLOCK FALSE
INVARIANTS IdleStopAfterQuiet
