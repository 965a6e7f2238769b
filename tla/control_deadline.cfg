SPECIFICATION FairSpec
CONSTANTS
  u1 = u1 u2 = u2 w = w j = j
  Proc = {u1, w}
  Roles <- WithExtension
  Pod = {q1}
  StartKey = {s1}
  StopKey = {}
  ExtendKey = {s1, e1, e2}
  Nil = Nil
  Faults = {"refuse", "crash"}
  Lease = 2
  Duration = 2
  Extension = 1
  MaxSession = 3
  Cutoff = 1
  IdleTicks = 1
  Backoff = 1
  MaxFailures = 2
  Horizon = 1
  MaxTime = 4
CHECK_DEADLOCK FALSE
INVARIANTS DeadlineBounded
PROPERTIES HardDeadlineStops
