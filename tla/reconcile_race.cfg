SPECIFICATION Spec
CONSTANTS
  u1 = u1 u2 = u2 w = w j = j
  Proc = {u1, u2, w}
  Roles <- WithReconcile
  Pod = {q1}
  StartKey = {s1}
  StopKey = {t1}
  ExtendKey = {}
  Nil = Nil
  Faults = {}
  Lease = 2
  Duration = 2
  Extension = 1
  MaxSession = 3
  Cutoff = 1
  IdleTicks = 1
  Backoff = 1
  MaxFailures = 3
  Horizon = 1
  MaxTime = 4
CHECK_DEADLOCK FALSE
INVARIANTS ClosedMeansStopped
