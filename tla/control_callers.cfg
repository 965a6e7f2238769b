SPECIFICATION Spec
CONSTANTS
  u1 = u1 u2 = u2 w = w j = j
  Proc = {u1, u2, w}
  Roles <- CallersAndWatchdog
  Pod = {q1, q2}
  StartKey = {s1, s2}
  StopKey = {t1}
  ExtendKey = {}
  Nil = Nil
  Faults = {"crash", "lost"}
  Lease = 2
  Duration = 2
  Extension = 1
  MaxSession = 3
  Cutoff = 1
  IdleTicks = 1
  Backoff = 1
  MaxFailures = 2
  Horizon = 1
  MaxTime = 3
CHECK_DEADLOCK FALSE
INVARIANTS TypeOK LeaseExclusion CreateOnce OnePod UnwatchedPodIsRecorded RetryDiscipline
SYMMETRY Interchangeable
