SPECIFICATION Spec
CONSTANTS
  u1 = u1 u2 = u2 w = w j = j
  Proc = {u1, u2}
  Roles <- TwoStarts
  Pod = {q1, q2}
  StartKey = {s1, s2}
  StopKey = {}
  ExtendKey = {}
  Nil = Nil
  Faults = {"late"}
  Lease = 2
  Duration = 2
  Extension = 1
  MaxSession = 3
  Cutoff = 1
  IdleTicks = 1
  Backoff = 1
  MaxFailures = 3
  Horizon = 2
  MaxTime = 4
CHECK_DEADLOCK FALSE
INVARIANTS OnePod
