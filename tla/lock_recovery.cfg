SPECIFICATION FairSpec
CONSTANTS
  t1 = t1 t2 = t2 t3 = t3 app = app watchdog = watchdog again = again
  Txn = {t1, t2, t3}
  Process = {app, watchdog}
  Home <- TwoProcesses
  None = None
  Faults = {"crash", "write"}
  StaleAfter = 2
  Timeout = 1
  MaxTime = 5
PROPERTIES Serialized MutateSettles
CHECK_DEADLOCK FALSE
