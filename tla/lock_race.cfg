SPECIFICATION Spec
CONSTANTS
  t1 = t1 t2 = t2 t3 = t3 app = app watchdog = watchdog again = again
  Txn = {t1, t2, t3}
  Process = {app, watchdog, again}
  Home <- ThreeProcesses
  None = None
  Faults = {"crash"}
  StaleAfter = 2
  Timeout = 1
  MaxTime = 5
PROPERTY Serialized
CHECK_DEADLOCK FALSE
