-------------------------- MODULE MCControlFileLock --------------------------
(* ControlFileLock with the application, the scheduled watchdog and a second  *)
(* watchdog run.                                                              *)
EXTENDS ControlFileLock, TLC

CONSTANTS t1, t2, t3, app, watchdog, again

\* Two requests of the application and a watchdog run.
TwoProcesses == t1 :> app @@ t2 :> app @@ t3 :> watchdog
\* The application, a watchdog run and the next one.
ThreeProcesses == t1 :> app @@ t2 :> watchdog @@ t3 :> again
==============================================================================
