--------------------------- MODULE MCRunpodControl ---------------------------
(* RunpodControl with the process slots of the small instances. *)
EXTENDS RunpodControl, TLC

CONSTANTS u1, u2, w, j

\* Two browser sessions and the scheduled watchdog.
CallersAndWatchdog == u1 :> {"start", "stop"} @@ u2 :> {"start", "stop"} @@ w :> {"watchdog"}
\* A caller, a status page that polls, and the watchdog.
WithReconcile == u1 :> {"start", "stop"} @@ u2 :> {"reconcile"} @@ w :> {"watchdog"}
\* An administrator whose page polls, the watchdog, and the job routes.
WithJobs == u1 :> {"start", "reconcile", "observe"} @@ w :> {"watchdog"} @@ j :> {"job"}
\* An extension racing the watchdog.
WithExtension == u1 :> {"start", "extend", "reconcile"} @@ w :> {"watchdog"}
\* Two clicks on start.
TwoStarts == u1 :> {"start"} @@ u2 :> {"start"}

\* The two callers, the Pods and the start keys are interchangeable.
Interchangeable ==
  Permutations({u1, u2}) \cup Permutations(Pod) \cup Permutations(StartKey)
==============================================================================
