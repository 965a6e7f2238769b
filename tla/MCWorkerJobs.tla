---------------------------- MODULE MCWorkerJobs -----------------------------
(* WorkerJobs with a job of two segments, a plain job, and a job that asks    *)
(* for the failure scenario (only the simulation accepts it).                 *)
EXTENDS WorkerJobs, TLC

CONSTANTS script, plain, doomed

SegmentCounts == script :> 2 @@ plain :> 0 @@ doomed :> 2
Scenarios == script :> "normal" @@ plain :> "normal" @@ doomed :> "failure"
==============================================================================
