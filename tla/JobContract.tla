----------------------------- MODULE JobContract -----------------------------
(* What a job queue of the studio promises, whatever runs behind it: the      *)
(* statuses of lib/types.ts:7 and worker/app/models.py:14, one active job at  *)
(* a time, and which status may follow which.  The GPU worker (WorkerJobs)    *)
(* and the browser's demo service (DemoStudio) are shown to implement it.     *)
EXTENDS Naturals

CONSTANTS Job,         \* job identifiers
          Retryable,   \* statuses a segment retry accepts
          Retried,     \* the status a segment retry sets
          Resettable   \* whether the whole list may be dropped

VARIABLE status

JobStatus == {"none", "queued", "running", "succeeded", "failed", "cancelled"}
Active(j) == status[j] \in {"queued", "running"}
Idle == \A j \in Job : ~ Active(j)
Becomes(j, new) == status' = [status EXCEPT ![j] = new]

Submit(j) == status[j] = "none" /\ Idle /\ Becomes(j, "queued")
Begin(j) == status[j] = "queued" /\ Becomes(j, "running")
Succeed(j) == status[j] = "running" /\ Becomes(j, "succeeded")
Fail(j) == Active(j) /\ Becomes(j, "failed")
Cancel(j) == Active(j) /\ Becomes(j, "cancelled")
Retry(j) == status[j] \in Retryable /\ Idle /\ Becomes(j, Retried)
Reset == Resettable /\ status' = [j \in Job |-> "none"]

Init == status = [j \in Job |-> "none"]
Next == \/ \E j \in Job : \/ Submit(j) \/ Begin(j) \/ Succeed(j)
                          \/ Fail(j) \/ Cancel(j) \/ Retry(j)
        \/ Reset
Spec == Init /\ [][Next]_status

\* Never two active jobs: the GPU serves one job at a time.
OneActive == \A i, j \in Job : Active(i) /\ Active(j) => i = j
==============================================================================
