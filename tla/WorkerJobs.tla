----------------------------- MODULE WorkerJobs ------------------------------
(* The GPU worker: the job store (worker/app/storage.py), the request         *)
(* handlers and the generation threads (worker/app/main.py) and the model     *)
(* runtime with its generation lock (worker/app/inference.py).                *)
(* Every operation of the store holds the store's lock and is one step; a     *)
(* thread is a sequence of such steps, and requests, cancellations and a      *)
(* crash of the process come between any two of them.                         *)
EXTENDS Integers

CONSTANTS Job,          \* job identifiers
          SegCount,     \* Job -> number of expression segments (0: a plain job)
          Scenario,     \* Job -> "normal" | "failure" (simulation only)
          Modes,        \* the worker modes explored: "simulation", "voxcpm2"
          Faults,       \* a subset of {"model", "crash"}: the model or the
                        \* audio work fails, the process dies
          MaxRuns,      \* bound on the threads started for one job
          MaxRestarts   \* bound on the restarts of the process

ASSUME WorkerAssumption ==
  /\ SegCount \in [Job -> Nat]
  /\ MaxRuns \in Nat /\ MaxRestarts \in Nat

VARIABLES mode,       \* settings.mode
          runtime,    \* RuntimeStatus.state
          status,     \* status of each job; "none" before it is created
          segment,    \* status of each segment of each job
          outPath,    \* whether job.output_path is set
          part,       \* run that wrote each segment's WAV (0: no file)
          output,     \* the runs whose audio is in <job>.wav (0: no file)
          runs,       \* threads started for each job
          pc, todo, first,  \* per thread: next step, segments left, retry_index
          genLock,    \* thread inside _generation_lock, or NoThread
          restarts

store == <<status, segment, outPath>>
files == <<part, output>>
locals == <<pc, todo, first>>
vars == <<mode, runtime, store, files, runs, locals, genLock, restarts>>

Thread == Job \X (1 .. MaxRuns)
NoThread == <<>>
Active(j) == status[j] \in {"queued", "running"}
Idle == \A j \in Job : ~ Active(j)
Cancelled(t) == status[t[1]] = "cancelled"
Live(t) == pc[t] # "off"
Segmented(j) == SegCount[j] > 0
\* A plain job writes its one waveform to <job>.wav: slot 0.
Slots(j) == IF Segmented(j) THEN 1 .. SegCount[j] ELSE {0}
NoFile(j) == [s \in Slots(j) |-> 0]
Unfinished(j) == {s \in 1 .. SegCount[j] : segment[j][s] # "succeeded"}
Least(S) == CHOOSE s \in S : \A x \in S : s <= x
\* The segment the loop is at: retry_index goes first, the others in order.
Current(t) == IF first[t] \in todo[t] THEN first[t] ELSE Least(todo[t])

Init ==
  /\ mode \in Modes
  /\ runtime = IF mode = "simulation" THEN "ready" ELSE "loading"
  /\ status = [j \in Job |-> "none"]
  /\ segment = [j \in Job |-> [s \in 1 .. SegCount[j] |-> "queued"]]
  /\ outPath = [j \in Job |-> FALSE]
  /\ part = [j \in Job |-> NoFile(j)]
  /\ output = [j \in Job |-> NoFile(j)]
  /\ runs = [j \in Job |-> 0]
  /\ pc = [t \in Thread |-> "off"]
  /\ todo = [t \in Thread |-> {}]
  /\ first = [t \in Thread |-> 0]
  /\ genLock = NoThread
  /\ restarts = 0

------------------------------------------------------------------------------
(* The store.  Each of these is one critical section of WorkerStore.          *)

Update(j, new) ==
  /\ status' = IF status[j] = "cancelled" THEN status ELSE [status EXCEPT ![j] = new]
  /\ UNCHANGED <<segment, outPath>>

\* Mutant of UpdateSegment: the late report of a cancelled job is taken.
UpdateSegmentAlways(j, s, new, jobStatus) ==
  /\ segment' = [segment EXCEPT ![j][s] = new]
  /\ status' = [status EXCEPT ![j] = jobStatus]
  /\ UNCHANGED outPath

UpdateSegment(j, s, new, jobStatus) ==
  IF status[j] = "cancelled"
  THEN UNCHANGED store
  ELSE /\ segment' = [segment EXCEPT ![j][s] = new]
       /\ status' = [status EXCEPT ![j] = jobStatus]
       /\ UNCHANGED outPath

Complete(j) ==
  IF status[j] = "cancelled"
  THEN UNCHANGED store
  ELSE /\ status' = [status EXCEPT ![j] = "succeeded"]
       /\ outPath' = [outPath EXCEPT ![j] = TRUE]
       /\ UNCHANGED segment

------------------------------------------------------------------------------
(* The request handlers.                                                      *)

StartThread(j, retryIndex) ==
  LET t == <<j, runs[j] + 1>>
  IN /\ runs[j] < MaxRuns
     /\ runs' = [runs EXCEPT ![j] = @ + 1]
     /\ pc' = [pc EXCEPT ![t] = "start"]
     /\ first' = [first EXCEPT ![t] = retryIndex]
     /\ UNCHANGED todo

\* Mutant of CreateJob: an active job does not keep others out.
CreateBesideActive(j) ==
  /\ runtime = "ready"
  /\ mode = "voxcpm2" => Scenario[j] = "normal"
  /\ status[j] = "none"
  /\ status' = [status EXCEPT ![j] = "queued"]
  /\ StartThread(j, 0)
  /\ UNCHANGED <<mode, runtime, segment, outPath, files, genLock, restarts>>

\* POST /v1/jobs.  A second request with the same id and body returns the job
\* and starts nothing; one with another body is refused: neither is a step.
CreateJob(j) ==
  /\ runtime = "ready"
  /\ mode = "voxcpm2" => Scenario[j] = "normal"
  /\ status[j] = "none"
  /\ Idle
  /\ status' = [status EXCEPT ![j] = "queued"]
  /\ StartThread(j, 0)
  /\ UNCHANGED <<mode, runtime, segment, outPath, files, genLock, restarts>>

\* Mutant of RetrySegment: any job but a new one may be retried.
RetryAnyStatus(j, s) ==
  /\ runtime = "ready"
  /\ status[j] # "none"
  /\ \A i \in Job \ {j} : ~ Active(i)
  /\ segment' = [segment EXCEPT ![j][s] = "queued"]
  /\ status' = [status EXCEPT ![j] = "queued"]
  /\ outPath' = [outPath EXCEPT ![j] = FALSE]
  /\ StartThread(j, s)
  /\ UNCHANGED <<mode, runtime, files, genLock, restarts>>

\* POST /v1/jobs/{id}/segments/{index}/retry.
RetrySegment(j, s) ==
  /\ runtime = "ready"
  /\ status[j] \in {"succeeded", "failed"}
  /\ \A i \in Job \ {j} : ~ Active(i)
  /\ segment' = [segment EXCEPT ![j][s] = "queued"]
  /\ status' = [status EXCEPT ![j] = "queued"]
  /\ outPath' = [outPath EXCEPT ![j] = FALSE]
  /\ StartThread(j, s)
  /\ UNCHANGED <<mode, runtime, files, genLock, restarts>>

\* POST /v1/jobs/{id}/cancel.
CancelJob(j) ==
  /\ Active(j)
  /\ status' = [status EXCEPT ![j] = "cancelled"]
  /\ segment' = [segment EXCEPT ![j] =
       [s \in 1 .. SegCount[j] |->
          IF @[s] \in {"queued", "running"} THEN "cancelled" ELSE @[s]]]
  /\ UNCHANGED <<mode, runtime, outPath, files, runs, locals, genLock, restarts>>

------------------------------------------------------------------------------
(* The generation thread: simulate and synthesize, and the runtime's          *)
(* generate.  Every test of is_cancelled is a step of its own, apart from     *)
(* the update or the file operation that follows it.                          *)

Goto(t, label) == pc' = [pc EXCEPT ![t] = label]
Others == UNCHANGED <<mode, runtime, runs, first, restarts>>

\* What the thread does once it has no segment left, and while it has.
NextSegment == IF mode = "voxcpm2" THEN "check" ELSE "mark"
\* Mutant of AfterSegments: the segments are not merged.
SkipAssembly == "finish"
AfterSegments == IF mode = "voxcpm2" THEN "assemble" ELSE "finish"

\* pending: every segment that has not succeeded.
ThreadStart(t) ==
  /\ pc[t] = "start"
  /\ todo' = [todo EXCEPT ![t] = Unfinished(t[1])]
  /\ Goto(t, IF ~ Segmented(t[1]) THEN "mark"
             ELSE IF Unfinished(t[1]) = {} THEN AfterSegments ELSE NextSegment)
  /\ UNCHANGED <<store, files, genLock>> /\ Others

\* The check at the head of synthesize's loop.
CheckBefore(t) ==
  /\ pc[t] = "check"
  /\ Goto(t, IF Cancelled(t) THEN "off" ELSE "mark")
  /\ UNCHANGED <<store, files, todo, genLock>> /\ Others

Mark(t) ==
  /\ pc[t] = "mark"
  /\ IF Segmented(t[1])
     THEN UpdateSegment(t[1], Current(t), "running", "running")
     ELSE Update(t[1], "running")
  /\ Goto(t, IF mode = "voxcpm2" THEN "lock" ELSE "after")
  /\ UNCHANGED <<files, todo, genLock>> /\ Others

\* Leaving generate by GenerationCancelled: synthesize returns, and for a
\* plain job removes the output first.
Abandon(t) ==
  /\ output' = IF Segmented(t[1]) THEN output ELSE [output EXCEPT ![t[1]] = NoFile(t[1])]
  /\ Goto(t, "off")

\* generate: wait for the lock, then the first of its three checks.
AcquireLock(t) ==
  /\ pc[t] = "lock"
  /\ genLock = NoThread
  /\ IF Cancelled(t)
     THEN Abandon(t) /\ UNCHANGED genLock
     ELSE Goto(t, "generate") /\ genLock' = t /\ UNCHANGED output
  /\ UNCHANGED <<store, part, todo>> /\ Others

\* The model has run, or failed; the second check.
Generated(t) ==
  /\ pc[t] = "generate"
  /\ \/ /\ Cancelled(t) /\ Abandon(t) /\ genLock' = NoThread
     \/ /\ ~ Cancelled(t) /\ Goto(t, "write") /\ UNCHANGED <<output, genLock>>
     \/ /\ "model" \in Faults /\ Goto(t, "fail") /\ genLock' = NoThread /\ UNCHANGED output
  /\ UNCHANGED <<store, part, todo>> /\ Others

\* The waveform is in a temporary file; the third check.
Written(t) ==
  /\ pc[t] = "write"
  /\ IF Cancelled(t)
     THEN Abandon(t) /\ genLock' = NoThread
     ELSE Goto(t, "commit") /\ UNCHANGED <<output, genLock>>
  /\ UNCHANGED <<store, part, todo>> /\ Others

\* temporary.replace, and the lock is released.
Commit(t) ==
  /\ pc[t] = "commit"
  /\ IF Segmented(t[1])
     THEN part' = [part EXCEPT ![t[1]][Current(t)] = t[2]] /\ UNCHANGED output
     ELSE output' = [output EXCEPT ![t[1]][0] = t[2]] /\ UNCHANGED part
  /\ genLock' = NoThread
  /\ Goto(t, "after")
  /\ UNCHANGED <<store, todo>> /\ Others

\* The scenario a simulated thread is started with: that of the job, and
\* "normal" when it retries a segment.
DueToFail(t) == mode = "simulation" /\ Scenario[t[1]] = "failure" /\ first[t] = 0

\* The check after generate, or after simulate's sleep (its two sleeps on a
\* plain job differ only in the progress shown).
CheckAfter(t) ==
  /\ pc[t] = "after"
  /\ IF Cancelled(t)
     THEN Abandon(t)
     ELSE /\ Goto(t, IF DueToFail(t) THEN "fail"
                     ELSE IF Segmented(t[1]) THEN "seal" ELSE "finish")
          /\ UNCHANGED output
  /\ UNCHANGED <<store, part, todo, genLock>> /\ Others

Seal(t) ==
  /\ pc[t] = "seal"
  /\ UpdateSegment(t[1], Current(t), "succeeded", "running")
  /\ todo' = [todo EXCEPT ![t] = @ \ {Current(t)}]
  /\ Goto(t, IF todo[t] = {Current(t)} THEN AfterSegments ELSE NextSegment)
  /\ UNCHANGED <<files, genLock>> /\ Others

\* All segment files are there, and the job says it is merging.
Assemble(t) ==
  /\ pc[t] = "assemble"
  /\ IF \E s \in Slots(t[1]) : part[t[1]][s] = 0
     THEN Goto(t, "fail") /\ UNCHANGED store
     ELSE Goto(t, "merge") /\ Update(t[1], "running")
  /\ UNCHANGED <<files, todo, genLock>> /\ Others

\* merge_pcm16_wavs replaces <job>.wav, or raises before it does.
Merge(t) ==
  /\ pc[t] = "merge"
  /\ \/ /\ output' = [output EXCEPT ![t[1]] = part[t[1]]]
        /\ Goto(t, "verify")
     \/ "model" \in Faults /\ Goto(t, "fail") /\ UNCHANGED output
  /\ UNCHANGED <<store, part, todo, genLock>> /\ Others

Verify(t) ==
  /\ pc[t] = "verify"
  /\ IF Cancelled(t)
     THEN output' = [output EXCEPT ![t[1]] = NoFile(t[1])] /\ Goto(t, "off")
     ELSE UNCHANGED output /\ Goto(t, "finish")
  /\ UNCHANGED <<store, part, todo, genLock>> /\ Others

Finish(t) ==
  /\ pc[t] = "finish"
  /\ IF mode = "voxcpm2" THEN Complete(t[1]) ELSE Update(t[1], "succeeded")
  /\ Goto(t, "off")
  /\ UNCHANGED <<files, todo, genLock>> /\ Others

\* Mutant of FailThread: the thread ends without a report.
FailSilently(t) ==
  /\ pc[t] = "fail"
  /\ Goto(t, "off")
  /\ UNCHANGED <<store, files, todo, genLock>> /\ Others

\* The exception handlers, and simulate's failure scenario.
FailThread(t) ==
  /\ pc[t] = "fail"
  /\ IF todo[t] = {} THEN Update(t[1], "failed")
                     ELSE UpdateSegment(t[1], Current(t), "failed", "failed")
  /\ output' = IF mode = "voxcpm2" /\ ~ Segmented(t[1])
               THEN [output EXCEPT ![t[1]] = NoFile(t[1])] ELSE output
  /\ Goto(t, "off")
  /\ UNCHANGED <<part, todo, genLock>> /\ Others

Step(t) ==
  \/ ThreadStart(t) \/ CheckBefore(t) \/ Mark(t) \/ AcquireLock(t) \/ Generated(t)
  \/ Written(t) \/ Commit(t) \/ CheckAfter(t) \/ Seal(t) \/ Assemble(t)
  \/ Merge(t) \/ Verify(t) \/ Finish(t) \/ FailThread(t)

------------------------------------------------------------------------------
(* The process.                                                               *)

\* VoxCPMRuntime.load ends, well or badly.
LoadModel ==
  /\ runtime = "loading"
  /\ runtime' \in {"ready"} \cup (IF "model" \in Faults THEN {"error"} ELSE {})
  /\ UNCHANGED <<mode, store, files, runs, locals, genLock, restarts>>

\* Mutant of Restart: the segments keep the status they had.
RestartJobsOnly ==
  /\ "crash" \in Faults /\ restarts < MaxRestarts
  /\ restarts' = restarts + 1
  /\ runtime' = IF mode = "simulation" THEN "ready" ELSE "loading"
  /\ status' = [j \in Job |-> IF Active(j) THEN "failed" ELSE status[j]]
  /\ pc' = [t \in Thread |-> "off"]
  /\ genLock' = NoThread
  /\ UNCHANGED <<mode, segment, outPath, files, runs, todo, first>>

\* The process dies and starts again: the daemon threads are gone, and _load
\* fails what was active.  Every store operation persisted before it returned.
Restart ==
  /\ "crash" \in Faults /\ restarts < MaxRestarts
  /\ restarts' = restarts + 1
  /\ runtime' = IF mode = "simulation" THEN "ready" ELSE "loading"
  /\ status' = [j \in Job |-> IF Active(j) THEN "failed" ELSE status[j]]
  /\ segment' = [j \in Job |-> [s \in 1 .. SegCount[j] |->
       IF Active(j) /\ segment[j][s] \in {"queued", "running"}
       THEN "failed" ELSE segment[j][s]]]
  /\ pc' = [t \in Thread |-> "off"]
  /\ genLock' = NoThread
  /\ UNCHANGED <<mode, outPath, files, runs, todo, first>>

Next ==
  \/ \E j \in Job : CreateJob(j) \/ CancelJob(j)
  \/ \E j \in Job : \E s \in 1 .. SegCount[j] : RetrySegment(j, s)
  \/ \E t \in Thread : Step(t)
  \/ LoadModel
  \/ Restart

Spec == Init /\ [][Next]_vars

\* A started thread keeps running, and generation ends: both are the operating
\* system's and the model's business.  Requests need never come.
FairSpec == Spec /\ \A t \in Thread : WF_vars(Step(t))
------------------------------------------------------------------------------
(* Properties.                                                                *)

Pcs == {"off", "start", "check", "mark", "lock", "generate", "write", "commit",
        "after", "seal", "assemble", "merge", "verify", "finish", "fail"}
JobStatus == {"none", "queued", "running", "succeeded", "failed", "cancelled"}

\* The variables have the types of the worker's records.
TypeOK ==
  /\ mode \in Modes
  /\ runtime \in {"loading", "ready", "error"}
  /\ status \in [Job -> JobStatus]
  /\ \A j \in Job : /\ segment[j] \in [1 .. SegCount[j] -> JobStatus \ {"none"}]
                    /\ part[j] \in [Slots(j) -> 0 .. MaxRuns]
                    /\ output[j] \in [Slots(j) -> 0 .. MaxRuns]
  /\ outPath \in [Job -> BOOLEAN]
  /\ runs \in [Job -> 0 .. MaxRuns]
  /\ pc \in [Thread -> Pcs]
  /\ genLock \in Thread \cup {NoThread}
  /\ restarts \in 0 .. MaxRestarts

\* A job that is queued or running has exactly one thread, and a thread that
\* still runs belongs to an active or a cancelled job: no thread of an earlier
\* run reports into a later one (storage.py:120-149 would let it), and no
\* active job is left without a thread to end it.
ThreadsMatchJobs ==
  /\ \A t \in Thread : Live(t) => Active(t[1]) \/ Cancelled(t)
  /\ \A t, u \in Thread : Live(t) /\ Live(u) /\ t[1] = u[1] => t = u
  /\ \A j \in Job : Active(j) => \E t \in Thread : Live(t) /\ t[1] = j

\* The audio of a succeeded job is the merge of the newest take of each of its
\* segments, also after retries, failures, cancellations and restarts
\* (main.py:215-252, storage.py:104-118).
AudioIsCurrent ==
  mode = "voxcpm2" =>
    \A j \in Job : status[j] = "succeeded" =>
      /\ outPath[j]
      /\ output[j] # NoFile(j)
      /\ Segmented(j) => output[j] = part[j] /\ \A s \in Slots(j) : part[j][s] # 0

\* A segment that is reported succeeded has its audio on disk, so a retry that
\* skips it finds the file (main.py:149-153, 220); and no segment is running
\* once its job is over.
SegmentsMatchFiles ==
  \A j \in Job : \A s \in 1 .. SegCount[j] :
    /\ mode = "voxcpm2" /\ segment[j][s] = "succeeded" => part[j][s] # 0
    /\ segment[j][s] = "running" => Active(j)
    /\ status[j] = "succeeded" => segment[j][s] = "succeeded"

\* A cancellation is final: no late report of the generation thread, no retry
\* and no restart changes the job or its segments again (storage.py:93, 109,
\* 134, 156).
CancelIsFinal ==
  [][\A j \in Job : status[j] = "cancelled" =>
       status'[j] = "cancelled" /\ segment'[j] = segment[j] /\ outPath'[j] = outPath[j]]_vars

\* Every job the worker accepts ends: it succeeds, fails or is cancelled.
JobsEnd == \A j \in Job : Active(j) ~> ~ Active(j)

\* The worker implements the studio's job contract: a retry accepts succeeded
\* and failed jobs and queues them again, and the list is never dropped.
Contract == INSTANCE JobContract WITH Retryable <- {"succeeded", "failed"},
                                      Retried <- "queued", Resettable <- FALSE
JobContractSpec == Contract!Spec
==============================================================================
