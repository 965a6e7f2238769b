-------------------------- MODULE WorkerJobsProofs ---------------------------
(* WorkerJobs: jobs and threads match, a cancellation is final, the worker    *)
(* implements JobContract, and the audio it offers is made of the newest      *)
(* takes, for every number of jobs, segments, runs and restarts.              *)
EXTENDS WorkerJobs, WellFoundedInduction, TLAPS

Started == {"lock", "generate", "write", "commit", "after", "seal", "assemble",
            "merge", "verify", "finish"}

TypeInv ==
  /\ status \in [Job -> JobStatus]
  /\ DOMAIN segment = Job
  /\ segment = [j \in Job |-> segment[j]]
  /\ \A j \in Job : segment[j] \in [1 .. SegCount[j] -> JobStatus]
  /\ outPath \in [Job -> BOOLEAN]
  /\ runs \in [Job -> 0 .. MaxRuns]
  /\ pc \in [Thread -> Pcs]

OneActive == \A i, j \in Job : Active(i) /\ Active(j) => i = j
\* A thread past its first report has made its job running.
StartedRuns == \A t \in Thread : pc[t] \in Started => status[t[1]] = "running" \/ Cancelled(t)
\* A thread that has not looked at its job yet will find a segment to make.
WorkLeft ==
  \A t \in Thread : pc[t] = "start" /\ Segmented(t[1]) /\ ~ Cancelled(t) => Unfinished(t[1]) # {}
FreshSegments ==
  \A j \in Job : status[j] = "none" => \A s \in 1 .. SegCount[j] : segment[j][s] = "queued"

IInv == TypeInv /\ ThreadsMatchJobs /\ OneActive /\ StartedRuns /\ WorkLeft /\ FreshSegments

------------------------------------------------------------------------------
(* What the store's operations do to the statuses.                            *)

LEMMA UpdateEffect ==
  ASSUME TypeInv, NEW j \in Job, NEW new \in JobStatus, Update(j, new)
  PROVE /\ status' = IF status[j] = "cancelled" THEN status ELSE [status EXCEPT ![j] = new]
        /\ UNCHANGED <<segment, outPath>>
  BY DEF Update

LEMMA UpdateSegmentEffect ==
  ASSUME TypeInv, NEW j \in Job, NEW s, NEW new \in JobStatus, NEW jobStatus \in JobStatus,
         UpdateSegment(j, s, new, jobStatus)
  PROVE /\ status' = IF status[j] = "cancelled" THEN status
                     ELSE [status EXCEPT ![j] = jobStatus]
        /\ \A i \in Job : i # j \/ status[j] = "cancelled" => segment'[i] = segment[i]
        /\ DOMAIN segment' = Job
        /\ segment' = [i \in Job |-> segment'[i]]
        /\ \A i \in Job : segment'[i] \in [1 .. SegCount[i] -> JobStatus]
        /\ UNCHANGED outPath
<1>1. CASE status[j] = "cancelled"
  BY <1>1 DEF UpdateSegment, TypeInv, store
<1>2. CASE status[j] # "cancelled"
  <2>1. segment' = [segment EXCEPT ![j][s] = new]
    BY <1>2 DEF UpdateSegment
  <2>2. segment' = [segment EXCEPT ![j] = [segment[j] EXCEPT ![s] = new]]
    BY <2>1
  <2>3. [segment[j] EXCEPT ![s] = new] \in [1 .. SegCount[j] -> JobStatus]
    BY DEF TypeInv
  <2> QED BY <1>2, <2>2, <2>3 DEF UpdateSegment, TypeInv
<1> QED BY <1>1, <1>2

LEMMA CompleteEffect ==
  ASSUME TypeInv, NEW j \in Job, Complete(j)
  PROVE /\ status' = IF status[j] = "cancelled" THEN status
                     ELSE [status EXCEPT ![j] = "succeeded"]
        /\ outPath' = IF status[j] = "cancelled" THEN outPath ELSE [outPath EXCEPT ![j] = TRUE]
        /\ UNCHANGED segment
  BY DEF Complete, store

------------------------------------------------------------------------------
(* The steps of a thread, by what they do to the jobs.                        *)

SegmentsKept(t) ==
  /\ DOMAIN segment' = Job
  /\ segment' = [i \in Job |-> segment'[i]]
  /\ \A i \in Job : /\ segment'[i] \in [1 .. SegCount[i] -> JobStatus]
                    /\ i # t[1] \/ Cancelled(t) => segment'[i] = segment[i]

\* Nothing is reported; only a cancelled job's thread leaves this way.
Silent(t) ==
  /\ UNCHANGED <<status, segment, outPath, runs>>
  /\ \E m \in Pcs \ {"start"} :
       /\ pc' = [pc EXCEPT ![t] = m]
       /\ m = "off" => Cancelled(t)
       /\ m \in Started => pc[t] \in Started \/ Cancelled(t)

\* The thread reports progress and goes on.
Reports(t) ==
  /\ pc[t] # "start"
  /\ status' = IF Cancelled(t) THEN status ELSE [status EXCEPT ![t[1]] = "running"]
  /\ SegmentsKept(t)
  /\ UNCHANGED <<outPath, runs>>
  /\ \E m \in Pcs \ {"start", "off"} : pc' = [pc EXCEPT ![t] = m]

\* The thread's last report.
Ends(t) ==
  /\ \E new \in {"succeeded", "failed"} :
       /\ status' = IF Cancelled(t) THEN status ELSE [status EXCEPT ![t[1]] = new]
       /\ new = "succeeded" => pc[t] \in Started
  /\ SegmentsKept(t)
  /\ Cancelled(t) => UNCHANGED outPath
  /\ outPath' \in [Job -> BOOLEAN]
  /\ \A i \in Job : i # t[1] => outPath'[i] = outPath[i]
  /\ UNCHANGED runs
  /\ pc' = [pc EXCEPT ![t] = "off"]

LEMMA StepShapes ==
  ASSUME IInv, NEW t \in Thread, Step(t)
  PROVE /\ Live(t)
        /\ Silent(t) \/ Reports(t) \/ Ends(t)
<1>0. TypeInv /\ t[1] \in Job
  BY DEF IInv, Thread
<1>a. UNCHANGED runs
  BY DEF Step, ThreadStart, CheckBefore, Mark, AcquireLock, Generated, Written, Commit,
         CheckAfter, Seal, Assemble, Merge, Verify, Finish, FailThread, Others
<1> USE <1>a DEF Goto, Live, Cancelled, Pcs, Started
<1>1. CASE ThreadStart(t)
  <2> DEFINE m == IF ~ Segmented(t[1]) THEN "mark"
                  ELSE IF Unfinished(t[1]) = {} THEN AfterSegments ELSE NextSegment
  <2>1. ~ Cancelled(t) /\ Segmented(t[1]) => Unfinished(t[1]) # {}
    BY <1>1 DEF IInv, WorkLeft, ThreadStart
  <2>2. m \in Pcs \ {"start", "off"} /\ (m \in Started => Cancelled(t))
    BY <2>1 DEF NextSegment, AfterSegments
  <2>3. pc' = [pc EXCEPT ![t] = m] /\ UNCHANGED <<status, segment, outPath, runs>>
    BY <1>1 DEF ThreadStart, store
  <2> HIDE DEF m
  <2>4. Silent(t)
    BY <2>2, <2>3 DEF Silent
  <2> QED BY <1>1, <2>4 DEF ThreadStart
<1>2. CASE CheckBefore(t)
  <2>1. CASE Cancelled(t)
    BY <1>2, <2>1 DEF CheckBefore, Silent, store
  <2>2. CASE ~ Cancelled(t)
    <3>1. pc' = [pc EXCEPT ![t] = "mark"] /\ UNCHANGED <<status, segment, outPath, runs>>
      BY <1>2, <2>2 DEF CheckBefore, store
    <3> QED BY <1>2, <3>1 DEF CheckBefore, Silent
  <2> QED BY <2>1, <2>2
<1>3. CASE Mark(t)
  <2>1. /\ status' = IF Cancelled(t) THEN status ELSE [status EXCEPT ![t[1]] = "running"]
        /\ SegmentsKept(t) /\ UNCHANGED outPath
    <3>1. CASE Segmented(t[1])
      BY <1>0, <1>3, <3>1, UpdateSegmentEffect DEF Mark, SegmentsKept, JobStatus
    <3>2. CASE ~ Segmented(t[1])
      <4>1. Update(t[1], "running")
        BY <1>3, <3>2 DEF Mark
      <4>2. status' = IF Cancelled(t) THEN status ELSE [status EXCEPT ![t[1]] = "running"]
        BY <4>1 DEF Update
      <4>3. UNCHANGED <<segment, outPath>>
        BY <4>1 DEF Update
      <4> QED BY <1>0, <4>2, <4>3 DEF SegmentsKept, TypeInv
    <3> QED BY <3>1, <3>2
  <2>2. \E m \in Pcs \ {"start", "off"} : pc' = [pc EXCEPT ![t] = m]
    BY <1>3 DEF Mark
  <2> QED BY <1>3, <2>1, <2>2 DEF Mark, Reports
<1>4. CASE AcquireLock(t)
  BY <1>4 DEF AcquireLock, Abandon, Silent, store
<1>5. CASE Generated(t)
  BY <1>5 DEF Generated, Abandon, Silent, store
<1>6. CASE Written(t)
  BY <1>6 DEF Written, Abandon, Silent, store
<1>7. CASE Commit(t)
  BY <1>7 DEF Commit, Silent, store
<1>8. CASE CheckAfter(t)
  BY <1>8 DEF CheckAfter, Abandon, Silent, store
<1>9. CASE Seal(t)
  <2>1. /\ status' = IF Cancelled(t) THEN status ELSE [status EXCEPT ![t[1]] = "running"]
        /\ SegmentsKept(t) /\ UNCHANGED outPath
    BY <1>0, <1>9, UpdateSegmentEffect DEF Seal, SegmentsKept, JobStatus
  <2>2. \E m \in Pcs \ {"start", "off"} : pc' = [pc EXCEPT ![t] = m]
    BY <1>9 DEF Seal, AfterSegments, NextSegment
  <2> QED BY <1>9, <2>1, <2>2 DEF Seal, Reports
<1>10. CASE Assemble(t)
  <2>1. CASE \E s \in Slots(t[1]) : part[t[1]][s] = 0
    BY <1>10, <2>1 DEF Assemble, Silent, store
  <2>2. CASE ~ \E s \in Slots(t[1]) : part[t[1]][s] = 0
    <3>1. Update(t[1], "running") /\ pc' = [pc EXCEPT ![t] = "merge"]
      BY <1>10, <2>2 DEF Assemble
    <3>2. UNCHANGED <<segment, outPath>>
      BY <3>1 DEF Update
    <3>3. SegmentsKept(t)
      BY <1>0, <3>2 DEF SegmentsKept, TypeInv
    <3> QED BY <1>10, <3>1, <3>2, <3>3 DEF Assemble, Update, Reports
  <2> QED BY <2>1, <2>2
<1>11. CASE Merge(t)
  BY <1>11 DEF Merge, Silent, store
<1>12. CASE Verify(t)
  BY <1>12 DEF Verify, Silent, store
<1>13. CASE Finish(t)
  <2>1. /\ status' = IF Cancelled(t) THEN status ELSE [status EXCEPT ![t[1]] = "succeeded"]
        /\ UNCHANGED segment /\ outPath' \in [Job -> BOOLEAN]
        /\ Cancelled(t) => UNCHANGED outPath
        /\ \A i \in Job : i # t[1] => outPath'[i] = outPath[i]
    <3>1. CASE mode = "voxcpm2"
      <4>1. Complete(t[1])
        BY <1>13, <3>1 DEF Finish
      <4>2. outPath' = IF Cancelled(t) THEN outPath ELSE [outPath EXCEPT ![t[1]] = TRUE]
        BY <1>0, <4>1, CompleteEffect
      <4>3. status' = (IF Cancelled(t) THEN status ELSE [status EXCEPT ![t[1]] = "succeeded"])
            /\ UNCHANGED segment
        BY <1>0, <4>1, CompleteEffect
      <4>4. outPath \in [Job -> BOOLEAN]
        BY <1>0 DEF TypeInv
      <4> QED BY <1>0, <4>2, <4>3, <4>4
    <3>2. CASE mode # "voxcpm2"
      <4>1. Update(t[1], "succeeded")
        BY <1>13, <3>2 DEF Finish
      <4>2. UNCHANGED <<segment, outPath>>
        BY <4>1 DEF Update
      <4>3. outPath \in [Job -> BOOLEAN]
        BY <1>0 DEF TypeInv
      <4> QED BY <4>1, <4>2, <4>3 DEF Update
    <3> QED BY <3>1, <3>2
  <2>2. SegmentsKept(t)
    BY <1>0, <2>1 DEF SegmentsKept, TypeInv
  <2>3. pc[t] = "finish" /\ pc' = [pc EXCEPT ![t] = "off"]
    BY <1>13 DEF Finish
  <2> QED BY <2>1, <2>2, <2>3 DEF Ends
<1>14. CASE FailThread(t)
  <2>1. /\ status' = IF Cancelled(t) THEN status ELSE [status EXCEPT ![t[1]] = "failed"]
        /\ SegmentsKept(t) /\ UNCHANGED outPath
    <3>1. CASE todo[t] = {}
      <4>1. Update(t[1], "failed")
        BY <1>14, <3>1 DEF FailThread
      <4>2. UNCHANGED <<segment, outPath>>
        BY <4>1 DEF Update
      <4> QED BY <1>0, <4>1, <4>2 DEF Update, SegmentsKept, TypeInv
    <3>2. CASE todo[t] # {}
      BY <1>0, <1>14, <3>2, UpdateSegmentEffect DEF FailThread, SegmentsKept, JobStatus
    <3> QED BY <3>1, <3>2
  <2>2. pc[t] = "fail" /\ pc' = [pc EXCEPT ![t] = "off"]
    BY <1>14 DEF FailThread
  <2>3. outPath' \in [Job -> BOOLEAN]
    BY <1>0, <2>1 DEF TypeInv
  <2> QED BY <2>1, <2>2, <2>3 DEF Ends
<1> QED
  BY <1>1, <1>2, <1>3, <1>4, <1>5, <1>6, <1>7, <1>8, <1>9, <1>10, <1>11, <1>12,
     <1>13, <1>14 DEF Step

------------------------------------------------------------------------------
(* The inductive invariant.                                                   *)

LEMMA InitInv == Init => IInv
<1> SUFFICES ASSUME Init PROVE IInv
  OBVIOUS
<1>1. TypeInv
  BY WorkerAssumption DEF Init, TypeInv, JobStatus, Pcs
<1>2. \A t \in Thread : pc[t] = "off"
  BY DEF Init
<1>3. \A j \in Job : ~ Active(j)
  BY DEF Init, Active
<1>4. FreshSegments
  BY DEF Init, FreshSegments
<1> QED
  BY <1>1, <1>2, <1>3, <1>4 DEF IInv, ThreadsMatchJobs, OneActive, StartedRuns, WorkLeft,
     Live, Started

\* No other thread of the same job is alive, and its job is active or cancelled.
LEMMA ThreadAlone ==
  ASSUME IInv, NEW t \in Thread, Live(t)
  PROVE /\ t[1] \in Job
        /\ Active(t[1]) \/ Cancelled(t)
        /\ \A u \in Thread : u[1] = t[1] /\ Live(u) => u = t
  BY DEF IInv, ThreadsMatchJobs, Thread

LEMMA SilentInv == ASSUME IInv, NEW t \in Thread, Live(t), Silent(t) PROVE IInv'
<1>0. PICK m \in Pcs \ {"start"} :
        /\ pc' = [pc EXCEPT ![t] = m]
        /\ m = "off" => Cancelled(t)
        /\ m \in Started => pc[t] \in Started \/ Cancelled(t)
  BY DEF Silent
<1>a. m \in Pcs /\ pc' = [pc EXCEPT ![t] = m]
  BY <1>0
<1>1. UNCHANGED <<status, segment, outPath, runs>>
  BY DEF Silent
<1>2. TypeInv'
  BY <1>a, <1>1 DEF IInv, TypeInv
<1>3. \A u \in Thread : pc'[u] = IF u = t THEN m ELSE pc[u]
  BY <1>a DEF IInv, TypeInv
<1>4. ThreadsMatchJobs'
  <2>1. \A j \in Job : Active(j) => \E u \in Thread : pc'[u] # "off" /\ u[1] = j
    <3> SUFFICES ASSUME NEW j \in Job, Active(j)
                 PROVE  \E u \in Thread : pc'[u] # "off" /\ u[1] = j
      OBVIOUS
    <3>1. PICK u \in Thread : Live(u) /\ u[1] = j
      BY DEF IInv, ThreadsMatchJobs
    <3>2. pc'[u] # "off"
      BY <1>0, <1>3, <3>1 DEF Live, Active, Cancelled
    <3> QED BY <3>1, <3>2
  <2> QED BY <1>1, <1>3, <2>1 DEF IInv, ThreadsMatchJobs, Live, Active, Cancelled
<1>5. StartedRuns'
  BY <1>0, <1>1, <1>3 DEF IInv, StartedRuns, Cancelled
<1>6. WorkLeft'
  BY <1>0, <1>1, <1>3 DEF IInv, WorkLeft, Cancelled, Unfinished
<1> QED
  BY <1>1, <1>2, <1>4, <1>5, <1>6 DEF IInv, OneActive, FreshSegments, Active

LEMMA ReportsInv == ASSUME IInv, NEW t \in Thread, Live(t), Reports(t) PROVE IInv'
<1>0. PICK m \in Pcs \ {"start", "off"} : pc' = [pc EXCEPT ![t] = m]
  BY DEF Reports
<1>1. status' = IF Cancelled(t) THEN status ELSE [status EXCEPT ![t[1]] = "running"]
  BY DEF Reports
<1>2. SegmentsKept(t) /\ UNCHANGED <<outPath, runs>>
  BY DEF Reports
<1>3. TypeInv'
  BY <1>0, <1>1, <1>2, ThreadAlone DEF IInv, TypeInv, SegmentsKept, JobStatus
<1>4. \A u \in Thread : pc'[u] = IF u = t THEN m ELSE pc[u]
  BY <1>0 DEF IInv, TypeInv
<1>5. \A j \in Job : Active(j)' <=> Active(j)
  BY <1>1, ThreadAlone DEF IInv, TypeInv, Active, Cancelled
<1>6. \A j \in Job :
        /\ status'[j] = "cancelled" <=> status[j] = "cancelled"
        /\ status'[j] = "none" <=> status[j] = "none"
        /\ status[j] = "running" => status'[j] = "running"
  <2>1. t[1] \in Job /\ status[t[1]] \in {"queued", "running", "cancelled"}
    BY ThreadAlone DEF Active, Cancelled
  <2>2. status \in [Job -> JobStatus]
    BY DEF IInv, TypeInv
  <2>3. CASE Cancelled(t)
    BY <1>1, <2>3 DEF Cancelled
  <2>4. CASE ~ Cancelled(t)
    BY <1>1, <2>1, <2>2, <2>4 DEF Cancelled
  <2> QED BY <2>3, <2>4
<1>7. \A u \in Thread : u[1] \in Job
  BY DEF Thread
<1>8. ThreadsMatchJobs'
  <2>1. \A u \in Thread : Live(u)' <=> Live(u)
    BY <1>0, <1>4 DEF Live
  <2>2. \A u \in Thread : Cancelled(u)' <=> Cancelled(u)
    BY <1>6, <1>7 DEF Cancelled
  <2> QED BY <1>5, <1>7, <2>1, <2>2 DEF IInv, ThreadsMatchJobs
<1>9. StartedRuns'
  <2>1. \A u \in Thread : u # t => pc'[u] = pc[u]
    BY <1>4
  <2>2. status'[t[1]] = "running" \/ status'[t[1]] = "cancelled"
    BY <1>1, <1>7 DEF IInv, TypeInv, Cancelled
  <2> QED BY <1>6, <1>7, <2>1, <2>2 DEF IInv, StartedRuns, Cancelled
<1>10. WorkLeft'
  <2> SUFFICES ASSUME NEW u \in Thread, pc'[u] = "start", Segmented(u[1]),
                      ~ status'[u[1]] = "cancelled"
               PROVE  Unfinished(u[1])' # {}
    BY DEF WorkLeft, Cancelled, Segmented
  <2>1. u # t /\ pc[u] = "start"
    BY <1>0, <1>4
  <2>2. u[1] # t[1]
    BY <2>1, ThreadAlone DEF Live
  <2>3. segment'[u[1]] = segment[u[1]]
    BY <1>2, <1>7, <2>2 DEF SegmentsKept
  <2>4. Unfinished(u[1]) # {}
    BY <1>6, <1>7, <2>1 DEF IInv, WorkLeft, Cancelled
  <2> QED BY <2>3, <2>4 DEF Unfinished
<1>11. FreshSegments'
  <2> SUFFICES ASSUME NEW j \in Job, status'[j] = "none", NEW s \in 1 .. SegCount[j]
               PROVE  segment'[j][s] = "queued"
    BY DEF FreshSegments
  <2>1. status[j] = "none"
    BY <1>6
  <2>2. j # t[1]
    BY <2>1, ThreadAlone DEF Active, Cancelled
  <2> QED BY <1>2, <2>1, <2>2 DEF IInv, FreshSegments, SegmentsKept
<1> QED
  BY <1>3, <1>5, <1>8, <1>9, <1>10, <1>11 DEF IInv, OneActive

LEMMA EndsInv == ASSUME IInv, NEW t \in Thread, Live(t), Ends(t) PROVE IInv'
<1>1. PICK new \in {"succeeded", "failed"} :
        status' = IF Cancelled(t) THEN status ELSE [status EXCEPT ![t[1]] = new]
  BY DEF Ends
<1>2. SegmentsKept(t) /\ UNCHANGED runs /\ outPath' \in [Job -> BOOLEAN] /\ pc' = [pc EXCEPT ![t] = "off"]
  BY DEF Ends
<1>3. TypeInv'
  BY <1>1, <1>2, ThreadAlone DEF IInv, TypeInv, SegmentsKept, JobStatus, Pcs
<1>4. \A u \in Thread : pc'[u] = IF u = t THEN "off" ELSE pc[u]
  BY <1>2 DEF IInv, TypeInv
<1>5. \A j \in Job : j # t[1] => status'[j] = status[j]
  BY <1>1 DEF IInv, TypeInv
<1>6. ~ Active(t[1])' /\ (status'[t[1]] = "cancelled" <=> Cancelled(t)) /\ status'[t[1]] # "none"
  BY <1>1, ThreadAlone DEF IInv, TypeInv, Active, Cancelled
<1>7. \A u \in Thread : u[1] \in Job
  BY DEF Thread
<1>8. \A u \in Thread : pc'[u] # "off" => u # t /\ pc[u] # "off" /\ u[1] # t[1]
  BY <1>4, ThreadAlone DEF Live
<1>9. ThreadsMatchJobs'
  <2>1. \A u \in Thread : Live(u)' => Active(u[1])' \/ Cancelled(u)'
    BY <1>5, <1>7, <1>8 DEF IInv, ThreadsMatchJobs, Live, Active, Cancelled
  <2>2. \A u, v \in Thread : Live(u)' /\ Live(v)' /\ u[1] = v[1] => u = v
    BY <1>8 DEF IInv, ThreadsMatchJobs, Live
  <2>3. \A j \in Job : Active(j)' => \E u \in Thread : Live(u)' /\ u[1] = j
    <3> SUFFICES ASSUME NEW j \in Job, Active(j)'
                 PROVE  \E u \in Thread : Live(u)' /\ u[1] = j
      OBVIOUS
    <3>1. j # t[1] /\ Active(j)
      BY <1>5, <1>6 DEF Active
    <3>2. PICK u \in Thread : Live(u) /\ u[1] = j
      BY <3>1 DEF IInv, ThreadsMatchJobs
    <3> QED BY <1>4, <3>1, <3>2 DEF Live
  <2> QED BY <2>1, <2>2, <2>3 DEF ThreadsMatchJobs
<1>10. OneActive'
  BY <1>5, <1>6 DEF IInv, OneActive, Active
<1>11. StartedRuns'
  BY <1>4, <1>5, <1>7, <1>8 DEF IInv, StartedRuns, Started, Cancelled
<1>12. WorkLeft'
  <2> SUFFICES ASSUME NEW u \in Thread, pc'[u] = "start", Segmented(u[1]),
                      ~ status'[u[1]] = "cancelled"
               PROVE  Unfinished(u[1])' # {}
    BY DEF WorkLeft, Cancelled, Segmented
  <2>1. u[1] # t[1] /\ pc[u] = "start"
    BY <1>4, <1>8
  <2>2. segment'[u[1]] = segment[u[1]]
    BY <1>2, <1>7, <2>1 DEF SegmentsKept
  <2>3. Unfinished(u[1]) # {}
    BY <1>5, <1>7, <2>1 DEF IInv, WorkLeft, Cancelled
  <2> QED BY <2>2, <2>3 DEF Unfinished
<1>13. FreshSegments'
  BY <1>2, <1>5, <1>6 DEF IInv, FreshSegments, SegmentsKept
<1> QED
  BY <1>3, <1>9, <1>10, <1>11, <1>12, <1>13 DEF IInv

\* A thread is started for a job that had none alive.
Starts(j, s) ==
  /\ status[j] \in {"none", "succeeded", "failed"}
  /\ \A i \in Job \ {j} : ~ Active(i)
  /\ status' = [status EXCEPT ![j] = "queued"]
  /\ DOMAIN segment' = Job
  /\ segment' = [i \in Job |-> segment'[i]]
  /\ \A i \in Job : segment'[i] \in [1 .. SegCount[i] -> JobStatus]
  /\ \A i \in Job \ {j} : segment'[i] = segment[i]
  /\ Segmented(j) => \E x \in 1 .. SegCount[j] : segment'[j][x] # "succeeded"
  /\ outPath' \in [Job -> BOOLEAN]
  /\ StartThread(j, s)

LEMMA StartInv == ASSUME IInv, NEW j \in Job, NEW s, Starts(j, s) PROVE IInv'
<1> USE DEF Starts
<1> DEFINE t == <<j, runs[j] + 1>>
<1>1. \A u \in Thread : u[1] = j => ~ Live(u)
  BY DEF IInv, ThreadsMatchJobs, Active, Cancelled
<1>2. \A u \in Thread : u[1] \in Job
  BY DEF Thread
<1>3. pc' = [pc EXCEPT ![t] = "start"]
  BY DEF StartThread
<1>4. TypeInv'
  <2>1. runs' \in [Job -> 0 .. MaxRuns]
    BY WorkerAssumption DEF StartThread, IInv, TypeInv
  <2> QED BY <1>3, <2>1 DEF IInv, TypeInv, JobStatus, Pcs
<1>5. \A u \in Thread : pc'[u] = IF u = t THEN "start" ELSE pc[u]
  BY <1>3 DEF IInv, TypeInv
<1>6. \A i \in Job : status'[i] = IF i = j THEN "queued" ELSE status[i]
  BY DEF IInv, TypeInv
<1>7. t \in Thread /\ t[1] = j
  BY WorkerAssumption DEF StartThread, IInv, TypeInv, Thread
<1>8. ThreadsMatchJobs'
  <2>1. \A u \in Thread : Live(u)' <=> u = t \/ Live(u)
    BY <1>5 DEF Live
  <2>2. \A u \in Thread : u # t /\ Live(u) => u[1] # j
    BY <1>1
  <2>3. \A i \in Job : Active(i)' <=> i = j \/ Active(i)
    BY <1>6 DEF Active
  <2>4. \A u \in Thread : Live(u)' => Active(u[1])' \/ Cancelled(u)'
    <3> SUFFICES ASSUME NEW u \in Thread, Live(u)' PROVE Active(u[1])' \/ Cancelled(u)'
      OBVIOUS
    <3>1. CASE u = t
      BY <1>7, <2>3, <3>1
    <3>2. CASE u # t
      <4>1. Live(u) /\ u[1] # j /\ u[1] \in Job
        BY <1>2, <2>1, <2>2, <3>2
      <4> QED BY <1>6, <4>1 DEF IInv, ThreadsMatchJobs, Active, Cancelled
    <3> QED BY <3>1, <3>2
  <2>5. \A u, v \in Thread : Live(u)' /\ Live(v)' /\ u[1] = v[1] => u = v
    BY <1>7, <2>1, <2>2 DEF IInv, ThreadsMatchJobs
  <2>6. \A i \in Job : Active(i)' => \E u \in Thread : Live(u)' /\ u[1] = i
    BY <1>7, <2>1, <2>3 DEF IInv, ThreadsMatchJobs
  <2> QED BY <2>4, <2>5, <2>6 DEF ThreadsMatchJobs
<1>9. OneActive'
  BY <1>6 DEF OneActive, Active
<1>10. StartedRuns'
  BY <1>1, <1>2, <1>5, <1>6 DEF IInv, StartedRuns, Started, Cancelled, Live
<1>11. WorkLeft'
  <2> SUFFICES ASSUME NEW u \in Thread, pc'[u] = "start", Segmented(u[1]),
                      ~ status'[u[1]] = "cancelled"
               PROVE  Unfinished(u[1])' # {}
    BY DEF WorkLeft, Cancelled, Segmented
  <2>1. CASE u[1] = j
    BY <2>1 DEF Unfinished
  <2>2. CASE u[1] # j
    <3>1. pc[u] = "start" /\ segment'[u[1]] = segment[u[1]] /\ status'[u[1]] = status[u[1]]
      BY <1>2, <1>5, <1>6, <1>7, <2>2
    <3>2. Unfinished(u[1]) # {}
      BY <3>1 DEF IInv, WorkLeft, Cancelled
    <3> QED BY <3>1, <3>2 DEF Unfinished
  <2> QED BY <2>1, <2>2
<1>12. FreshSegments'
  BY <1>6 DEF IInv, FreshSegments
<1> QED
  BY <1>4, <1>8, <1>9, <1>10, <1>11, <1>12 DEF IInv

LEMMA CreateStarts == ASSUME IInv, NEW j \in Job, CreateJob(j) PROVE Starts(j, 0)
<1>1. status[j] = "none" /\ UNCHANGED <<segment, outPath>> /\ StartThread(j, 0)
  BY DEF CreateJob
<1>2. \A i \in Job \ {j} : ~ Active(i)
  BY DEF CreateJob, Idle
<1>3. Segmented(j) => \E x \in 1 .. SegCount[j] : segment'[j][x] # "succeeded"
  <2> SUFFICES ASSUME SegCount[j] > 0
               PROVE  \E x \in 1 .. SegCount[j] : segment'[j][x] # "succeeded"
    BY DEF Segmented
  <2>1. 1 \in 1 .. SegCount[j]
    BY WorkerAssumption
  <2>2. segment'[j][1] = "queued"
    BY <1>1, <2>1 DEF IInv, FreshSegments
  <2> QED BY <2>1, <2>2
<1>4. /\ DOMAIN segment' = Job /\ segment' = [i \in Job |-> segment'[i]]
      /\ \A i \in Job : segment'[i] \in [1 .. SegCount[i] -> JobStatus]
      /\ \A i \in Job \ {j} : segment'[i] = segment[i]
      /\ outPath' \in [Job -> BOOLEAN]
  BY <1>1 DEF IInv, TypeInv
<1>5. status' = [status EXCEPT ![j] = "queued"]
  BY DEF CreateJob
<1> QED
  BY <1>1, <1>2, <1>3, <1>4, <1>5 DEF Starts

LEMMA RetryStarts ==
  ASSUME IInv, NEW j \in Job, NEW s \in 1 .. SegCount[j], RetrySegment(j, s) PROVE Starts(j, s)
<1>1. segment' = [segment EXCEPT ![j] = [segment[j] EXCEPT ![s] = "queued"]]
  BY DEF RetrySegment
<1>2. segment'[j] = [segment[j] EXCEPT ![s] = "queued"]
  BY <1>1 DEF IInv, TypeInv
<1>3. segment'[j] \in [1 .. SegCount[j] -> JobStatus] /\ segment'[j][s] = "queued"
  BY <1>2 DEF IInv, TypeInv, JobStatus
<1>4. /\ DOMAIN segment' = Job /\ segment' = [i \in Job |-> segment'[i]]
      /\ \A i \in Job \ {j} : segment'[i] = segment[i]
  BY <1>1 DEF IInv, TypeInv
<1>5. \A i \in Job : segment'[i] \in [1 .. SegCount[i] -> JobStatus]
  BY <1>3, <1>4 DEF IInv, TypeInv
<1>6. \E x \in 1 .. SegCount[j] : segment'[j][x] # "succeeded"
  BY <1>3
<1>7. outPath' \in [Job -> BOOLEAN]
  BY DEF RetrySegment, IInv, TypeInv
<1>8. /\ status[j] \in {"succeeded", "failed"} /\ \A i \in Job \ {j} : ~ Active(i)
      /\ status' = [status EXCEPT ![j] = "queued"] /\ StartThread(j, s)
  BY DEF RetrySegment
<1> QED
  BY <1>4, <1>5, <1>6, <1>7, <1>8 DEF Starts

LEMMA CancelInv == ASSUME IInv, NEW j \in Job, CancelJob(j) PROVE IInv'
<1>1. status' = [status EXCEPT ![j] = "cancelled"] /\ UNCHANGED <<outPath, runs, pc>> /\ Active(j)
  BY DEF CancelJob, locals
<1> DEFINE cut == [s \in 1 .. SegCount[j] |->
          IF segment[j][s] \in {"queued", "running"} THEN "cancelled" ELSE segment[j][s]]
<1>2. segment' = [segment EXCEPT ![j] = cut]
  BY DEF CancelJob
<1>3. cut \in [1 .. SegCount[j] -> JobStatus]
  BY DEF IInv, TypeInv, JobStatus
<1> HIDE DEF cut
<1>4. TypeInv'
  BY <1>1, <1>2, <1>3 DEF IInv, TypeInv, JobStatus
<1>5. \A i \in Job : status'[i] = IF i = j THEN "cancelled" ELSE status[i]
  BY <1>1 DEF IInv, TypeInv
<1>6. \A i \in Job \ {j} : segment'[i] = segment[i]
  BY <1>2 DEF IInv, TypeInv
<1>7. \A u \in Thread : u[1] \in Job
  BY DEF Thread
<1>8. ThreadsMatchJobs'
  BY <1>1, <1>5, <1>7 DEF IInv, ThreadsMatchJobs, Live, Active, Cancelled
<1>9. OneActive' /\ StartedRuns' /\ FreshSegments'
  BY <1>1, <1>5, <1>6, <1>7 DEF IInv, OneActive, StartedRuns, FreshSegments, Active, Cancelled
<1>10. WorkLeft'
  BY <1>1, <1>5, <1>6, <1>7 DEF IInv, WorkLeft, Cancelled, Unfinished
<1> QED
  BY <1>4, <1>8, <1>9, <1>10 DEF IInv

LEMMA RestartInv == ASSUME IInv, Restart PROVE IInv'
<1>1. /\ status' = [j \in Job |-> IF Active(j) THEN "failed" ELSE status[j]]
      /\ pc' = [t \in Thread |-> "off"] /\ UNCHANGED <<outPath, runs>>
  BY DEF Restart
<1>2. segment' = [j \in Job |-> [s \in 1 .. SegCount[j] |->
       IF Active(j) /\ segment[j][s] \in {"queued", "running"}
       THEN "failed" ELSE segment[j][s]]]
  BY DEF Restart
<1>3. TypeInv'
  BY <1>1, <1>2 DEF IInv, TypeInv, JobStatus, Pcs
<1>4. \A j \in Job : ~ Active(j)' /\ (status'[j] = "none" => status[j] = "none")
  BY <1>1 DEF Active
<1>5. FreshSegments'
  BY <1>1, <1>2, <1>4 DEF IInv, FreshSegments, Active
<1> QED
  BY <1>1, <1>3, <1>4, <1>5 DEF IInv, ThreadsMatchJobs, OneActive, StartedRuns, WorkLeft,
     Started, Live

LEMMA NextInv == ASSUME IInv, [Next]_vars PROVE IInv'
<1>1. ASSUME NEW j \in Job, CreateJob(j) PROVE IInv'
  BY <1>1, CreateStarts, StartInv
<1>2. ASSUME NEW j \in Job, CancelJob(j) PROVE IInv'
  BY <1>2, CancelInv
<1>3. ASSUME NEW j \in Job, NEW s \in 1 .. SegCount[j], RetrySegment(j, s) PROVE IInv'
  BY <1>3, RetryStarts, StartInv
<1>4. ASSUME NEW t \in Thread, Step(t) PROVE IInv'
  BY <1>4, StepShapes, SilentInv, ReportsInv, EndsInv
<1>5. CASE LoadModel
  BY <1>5 DEF LoadModel, IInv, TypeInv, ThreadsMatchJobs, OneActive, StartedRuns, WorkLeft,
     FreshSegments, Active, Cancelled, Live, Unfinished, store, locals
<1>6. CASE Restart
  BY <1>6, RestartInv
<1>7. CASE UNCHANGED vars
  BY <1>7 DEF vars, IInv, TypeInv, ThreadsMatchJobs, OneActive, StartedRuns, WorkLeft,
     FreshSegments, Active, Cancelled, Live, Unfinished, store, locals
<1> QED
  BY <1>1, <1>2, <1>3, <1>4, <1>5, <1>6, <1>7 DEF Next

\* In every reachable state an active job has exactly one live thread, and a
\* live thread's job is active or cancelled (storage.py, main.py:319-372).
THEOREM WorkerThreads == Spec => []ThreadsMatchJobs
<1>1. Spec => []IInv
  BY InitInv, NextInv, PTL DEF Spec
<1>2. IInv => ThreadsMatchJobs
  BY DEF IInv
<1> QED
  BY <1>1, <1>2, PTL

\* A cancellation is final, whatever the thread, a retry or a restart do later.
THEOREM WorkerCancelIsFinal == Spec => CancelIsFinal
<1> DEFINE Final == \A j \in Job : status[j] = "cancelled" =>
       status'[j] = "cancelled" /\ segment'[j] = segment[j] /\ outPath'[j] = outPath[j]
<1>1. ASSUME IInv, [Next]_vars PROVE Final
  <2> SUFFICES ASSUME NEW j \in Job, status[j] = "cancelled"
               PROVE  status'[j] = "cancelled" /\ segment'[j] = segment[j]
                      /\ outPath'[j] = outPath[j]
    OBVIOUS
  <2> USE <1>1
  <2>0. TypeInv /\ \A t \in Thread : t[1] \in Job
    BY DEF IInv, Thread
  <2>1. ASSUME NEW i \in Job, CreateJob(i) PROVE i # j
    BY <2>1 DEF CreateJob
  <2>2. ASSUME NEW i \in Job, CancelJob(i) PROVE i # j
    BY <2>2 DEF CancelJob, Active
  <2>3. ASSUME NEW i \in Job, NEW s \in 1 .. SegCount[i], RetrySegment(i, s) PROVE i # j
    BY <2>3 DEF RetrySegment
  <2>4. CASE \E i \in Job : CreateJob(i) \/ CancelJob(i)
    BY <2>0, <2>1, <2>2, <2>4 DEF CreateJob, CancelJob, TypeInv
  <2>5. CASE \E i \in Job : \E s \in 1 .. SegCount[i] : RetrySegment(i, s)
    BY <2>0, <2>3, <2>5 DEF RetrySegment, TypeInv
  <2>6. CASE \E t \in Thread : Step(t)
    <3>1. PICK t \in Thread : Step(t)
      BY <2>6
    <3>2. Silent(t) \/ Reports(t) \/ Ends(t)
      BY <3>1, StepShapes
    <3>3. t[1] = j => Cancelled(t)
      BY DEF Cancelled
    <3>4. CASE Silent(t)
      BY <3>4 DEF Silent
    <3>5. CASE Reports(t)
      BY <2>0, <3>3, <3>5 DEF Reports, SegmentsKept, TypeInv
    <3>6. CASE Ends(t)
      <4>1. /\ t[1] \in Job /\ SegmentsKept(t) /\ (Cancelled(t) => UNCHANGED outPath)
            /\ \A i \in Job : i # t[1] => outPath'[i] = outPath[i]
        BY <2>0, <3>6 DEF Ends
      <4>2. status'[j] = "cancelled" /\ segment'[j] = segment[j]
        BY <2>0, <3>3, <3>6, <4>1 DEF Ends, SegmentsKept, TypeInv
      <4>3. outPath'[j] = outPath[j]
        BY <3>3, <4>1
      <4> QED BY <4>2, <4>3
    <3> QED BY <3>2, <3>4, <3>5, <3>6
  <2>7. CASE LoadModel \/ UNCHANGED vars
    BY <2>7 DEF LoadModel, vars, store
  <2>8. CASE Restart
    <3>1. ~ Active(j)
      BY DEF Active
    <3>2. segment'[j] = [s \in 1 .. SegCount[j] |-> segment[j][s]]
      BY <2>8, <3>1 DEF Restart
    <3> QED BY <2>0, <2>8, <3>1, <3>2 DEF Restart, TypeInv
  <2> QED BY <2>4, <2>5, <2>6, <2>7, <2>8 DEF Next
<1>2. Spec => []IInv
  BY InitInv, NextInv, PTL DEF Spec
<1>3. ASSUME IInv, [Next]_vars PROVE [Final]_vars
  BY <1>1, <1>3
<1> QED
  BY <1>2, <1>3, PTL DEF Spec, CancelIsFinal

\* The worker's store and threads implement the job contract.
THEOREM WorkerImplementsContract == Spec => JobContractSpec
<1>1. Init => Contract!Init
  BY DEF Init, Contract!Init
<1>2. ASSUME IInv, [Next]_vars PROVE [Contract!Next]_status
  <2> USE <1>2
  <2>0. TypeInv /\ (\A t \in Thread : t[1] \in Job) /\ (\A j \in Job : Contract!Active(j) <=> Active(j))
    BY DEF IInv, Thread, Contract!Active, Active
  <2>1. ASSUME NEW j \in Job, CreateJob(j) PROVE Contract!Submit(j)
    BY <2>0, <2>1 DEF CreateJob, Idle, Contract!Submit, Contract!Idle, Contract!Becomes
  <2>2. ASSUME NEW j \in Job, CancelJob(j) PROVE Contract!Cancel(j)
    BY <2>0, <2>2 DEF CancelJob, Contract!Cancel, Contract!Becomes
  <2>3. ASSUME NEW j \in Job, NEW s \in 1 .. SegCount[j], RetrySegment(j, s)
        PROVE  Contract!Retry(j)
    BY <2>0, <2>3 DEF RetrySegment, Active, Contract!Retry, Contract!Idle, Contract!Becomes
  <2>4. ASSUME NEW t \in Thread, Step(t)
        PROVE  UNCHANGED status \/ \E j \in Job : \/ Contract!Begin(j) \/ Contract!Succeed(j)
                                                \/ Contract!Fail(j)
    <3>1. t[1] \in Job /\ (Active(t[1]) \/ Cancelled(t))
      BY <2>4, StepShapes, ThreadAlone
    <3>2. CASE Silent(t)
      BY <3>2 DEF Silent
    <3>3. CASE Cancelled(t) /\ (Reports(t) \/ Ends(t))
      BY <3>3 DEF Reports, Ends
    <3>4. CASE ~ Cancelled(t) /\ Reports(t)
      <4>1. status' = [status EXCEPT ![t[1]] = "running"]
        BY <3>4 DEF Reports
      <4>2. CASE status[t[1]] = "running"
        BY <2>0, <3>1, <4>1, <4>2 DEF TypeInv
      <4>3. CASE status[t[1]] = "queued"
        BY <3>1, <4>1, <4>3 DEF Contract!Begin, Contract!Becomes
      <4> QED BY <3>1, <3>4, <4>2, <4>3 DEF Active
    <3>5. CASE ~ Cancelled(t) /\ Ends(t)
      <4>1. PICK new \in {"succeeded", "failed"} :
              /\ status' = IF Cancelled(t) THEN status ELSE [status EXCEPT ![t[1]] = new]
              /\ new = "succeeded" => pc[t] \in Started
        BY <3>5 DEF Ends
      <4>2. CASE new = "succeeded"
        <5>1. status[t[1]] = "running"
          BY <3>5, <4>1, <4>2 DEF IInv, StartedRuns
        <5> QED BY <3>1, <3>5, <4>1, <4>2, <5>1 DEF Contract!Succeed, Contract!Becomes
      <4>3. CASE new = "failed"
        BY <2>0, <3>1, <3>5, <4>1, <4>3 DEF Contract!Fail, Contract!Becomes
      <4> QED BY <4>2, <4>3
    <3> QED BY <2>4, <3>2, <3>3, <3>4, <3>5, StepShapes
  <2>5. CASE LoadModel \/ UNCHANGED vars
    BY <2>5 DEF LoadModel, vars, store
  <2>6. CASE Restart
    <3>1. status' = [j \in Job |-> IF Active(j) THEN "failed" ELSE status[j]]
      BY <2>6 DEF Restart
    <3>2. CASE \A j \in Job : ~ Active(j)
      BY <2>0, <3>1, <3>2 DEF TypeInv
    <3>3. CASE \E j \in Job : Active(j)
      <4>1. PICK j \in Job : Active(j)
        BY <3>3
      <4>2. \A i \in Job : Active(i) <=> i = j
        BY <4>1 DEF IInv, OneActive
      <4>3. status' = [status EXCEPT ![j] = "failed"]
        BY <2>0, <3>1, <4>2 DEF TypeInv
      <4> QED BY <2>0, <4>1, <4>3 DEF Contract!Next, Contract!Fail, Contract!Becomes
    <3> QED BY <3>2, <3>3
  <2> QED
    BY <2>1, <2>2, <2>3, <2>4, <2>5, <2>6 DEF Next, Contract!Next
<1>3. Spec => []IInv
  BY InitInv, NextInv, PTL DEF Spec
<1> QED
  BY <1>1, <1>2, <1>3, PTL DEF Spec, JobContractSpec, Contract!Spec

------------------------------------------------------------------------------
(* The audio.                                                                 *)

Shapes ==
  /\ DOMAIN part = Job /\ DOMAIN output = Job /\ DOMAIN todo = Thread /\ DOMAIN first = Thread
  /\ \A j \in Job : DOMAIN part[j] = Slots(j) /\ DOMAIN output[j] = Slots(j)

\* Where a thread is with a segment, and where it has said so.
Making == {"check", "mark", "lock", "generate", "write", "commit", "after", "seal"}
Marked == {"lock", "generate", "write", "commit", "after", "seal", "fail"}

\* What the thread of an active job has done so far: the segments it has left are
\* those that have not succeeded, only the one it is at is running, and the files
\* it is past are there.
Work(t) ==
  LET j == t[1] IN
  /\ pc[t] \in {"seal", "assemble", "merge", "verify"} => Segmented(j)
  /\ pc[t] # "start" => todo[t] = Unfinished(j)
  /\ pc[t] \in Making /\ Segmented(j) => todo[t] # {}
  /\ pc[t] \in {"assemble", "merge", "verify", "finish"} => todo[t] = {}
  /\ \A s \in 1 .. SegCount[j] : segment[j][s] = "running" => pc[t] \in Marked /\ s = Current(t)
  /\ mode = "voxcpm2" =>
       /\ pc[t] \in {"after", "seal"} /\ Segmented(j) => part[j][Current(t)] # 0
       /\ pc[t] \in {"merge", "verify", "finish"} /\ Segmented(j) => \A s \in Slots(j) : part[j][s] # 0
       /\ pc[t] \in {"verify", "finish"} /\ Segmented(j) => output[j] = part[j]
       /\ pc[t] \in {"after", "finish"} /\ ~ Segmented(j) => output[j][0] # 0
ThreadWork(t) == Live(t) /\ ~ Cancelled(t) => Work(t)

SegmentFiles(j) ==
  \A s \in 1 .. SegCount[j] :
    /\ mode = "voxcpm2" /\ segment[j][s] = "succeeded" => part[j][s] # 0
    /\ segment[j][s] = "running" => Active(j)
    /\ status[j] = "succeeded" => segment[j][s] = "succeeded"
JobAudio(j) ==
  mode = "voxcpm2" /\ status[j] = "succeeded" =>
    /\ outPath[j]
    /\ output[j] # NoFile(j)
    /\ Segmented(j) => output[j] = part[j] /\ \A s \in Slots(j) : part[j][s] # 0

AudioInv ==
  /\ Shapes
  /\ \A t \in Thread : ThreadWork(t)
  /\ \A j \in Job : SegmentFiles(j) /\ JobAudio(j)

LEMMA SlotFacts ==
  ASSUME NEW j \in Job
  PROVE /\ Segmented(j) => Slots(j) = 1 .. SegCount[j] /\ 1 \in Slots(j)
        /\ ~ Segmented(j) => Slots(j) = {0} /\ 1 .. SegCount[j] = {}
        /\ \A s \in 1 .. SegCount[j] : Segmented(j) /\ s \in Slots(j)
BY WorkerAssumption DEF Segmented, Slots

\* A step of a thread touches its own job and its own place only.
LEMMA StepElsewhere ==
  ASSUME IInv, Shapes, NEW t \in Thread, Step(t)
  PROVE /\ mode' = mode /\ Shapes'
        /\ \A i \in Job : i # t[1] =>
             /\ status'[i] = status[i] /\ segment'[i] = segment[i] /\ outPath'[i] = outPath[i]
             /\ part'[i] = part[i] /\ output'[i] = output[i]
        /\ \A u \in Thread : u # t => pc'[u] = pc[u] /\ todo'[u] = todo[u] /\ first'[u] = first[u]
<1>0. t[1] \in Job /\ TypeInv
  BY DEF Thread, IInv
<1>1. UNCHANGED <<mode, first>>
  BY DEF Step, ThreadStart, CheckBefore, Mark, AcquireLock, Generated, Written, Commit,
         CheckAfter, Seal, Assemble, Merge, Verify, Finish, FailThread, Others
<1>2. \A i \in Job : i # t[1] =>
        status'[i] = status[i] /\ segment'[i] = segment[i] /\ outPath'[i] = outPath[i]
  <2>1. CASE Silent(t)
    BY <2>1 DEF Silent
  <2>2. CASE Reports(t)
    BY <1>0, <2>2 DEF Reports, SegmentsKept, TypeInv
  <2>3. CASE Ends(t)
    BY <1>0, <2>3 DEF Ends, SegmentsKept, TypeInv
  <2> QED BY <2>1, <2>2, <2>3, StepShapes
<1>3. \A u \in Thread : u # t => pc'[u] = pc[u]
  <2>1. \E m \in Pcs : pc' = [pc EXCEPT ![t] = m]
    BY StepShapes DEF Silent, Reports, Ends, Pcs
  <2> QED BY <1>0, <2>1 DEF TypeInv
<1>4. \/ UNCHANGED todo
      \/ \E x : todo' = [todo EXCEPT ![t] = x]
  BY DEF Step, ThreadStart, CheckBefore, Mark, AcquireLock, Generated, Written, Commit,
         CheckAfter, Seal, Assemble, Merge, Verify, Finish, FailThread
<1>5. DOMAIN todo' = Thread /\ \A u \in Thread : u # t => todo'[u] = todo[u]
  BY <1>4 DEF Shapes
<1>6. UNCHANGED part \/ \E c : part' = [part EXCEPT ![t[1]] = [part[t[1]] EXCEPT ![c] = t[2]]]
  BY DEF Step, ThreadStart, CheckBefore, Mark, AcquireLock, Generated, Written, Commit,
         CheckAfter, Seal, Assemble, Merge, Verify, Finish, FailThread, files
<1>7. /\ DOMAIN part' = Job /\ \A i \in Job : i # t[1] => part'[i] = part[i]
      /\ DOMAIN part'[t[1]] = Slots(t[1])
  BY <1>0, <1>6 DEF Shapes
<1>8. \/ UNCHANGED output
      \/ \E f : output' = [output EXCEPT ![t[1]] = f] /\ DOMAIN f = Slots(t[1])
  <2>1. CASE Commit(t)
    <3>1. UNCHANGED output \/ output' = [output EXCEPT ![t[1]] = [output[t[1]] EXCEPT ![0] = t[2]]]
      BY <2>1 DEF Commit
    <3> QED BY <1>0, <3>1 DEF Shapes
  <2>2. CASE Merge(t)
    BY <1>0, <2>2 DEF Merge, Shapes
  <2>3. CASE ~ Commit(t) /\ ~ Merge(t)
    <3>1. UNCHANGED output \/ output' = [output EXCEPT ![t[1]] = NoFile(t[1])]
      BY <2>3 DEF Step, ThreadStart, CheckBefore, Mark, AcquireLock, Generated, Written, Abandon,
         CheckAfter, Seal, Assemble, Verify, Finish, FailThread, files
    <3> QED BY <3>1 DEF NoFile
  <2> QED BY <2>1, <2>2, <2>3
<1>9. /\ DOMAIN output' = Job /\ \A i \in Job : i # t[1] => output'[i] = output[i]
      /\ DOMAIN output'[t[1]] = Slots(t[1])
  BY <1>0, <1>8 DEF Shapes
<1> QED BY <1>1, <1>2, <1>3, <1>5, <1>7, <1>9 DEF Shapes, Slots

\* So only the thread itself and its job need a look.
LEMMA OwnWorkSuffices ==
  ASSUME IInv, IInv', AudioInv, NEW t \in Thread, Step(t),
         ThreadWork(t)', SegmentFiles(t[1])', JobAudio(t[1])'
  PROVE AudioInv'
<1>0. t[1] \in Job /\ \A u \in Thread : u[1] \in Job
  BY DEF Thread
<1>1. /\ mode' = mode /\ Shapes'
      /\ \A i \in Job : i # t[1] =>
           /\ status'[i] = status[i] /\ segment'[i] = segment[i] /\ outPath'[i] = outPath[i]
           /\ part'[i] = part[i] /\ output'[i] = output[i]
      /\ \A u \in Thread : u # t => pc'[u] = pc[u] /\ todo'[u] = todo[u] /\ first'[u] = first[u]
  BY StepElsewhere DEF AudioInv
<1>2. ASSUME NEW u \in Thread PROVE ThreadWork(u)'
  <2>1. CASE u = t
    BY <2>1
  <2>2. CASE u # t /\ ~ Live(u)
    BY <1>1, <2>2 DEF ThreadWork, Live
  <2>3. CASE u # t /\ Live(u)
    <3>1. u[1] # t[1]
      BY <2>3, StepShapes, ThreadAlone
    <3>2. /\ pc'[u] = pc[u] /\ todo'[u] = todo[u] /\ first'[u] = first[u] /\ mode' = mode
          /\ status'[u[1]] = status[u[1]] /\ segment'[u[1]] = segment[u[1]]
          /\ part'[u[1]] = part[u[1]] /\ output'[u[1]] = output[u[1]]
      BY <1>0, <1>1, <2>3, <3>1
    <3>3. Current(u)' = Current(u) /\ Unfinished(u[1])' = Unfinished(u[1])
      BY <3>2 DEF Current, Unfinished
    <3>4. ThreadWork(u)
      BY DEF AudioInv
    <3> QED BY <3>2, <3>3, <3>4 DEF ThreadWork, Work, Live, Cancelled, Segmented, Slots
  <2> QED BY <2>1, <2>2, <2>3
<1>3. ASSUME NEW j \in Job PROVE SegmentFiles(j)' /\ JobAudio(j)'
  <2>1. CASE j = t[1]
    BY <2>1
  <2>2. CASE j # t[1]
    BY <1>1, <2>2 DEF AudioInv, SegmentFiles, JobAudio, Active, Segmented, Slots, NoFile
  <2> QED BY <2>1, <2>2
<1> QED BY <1>1, <1>2, <1>3 DEF AudioInv

LEMMA TakesAreNumbered == \A t \in Thread : t[1] \in Job /\ t[2] # 0
BY WorkerAssumption DEF Thread

\* A thread never takes a segment's file away.
LEMMA PartsStay ==
  ASSUME Shapes, NEW t \in Thread, Step(t), NEW s \in Slots(t[1]), part[t[1]][s] # 0
  PROVE part'[t[1]][s] # 0
<1>1. UNCHANGED part \/ \E c : part' = [part EXCEPT ![t[1]] = [part[t[1]] EXCEPT ![c] = t[2]]]
  BY DEF Step, ThreadStart, CheckBefore, Mark, AcquireLock, Generated, Written, Commit,
         CheckAfter, Seal, Assemble, Merge, Verify, Finish, FailThread, files
<1>2. CASE UNCHANGED part
  BY <1>2
<1>3. ASSUME NEW c, part' = [part EXCEPT ![t[1]] = [part[t[1]] EXCEPT ![c] = t[2]]]
      PROVE part'[t[1]][s] # 0
  <2>1. part'[t[1]] = [part[t[1]] EXCEPT ![c] = t[2]]
    BY <1>3, TakesAreNumbered DEF Shapes
  <2>2. s \in DOMAIN part[t[1]]
    BY TakesAreNumbered DEF Shapes
  <2> QED BY <2>1, <2>2, TakesAreNumbered
<1> QED BY <1>1, <1>2, <1>3

\* The thread of a job that was cancelled meanwhile.
LEMMA LateStepKeepsAudio ==
  ASSUME IInv, IInv', AudioInv, NEW t \in Thread, Step(t), Cancelled(t) PROVE AudioInv'
<1>0. t[1] \in Job
  BY TakesAreNumbered
<1>1. status'[t[1]] = "cancelled" /\ segment'[t[1]] = segment[t[1]]
  BY <1>0, StepShapes DEF IInv, TypeInv, Silent, Reports, Ends, SegmentsKept, Cancelled
<1>2. ThreadWork(t)' /\ JobAudio(t[1])'
  BY <1>1 DEF ThreadWork, JobAudio, Cancelled
<1>3. mode' = mode
  BY StepElsewhere DEF AudioInv
<1>4. SegmentFiles(t[1])'
  BY <1>0, <1>1, <1>3, PartsStay, SlotFacts DEF AudioInv, SegmentFiles, Active, Cancelled
<1> QED BY <1>2, <1>4, OwnWorkSuffices

\* What is known of a thread before it goes on, as long as its job is active.
Goes(t) ==
  /\ IInv /\ IInv' /\ AudioInv /\ Step(t)
  /\ Active(t[1]) /\ Work(t)
LEMMA GoesFacts ==
  ASSUME NEW t \in Thread, Goes(t)
  PROVE /\ t[1] \in Job /\ t[2] # 0 /\ DOMAIN pc = Thread /\ mode' = mode
        /\ Shapes /\ Shapes' /\ SegmentFiles(t[1]) /\ first' = first
        /\ \A s \in Slots(t[1]) : part[t[1]][s] # 0 => part'[t[1]][s] # 0
<1>1. first' = first
  BY DEF Goes, Step, ThreadStart, CheckBefore, Mark, AcquireLock, Generated, Written, Commit,
         CheckAfter, Seal, Assemble, Merge, Verify, Finish, FailThread, Others
<1>2. Shapes /\ SegmentFiles(t[1]) /\ IInv
  BY TakesAreNumbered DEF Goes, AudioInv
<1>3. Step(t)
  BY DEF Goes
<1>4. \A s \in Slots(t[1]) : part[t[1]][s] # 0 => part'[t[1]][s] # 0
  BY <1>2, <1>3, PartsStay
<1>5. DOMAIN pc = Thread
  BY <1>2 DEF IInv, TypeInv
<1> QED BY <1>1, <1>2, <1>3, <1>4, <1>5, TakesAreNumbered, StepElsewhere


\* A step that reports nothing leaves the segments as they are, and the job active.
LEMMA QuietKeepsSegments ==
  ASSUME NEW t \in Thread, Goes(t), UNCHANGED store
  PROVE /\ Active(t[1])' /\ SegmentFiles(t[1])' /\ JobAudio(t[1])'
        /\ Unfinished(t[1])' = Unfinished(t[1])
<1>1. Active(t[1])' /\ JobAudio(t[1])' /\ Unfinished(t[1])' = Unfinished(t[1])
  BY DEF Goes, store, Active, JobAudio, Unfinished
<1>2. SegmentFiles(t[1])'
  BY <1>1, GoesFacts, SlotFacts DEF store, SegmentFiles
<1> QED BY <1>1, <1>2

\* A set of numbers has a least one.
Before == {ss \in Nat \X Nat : ss[1] < ss[2]}
LEMMA BeforeIsWellFounded == IsWellFoundedOn(Before, Nat)
<1>1. OpToRel(<, Nat) = Before
  BY Zenon DEF OpToRel, Before
<1> QED BY <1>1, NatLessThanWellFounded, Zenon

LEMMA LeastExists ==
  ASSUME NEW S, S # {}, S \subseteq Nat PROVE \E n \in S : \A x \in S : n <= x
<1>1. PICK n \in S : \A x \in S : ~ (<<x, n>> \in Before)
  BY BeforeIsWellFounded, WFMin, Zenon
<1>2. ASSUME NEW x \in S PROVE n <= x
  <2>1. x \in Nat /\ n \in Nat /\ ~ (<<x, n>> \in Before)
    BY <1>1
  <2> QED BY <2>1 DEF Before
<1> QED BY <1>2

\* So the segment the loop is at is one of those left.
LEMMA CurrentIsLeft ==
  ASSUME NEW t \in Thread, todo[t] # {}, todo[t] \subseteq Nat
  PROVE Current(t) \in todo[t]
<1>1. CASE first[t] \in todo[t]
  BY <1>1 DEF Current
<1>2. CASE first[t] \notin todo[t]
  <2>1. PICK n \in todo[t] : \A x \in todo[t] : n <= x
    BY LeastExists
  <2> QED BY <1>2, <2>1 DEF Current, Least
<1> QED BY <1>1, <1>2

LEMMA StartWork ==
  ASSUME NEW t \in Thread, Goes(t), ThreadStart(t) PROVE Work(t)'
<1> USE GoesFacts
<1>1. /\ pc[t] = "start" /\ UNCHANGED <<segment, part, output, mode>>
      /\ todo'[t] = Unfinished(t[1]) /\ Unfinished(t[1])' = Unfinished(t[1])
  BY DEF ThreadStart, Shapes, store, files, Others, Unfinished
<1>2. pc'[t] = IF ~ Segmented(t[1]) THEN "mark"
               ELSE IF Unfinished(t[1]) = {} THEN AfterSegments ELSE NextSegment
  BY DEF ThreadStart, Goto
<1>3. Segmented(t[1]) => Unfinished(t[1]) # {}
  BY <1>1 DEF Goes, IInv, WorkLeft, Active, Cancelled
<1>4. pc'[t] \in {"mark", "check"}
  BY <1>2, <1>3 DEF NextSegment
<1>5. \A s \in 1 .. SegCount[t[1]] : segment[t[1]][s] # "running"
  BY <1>1 DEF Goes, Work, Marked
<1> QED BY <1>1, <1>3, <1>4, <1>5 DEF Work, Making, Segmented

\* Steps within a segment, up to the one that puts its file in place.
LEMMA MakingWork ==
  ASSUME NEW t \in Thread, Goes(t),
         CheckBefore(t) \/ AcquireLock(t) \/ Generated(t) \/ Written(t)
  PROVE Work(t)'
<1> USE GoesFacts
<1>1. /\ pc[t] \in {"check", "lock", "generate", "write"}
      /\ pc'[t] \in {"mark", "generate", "write", "commit", "fail"}
      /\ pc'[t] = "mark" => pc[t] = "check"
  BY DEF CheckBefore, AcquireLock, Generated, Written, Goto, Goes, Active, Cancelled
<1>2. UNCHANGED <<segment, part, todo, mode>>
  BY DEF CheckBefore, AcquireLock, Generated, Written, store, files
<1>3. Unfinished(t[1])' = Unfinished(t[1]) /\ Current(t)' = Current(t)
  BY <1>2 DEF Unfinished, Current
<1>4. \A s \in 1 .. SegCount[t[1]] : segment[t[1]][s] = "running" =>
        pc[t] # "check" /\ s = Current(t)
  BY DEF Goes, Work, Marked
<1>5. /\ \A s \in 1 .. SegCount[t[1]] :
           segment'[t[1]][s] = "running" => pc'[t] \in Marked /\ s = Current(t)'
      /\ todo'[t] = Unfinished(t[1])' /\ (Segmented(t[1]) => todo'[t] # {})
  BY <1>1, <1>2, <1>3, <1>4 DEF Goes, Work, Making, Marked
<1> QED BY <1>1, <1>5 DEF Work, Segmented

LEMMA CommitWork ==
  ASSUME NEW t \in Thread, Goes(t), Commit(t) PROVE Work(t)'
<1> USE GoesFacts
<1>1. pc[t] = "commit" /\ pc'[t] = "after" /\ UNCHANGED <<segment, todo, mode>>
  BY DEF Commit, Goto, store
<1>2. Unfinished(t[1])' = Unfinished(t[1]) /\ Current(t)' = Current(t)
  BY <1>1 DEF Unfinished, Current
<1>3. /\ todo[t] = Unfinished(t[1]) /\ (Segmented(t[1]) => todo[t] # {})
      /\ \A s \in 1 .. SegCount[t[1]] : segment[t[1]][s] = "running" => s = Current(t)
  BY <1>1 DEF Goes, Work, Making
<1>4. Segmented(t[1]) => part'[t[1]][Current(t)] # 0
  <2> SUFFICES ASSUME Segmented(t[1]) PROVE part'[t[1]][Current(t)] # 0
    OBVIOUS
  <2>1. Current(t) \in DOMAIN part[t[1]]
    BY <1>3, CurrentIsLeft, SlotFacts DEF Shapes, Unfinished
  <2>2. part' = [part EXCEPT ![t[1]] = [part[t[1]] EXCEPT ![Current(t)] = t[2]]]
    BY DEF Commit
  <2> QED BY <2>1, <2>2 DEF Shapes
<1>5. ~ Segmented(t[1]) => output'[t[1]][0] # 0
  <2> SUFFICES ASSUME ~ Segmented(t[1]) PROVE output'[t[1]][0] # 0
    OBVIOUS
  <2>1. 0 \in DOMAIN output[t[1]]
    BY SlotFacts DEF Shapes
  <2>2. output' = [output EXCEPT ![t[1]] = [output[t[1]] EXCEPT ![0] = t[2]]]
    BY DEF Commit
  <2> QED BY <2>1, <2>2 DEF Shapes
<1> QED BY <1>1, <1>2, <1>3, <1>4, <1>5 DEF Work, Making, Marked, Segmented

LEMMA CheckAfterWork ==
  ASSUME NEW t \in Thread, Goes(t), CheckAfter(t) PROVE Work(t)'
<1> USE GoesFacts
<1>1. /\ pc[t] = "after" /\ UNCHANGED <<segment, part, output, todo, mode>>
      /\ pc'[t] = IF DueToFail(t) THEN "fail"
                  ELSE IF Segmented(t[1]) THEN "seal" ELSE "finish"
  BY DEF CheckAfter, Goto, store, Goes, Active, Cancelled
<1>2. Unfinished(t[1])' = Unfinished(t[1]) /\ Current(t)' = Current(t)
  BY <1>1 DEF Unfinished, Current
<1>3. /\ todo[t] = Unfinished(t[1]) /\ (Segmented(t[1]) => todo[t] # {})
      /\ \A s \in 1 .. SegCount[t[1]] : segment[t[1]][s] = "running" => s = Current(t)
      /\ mode = "voxcpm2" => /\ Segmented(t[1]) => part[t[1]][Current(t)] # 0
                             /\ ~ Segmented(t[1]) => output[t[1]][0] # 0
  BY <1>1 DEF Goes, Work, Making
<1>4. ~ Segmented(t[1]) => todo[t] = {} /\ 1 .. SegCount[t[1]] = {}
  BY <1>3, SlotFacts DEF Unfinished
<1>5. pc'[t] \in {"fail", "seal", "finish"}
  BY <1>1
<1>6. (pc'[t] = "seal" => Segmented(t[1])) /\ (pc'[t] = "finish" => ~ Segmented(t[1]))
  BY <1>1
<1> HIDE GoesFacts
<1> QED BY <1>1, <1>2, <1>3, <1>4, <1>5, <1>6 DEF Work, Making, Marked, Segmented

\* The steps after the last segment, as far as they report nothing.
LEMMA MergeWork ==
  ASSUME NEW t \in Thread, Goes(t), Merge(t) \/ Verify(t) PROVE Work(t)'
<1> USE GoesFacts
<1>1. /\ pc[t] \in {"merge", "verify"} /\ UNCHANGED <<segment, part, todo, mode>>
      /\ pc'[t] \in IF pc[t] = "merge" THEN {"verify", "fail"} ELSE {"finish"}
      /\ pc[t] = "verify" => UNCHANGED output
      /\ pc'[t] = "verify" => output'[t[1]] = part[t[1]]
  <2>1. CASE Merge(t)
    BY <2>1 DEF Merge, Goto, store, Shapes, Goes
  <2>2. CASE Verify(t)
    BY <2>2 DEF Verify, Goto, store, Shapes, Goes, Active, Cancelled
  <2> QED BY <2>1, <2>2
<1>2. Unfinished(t[1])' = Unfinished(t[1])
  BY <1>1 DEF Unfinished
<1>3. /\ Segmented(t[1]) /\ todo[t] = Unfinished(t[1]) /\ todo[t] = {}
      /\ \A s \in 1 .. SegCount[t[1]] : segment[t[1]][s] # "running"
      /\ mode = "voxcpm2" => \A s \in Slots(t[1]) : part[t[1]][s] # 0
      /\ mode = "voxcpm2" /\ pc[t] = "verify" => output[t[1]] = part[t[1]]
  BY <1>1 DEF Goes, Work, Marked
<1>4. pc'[t] \in {"verify", "finish", "fail"} /\ Segmented(t[1])'
  BY <1>1, <1>3 DEF Segmented
<1>5. Slots(t[1])' = Slots(t[1])
  BY DEF Slots, Segmented
<1> HIDE GoesFacts
<1> QED BY <1>1, <1>2, <1>3, <1>4, <1>5 DEF Work, Making

\* A report about the segment the thread is at.
LEMMA ReportEffect ==
  ASSUME TypeInv, NEW j \in Job, Active(j), NEW s \in 1 .. SegCount[j], NEW new, NEW jobStatus,
         UpdateSegment(j, s, new, jobStatus)
  PROVE /\ status'[j] = jobStatus
        /\ \A x \in 1 .. SegCount[j] : segment'[j][x] = IF x = s THEN new ELSE segment[j][x]
<1>1. /\ segment' = [segment EXCEPT ![j] = [segment[j] EXCEPT ![s] = new]]
      /\ status' = [status EXCEPT ![j] = jobStatus]
  BY DEF UpdateSegment, Active
<1>2. segment'[j] = [segment[j] EXCEPT ![s] = new]
  BY <1>1 DEF TypeInv
<1>3. segment[j] \in [1 .. SegCount[j] -> JobStatus]
  BY DEF TypeInv
<1> QED BY <1>1, <1>2, <1>3 DEF TypeInv

\* A thread with a segment left is at one that has not succeeded.
LEMMA CurrentIsUnfinished ==
  ASSUME NEW t \in Thread, Goes(t), todo[t] = Unfinished(t[1]), todo[t] # {}
  PROVE /\ Current(t) \in 1 .. SegCount[t[1]] /\ segment[t[1]][Current(t)] # "succeeded"
        /\ Current(t) \in todo[t]
<1>1. todo[t] \subseteq Nat
  BY WorkerAssumption DEF Unfinished
<1> QED BY <1>1, CurrentIsLeft DEF Unfinished

LEMMA MarkWork ==
  ASSUME NEW t \in Thread, Goes(t), Mark(t)
  PROVE Work(t)' /\ SegmentFiles(t[1])' /\ JobAudio(t[1])'
<1> DEFINE j == t[1]
           c == Current(t)
<1>0. /\ j \in Job /\ TypeInv /\ Active(j) /\ mode' = mode
      /\ pc[t] = "mark" /\ pc'[t] = IF mode = "voxcpm2" THEN "lock" ELSE "after"
      /\ UNCHANGED <<part, output, todo, first>>
  BY GoesFacts DEF Goes, IInv, Mark, Goto, files
<1>1. /\ todo[t] = Unfinished(j) /\ (Segmented(j) => todo[t] # {})
      /\ \A s \in 1 .. SegCount[j] : segment[j][s] # "running"
  BY <1>0 DEF Goes, Work, Making, Marked
<1>2. c' = c
  BY <1>0 DEF Current
<1>3. CASE Segmented(j)
  <2>1. c \in 1 .. SegCount[j] /\ segment[j][c] # "succeeded"
    BY <1>1, <1>3, CurrentIsUnfinished
  <2>2. UpdateSegment(j, c, "running", "running")
    BY <1>3 DEF Mark
  <2>3. /\ status'[j] = "running"
        /\ \A x \in 1 .. SegCount[j] : segment'[j][x] = IF x = c THEN "running" ELSE segment[j][x]
    BY <1>0, <2>1, <2>2, ReportEffect
  <2>4. Unfinished(j)' = Unfinished(j)
    BY <2>1, <2>3 DEF Unfinished
  <2>5. Work(t)'
    <3>1. Segmented(j)'
      BY <1>3 DEF Segmented
    <3>2. pc'[t] \in {"lock", "after"} /\ (mode' = "voxcpm2" => pc'[t] = "lock")
      BY <1>0
    <3>3. \A s \in 1 .. SegCount[j] : segment'[j][s] = "running" => pc'[t] \in Marked /\ s = c'
      BY <1>1, <1>2, <2>3, <3>2 DEF Marked
    <3>4. todo'[t] = Unfinished(j)' /\ todo'[t] # {}
      BY <1>0, <1>1, <1>3, <2>4
    <3> HIDE DEF c
    <3> QED BY <3>1, <3>2, <3>3, <3>4 DEF Work, c
  <2>6. SegmentFiles(j)'
    <3> SUFFICES ASSUME NEW s \in 1 .. SegCount[j]
                 PROVE /\ mode' = "voxcpm2" /\ segment'[j][s] = "succeeded" => part'[j][s] # 0
                       /\ segment'[j][s] = "running" => Active(j)'
                       /\ status'[j] = "succeeded" => segment'[j][s] = "succeeded"
      BY DEF SegmentFiles
    <3>1. mode = "voxcpm2" /\ segment[j][s] = "succeeded" => part[j][s] # 0
      BY GoesFacts DEF SegmentFiles
    <3> QED BY <1>0, <2>3, <3>1 DEF Active
  <2> QED BY <2>3, <2>5, <2>6 DEF JobAudio
<1>4. CASE ~ Segmented(j)
  <2>1. 1 .. SegCount[j] = {}
    BY <1>0, <1>4, SlotFacts
  <2>2. status'[j] = "running"
    BY <1>0, <1>4 DEF Mark, Update, Active, TypeInv
  <2>3. Unfinished(j) = {} /\ Unfinished(j)' = {}
    BY <2>1 DEF Unfinished
  <2>4. ~ Segmented(j)'
    BY <1>4 DEF Segmented
  <2>5. Work(t)'
    <3>1. pc'[t] \in {"lock", "after"} /\ (mode' = "voxcpm2" => pc'[t] = "lock")
      BY <1>0
    <3>2. todo'[t] = {}
      BY <1>0, <1>1, <2>3
    <3> HIDE DEF c
    <3> QED BY <2>1, <2>3, <2>4, <3>1, <3>2 DEF Work
  <2> QED BY <2>1, <2>2, <2>5 DEF SegmentFiles, JobAudio
<1> QED BY <1>3, <1>4

LEMMA SealWork ==
  ASSUME NEW t \in Thread, Goes(t), Seal(t)
  PROVE Work(t)' /\ SegmentFiles(t[1])' /\ JobAudio(t[1])'
<1> DEFINE j == t[1]
           c == Current(t)
<1>0. /\ j \in Job /\ TypeInv /\ Active(j) /\ mode' = mode
      /\ pc[t] = "seal" /\ pc'[t] = IF todo[t] = {c} THEN AfterSegments ELSE NextSegment
      /\ todo'[t] = todo[t] \ {c}
      /\ UNCHANGED <<part, output, first>>
  BY GoesFacts DEF Goes, IInv, Seal, Goto, files, Shapes
<1>1. /\ todo[t] = Unfinished(j) /\ Segmented(j) /\ todo[t] # {}
      /\ \A s \in 1 .. SegCount[j] : segment[j][s] = "running" => s = c
      /\ mode = "voxcpm2" => part[j][c] # 0
  BY <1>0 DEF Goes, Work, Making, Marked
<1>2. c \in 1 .. SegCount[j] /\ segment[j][c] # "succeeded" /\ c \in todo[t]
  BY <1>1, CurrentIsUnfinished
<1>3. UpdateSegment(j, c, "succeeded", "running")
  BY DEF Seal
<1>4. /\ status'[j] = "running"
      /\ \A x \in 1 .. SegCount[j] : segment'[j][x] = IF x = c THEN "succeeded" ELSE segment[j][x]
  BY <1>0, <1>2, <1>3, ReportEffect
<1>5. Unfinished(j)' = Unfinished(j) \ {c}
  BY <1>4 DEF Unfinished
<1>6. \A s \in 1 .. SegCount[j] : segment'[j][s] # "running"
  BY <1>1, <1>4
<1>7. SegmentFiles(j)'
  <2> SUFFICES ASSUME NEW s \in 1 .. SegCount[j]
               PROVE mode' = "voxcpm2" /\ segment'[j][s] = "succeeded" => part'[j][s] # 0
    BY <1>4, <1>6 DEF SegmentFiles
  <2>1. mode = "voxcpm2" /\ segment[j][s] = "succeeded" => part[j][s] # 0
    BY GoesFacts DEF SegmentFiles
  <2> QED BY <1>0, <1>1, <1>4, <2>1
<1>8. Work(t)'
  <2>1. todo'[t] = Unfinished(j)' /\ Segmented(j)' /\ (todo'[t] = {} <=> todo[t] = {c})
    BY <1>0, <1>1, <1>2, <1>5 DEF Segmented
  <2>2. CASE todo[t] = {c}
    <3>1. /\ pc'[t] \in {"assemble", "finish"} /\ todo'[t] = {}
          /\ mode' = "voxcpm2" => pc'[t] = "assemble"
      BY <1>0, <2>1, <2>2 DEF AfterSegments
    <3> HIDE DEF c
    <3> QED BY <1>6, <2>1, <3>1 DEF Work, Making
  <2>3. CASE todo[t] # {c}
    <3>1. pc'[t] \in {"check", "mark"} /\ todo'[t] # {}
      BY <1>0, <2>1, <2>3 DEF NextSegment
    <3> HIDE DEF c
    <3> QED BY <1>6, <2>1, <3>1 DEF Work
  <2> QED BY <2>2, <2>3
<1> QED BY <1>4, <1>7, <1>8 DEF JobAudio

LEMMA AssembleWork ==
  ASSUME NEW t \in Thread, Goes(t), Assemble(t)
  PROVE Work(t)' /\ SegmentFiles(t[1])' /\ JobAudio(t[1])'
<1> DEFINE j == t[1]
<1>0. /\ j \in Job /\ TypeInv /\ Active(j) /\ mode' = mode
      /\ pc[t] = "assemble" /\ UNCHANGED <<part, output, todo, first>>
  BY GoesFacts DEF Goes, IInv, Assemble, files
<1>1. /\ todo[t] = Unfinished(j) /\ Segmented(j) /\ todo[t] = {}
      /\ \A s \in 1 .. SegCount[j] : segment[j][s] # "running"
  BY <1>0 DEF Goes, Work, Making, Marked
<1>2. CASE \E s \in Slots(j) : part[j][s] = 0
  <2>1. pc'[t] = "fail" /\ UNCHANGED store
    BY <1>2, GoesFacts DEF Assemble, Goto
  <2>2. Active(j)' /\ SegmentFiles(j)' /\ JobAudio(j)' /\ Unfinished(j)' = Unfinished(j)
    BY <2>1, QuietKeepsSegments
  <2>3. \A s \in 1 .. SegCount[j] : segment'[j][s] # "running"
    BY <1>1, <2>1 DEF store
  <2>4. Segmented(j)'
    BY <1>1 DEF Segmented
  <2> QED BY <1>0, <1>1, <2>1, <2>2, <2>3, <2>4 DEF Work, Making
<1>3. CASE ~ \E s \in Slots(j) : part[j][s] = 0
  <2>1. pc'[t] = "merge" /\ Update(j, "running")
    BY <1>3, GoesFacts DEF Assemble, Goto
  <2>2. status'[j] = "running" /\ UNCHANGED segment
    BY <1>0, <2>1 DEF Update, Active, TypeInv
  <2>3. \A s \in Slots(j)' : part'[j][s] # 0
    BY <1>0, <1>3 DEF Slots, Segmented
  <2>4. Unfinished(j)' = Unfinished(j) /\ Segmented(j)' /\ SegmentFiles(j)
    BY <1>1, <2>2, GoesFacts DEF Segmented, Unfinished
  <2>5. Work(t)'
    BY <1>0, <1>1, <2>1, <2>2, <2>3, <2>4 DEF Work, Making
  <2> QED BY <1>0, <1>1, <2>2, <2>4, <2>5 DEF SegmentFiles, JobAudio
<1> QED BY <1>2, <1>3

LEMMA FinishWork ==
  ASSUME NEW t \in Thread, Goes(t), Finish(t)
  PROVE ThreadWork(t)' /\ SegmentFiles(t[1])' /\ JobAudio(t[1])'
<1> DEFINE j == t[1]
<1>0. /\ j \in Job /\ TypeInv /\ Active(j) /\ mode' = mode
      /\ pc[t] = "finish" /\ pc'[t] = "off" /\ UNCHANGED <<part, output>>
  BY GoesFacts DEF Goes, IInv, Finish, Goto, files
<1>1. /\ todo[t] = Unfinished(j) /\ todo[t] = {}
      /\ mode = "voxcpm2" => /\ Segmented(j) => output[j] = part[j] /\ \A s \in Slots(j) : part[j][s] # 0
                             /\ ~ Segmented(j) => output[j][0] # 0
  BY <1>0 DEF Goes, Work
<1>2. /\ status'[j] = "succeeded" /\ UNCHANGED segment
      /\ mode = "voxcpm2" => outPath'[j]
  BY <1>0 DEF Finish, Complete, Update, Active, TypeInv
<1>3. ThreadWork(t)'
  BY <1>0 DEF ThreadWork, Live
<1>4. \A s \in 1 .. SegCount[j] : segment[j][s] = "succeeded"
  BY <1>1 DEF Unfinished
<1>5. SegmentFiles(j)'
  BY <1>0, <1>2, <1>4, GoesFacts DEF SegmentFiles
<1>6. Slots(j)' = Slots(j) /\ NoFile(j)' = NoFile(j) /\ (Segmented(j)' <=> Segmented(j))
  BY DEF Slots, NoFile, Segmented
<1>7. mode = "voxcpm2" => output[j] # NoFile(j)
  <2>1. CASE Segmented(j)
    <3>1. 1 \in Slots(j)
      BY <1>0, <2>1, SlotFacts
    <3> QED BY <1>1, <2>1, <3>1 DEF NoFile
  <2>2. CASE ~ Segmented(j)
    <3>1. 0 \in Slots(j)
      BY <1>0, <2>2, SlotFacts
    <3> QED BY <1>1, <2>2, <3>1 DEF NoFile
  <2> QED BY <2>1, <2>2
<1>8. JobAudio(j)'
  BY <1>0, <1>1, <1>2, <1>6, <1>7 DEF JobAudio
<1> QED BY <1>3, <1>5, <1>8

LEMMA FailWork ==
  ASSUME NEW t \in Thread, Goes(t), FailThread(t)
  PROVE ThreadWork(t)' /\ SegmentFiles(t[1])' /\ JobAudio(t[1])'
<1> DEFINE j == t[1]
           c == Current(t)
<1>0. /\ j \in Job /\ TypeInv /\ Active(j) /\ mode' = mode
      /\ pc[t] = "fail" /\ pc'[t] = "off" /\ UNCHANGED part
  BY GoesFacts DEF Goes, IInv, FailThread, Goto
<1>1. /\ todo[t] = Unfinished(j)
      /\ \A s \in 1 .. SegCount[j] : segment[j][s] = "running" => s = c
  BY <1>0 DEF Goes, Work
<1>2. ThreadWork(t)'
  BY <1>0 DEF ThreadWork, Live
<1>3. /\ status'[j] = "failed"
      /\ \A s \in 1 .. SegCount[j] : /\ segment'[j][s] # "running"
                                     /\ segment'[j][s] = "succeeded" => segment[j][s] = "succeeded"
  <2>1. CASE todo[t] = {}
    <3>1. status'[j] = "failed" /\ UNCHANGED segment
      BY <1>0, <2>1 DEF FailThread, Update, Active, TypeInv
    <3> QED BY <1>1, <2>1, <3>1 DEF Unfinished
  <2>2. CASE todo[t] # {}
    <3>1. c \in 1 .. SegCount[j]
      BY <1>1, <2>2, CurrentIsUnfinished
    <3>2. UpdateSegment(j, c, "failed", "failed")
      BY <2>2 DEF FailThread
    <3>3. /\ status'[j] = "failed"
          /\ \A x \in 1 .. SegCount[j] : segment'[j][x] = IF x = c THEN "failed" ELSE segment[j][x]
      BY <1>0, <3>1, <3>2, ReportEffect
    <3> QED BY <1>1, <3>3
  <2> QED BY <2>1, <2>2
<1>4. SegmentFiles(j)'
  BY <1>0, <1>3, GoesFacts DEF SegmentFiles
<1> QED BY <1>2, <1>3, <1>4 DEF JobAudio

\* Every step of a thread.
LEMMA StepKeepsAudio ==
  ASSUME IInv, IInv', AudioInv, NEW t \in Thread, Step(t) PROVE AudioInv'
<1>1. CASE Cancelled(t)
  BY <1>1, LateStepKeepsAudio
<1>2. CASE ~ Cancelled(t)
  <2>1. Active(t[1]) /\ Live(t)
    BY <1>2, StepShapes, ThreadAlone
  <2>2. Goes(t)
    BY <1>2, <2>1 DEF Goes, AudioInv, ThreadWork
  <2>3. CASE ThreadStart(t)
    BY <2>2, <2>3, StartWork, QuietKeepsSegments, OwnWorkSuffices DEF ThreadStart, ThreadWork
  <2>4. CASE CheckBefore(t) \/ AcquireLock(t) \/ Generated(t) \/ Written(t)
    BY <2>2, <2>4, MakingWork, QuietKeepsSegments, OwnWorkSuffices
       DEF CheckBefore, AcquireLock, Generated, Written, ThreadWork
  <2>5. CASE Commit(t)
    BY <2>2, <2>5, CommitWork, QuietKeepsSegments, OwnWorkSuffices DEF Commit, ThreadWork
  <2>6. CASE CheckAfter(t)
    BY <2>2, <2>6, CheckAfterWork, QuietKeepsSegments, OwnWorkSuffices DEF CheckAfter, ThreadWork
  <2>7. CASE Merge(t) \/ Verify(t)
    BY <2>2, <2>7, MergeWork, QuietKeepsSegments, OwnWorkSuffices DEF Merge, Verify, ThreadWork
  <2>8. CASE Mark(t)
    BY <2>2, <2>8, MarkWork, OwnWorkSuffices DEF ThreadWork
  <2>9. CASE Seal(t)
    BY <2>2, <2>9, SealWork, OwnWorkSuffices DEF ThreadWork
  <2>10. CASE Assemble(t)
    BY <2>2, <2>10, AssembleWork, OwnWorkSuffices DEF ThreadWork
  <2>11. CASE Finish(t)
    BY <2>2, <2>11, FinishWork, OwnWorkSuffices
  <2>12. CASE FailThread(t)
    BY <2>2, <2>12, FailWork, OwnWorkSuffices
  <2> QED
    BY <2>3, <2>4, <2>5, <2>6, <2>7, <2>8, <2>9, <2>10, <2>11, <2>12 DEF Step
<1> QED BY <1>1, <1>2

\* A thread that starts finds no segment running.
LEMMA StartKeepsAudio ==
  ASSUME IInv, AudioInv, NEW j \in Job, NEW s, Starts(j, s), UNCHANGED <<mode, files>>,
         \A x \in 1 .. SegCount[j] : segment'[j][x] \in {segment[j][x], "queued"},
         \A i \in Job \ {j} : outPath'[i] = outPath[i]
  PROVE AudioInv'
<1> DEFINE t == <<j, runs[j] + 1>>
<1>0. UNCHANGED <<mode, part, output, todo>> /\ Starts(j, s)
  BY DEF files, Starts, StartThread
<1>1. /\ ~ Active(j) /\ (\A u \in Thread : u[1] = j => ~ Live(u)) /\ TypeInv
      /\ \A u \in Thread : u[1] \in Job
  BY DEF IInv, ThreadsMatchJobs, Active, Cancelled, Starts, Thread
<1>2. /\ pc' = [pc EXCEPT ![t] = "start"] /\ first' = [first EXCEPT ![t] = s]
      /\ status' = [status EXCEPT ![j] = "queued"]
      /\ \A i \in Job \ {j} : segment'[i] = segment[i]
  BY DEF Starts, StartThread
<1>3. \A x \in 1 .. SegCount[j] : segment'[j][x] # "running"
  BY <1>1 DEF AudioInv, SegmentFiles
<1>4. Shapes'
  BY <1>0, <1>2 DEF AudioInv, Shapes, Slots, Segmented
<1>5. ASSUME NEW u \in Thread, Live(u)', ~ Cancelled(u)' PROVE Work(u)'
  <2>1. CASE u[1] = j
    <3>1. pc'[u] = "start"
      BY <1>1, <1>2, <1>5, <2>1 DEF Live, TypeInv
    <3> QED BY <1>3, <2>1, <3>1 DEF Work, Making
  <2>2. CASE u[1] # j
    <3>1. u # t
      BY <2>2
    <3>2. /\ pc'[u] = pc[u] /\ todo'[u] = todo[u] /\ first'[u] = first[u] /\ mode' = mode
          /\ status'[u[1]] = status[u[1]] /\ segment'[u[1]] = segment[u[1]]
          /\ part'[u[1]] = part[u[1]] /\ output'[u[1]] = output[u[1]]
      BY <1>0, <1>1, <1>2, <2>2, <3>1 DEF TypeInv, AudioInv, Shapes
    <3>3. Current(u)' = Current(u) /\ Unfinished(u[1])' = Unfinished(u[1])
      BY <3>2 DEF Current, Unfinished
    <3>4. Work(u)
      BY <1>5, <3>2 DEF AudioInv, ThreadWork, Live, Cancelled
    <3> QED BY <3>2, <3>3, <3>4 DEF Work, Segmented, Slots
  <2> QED BY <2>1, <2>2
<1>6. ASSUME NEW i \in Job PROVE SegmentFiles(i)' /\ JobAudio(i)'
  <2>0. SegmentFiles(i) /\ JobAudio(i)
    BY DEF AudioInv
  <2>1. CASE i = j
    <3>1. status'[j] = "queued"
      BY <1>1, <1>2 DEF TypeInv
    <3> QED BY <1>0, <1>3, <2>0, <2>1, <3>1 DEF SegmentFiles, JobAudio
  <2>2. CASE i # j
    <3>1. status'[i] = status[i] /\ segment'[i] = segment[i]
      BY <1>1, <1>2, <2>2 DEF TypeInv
    <3>2. outPath'[i] = outPath[i]
      BY <2>2
    <3> QED BY <1>0, <2>0, <3>1, <3>2 DEF SegmentFiles, JobAudio, Active, Segmented, Slots, NoFile
  <2> QED BY <2>1, <2>2
<1> QED BY <1>4, <1>5, <1>6 DEF AudioInv, ThreadWork

LEMMA CreateKeepsAudio == ASSUME IInv, AudioInv, NEW j \in Job, CreateJob(j) PROVE AudioInv'
<1>1. Starts(j, 0)
  BY CreateStarts
<1>2. UNCHANGED <<mode, files, segment, outPath>>
  BY DEF CreateJob
<1> QED BY <1>1, <1>2, StartKeepsAudio

LEMMA RetryKeepsAudio ==
  ASSUME IInv, AudioInv, NEW j \in Job, NEW s \in 1 .. SegCount[j], RetrySegment(j, s)
  PROVE AudioInv'
<1>1. Starts(j, s)
  BY RetryStarts
<1>2. /\ UNCHANGED <<mode, files>>
      /\ outPath' = [outPath EXCEPT ![j] = FALSE]
      /\ segment' = [segment EXCEPT ![j] = [segment[j] EXCEPT ![s] = "queued"]]
  BY DEF RetrySegment
<1>3. segment'[j] = [segment[j] EXCEPT ![s] = "queued"] /\ DOMAIN segment[j] = 1 .. SegCount[j]
  BY <1>2 DEF IInv, TypeInv
<1>4. \A x \in 1 .. SegCount[j] : segment'[j][x] \in {segment[j][x], "queued"}
  BY <1>3
<1>5. \A i \in Job \ {j} : outPath'[i] = outPath[i]
  BY <1>2 DEF IInv, TypeInv
<1> QED BY <1>1, <1>2, <1>4, <1>5, StartKeepsAudio

\* A cancellation leaves no segment running, and the thread on its own.
LEMMA CancelKeepsAudio == ASSUME IInv, AudioInv, NEW j \in Job, CancelJob(j) PROVE AudioInv'
<1>1. /\ UNCHANGED <<mode, part, output, outPath, pc, todo, first>> /\ TypeInv
      /\ status' = [status EXCEPT ![j] = "cancelled"]
  BY DEF CancelJob, files, locals, IInv
<1> DEFINE cut == [s \in 1 .. SegCount[j] |->
          IF segment[j][s] \in {"queued", "running"} THEN "cancelled" ELSE segment[j][s]]
<1>2. segment' = [segment EXCEPT ![j] = cut]
  BY DEF CancelJob
<1>3. segment'[j] = cut
  BY <1>1, <1>2 DEF TypeInv
<1>4. \A s \in 1 .. SegCount[j] : /\ segment'[j][s] # "running"
                                  /\ segment'[j][s] = "succeeded" => segment[j][s] = "succeeded"
  BY <1>3
<1> HIDE DEF cut
<1>5. \A i \in Job \ {j} : segment'[i] = segment[i] /\ status'[i] = status[i]
  BY <1>1, <1>2 DEF TypeInv
<1>6. status'[j] = "cancelled"
  BY <1>1 DEF TypeInv
<1>7. Shapes'
  BY <1>1 DEF AudioInv, Shapes, Slots, Segmented
<1>8. ASSUME NEW u \in Thread PROVE ThreadWork(u)'
  <2>1. CASE u[1] = j
    BY <1>6, <2>1 DEF ThreadWork, Cancelled
  <2>2. CASE u[1] # j
    <3>1. segment'[u[1]] = segment[u[1]] /\ status'[u[1]] = status[u[1]]
      BY <1>5, <2>2, TakesAreNumbered
    <3>2. Current(u)' = Current(u) /\ Unfinished(u[1])' = Unfinished(u[1])
      BY <1>1, <3>1 DEF Current, Unfinished
    <3>3. ThreadWork(u)
      BY DEF AudioInv
    <3> QED BY <1>1, <3>1, <3>2, <3>3 DEF ThreadWork, Work, Live, Cancelled, Segmented, Slots
  <2> QED BY <2>1, <2>2
<1>9. ASSUME NEW i \in Job PROVE SegmentFiles(i)' /\ JobAudio(i)'
  <2>0. SegmentFiles(i) /\ JobAudio(i)
    BY DEF AudioInv
  <2>1. CASE i = j
    BY <1>1, <1>4, <1>6, <2>0, <2>1 DEF SegmentFiles, JobAudio
  <2>2. CASE i # j
    BY <1>1, <1>5, <2>0, <2>2 DEF SegmentFiles, JobAudio, Active, Segmented, Slots, NoFile
  <2> QED BY <2>1, <2>2
<1> QED BY <1>7, <1>8, <1>9 DEF AudioInv

\* After a restart no segment is running and no thread alive.
LEMMA RestartKeepsAudio == ASSUME IInv, AudioInv, Restart PROVE AudioInv'
<1>1. /\ UNCHANGED <<mode, part, output, outPath, todo, first>>
      /\ status' = [j \in Job |-> IF Active(j) THEN "failed" ELSE status[j]]
      /\ pc' = [t \in Thread |-> "off"]
  BY DEF Restart, files
<1>2. segment' = [j \in Job |-> [s \in 1 .. SegCount[j] |->
       IF Active(j) /\ segment[j][s] \in {"queued", "running"}
       THEN "failed" ELSE segment[j][s]]]
  BY DEF Restart
<1>3. Shapes'
  BY <1>1 DEF AudioInv, Shapes, Slots, Segmented
<1>4. \A t \in Thread : ThreadWork(t)'
  BY <1>1 DEF ThreadWork, Live
<1>5. ASSUME NEW i \in Job PROVE SegmentFiles(i)' /\ JobAudio(i)'
  <2>1. status'[i] = "succeeded" => status[i] = "succeeded" /\ ~ Active(i)
    BY <1>1
  <2>2. \A s \in 1 .. SegCount[i] :
          /\ segment'[i][s] # "running"
          /\ segment'[i][s] = "succeeded" => segment[i][s] = "succeeded"
          /\ ~ Active(i) => segment'[i][s] = segment[i][s]
    <3> SUFFICES ASSUME NEW s \in 1 .. SegCount[i]
                 PROVE /\ segment'[i][s] # "running"
                       /\ segment'[i][s] = "succeeded" => segment[i][s] = "succeeded"
                       /\ ~ Active(i) => segment'[i][s] = segment[i][s]
      OBVIOUS
    <3>1. segment'[i][s] = IF Active(i) /\ segment[i][s] \in {"queued", "running"}
                           THEN "failed" ELSE segment[i][s]
      BY <1>2
    <3>2. segment[i][s] = "running" => Active(i)
      BY DEF AudioInv, SegmentFiles
    <3> QED BY <3>1, <3>2
  <2>3. SegmentFiles(i) /\ JobAudio(i)
    BY DEF AudioInv
  <2>4. SegmentFiles(i)'
    BY <1>1, <2>1, <2>2, <2>3 DEF SegmentFiles
  <2>5. JobAudio(i)'
    BY <1>1, <2>1, <2>3 DEF JobAudio, Segmented, Slots, NoFile
  <2> QED BY <2>4, <2>5
<1> QED BY <1>3, <1>4, <1>5 DEF AudioInv

LEMMA InitAudio == Init => AudioInv
<1> SUFFICES ASSUME Init PROVE AudioInv
  OBVIOUS
<1>1. Shapes
  BY DEF Init, Shapes, NoFile
<1>2. \A t \in Thread : ThreadWork(t)
  BY DEF Init, ThreadWork, Live
<1>3. \A j \in Job : SegmentFiles(j) /\ JobAudio(j)
  BY DEF Init, SegmentFiles, JobAudio
<1> QED BY <1>1, <1>2, <1>3 DEF AudioInv

LEMMA NextAudio == ASSUME IInv, AudioInv, [Next]_vars PROVE AudioInv'
<1>0. IInv'
  BY NextInv
<1>1. ASSUME NEW j \in Job, CreateJob(j) PROVE AudioInv'
  BY <1>1, CreateKeepsAudio
<1>2. ASSUME NEW j \in Job, CancelJob(j) PROVE AudioInv'
  BY <1>2, CancelKeepsAudio
<1>3. ASSUME NEW j \in Job, NEW s \in 1 .. SegCount[j], RetrySegment(j, s) PROVE AudioInv'
  BY <1>3, RetryKeepsAudio
<1>4. ASSUME NEW t \in Thread, Step(t) PROVE AudioInv'
  BY <1>0, <1>4, StepKeepsAudio
<1>5. CASE LoadModel \/ UNCHANGED vars
  <2>1. UNCHANGED <<mode, status, segment, outPath, part, output, pc, todo, first>>
    BY <1>5 DEF LoadModel, vars, store, files, locals
  <2>2. \A t \in Thread : Current(t)' = Current(t)
    BY <2>1 DEF Current
  <2>3. \A t \in Thread : Unfinished(t[1])' = Unfinished(t[1])
    BY <2>1 DEF Unfinished
  <2>4. \A t \in Thread : ThreadWork(t)'
    BY <2>1, <2>2, <2>3 DEF AudioInv, ThreadWork, Work, Live, Cancelled, Segmented, Slots
  <2>5. \A j \in Job : SegmentFiles(j)' /\ JobAudio(j)'
    BY <2>1 DEF AudioInv, SegmentFiles, JobAudio, Active, Segmented, Slots, NoFile
  <2>6. Shapes'
    BY <2>1 DEF AudioInv, Shapes, Segmented, Slots
  <2> QED BY <2>4, <2>5, <2>6 DEF AudioInv
<1>6. CASE Restart
  BY <1>6, RestartKeepsAudio
<1> QED
  BY <1>1, <1>2, <1>3, <1>4, <1>5, <1>6 DEF Next

\* A succeeded job's audio is the merge of the newest take of each of its segments,
\* whatever retries, cancellations, failures and restarts came before.
THEOREM WorkerAudioIsCurrent == Spec => []AudioIsCurrent
<1>1. Spec => [](IInv /\ AudioInv)
  <2>1. Init => IInv /\ AudioInv
    BY InitInv, InitAudio
  <2>2. IInv /\ AudioInv /\ [Next]_vars => (IInv /\ AudioInv)'
    BY NextInv, NextAudio
  <2> QED BY <2>1, <2>2, PTL DEF Spec
<1>2. AudioInv => AudioIsCurrent
  BY DEF AudioInv, JobAudio, AudioIsCurrent
<1> QED
  BY <1>1, <1>2, PTL

\* A segment reported succeeded has its audio on disk, none is running once its job is
\* over, and a succeeded job has no other segment.
THEOREM WorkerSegmentsMatchFiles == Spec => []SegmentsMatchFiles
<1>1. Spec => [](IInv /\ AudioInv)
  <2>1. Init => IInv /\ AudioInv
    BY InitInv, InitAudio
  <2>2. IInv /\ AudioInv /\ [Next]_vars => (IInv /\ AudioInv)'
    BY NextInv, NextAudio
  <2> QED BY <2>1, <2>2, PTL DEF Spec
<1>2. AudioInv => SegmentsMatchFiles
  BY DEF AudioInv, SegmentFiles, SegmentsMatchFiles
<1> QED
  BY <1>1, <1>2, PTL

------------------------------------------------------------------------------
(* The types.                                                                 *)

\* The rest of TypeOK, next to TypeInv.
TypeRest ==
  /\ mode \in Modes
  /\ runtime \in {"loading", "ready", "error"}
  /\ \A j \in Job : \A s \in 1 .. SegCount[j] : segment[j][s] # "none"
  /\ DOMAIN part = Job /\ DOMAIN output = Job
  /\ \A j \in Job : part[j] \in [Slots(j) -> 0 .. MaxRuns] /\ output[j] \in [Slots(j) -> 0 .. MaxRuns]
  /\ genLock \in Thread \cup {NoThread}
  /\ restarts \in 0 .. MaxRestarts

LEMMA SlotsStay == \A j : Slots(j)' = Slots(j)
  BY DEF Slots, Segmented

LEMMA NoFileTyped == \A j \in Job : NoFile(j) \in [Slots(j) -> 0 .. MaxRuns]
  BY WorkerAssumption DEF NoFile

\* No report says "none".
LEMMA StepNamesSegments ==
  ASSUME IInv, TypeRest, NEW t \in Thread, Step(t)
  PROVE \A j \in Job : \A s \in 1 .. SegCount[j] : segment'[j][s] # "none"
<1>1. \/ UNCHANGED segment
      \/ \E c : \E new \in {"running", "succeeded", "failed"} :
           segment' = [segment EXCEPT ![t[1]] = [segment[t[1]] EXCEPT ![c] = new]]
  BY DEF Step, ThreadStart, CheckBefore, Mark, AcquireLock, Generated, Written, Commit,
         CheckAfter, Seal, Assemble, Merge, Verify, Finish, FailThread, store, Update,
         UpdateSegment, Complete
<1>2. CASE UNCHANGED segment
  BY <1>2 DEF TypeRest
<1>3. ASSUME NEW c, NEW new \in {"running", "succeeded", "failed"},
             segment' = [segment EXCEPT ![t[1]] = [segment[t[1]] EXCEPT ![c] = new]]
      PROVE \A j \in Job : \A s \in 1 .. SegCount[j] : segment'[j][s] # "none"
  <2>1. \A j \in Job : segment[j] \in [1 .. SegCount[j] -> JobStatus] /\ DOMAIN segment = Job
    BY DEF IInv, TypeInv
  <2> QED BY <1>3, <2>1 DEF TypeRest
<1> QED BY <1>1, <1>2, <1>3

LEMMA StepTypesFiles ==
  ASSUME TypeRest, NEW t \in Thread, Step(t)
  PROVE /\ DOMAIN part' = Job /\ DOMAIN output' = Job
        /\ \A j \in Job : /\ part'[j] \in [Slots(j) -> 0 .. MaxRuns]
                          /\ output'[j] \in [Slots(j) -> 0 .. MaxRuns]
<1>0. t[1] \in Job /\ t[2] \in 0 .. MaxRuns
  BY WorkerAssumption DEF Thread
<1>1. UNCHANGED part \/ \E c : part' = [part EXCEPT ![t[1]] = [part[t[1]] EXCEPT ![c] = t[2]]]
  BY DEF Step, ThreadStart, CheckBefore, Mark, AcquireLock, Generated, Written, Commit,
         CheckAfter, Seal, Assemble, Merge, Verify, Finish, FailThread, files
<1>2. DOMAIN part' = Job /\ \A j \in Job : part'[j] \in [Slots(j) -> 0 .. MaxRuns]
  <2>1. ASSUME NEW c, part' = [part EXCEPT ![t[1]] = [part[t[1]] EXCEPT ![c] = t[2]]]
        PROVE DOMAIN part' = Job /\ \A j \in Job : part'[j] \in [Slots(j) -> 0 .. MaxRuns]
    <3>1. [part[t[1]] EXCEPT ![c] = t[2]] \in [Slots(t[1]) -> 0 .. MaxRuns]
      BY <1>0 DEF TypeRest
    <3> QED BY <1>0, <2>1, <3>1 DEF TypeRest
  <2> QED BY <1>1, <2>1 DEF TypeRest
<1>3. \/ UNCHANGED output
      \/ \E f \in [Slots(t[1]) -> 0 .. MaxRuns] : output' = [output EXCEPT ![t[1]] = f]
  <2>1. CASE Commit(t)
    <3>1. UNCHANGED output \/ output' = [output EXCEPT ![t[1]] = [output[t[1]] EXCEPT ![0] = t[2]]]
      BY <2>1 DEF Commit
    <3>2. [output[t[1]] EXCEPT ![0] = t[2]] \in [Slots(t[1]) -> 0 .. MaxRuns]
      BY <1>0 DEF TypeRest
    <3> QED BY <3>1, <3>2
  <2>2. CASE Merge(t)
    BY <1>0, <2>2 DEF Merge, TypeRest
  <2>3. CASE ~ Commit(t) /\ ~ Merge(t)
    <3>1. UNCHANGED output \/ output' = [output EXCEPT ![t[1]] = NoFile(t[1])]
      BY <2>3 DEF Step, ThreadStart, CheckBefore, Mark, AcquireLock, Generated, Written, Abandon,
         CheckAfter, Seal, Assemble, Verify, Finish, FailThread, files
    <3> QED BY <1>0, <3>1, NoFileTyped
  <2> QED BY <2>1, <2>2, <2>3
<1> QED BY <1>0, <1>2, <1>3 DEF TypeRest

LEMMA NextTypes == ASSUME IInv, TypeRest, [Next]_vars PROVE TypeRest'
<1> USE SlotsStay
<1>1. ASSUME NEW j \in Job, CreateJob(j) \/ CancelJob(j) PROVE TypeRest'
  <2>1. UNCHANGED <<mode, runtime, part, output, genLock, restarts>>
    BY <1>1 DEF CreateJob, CancelJob, files
  <2>2. \A i \in Job : \A s \in 1 .. SegCount[i] : segment'[i][s] # "none"
    <3>1. CASE CreateJob(j)
      BY <3>1 DEF CreateJob, TypeRest
    <3>2. CASE CancelJob(j)
      <4> DEFINE cut == [s \in 1 .. SegCount[j] |->
            IF segment[j][s] \in {"queued", "running"} THEN "cancelled" ELSE segment[j][s]]
      <4>1. segment' = [segment EXCEPT ![j] = cut]
        BY <3>2 DEF CancelJob
      <4>2. \A s \in 1 .. SegCount[j] : cut[s] # "none"
        BY DEF TypeRest
      <4> HIDE DEF cut
      <4> QED BY <4>1, <4>2 DEF TypeRest, IInv, TypeInv
    <3> QED BY <1>1, <3>1, <3>2
  <2> QED BY <2>1, <2>2 DEF TypeRest
<1>2. ASSUME NEW j \in Job, NEW s \in 1 .. SegCount[j], RetrySegment(j, s) PROVE TypeRest'
  <2>1. /\ UNCHANGED <<mode, runtime, part, output, genLock, restarts>>
        /\ segment' = [segment EXCEPT ![j] = [segment[j] EXCEPT ![s] = "queued"]]
    BY <1>2 DEF RetrySegment, files
  <2>2. DOMAIN segment = Job /\ DOMAIN segment[j] = 1 .. SegCount[j]
    BY DEF IInv, TypeInv
  <2>3. \A i \in Job : \A x \in 1 .. SegCount[i] : segment'[i][x] # "none"
    BY <2>1, <2>2 DEF TypeRest
  <2> QED BY <2>1, <2>3 DEF TypeRest
<1>3. ASSUME NEW t \in Thread, Step(t) PROVE TypeRest'
  <2>1. UNCHANGED <<mode, runtime, restarts>> /\ genLock' \in {genLock, NoThread, t}
    BY <1>3 DEF Step, ThreadStart, CheckBefore, Mark, AcquireLock, Generated, Written, Commit,
         CheckAfter, Seal, Assemble, Merge, Verify, Finish, FailThread, Others
  <2> QED BY <1>3, <2>1, StepNamesSegments, StepTypesFiles DEF TypeRest
<1>4. CASE LoadModel \/ UNCHANGED vars
  BY <1>4 DEF LoadModel, vars, store, files, TypeRest
<1>5. CASE Restart
  <2>1. /\ UNCHANGED <<mode, part, output>> /\ genLock' = NoThread /\ restarts' \in 0 .. MaxRestarts
        /\ runtime' \in {"loading", "ready"}
    BY <1>5, WorkerAssumption DEF Restart, files, TypeRest
  <2>2. \A i \in Job : \A s \in 1 .. SegCount[i] : segment'[i][s] # "none"
    BY <1>5 DEF Restart, TypeRest
  <2> QED BY <2>1, <2>2 DEF TypeRest
<1> QED
  BY <1>1, <1>2, <1>3, <1>4, <1>5 DEF Next

\* The variables keep the types of the worker's records.
THEOREM WorkerTypes == Spec => []TypeOK
<1>1. Init => IInv /\ TypeRest
  <2> SUFFICES ASSUME Init PROVE TypeRest
    BY InitInv
  <2>1. /\ mode \in Modes /\ runtime \in {"ready", "loading"}
        /\ \A j \in Job : \A s \in 1 .. SegCount[j] : segment[j][s] # "none"
        /\ genLock = NoThread /\ restarts \in 0 .. MaxRestarts
    BY WorkerAssumption DEF Init
  <2>2. /\ DOMAIN part = Job /\ DOMAIN output = Job
        /\ \A j \in Job : part[j] = NoFile(j) /\ output[j] = NoFile(j)
    BY DEF Init
  <2> QED BY <2>1, <2>2, NoFileTyped DEF TypeRest
<1>2. IInv /\ TypeRest /\ [Next]_vars => (IInv /\ TypeRest)'
  BY NextInv, NextTypes
<1>3. IInv /\ TypeRest => TypeOK
  <2> SUFFICES ASSUME IInv, TypeRest PROVE TypeOK
    OBVIOUS
  <2>1. \A j \in Job : segment[j] \in [1 .. SegCount[j] -> JobStatus \ {"none"}]
    BY DEF IInv, TypeInv, TypeRest
  <2> QED BY <2>1 DEF IInv, TypeInv, TypeRest, TypeOK
<1> QED
  BY <1>1, <1>2, <1>3, PTL DEF Spec
==============================================================================
