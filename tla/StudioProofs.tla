---------------------------- MODULE StudioProofs -----------------------------
(* The page, with either adapter: the demo's timers belong to what is shown   *)
(* and it implements JobContract; the API client carries out one action at a  *)
(* time; both show what StudioSnapshot allows.  For every number of jobs and  *)
(* of calls, any settings, any time, and any calls lost or denied.            *)
EXTENDS StudioProvider, TLAPS

\* Either no job is active and no timer of a job is pending, or there is one
\* job, in a session that is ready, and its status tells which timer is next.
Resting == jobTimer = NoTimer /\ \A j \in Job : ~ Active(j)
Working ==
  /\ jobTimer.at # "none" /\ jobTimer.job \in Job
  /\ demo.status = "ready"
  /\ \A j \in Job : Active(j) <=> j = jobTimer.job
  /\ status[jobTimer.job] = IF jobTimer.at = "begin" THEN "queued" ELSE "running"

SessionTimerFits ==
  sessionTimer.at = (CASE demo.status = "provisioning" -> "provisioned"
                       [] demo.status = "loading" -> "loaded"
                       [] demo.status = "stopping" -> "closed"
                       [] OTHER -> "none")

DemoInv ==
  /\ DemoTypeOK
  /\ Resting \/ Working
  /\ requestKey = jobTimer.job
  /\ SessionTimerFits

LEMMA DemoInvTimers == DemoInv => TimersBelong
<1> SUFFICES ASSUME DemoInv PROVE TimersBelong OBVIOUS
<1>1. CASE Resting
  BY <1>1 DEF DemoInv, Resting, TimersBelong, SessionTimerFits, NoTimer
<1>2. CASE Working
  BY <1>2 DEF DemoInv, Working, TimersBelong, SessionTimerFits
<1> QED BY <1>1, <1>2 DEF DemoInv

------------------------------------------------------------------------------
(* What the operations share.                                                 *)

LEMMA NoTimerType ==
  /\ NoTimer \in [at : {"none", "provisioned", "loaded", "closed"}, job : {NoJob},
                  scenario : Scenarios \cup {"normal"}]
  /\ NoTimer \in [at : {"none", "begin", "progress", "finish"}, job : Job \cup {NoJob},
                  scenario : Scenarios \cup {"normal"}]
  /\ NoTimer.at = "none" /\ NoTimer.job = NoJob
  BY DEF NoTimer

\* Cancelling the active jobs leaves none.
LEMMA CancelActiveEffect ==
  ASSUME DemoTypeOK, CancelActive
  PROVE /\ status' \in [Job -> {"none", "queued", "running", "succeeded", "failed", "cancelled"}]
        /\ \A j \in Job : ~ Active(j)'
  BY DEF DemoTypeOK, CancelActive, Active

\* Ending the one active job leaves none.
LEMMA EndEffect ==
  ASSUME DemoTypeOK, Working, NEW end \in {"succeeded", "failed", "cancelled"},
         SetJob(jobTimer.job, end)
  PROVE /\ status' \in [Job -> {"none", "queued", "running", "succeeded", "failed", "cancelled"}]
        /\ \A j \in Job : ~ Active(j)'
  BY DEF DemoTypeOK, Working, SetJob, Active

\* Forgetting everything brings the initial state of a session without jobs.
LEMMA ForgetEffect ==
  ASSUME Forget, settings' \in AllSettings, keeps' \in BOOLEAN, time' \in Nat
  PROVE DemoInv'
<1>1. demo' = [status |-> "off", started |-> 0, expires |-> 0, last |-> 0]
  BY DEF Forget, EmptySession
<1>2. status' = [j \in Job |-> "none"] /\ segmented' = [j \in Job |-> FALSE]
        /\ sessionTimer' = NoTimer /\ jobTimer' = NoTimer /\ requestKey' = NoJob
  BY DEF Forget
<1>3. DemoTypeOK' BY <1>1, <1>2, NoTimerType DEF DemoTypeOK, AllSettings
<1>4. Resting' BY <1>2 DEF Resting, Active, NoTimer
<1>5. SessionTimerFits' BY <1>1, <1>2, NoTimerType DEF SessionTimerFits
<1>6. (requestKey = jobTimer.job)' BY <1>2, NoTimerType
<1> QED BY <1>3, <1>4, <1>5, <1>6 DEF DemoInv

LEMMA InitDemoInv == DemoInit => DemoInv
<1> SUFFICES ASSUME DemoInit PROVE DemoInv OBVIOUS
<1>1. demo = [status |-> "off", started |-> 0, expires |-> 0, last |-> 0]
  BY DEF DemoInit, EmptySession
<1>2. DemoTypeOK BY <1>1, NoTimerType DEF DemoInit, DemoTypeOK, DefaultSettings
<1>3. Resting BY DEF DemoInit, Resting, Active
<1>4. SessionTimerFits BY <1>1, NoTimerType DEF DemoInit, SessionTimerFits
<1> QED BY <1>2, <1>3, <1>4, NoTimerType DEF DemoInit, DemoInv

------------------------------------------------------------------------------
(* The steps of the session: the jobs stay as they are, or are cancelled.     *)

\* A step that leaves the jobs alone while no job is active, or the session ready.
LEMMA JobsKept ==
  ASSUME Resting \/ Working, UNCHANGED <<status, jobTimer>>,
         Resting \/ demo'.status = "ready"
  PROVE (Resting \/ Working)'
<1>1. CASE Resting BY <1>1 DEF Resting, Active, NoTimer
<1>2. CASE Working /\ demo'.status = "ready" BY <1>2 DEF Working, Active
<1> QED BY <1>1, <1>2

LEMMA StartInv == DemoInv /\ StartDemo => DemoInv'
<1> SUFFICES ASSUME DemoInv, StartDemo PROVE DemoInv' OBVIOUS
<1>1. Resting BY DEF DemoInv, StartDemo, Working
<1>2. time + settings.duration \in Nat /\ time \in Nat /\ settings.scenario \in Scenarios
  BY DemoAssumption DEF DemoInv, DemoTypeOK, AllSettings
<1>3. UNCHANGED <<status, segmented, jobTimer, requestKey, settings, keeps, time>>
  BY DEF StartDemo, jobVars
<1>4. DemoTypeOK' BY <1>2, <1>3 DEF StartDemo, DemoInv, DemoTypeOK
<1>5. SessionTimerFits' BY DEF StartDemo, SessionTimerFits
<1> QED BY <1>1, <1>3, <1>4, <1>5, JobsKept DEF DemoInv

LEMMA ProvisionedInv == DemoInv /\ Provisioned => DemoInv'
<1> SUFFICES ASSUME DemoInv, Provisioned PROVE DemoInv' OBVIOUS
<1>1. demo.status = "provisioning"
  BY DEF DemoInv, SessionTimerFits, Provisioned
<1>2. Resting BY <1>1 DEF DemoInv, Working
<1>3. UNCHANGED <<status, segmented, jobTimer, requestKey, settings, keeps, time>>
  BY DEF Provisioned, jobVars
<1>4. DemoTypeOK' /\ SessionTimerFits'
  <2>1. CASE sessionTimer.scenario = "unavailable"
    BY <1>3, <2>1, NoTimerType DEF Provisioned, DemoInv, DemoTypeOK, SessionTimerFits
  <2>2. CASE sessionTimer.scenario # "unavailable"
    BY <1>3, <2>2 DEF Provisioned, DemoInv, DemoTypeOK, SessionTimerFits
  <2> QED BY <2>1, <2>2
<1> QED BY <1>2, <1>3, <1>4, JobsKept DEF DemoInv

LEMMA LoadedInv == DemoInv /\ Loaded => DemoInv'
<1> SUFFICES ASSUME DemoInv, Loaded PROVE DemoInv' OBVIOUS
<1>1. demo.status = "loading"
  BY DEF DemoInv, SessionTimerFits, Loaded
<1>2. Resting BY <1>1 DEF DemoInv, Working
<1>3. UNCHANGED <<status, segmented, jobTimer, requestKey, settings, keeps, time>>
  BY DEF Loaded, jobVars
<1>4. DemoTypeOK' /\ SessionTimerFits'
  BY <1>3, NoTimerType DEF Loaded, DemoInv, DemoTypeOK, SessionTimerFits
<1> QED BY <1>2, <1>3, <1>4, JobsKept DEF DemoInv

LEMMA ClosedInv == DemoInv /\ Closed => DemoInv'
<1> SUFFICES ASSUME DemoInv, Closed PROVE DemoInv' OBVIOUS
<1>1. demo.status = "stopping"
  BY DEF DemoInv, SessionTimerFits, Closed
<1>2. Resting BY <1>1 DEF DemoInv, Working
<1>3. UNCHANGED <<status, segmented, jobTimer, requestKey, settings, keeps, time>>
  BY DEF Closed, jobVars
<1>4. DemoTypeOK' /\ SessionTimerFits'
  BY <1>3, NoTimerType DEF Closed, DemoInv, DemoTypeOK, SessionTimerFits
<1> QED BY <1>2, <1>3, <1>4, JobsKept DEF DemoInv

LEMMA StopInv == DemoInv /\ StopDemo => DemoInv'
<1> SUFFICES ASSUME DemoInv, StopDemo PROVE DemoInv' OBVIOUS
<1>1. /\ status' \in [Job -> {"none", "queued", "running", "succeeded", "failed", "cancelled"}]
      /\ \A j \in Job : ~ Active(j)'
  BY CancelActiveEffect DEF DemoInv, StopDemo
<1>2. UNCHANGED <<segmented, settings, keeps, time>> /\ jobTimer' = NoTimer /\ requestKey' = NoJob
  BY DEF StopDemo
<1>3. sessionTimer' = [NoTimer EXCEPT !.at = "closed"] /\ demo' = [demo EXCEPT !.status = "stopping"]
  BY DEF StopDemo
<1>4. DemoTypeOK' /\ SessionTimerFits'
  <2>1. sessionTimer' \in [at : {"none", "provisioned", "loaded", "closed"}, job : {NoJob},
                           scenario : Scenarios \cup {"normal"}] /\ sessionTimer'.at = "closed"
    BY <1>3 DEF NoTimer
  <2> QED BY <1>1, <1>2, <1>3, <2>1, NoTimerType DEF DemoInv, DemoTypeOK, SessionTimerFits
<1>5. Resting' BY <1>1, <1>2 DEF Resting, NoTimer
<1> QED BY <1>2, <1>4, <1>5, NoTimerType DEF DemoInv

LEMMA ExtendInv == DemoInv /\ ExtendDemo => DemoInv'
<1> SUFFICES ASSUME DemoInv, ExtendDemo PROVE DemoInv' OBVIOUS
<1>1. UNCHANGED <<status, segmented, jobTimer, requestKey, sessionTimer, settings, keeps, time>>
  BY DEF ExtendDemo, jobVars
<1>2. PICK next \in Nat : demo' = [demo EXCEPT !.expires = next]
  <2>1. demo.expires + 1 \in Nat /\ demo.started + Longest \in Nat
    BY DemoAssumption DEF DemoInv, DemoTypeOK
  <2> QED BY <2>1 DEF ExtendDemo
<1>3. demo'.status = demo.status BY <1>2 DEF DemoInv, DemoTypeOK
<1>4. DemoTypeOK' BY <1>1, <1>2 DEF DemoInv, DemoTypeOK
<1>5. SessionTimerFits' BY <1>1, <1>3 DEF DemoInv, SessionTimerFits
<1>6. Resting \/ demo'.status = "ready" BY <1>3 DEF DemoInv, Working
<1> QED BY <1>1, <1>4, <1>5, <1>6, JobsKept DEF DemoInv

LEMMA ReloadInv == DemoInv /\ Reload => DemoInv'
<1> SUFFICES ASSUME DemoInv, Reload PROVE DemoInv' OBVIOUS
<1>1. keeps' \in BOOLEAN /\ time' \in Nat BY DEF DemoInv, DemoTypeOK, Reload
<1>2. CASE keeps
  <2>1. /\ demo' = [status |-> "off", started |-> 0, expires |-> 0, last |-> 0]
        /\ CancelActive
        /\ sessionTimer' = NoTimer /\ jobTimer' = NoTimer /\ requestKey' = NoJob
        /\ UNCHANGED <<segmented, settings>>
    BY <1>2 DEF Reload, EmptySession
  <2>2. /\ status' \in [Job -> {"none", "queued", "running", "succeeded", "failed", "cancelled"}]
        /\ \A j \in Job : ~ Active(j)'
    BY <2>1, CancelActiveEffect DEF DemoInv
  <2>3. DemoTypeOK' BY <1>1, <2>1, <2>2, NoTimerType DEF DemoInv, DemoTypeOK
  <2>4. Resting' BY <2>1, <2>2 DEF Resting, NoTimer
  <2>5. SessionTimerFits' BY <2>1, NoTimerType DEF SessionTimerFits
  <2> QED BY <2>1, <2>3, <2>4, <2>5, NoTimerType DEF DemoInv
<1>3. CASE ~ keeps
  BY <1>1, <1>3, ForgetEffect DEF Reload, DefaultSettings
<1> QED BY <1>2, <1>3

LEMMA ResetInv == DemoInv /\ ResetDemo => DemoInv'
  BY ForgetEffect DEF ResetDemo, DefaultSettings, DemoInv, DemoTypeOK

LEMMA QuietInv == DemoInv /\ (ChangeSettings \/ TimePasses \/ UNCHANGED demoVars) => DemoInv'
<1> SUFFICES ASSUME DemoInv, ChangeSettings \/ TimePasses \/ UNCHANGED demoVars PROVE DemoInv'
  OBVIOUS
<1>1. UNCHANGED <<demo, status, segmented, jobTimer, requestKey, sessionTimer, keeps>>
  BY DEF ChangeSettings, TimePasses, demoVars, jobVars
<1>2. settings' \in AllSettings /\ time' \in Nat
  BY DEF DemoInv, DemoTypeOK, ChangeSettings, TimePasses, demoVars
<1>3. DemoTypeOK' BY <1>1, <1>2 DEF DemoInv, DemoTypeOK
<1>4. SessionTimerFits' BY <1>1 DEF DemoInv, SessionTimerFits
<1>5. Resting \/ demo'.status = "ready" BY <1>1 DEF DemoInv, Working
<1> QED BY <1>1, <1>3, <1>4, <1>5, JobsKept DEF DemoInv

------------------------------------------------------------------------------
(* The steps of the jobs.                                                     *)

LEMMA GenerateInv == ASSUME DemoInv, NEW j \in Job, Generate(j) PROVE DemoInv'
<1>1. Resting BY DEF DemoInv, Working, Generate, Busy
<1>2. status' = [status EXCEPT ![j] = "queued"] BY DEF Generate, SetJob
<1>3. /\ jobTimer' = [at |-> "begin", job |-> j, scenario |-> settings.scenario]
      /\ requestKey' = j
      /\ demo' = [demo EXCEPT !.last = time]
      /\ segmented' \in [Job -> BOOLEAN]
      /\ UNCHANGED <<sessionTimer, settings, keeps, time>>
  BY DEF Generate, DemoInv, DemoTypeOK
<1>4. demo'.status = "ready" BY <1>3 DEF Generate, DemoInv, DemoTypeOK
<1>5. DemoTypeOK'
  BY <1>2, <1>3 DEF DemoInv, DemoTypeOK, AllSettings
<1>6. Working' BY <1>1, <1>2, <1>3, <1>4 DEF Working, Resting, Active, DemoInv, DemoTypeOK
<1>7. SessionTimerFits' BY <1>3, <1>4 DEF DemoInv, SessionTimerFits, Generate
<1> QED BY <1>3, <1>5, <1>6, <1>7 DEF DemoInv

LEMMA BegunInv == DemoInv /\ (Begun \/ Progressed) => DemoInv'
<1> SUFFICES ASSUME DemoInv, Begun \/ Progressed PROVE DemoInv' OBVIOUS
<1>1. Working BY NoTimerType DEF DemoInv, Resting, Begun, Progressed
<1>2. status' = [status EXCEPT ![jobTimer.job] = "running"]
  BY <1>1 DEF Begun, Progressed, SetJob, Working, DemoInv, DemoTypeOK
<1>3. PICK next \in {"progress", "finish"} : jobTimer' = [jobTimer EXCEPT !.at = next]
  BY DEF Begun, Progressed
<1>4. UNCHANGED <<demo, segmented, requestKey, sessionTimer, settings, keeps, time>>
  BY DEF Begun, Progressed
<1>5. jobTimer'.job = jobTimer.job /\ jobTimer'.at = next
  BY <1>3 DEF DemoInv, DemoTypeOK
<1>6. DemoTypeOK' BY <1>1, <1>2, <1>3, <1>4 DEF DemoInv, DemoTypeOK, Working
<1>7. Working' BY <1>1, <1>2, <1>4, <1>5 DEF Working, Active, DemoInv, DemoTypeOK
<1>8. SessionTimerFits' BY <1>4 DEF DemoInv, SessionTimerFits
<1> QED BY <1>4, <1>5, <1>6, <1>7, <1>8 DEF DemoInv

LEMMA FinishedInv == DemoInv /\ Finished => DemoInv'
<1> SUFFICES ASSUME DemoInv, Finished PROVE DemoInv' OBVIOUS
<1>1. Working BY NoTimerType DEF DemoInv, Resting, Finished
<1>2. PICK end \in {"succeeded", "failed", "cancelled"} : SetJob(jobTimer.job, end)
  BY DEF Finished
<1>3. /\ status' \in [Job -> {"none", "queued", "running", "succeeded", "failed", "cancelled"}]
      /\ \A j \in Job : ~ Active(j)'
  BY <1>1, <1>2, EndEffect DEF DemoInv
<1>4. /\ requestKey' = NoJob /\ jobTimer' = NoTimer
      /\ UNCHANGED <<segmented, sessionTimer, settings, keeps, time>>
  BY DEF Finished
<1>5. PICK new \in {"ready", "error"} : demo' = [demo EXCEPT !.last = time, !.status = new]
  BY <1>1 DEF Finished, Working
<1>6. demo'.status \in {"ready", "error"} BY <1>5 DEF DemoInv, DemoTypeOK
<1>7. DemoTypeOK' BY <1>3, <1>4, <1>5, NoTimerType DEF DemoInv, DemoTypeOK
<1>8. SessionTimerFits' BY <1>1, <1>4, <1>6 DEF DemoInv, SessionTimerFits, Working
<1>9. Resting' BY <1>3, <1>4 DEF Resting, NoTimer
<1> QED BY <1>4, <1>7, <1>8, <1>9, NoTimerType DEF DemoInv

LEMMA CancelInv == ASSUME DemoInv, NEW j \in Job, CancelDemo(j) PROVE DemoInv'
<1>1. Working /\ j = jobTimer.job BY DEF DemoInv, Resting, Working, CancelDemo
<1>2. /\ status' \in [Job -> {"none", "queued", "running", "succeeded", "failed", "cancelled"}]
      /\ \A i \in Job : ~ Active(i)'
  BY <1>1, EndEffect DEF DemoInv, CancelDemo
<1>3. /\ requestKey' = NoJob /\ jobTimer' = NoTimer /\ demo' = [demo EXCEPT !.last = time]
      /\ UNCHANGED <<segmented, sessionTimer, settings, keeps, time>>
  BY DEF CancelDemo
<1>4. demo'.status = demo.status BY <1>3 DEF DemoInv, DemoTypeOK
<1>5. DemoTypeOK' BY <1>2, <1>3, NoTimerType DEF DemoInv, DemoTypeOK
<1>6. SessionTimerFits' BY <1>3, <1>4 DEF DemoInv, SessionTimerFits
<1>7. Resting' BY <1>2, <1>3 DEF Resting, NoTimer
<1> QED BY <1>3, <1>5, <1>6, <1>7, NoTimerType DEF DemoInv

LEMMA RetryInv == ASSUME DemoInv, NEW j \in Job, RetryDemo(j) PROVE DemoInv'
<1>1. Resting BY DEF DemoInv, Working, RetryDemo, Busy
<1>2. /\ status' = [status EXCEPT ![j] = "succeeded"]
      /\ UNCHANGED <<demo, segmented, jobTimer, requestKey, sessionTimer, settings, keeps, time>>
  BY DEF RetryDemo, SetJob
<1>3. DemoTypeOK' BY <1>2 DEF DemoInv, DemoTypeOK
<1>4. SessionTimerFits' BY <1>2 DEF DemoInv, SessionTimerFits
<1>5. Resting' BY <1>1, <1>2 DEF Resting, Active, NoTimer, DemoInv, DemoTypeOK
<1> QED BY <1>2, <1>3, <1>4, <1>5 DEF DemoInv

LEMMA StepDemoInv == DemoInv /\ [DemoNext]_demoVars => DemoInv'
<1> SUFFICES ASSUME DemoInv, [DemoNext]_demoVars PROVE DemoInv' OBVIOUS
<1> QED
  BY StartInv, ProvisionedInv, LoadedInv, ClosedInv, StopInv, ExtendInv, ReloadInv, ResetInv,
     QuietInv, GenerateInv, BegunInv, FinishedInv, CancelInv, RetryInv
     DEF DemoNext, DemoTick, SessionTimers, JobTimers

LEMMA DemoInvariant == DemoSpec => []DemoInv
  BY InitDemoInv, StepDemoInv, PTL DEF DemoSpec

\* No timer of an earlier session or job changes a later one, and the request
\* key never locks generate out, whatever is started, stopped, cancelled,
\* retried, reset or reloaded in between.
THEOREM DemoTimersBelong == DemoSpec => []TimersBelong
  BY DemoInvariant, DemoInvTimers, PTL

------------------------------------------------------------------------------
(* The job contract.                                                          *)

\* Cancelling all active jobs is cancelling the one there is, or nothing.
LEMMA CancelActiveIsCancel ==
  ASSUME DemoInv, CancelActive
  PROVE UNCHANGED status \/ \E j \in Job : DemoContract!Cancel(j)
<1>1. CASE Resting
  BY <1>1 DEF Resting, CancelActive, DemoInv, DemoTypeOK
<1>2. CASE Working
  <2>1. status' = [status EXCEPT ![jobTimer.job] = "cancelled"]
    BY <1>2 DEF Working, CancelActive, DemoInv, DemoTypeOK
  <2> QED
    BY <1>2, <2>1 DEF Working, Active, DemoContract!Cancel, DemoContract!Active, DemoContract!Becomes
<1> QED BY <1>1, <1>2 DEF DemoInv

\* The demo service keeps the contract of the studio's jobs: one active job,
\* and no change of a status the contract does not know.
THEOREM DemoImplementsContract == DemoSpec => DemoContractSpec
<1>1. DemoInit => DemoContract!Init
  BY DEF DemoInit, DemoContract!Init
<1>2. ASSUME DemoInv, [DemoNext]_demoVars PROVE [DemoContract!Next]_status
  <2>1. ASSUME NEW j \in Job, Generate(j) PROVE DemoContract!Submit(j)
    BY <2>1 DEF Generate, Busy, Active, SetJob, DemoContract!Submit, DemoContract!Idle,
                DemoContract!Active, DemoContract!Becomes
  <2>2. ASSUME NEW j \in Job, CancelDemo(j) PROVE DemoContract!Cancel(j)
    BY <2>2 DEF CancelDemo, Active, SetJob, DemoContract!Cancel, DemoContract!Active,
                DemoContract!Becomes
  <2>3. ASSUME NEW j \in Job, RetryDemo(j) PROVE DemoContract!Retry(j)
    <3>1. status[j] \in {"succeeded", "failed", "cancelled"}
      BY <1>2, <2>3 DEF RetryDemo, Busy, Active, DemoInv, DemoTypeOK
    <3> QED BY <2>3, <3>1 DEF RetryDemo, Busy, Active, SetJob, DemoContract!Retry,
                              DemoContract!Idle, DemoContract!Active, DemoContract!Becomes
  <2>4. ASSUME Begun PROVE DemoContract!Begin(jobTimer.job) /\ jobTimer.job \in Job
    <3>1. Working BY <1>2, <2>4, NoTimerType DEF DemoInv, Resting, Begun
    <3> QED BY <2>4, <3>1 DEF Begun, Working, SetJob, DemoContract!Begin, DemoContract!Becomes
  <2>5. ASSUME Finished
        PROVE  \E j \in Job : DemoContract!Succeed(j) \/ DemoContract!Fail(j)
    <3>1. Working BY <1>2, <2>5, NoTimerType DEF DemoInv, Resting, Finished
    <3>2. status[jobTimer.job] = "running" /\ jobTimer.job \in Job
      BY <2>5, <3>1 DEF Finished, Working
    <3>3. \/ status' = [status EXCEPT ![jobTimer.job] = "succeeded"]
          \/ status' = [status EXCEPT ![jobTimer.job] = "failed"]
      BY <2>5 DEF Finished, SetJob
    <3> QED BY <3>2, <3>3 DEF DemoContract!Succeed, DemoContract!Fail, DemoContract!Active,
                              DemoContract!Becomes
  <2>6. ASSUME CancelActive PROVE UNCHANGED status \/ \E j \in Job : DemoContract!Cancel(j)
    BY <1>2, <2>6, CancelActiveIsCancel
  <2>7. ASSUME Forget PROVE DemoContract!Reset
    BY <2>7 DEF Forget, DemoContract!Reset
  <2>8. StopDemo => CancelActive BY DEF StopDemo
  <2>9. ResetDemo => Forget BY DEF ResetDemo
  <2>10. Reload => CancelActive \/ Forget BY DEF Reload
  <2>11. \/ StartDemo \/ ExtendDemo \/ Provisioned \/ Loaded \/ Closed \/ Progressed
         \/ ChangeSettings \/ TimePasses
         => UNCHANGED status
    BY DEF StartDemo, ExtendDemo, Provisioned, Loaded, Closed, Progressed, ChangeSettings,
           TimePasses, jobVars
  <2>12. UNCHANGED demoVars => UNCHANGED status BY DEF demoVars
  <2>13. \/ UNCHANGED status \/ CancelActive \/ Forget \/ Begun \/ Finished
         \/ \E j \in Job : Generate(j) \/ CancelDemo(j) \/ RetryDemo(j)
    BY <1>2, <2>8, <2>9, <2>10, <2>11, <2>12 DEF DemoNext, DemoTick, SessionTimers, JobTimers
  <2> QED
    BY <2>1, <2>2, <2>3, <2>4, <2>5, <2>6, <2>7, <2>13 DEF DemoContract!Next
<1> QED
  BY <1>1, <1>2, DemoInvariant, PTL DEF DemoSpec, DemoContractSpec, DemoContract!Spec
------------------------------------------------------------------------------
(* The API adapter: what its calls and looks carry.                           *)

SessionKinds == {"start", "stop", "extend", "reset"}
JobKinds == {"generate", "retry", "cancel"}
CallStates == {"idle", "sent", "working", "answered", "failed", "denied"}

\* A call knows its job when it is about one, and its answer is of its kind.
CallRecord == [at : CallStates, kind : SessionKinds \cup JobKinds \cup {"none"},
               job : ServerJob \cup {"none"}, answer : SiteStatus \cup RecordStatus]
CallTyped(c) ==
  /\ call[c].at # "idle" => call[c].kind # "none"
  /\ call[c].at # "idle" /\ call[c].kind \in {"retry", "cancel"} => call[c].job \in ServerJob
  /\ call[c].at \in {"working", "answered"} /\ call[c].kind = "generate" => call[c].job \in ServerJob
  /\ call[c].at = "working" => call[c].kind \in {"start", "stop", "reset", "generate"}
  /\ call[c].at = "answered" =>
       call[c].answer \in IF call[c].kind \in SessionKinds THEN SiteStatus ELSE RecordStatus

LookRecord == [on : BOOLEAN, left : SUBSET ({"session", "jobs"} \cup ServerJob),
               session : SiteStatus, jobs : [ServerJob -> RecordStatus]]

ApiInv ==
  /\ ApiTypeOK
  /\ call \in [Call -> CallRecord] /\ look \in [Looks -> LookRecord]
  /\ \A c \in Call : CallTyped(c)
  /\ OneAction

LEMMA NoCallType == NoCall \in CallRecord /\ NoCall.at = "idle" /\ NoCall.kind = "none"
  BY DEF NoCall, CallRecord, CallStates, SiteStatus

LEMMA NoLookType == NoLook \in LookRecord /\ NewLook \in LookRecord
  BY DEF NoLook, NewLook, NoRecords, LookRecord, SiteStatus, RecordStatus

LEMMA CancelPendingType ==
  ASSUME NEW jobs \in [ServerJob -> RecordStatus]
  PROVE  CancelPending(jobs) \in [ServerJob -> RecordStatus]
  BY DEF CancelPending, RecordStatus

LEMMA InitApiInv == ApiInit => ApiInv
<1> SUFFICES ASSUME ApiInit PROVE ApiInv
  OBVIOUS
<1>1. ApiTypeOK
  <2>1. clicks \in 0 .. MaxClicks /\ lost \in 0 .. MaxLost BY ApiAssumption DEF ApiInit
  <2>2. /\ site \in SiteStatus /\ records \in [ServerJob -> RecordStatus]
        /\ shown \in [session : SiteStatus \cup {"provisioning"}, jobs : [ServerJob -> RecordStatus]]
    BY DEF ApiInit, SiteStatus, RecordStatus, NoRecords
  <2> QED BY <2>1, <2>2 DEF ApiInit, ApiTypeOK
<1>2. call \in [Call -> CallRecord] /\ look \in [Looks -> LookRecord]
  BY NoCallType, NoLookType DEF ApiInit
<1>3. \A c \in Call : call[c].at = "idle" BY NoCallType DEF ApiInit
<1>4. OneAction BY <1>3 DEF ApiInit, OneAction, GuardedCalls
<1> QED BY <1>1, <1>2, <1>3, <1>4 DEF ApiInv, CallTyped

\* A step that leaves the calls alone.
LEMMA CallsKept ==
  ASSUME ApiInv, UNCHANGED <<call, acting>>, ApiTypeOK', look' \in [Looks -> LookRecord]
  PROVE  ApiInv'
  BY DEF ApiInv, CallTyped, OneAction, GuardedCalls

\* A call begins; one that takes actionBusy found it free.
LEMMA SendInv ==
  ASSUME ApiInv, NEW c \in Call, NEW kind \in SessionKinds \cup JobKinds,
         NEW j \in ServerJob \cup {"none"}, Send(c, kind, j),
         kind \in {"retry", "cancel"} => j \in ServerJob,
         shown' \in [session : SiteStatus \cup {"provisioning"}, jobs : [ServerJob -> RecordStatus]],
         IF kind \in Guarded THEN ~acting /\ acting' = TRUE ELSE acting' = acting
  PROVE  ApiInv'
<1> DEFINE r == [NoCall EXCEPT !.at = "sent", !.kind = kind, !.job = j]
<1>1. r \in CallRecord /\ r.at = "sent" /\ r.kind = kind /\ r.job = j
  BY DEF NoCall, CallRecord, CallStates, SiteStatus
<1>2. call' = [call EXCEPT ![c] = r] /\ UNCHANGED <<look, auth, signedIn, lost, site, records>>
      /\ clicks < MaxClicks /\ clicks' = clicks + 1 /\ call[c].at = "idle"
  BY DEF Send, server
<1> HIDE DEF r
<1>3. call' \in [Call -> CallRecord] /\ call'[c] = r /\ \A d \in Call \ {c} : call'[d] = call[d]
  BY <1>1, <1>2 DEF ApiInv
<1>4. ApiTypeOK'
  <2>1. clicks' \in 0 .. MaxClicks BY <1>2, ApiAssumption DEF ApiInv, ApiTypeOK
  <2>2. acting' \in BOOLEAN BY DEF ApiInv, ApiTypeOK
  <2> QED BY <1>2, <2>1, <2>2 DEF ApiInv, ApiTypeOK
<1>5. ASSUME NEW d \in Call PROVE CallTyped(d)'
  <2>1. CASE d = c BY <1>1, <1>3, <2>1 DEF CallTyped, SessionKinds, JobKinds
  <2>2. CASE d # c BY <1>3, <2>2 DEF ApiInv, CallTyped
  <2> QED BY <2>1, <2>2
<1>6. OneAction'
  <2>1. c \notin GuardedCalls BY <1>2 DEF GuardedCalls
  <2>2. GuardedCalls' = IF kind \in Guarded THEN GuardedCalls \cup {c} ELSE GuardedCalls
    BY <1>1, <1>3, <2>1 DEF GuardedCalls
  <2>3. OneAction BY DEF ApiInv
  <2>4. CASE kind \in Guarded
    <3>1. GuardedCalls = {} BY <2>3, <2>4 DEF OneAction
    <3> QED BY <2>2, <2>4, <3>1 DEF OneAction
  <2>5. CASE kind \notin Guarded BY <2>2, <2>3, <2>5 DEF OneAction
  <2> QED BY <2>4, <2>5
<1> QED BY <1>2, <1>3, <1>4, <1>5, <1>6 DEF ApiInv

LEMMA ClickInv == ASSUME ApiInv, NEW c \in Call, Click(c) PROVE ApiInv'
<1>1. shown \in [session : SiteStatus \cup {"provisioning"}, jobs : [ServerJob -> RecordStatus]]
  BY DEF ApiInv, ApiTypeOK
<1>2. CASE ClickStart(c)
  <2>1. shown' \in [session : SiteStatus \cup {"provisioning"}, jobs : [ServerJob -> RecordStatus]]
    BY <1>1, <1>2 DEF ClickStart
  <2> QED BY <1>2, <2>1, SendInv DEF ClickStart, Guarded, SessionKinds
<1>3. CASE ClickStop(c)
  <2>1. shown' \in [session : SiteStatus \cup {"provisioning"}, jobs : [ServerJob -> RecordStatus]]
    BY <1>1, <1>3 DEF ClickStop, SiteStatus
  <2> QED BY <1>3, <2>1, SendInv DEF ClickStop, Guarded, SessionKinds
<1>4. CASE ClickGenerate(c)
  BY <1>1, <1>4, SendInv DEF ClickGenerate, Guarded, JobKinds
<1>5. ASSUME NEW j \in ServerJob, ClickRetry(c, j) PROVE ApiInv'
  BY <1>1, <1>5, SendInv DEF ClickRetry, Guarded, JobKinds
<1>6. CASE ClickFreely(c)
  BY <1>1, <1>6, SendInv DEF ClickFreely, Guarded, JobKinds, SessionKinds
<1> QED BY <1>2, <1>3, <1>4, <1>5, <1>6 DEF Click

\* What a call in flight does to its record.
Carries(c, at, job, answer) ==
  /\ call' \in [Call -> CallRecord] /\ \A d \in Call \ {c} : call'[d] = call[d]
  /\ call'[c].at = at /\ call'[c].kind = call[c].kind /\ call'[c].job = job
  /\ call'[c].answer = answer

LEMMA AnswersEffect ==
  ASSUME ApiInv, NEW c \in Call, NEW answer \in SiteStatus \cup RecordStatus, Answers(c, answer)
  PROVE  Carries(c, "answered", call[c].job, answer)
<1> DEFINE r == [call[c] EXCEPT !.at = "answered", !.answer = answer]
<1>1. call \in [Call -> CallRecord] /\ call[c] \in CallRecord BY DEF ApiInv
<1>2. /\ r \in CallRecord /\ r.at = "answered" /\ r.kind = call[c].kind /\ r.job = call[c].job
      /\ r.answer = answer
  BY <1>1 DEF CallRecord, CallStates
<1>3. call' = [call EXCEPT ![c] = r] BY <1>1 DEF Answers
<1> HIDE DEF r
<1> QED BY <1>1, <1>2, <1>3 DEF Carries

LEMMA MovesEffect ==
  ASSUME ApiInv, NEW c \in Call, NEW at \in CallStates, call' = [call EXCEPT ![c].at = at]
  PROVE  Carries(c, at, call[c].job, call[c].answer)
<1> DEFINE r == [call[c] EXCEPT !.at = at]
<1>1. call \in [Call -> CallRecord] /\ call[c] \in CallRecord BY DEF ApiInv
<1>2. /\ r \in CallRecord /\ r.at = at /\ r.kind = call[c].kind /\ r.job = call[c].job
      /\ r.answer = call[c].answer
  BY <1>1 DEF CallRecord
<1>3. call' = [call EXCEPT ![c] = r] BY <1>1
<1> HIDE DEF r
<1> QED BY <1>1, <1>2, <1>3 DEF Carries

\* A step of the server for one call, that leaves the call in flight.
LEMMA CallGoesOn ==
  ASSUME ApiInv, NEW c \in Call, NEW at \in CallStates \ {"idle"}, NEW j, NEW answer,
         Carries(c, at, j, answer), CallTyped(c)', call[c].at # "idle",
         UNCHANGED <<page, look, signedIn, bounds>>, site' \in SiteStatus,
         records' \in [ServerJob -> RecordStatus]
  PROVE  ApiInv'
<1>1. ApiTypeOK' BY DEF ApiInv, ApiTypeOK, page, bounds
<1>2. \A d \in Call : CallTyped(d)' BY DEF ApiInv, CallTyped, Carries
<1>3. GuardedCalls' = GuardedCalls BY DEF GuardedCalls, Carries
<1>4. OneAction' BY <1>3 DEF ApiInv, OneAction, page
<1> QED BY <1>1, <1>2, <1>4 DEF ApiInv, Carries

LEMMA ServeInv == ASSUME ApiInv, NEW c \in Call, Serve(c) PROVE ApiInv'
<1> /\ UNCHANGED <<page, look, signedIn, bounds>> /\ CallTyped(c)
    /\ site \in SiteStatus /\ records \in [ServerJob -> RecordStatus]
    /\ call \in [Call -> CallRecord]
  BY DEF Serve, ApiInv, ApiTypeOK
<1>1. ASSUME NEW answer \in SiteStatus, Answers(c, answer), call[c].at # "idle",
             call[c].kind \in SessionKinds, site' \in SiteStatus,
             records' \in [ServerJob -> RecordStatus]
      PROVE  ApiInv'
  <2>1. Carries(c, "answered", call[c].job, answer) BY <1>1, AnswersEffect
  <2>2. CallTyped(c)' BY <1>1, <2>1 DEF Carries, CallTyped, SessionKinds
  <2> QED BY <1>1, <2>1, <2>2, CallGoesOn DEF CallStates
<1>2. ASSUME NEW answer \in RecordStatus, Answers(c, answer), call[c].at # "idle",
             call[c].kind \in JobKinds, call[c].job \in ServerJob, site' \in SiteStatus,
             records' \in [ServerJob -> RecordStatus]
      PROVE  ApiInv'
  <2>1. Carries(c, "answered", call[c].job, answer) BY <1>2, AnswersEffect
  <2>2. CallTyped(c)' BY <1>2, <2>1 DEF Carries, CallTyped, SessionKinds, JobKinds
  <2> QED BY <1>2, <2>1, <2>2, CallGoesOn DEF CallStates
<1>3. ASSUME NEW at \in {"working", "failed", "denied"}, call' = [call EXCEPT ![c].at = at],
             call[c].at # "idle", at = "working" => call[c].kind \in {"start", "stop", "reset"},
             site' \in SiteStatus, records' \in [ServerJob -> RecordStatus]
      PROVE  ApiInv'
  <2>1. at \in CallStates \ {"idle"} BY <1>3 DEF CallStates
  <2>2. Carries(c, at, call[c].job, call[c].answer) BY <1>3, <2>1, MovesEffect
  <2>3. CallTyped(c)' BY <1>3, <2>2 DEF Carries, CallTyped
  <2> QED BY <1>3, <2>1, <2>2, <2>3, CallGoesOn
<1>4. CASE ServeStart(c)
  <2>1. CASE site \in {"loading", "ready"}
    BY <1>1, <1>4, <2>1 DEF ServeStart, Reaches, SessionKinds
  <2>2. CASE site \notin {"loading", "ready"}
    BY <1>3, <1>4, <2>2 DEF ServeStart, Reaches, Works, SiteStatus
  <2> QED BY <2>1, <2>2
<1>5. CASE ServeStop(c) BY <1>3, <1>5 DEF ServeStop, Reaches, Works, SiteStatus
<1>6. CASE ServeExtend(c) BY <1>1, <1>6 DEF ServeExtend, Reaches, SessionKinds, server
<1>7. CASE ServeGenerate(c)
  <2>1. PICK j \in ServerJob :
          /\ records' = [records EXCEPT ![j] = "pending"]
          /\ call' = [call EXCEPT ![c].at = "working", ![c].job = j]
    BY <1>7 DEF ServeGenerate
  <2>2. call[c].at = "sent" /\ call[c].kind = "generate" /\ site' = site
    BY <1>7 DEF ServeGenerate, Reaches
  <2> DEFINE r == [call[c] EXCEPT !.at = "working", !.job = j]
  <2>3. /\ r \in CallRecord /\ r.at = "working" /\ r.kind = call[c].kind /\ r.job = j
        /\ r.answer = call[c].answer
    BY DEF CallRecord, CallStates
  <2>4. call' = [call EXCEPT ![c] = r] BY <2>1
  <2> HIDE DEF r
  <2>5. Carries(c, "working", j, call[c].answer) BY <2>3, <2>4 DEF Carries
  <2>6. CallTyped(c)' BY <2>2, <2>5 DEF Carries, CallTyped
  <2>7. records' \in [ServerJob -> RecordStatus] BY <2>1 DEF RecordStatus
  <2> QED BY <2>2, <2>5, <2>6, <2>7, CallGoesOn DEF CallStates
<1>8. CASE ServeCancel(c) \/ ServeRetry(c)
  <2>1. call[c].job \in ServerJob /\ call[c].at # "idle" /\ call[c].kind \in JobKinds
    BY <1>8 DEF ServeCancel, ServeRetry, Reaches, CallTyped, JobKinds
  <2>2. \E answer \in RecordStatus : Answers(c, answer)
    BY <1>8 DEF ServeCancel, ServeRetry, RecordStatus
  <2>3. records' \in [ServerJob -> RecordStatus] /\ site' = site
    BY <1>8 DEF ServeCancel, ServeRetry, RecordStatus
  <2> QED BY <1>2, <2>1, <2>2, <2>3
<1>9. CASE Completes(c)
  <2>1. call[c].at = "working" /\ call[c].kind \in {"start", "stop", "reset", "generate"}
    BY <1>9 DEF Completes, CallTyped
  <2>2. CASE call[c].kind = "start"
    <3>1. /\ \/ site' = "ready" /\ Answers(c, "ready")
             \/ site' = (IF site = "loading" THEN "error" ELSE site) /\ Fails(c)
          /\ UNCHANGED records
      BY <1>9, <2>2 DEF Completes
    <3> QED BY <1>1, <1>3, <2>1, <2>2, <3>1 DEF Fails, SiteStatus, SessionKinds
  <2>3. CASE call[c].kind \in {"stop", "reset"}
    <3>1. Answers(c, "off") /\ site' = "off" /\ records' \in {CancelPending(records), NoRecords}
      BY <1>9, <2>3 DEF Completes
    <3>2. NoRecords \in [ServerJob -> RecordStatus] BY DEF NoRecords, RecordStatus
    <3>3. CancelPending(records) \in [ServerJob -> RecordStatus] BY CancelPendingType
    <3> QED BY <1>1, <2>1, <2>3, <3>1, <3>2, <3>3 DEF SiteStatus, SessionKinds
  <2>4. CASE call[c].kind = "generate"
    <3>1. call[c].job \in ServerJob BY <2>1, <2>4 DEF CallTyped
    <3>2. \/ Answers(c, "pending") /\ records' = [records EXCEPT ![call[c].job] = "pending"]
          \/ /\ records' = [records EXCEPT ![call[c].job] = IF @ = "none" THEN @ ELSE "ended"]
             /\ Fails(c)
      BY <1>9, <2>4 DEF Completes
    <3>3. site' = site BY <1>9, <2>4 DEF Completes
    <3>4. records' \in [ServerJob -> RecordStatus] BY <3>2 DEF RecordStatus
    <3> QED BY <1>2, <1>3, <2>1, <2>4, <3>1, <3>2, <3>3, <3>4 DEF Fails, RecordStatus, JobKinds
  <2> QED BY <2>1, <2>2, <2>3, <2>4
<1>10. CASE Denied(c) BY <1>3, <1>10 DEF Denied, server
<1> QED BY <1>4, <1>5, <1>6, <1>7, <1>8, <1>9, <1>10 DEF Serve

\* What the page shows of an answer has the type of the snapshot.
LEMMA ShowAnswerType ==
  ASSUME ApiInv, NEW c \in Call, call[c].at = "answered", ShowAnswer(c)
  PROVE  shown' \in [session : SiteStatus \cup {"provisioning"}, jobs : [ServerJob -> RecordStatus]]
<1> DEFINE answer == call[c].answer
           j == call[c].job
<1>1. shown \in [session : SiteStatus \cup {"provisioning"}, jobs : [ServerJob -> RecordStatus]]
  BY DEF ApiInv, ApiTypeOK
<1>2. CallTyped(c) /\ call[c].kind \in SessionKinds \cup JobKinds
  BY DEF ApiInv, CallTyped, CallRecord
<1>3. CASE call[c].kind \in {"start", "extend"}
  <2>1. shown' = [shown EXCEPT !.session = answer] BY <1>3 DEF ShowAnswer
  <2>2. answer \in SiteStatus BY <1>2, <1>3 DEF CallTyped, SessionKinds
  <2> QED BY <1>1, <2>1, <2>2
<1>4. CASE call[c].kind = "stop"
  <2>1. shown' = [session |-> answer, jobs |-> CancelPending(shown.jobs)] BY <1>4 DEF ShowAnswer
  <2>2. answer \in SiteStatus BY <1>2, <1>4 DEF CallTyped, SessionKinds
  <2>3. CancelPending(shown.jobs) \in [ServerJob -> RecordStatus] BY <1>1, CancelPendingType
  <2> QED BY <2>1, <2>2, <2>3
<1>5. CASE call[c].kind = "reset"
  <2>1. shown' = [session |-> "off", jobs |-> NoRecords] BY <1>5 DEF ShowAnswer
  <2> QED BY <2>1 DEF NoRecords, RecordStatus, SiteStatus
<1>6. CASE call[c].kind = "generate"
  <2>1. shown' = [shown EXCEPT !.jobs[j] = answer] BY <1>6 DEF ShowAnswer
  <2>2. answer \in RecordStatus BY <1>2, <1>6 DEF CallTyped, SessionKinds
  <2> QED BY <1>1, <2>1, <2>2
<1>7. CASE call[c].kind \in {"retry", "cancel"}
  <2>1. shown' = [shown EXCEPT !.jobs[j] = IF @ = "none" THEN @ ELSE answer]
    BY <1>7 DEF ShowAnswer
  <2>2. answer \in RecordStatus BY <1>2, <1>7 DEF CallTyped, SessionKinds
  <2>3. shown' = [shown EXCEPT !.jobs = [shown.jobs EXCEPT ![j] = IF @ = "none" THEN @ ELSE answer]]
    BY <2>1
  <2>4. [shown.jobs EXCEPT ![j] = IF @ = "none" THEN @ ELSE answer] \in [ServerJob -> RecordStatus]
    BY <1>1, <2>2
  <2> QED BY <1>1, <2>3, <2>4
<1> QED BY <1>2, <1>3, <1>4, <1>5, <1>6, <1>7 DEF SessionKinds, JobKinds

LEMMA LostType == ApiTypeOK /\ (UNCHANGED lost \/ Lost) => lost' \in 0 .. MaxLost
  BY ApiAssumption DEF ApiTypeOK, Lost

\* The call is over; it gives up actionBusy exactly when it had it.
LEMMA ReturnsInv == ASSUME ApiInv, NEW c \in Call, Returns(c) PROVE ApiInv'
<1>1. PICK result \in {"answered", "failed", "denied"} : Receive(c, result)
  BY DEF Returns
<1>2. /\ call[c].at # "idle" /\ (UNCHANGED lost \/ Lost)
      /\ result = "answered" => call[c].at = "answered"
  BY <1>1 DEF Receive, Arrives
<1>3. /\ auth' = (IF result = "denied" THEN "login" ELSE auth)
      /\ acting' = (IF call[c].kind \in Guarded THEN FALSE ELSE acting)
      /\ call' = [call EXCEPT ![c] = NoCall]
      /\ UNCHANGED <<site, records, look, signedIn, clicks>>
  BY <1>1 DEF Receive, server
<1>4. shown' \in [session : SiteStatus \cup {"provisioning"}, jobs : [ServerJob -> RecordStatus]]
  <2>1. CASE result = "answered" BY <1>1, <1>2, <2>1, ShowAnswerType DEF Receive
  <2>2. CASE result # "answered"
    <3>1. shown' = IF call[c].kind = "start" THEN [shown EXCEPT !.session = "error"] ELSE shown
      BY <1>1, <2>2 DEF Receive
    <3> QED BY <3>1 DEF ApiInv, ApiTypeOK, SiteStatus
  <2> QED BY <2>1, <2>2
<1>5. ApiTypeOK'
  <2>1. lost' \in 0 .. MaxLost BY <1>2, LostType DEF ApiInv
  <2>2. auth' \in {"checking", "login", "ready", "configuration-error"} /\ acting' \in BOOLEAN
    BY <1>3 DEF ApiInv, ApiTypeOK
  <2> QED BY <1>3, <1>4, <2>1, <2>2 DEF ApiInv, ApiTypeOK
<1>6. /\ call' \in [Call -> CallRecord] /\ call'[c] = NoCall
      /\ \A d \in Call \ {c} : call'[d] = call[d]
  BY <1>3, NoCallType DEF ApiInv
<1>7. \A d \in Call : CallTyped(d)'
  BY <1>6, NoCallType DEF ApiInv, CallTyped
<1>8. OneAction'
  <2>1. OneAction BY DEF ApiInv
  <2>2. GuardedCalls' = GuardedCalls \ {c} BY <1>6, NoCallType DEF GuardedCalls
  <2>3. CASE call[c].kind \in Guarded
    <3>1. c \in GuardedCalls BY <1>2, <2>3 DEF GuardedCalls
    <3>2. GuardedCalls' = {} BY <2>1, <2>2, <3>1 DEF OneAction
    <3> QED BY <1>3, <2>3, <3>2 DEF OneAction
  <2>4. CASE call[c].kind \notin Guarded
    <3>1. c \notin GuardedCalls BY <2>4 DEF GuardedCalls
    <3>2. GuardedCalls' = GuardedCalls BY <2>2, <3>1
    <3>3. acting' = acting BY <1>3, <2>4
    <3> QED BY <2>1, <3>2, <3>3 DEF OneAction
  <2> QED BY <2>3, <2>4
<1> QED BY <1>3, <1>5, <1>6, <1>7, <1>8 DEF ApiInv

LEMMA DeadlineInv == ApiInv /\ Deadline => ApiInv'
<1> SUFFICES ASSUME ApiInv, Deadline PROVE ApiInv' OBVIOUS
<1>1. records \in [ServerJob -> RecordStatus] BY DEF ApiInv, ApiTypeOK
<1>2. records' \in [ServerJob -> RecordStatus] BY <1>1, CancelPendingType DEF Deadline
<1>3. ApiTypeOK' BY <1>2 DEF ApiInv, ApiTypeOK, Deadline, page, bounds, SiteStatus
<1> QED BY <1>3, CallsKept DEF ApiInv, Deadline, page

\* A look changes no call: what it holds and what it shows have their types.
LEMMA LookOnInv == ASSUME ApiInv, NEW l \in Looks, LookOn(l) \/ ApiTick PROVE ApiInv'
<1> USE DEF LookKeeps, server
<1> /\ ApiTypeOK /\ look \in [Looks -> LookRecord] /\ "poll" \in Looks /\ "hydrate" \in Looks
  BY DEF ApiInv, Looks
<1>1. CASE ApiTick
  <2>1. look' \in [Looks -> LookRecord] BY <1>1, NoLookType DEF ApiTick
  <2>2. ApiTypeOK' BY <1>1 DEF ApiTick, ApiTypeOK
  <2> QED BY <1>1, <2>1, <2>2, CallsKept DEF ApiTick
<1>2. CASE Publish(l)
  <2>1. look' \in [Looks -> LookRecord] BY <1>2, NoLookType DEF Publish
  <2>2. shown' \in [session : SiteStatus \cup {"provisioning"}, jobs : [ServerJob -> RecordStatus]]
    BY <1>2 DEF Publish, LookRecord
  <2>3. auth' \in {"checking", "login", "ready", "configuration-error"} BY <1>2 DEF Publish, ApiTypeOK
  <2>4. ApiTypeOK' BY <1>2, <2>2, <2>3 DEF Publish, ApiTypeOK
  <2> QED BY <1>2, <2>1, <2>4, CallsKept DEF Publish
<1>3. CASE LookFails(l)
  <2>1. look' \in [Looks -> LookRecord] BY <1>3, NoLookType DEF LookFails
  <2>2. lost' \in 0 .. MaxLost BY <1>3, LostType DEF LookFails
  <2>3. auth' \in {"checking", "login", "ready", "configuration-error"} BY <1>3 DEF LookFails, ApiTypeOK
  <2>4. ApiTypeOK' BY <1>3, <2>2, <2>3 DEF LookFails, ApiTypeOK
  <2> QED BY <1>3, <2>1, <2>4, CallsKept DEF LookFails
<1>4. CASE ReadSession
  <2> DEFINE r == [look["poll"] EXCEPT !.session = site, !.left = @ \ {"session"}]
  <2>1. r \in LookRecord BY DEF LookRecord, ApiTypeOK
  <2>2. look' = [look EXCEPT !["poll"] = r] BY <1>4 DEF ReadSession
  <2> HIDE DEF r
  <2>3. look' \in [Looks -> LookRecord] BY <2>1, <2>2
  <2>4. ApiTypeOK' BY <1>4 DEF ReadSession, ApiTypeOK
  <2> QED BY <1>4, <2>3, <2>4, CallsKept DEF ReadSession
<1>5. CASE ReadRecords
  <2> DEFINE r == [look["poll"] EXCEPT !.jobs = records, !.left = (@ \ {"jobs"}) \cup Pending(records)]
  <2>1. r \in LookRecord BY DEF LookRecord, ApiTypeOK, Pending
  <2>2. look' = [look EXCEPT !["poll"] = r] BY <1>5 DEF ReadRecords
  <2> HIDE DEF r
  <2>3. look' \in [Looks -> LookRecord] BY <2>1, <2>2
  <2>4. ApiTypeOK' BY <1>5 DEF ReadRecords, ApiTypeOK
  <2> QED BY <1>5, <2>3, <2>4, CallsKept DEF ReadRecords
<1>6. ASSUME NEW j \in ServerJob, ReadDetail(j) PROVE ApiInv'
  <2>1. records' \in [ServerJob -> RecordStatus] BY <1>6 DEF ReadDetail, ApiTypeOK, RecordStatus
  <2> DEFINE r == [look["poll"] EXCEPT !.jobs[j] = records'[j], !.left = @ \ {j}]
  <2>2. r \in LookRecord
    <3>1. look["poll"] \in LookRecord /\ records'[j] \in RecordStatus BY <2>1
    <3>2. [look["poll"].jobs EXCEPT ![j] = records'[j]] \in [ServerJob -> RecordStatus]
      BY <3>1 DEF LookRecord
    <3>3. r = [look["poll"] EXCEPT !.jobs = [look["poll"].jobs EXCEPT ![j] = records'[j]],
                                  !.left = look["poll"].left \ {j}]
      BY <3>1 DEF LookRecord
    <3> HIDE DEF r
    <3> QED BY <3>1, <3>2, <3>3 DEF LookRecord
  <2>3. look' = [look EXCEPT !["poll"] = r] BY <1>6 DEF ReadDetail
  <2> HIDE DEF r
  <2>4. look' \in [Looks -> LookRecord] BY <2>2, <2>3
  <2>5. ApiTypeOK' BY <1>6, <2>1 DEF ReadDetail, ApiTypeOK
  <2> QED BY <1>6, <2>4, <2>5, CallsKept DEF ReadDetail
<1>7. CASE ReadAll
  <2>1. [on |-> TRUE, left |-> {}, session |-> site, jobs |-> records] \in LookRecord
    BY DEF LookRecord, ApiTypeOK
  <2>2. look' \in [Looks -> LookRecord] BY <1>7, <2>1 DEF ReadAll
  <2>3. ApiTypeOK' BY <1>7 DEF ReadAll, ApiTypeOK
  <2> QED BY <1>7, <2>2, <2>3, CallsKept DEF ReadAll
<1> QED BY <1>1, <1>2, <1>3, <1>4, <1>5, <1>6, <1>7 DEF LookOn

LEMMA SigningInv == ApiInv /\ (Check \/ Login \/ Expire \/ UNCHANGED apiVars) => ApiInv'
<1> USE DEF server, page, bounds
<1> SUFFICES ASSUME ApiInv, Check \/ Login \/ Expire \/ UNCHANGED apiVars PROVE ApiInv' OBVIOUS
<1>1. UNCHANGED <<call, acting, shown, site, records, clicks>>
  BY DEF Check, Login, Expire, apiVars
<1>2. look' \in [Looks -> LookRecord]
  BY NoLookType DEF ApiInv, Check, Login, Expire, apiVars, Hydrate
<1>3. lost' \in 0 .. MaxLost
  BY LostType DEF ApiInv, Check, Login, Expire, apiVars
<1>4. auth' \in {"checking", "login", "ready", "configuration-error"} /\ signedIn' \in BOOLEAN
  BY DEF ApiInv, ApiTypeOK, Check, Login, Expire, apiVars
<1>5. ApiTypeOK' BY <1>1, <1>3, <1>4 DEF ApiInv, ApiTypeOK
<1> QED BY <1>1, <1>2, <1>5, CallsKept

LEMMA StepApiInv == ApiInv /\ [ApiNext]_apiVars => ApiInv'
  BY ClickInv, ServeInv, ReturnsInv, DeadlineInv, LookOnInv, SigningInv DEF ApiNext, Looks

------------------------------------------------------------------------------
(* The page: one adapter moves, the other stays as it began.                  *)

StudioInv == service \in {"demo", "api"} /\ DemoInv /\ ApiInv

LEMMA InitStudioInv == StudioInit => StudioInv
  BY InitDemoInv, InitApiInv DEF StudioInit, StudioInv

LEMMA StepStudioInv == StudioInv /\ [StudioNext]_studioVars => StudioInv'
<1> SUFFICES ASSUME StudioInv, [StudioNext]_studioVars PROVE StudioInv' OBVIOUS
<1>1. service' = service /\ [DemoNext]_demoVars /\ [ApiNext]_apiVars
  BY DEF StudioNext, studioVars
<1> QED BY <1>1, StepDemoInv, StepApiInv DEF StudioInv

LEMMA StudioInvariant == StudioSpec => []StudioInv
  BY InitStudioInv, StepStudioInv, PTL DEF StudioSpec

\* Both adapters' snapshots have the types of StudioSnapshot, whatever the
\* server answers, whatever fails on the way and however answers overtake each
\* other (mapSession and mapJob of api-service.ts; demo-service.ts).
THEOREM StudioTypes == StudioSpec => []StudioTypeOK
<1>1. StudioInv => StudioTypeOK BY DEF StudioInv, StudioTypeOK, DemoInv, ApiInv
<1> QED BY <1>1, StudioInvariant, PTL

\* actionBusy of api-service.ts is set exactly while one start, stop, generate
\* or retry is in flight, for any number of calls in flight, lost or denied.
THEOREM OneActionAtATime == StudioSpec => []OneAction
<1>1. StudioInv => OneAction BY DEF StudioInv, ApiInv
<1> QED BY <1>1, StudioInvariant, PTL

\* The page does what the demo service does, or leaves it alone.
LEMMA PageRunsDemo == StudioSpec => DemoSpec
<1>1. StudioInit => DemoInit BY DEF StudioInit
<1>2. [StudioNext]_studioVars => [DemoNext]_demoVars BY DEF StudioNext, studioVars
<1> QED BY <1>1, <1>2, PTL DEF StudioSpec, DemoSpec

\* The page's timers stay those of the session and the job it shows, whichever
\* adapter it was built with (demo-service.ts).
COROLLARY PageTimersBelong == StudioSpec => []TimersBelong
  BY PageRunsDemo, DemoTimersBelong, PTL

\* And the page's jobs keep the job contract with the demo service.
COROLLARY PageImplementsContract == StudioSpec => DemoContractSpec
  BY PageRunsDemo, DemoImplementsContract, PTL
==============================================================================
