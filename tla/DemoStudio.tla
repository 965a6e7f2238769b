----------------------------- MODULE DemoStudio ------------------------------
(* The demo adapter (lib/demo-service.ts): a session and jobs simulated in    *)
(* the page with timers, and kept across reloads by the browser's storage     *)
(* (components/studio-provider.tsx).  Every method and every timer callback   *)
(* runs to its end before the next, so each is one action; a timer that was   *)
(* not cleared fires at any later moment, as a throttled tab lets it.         *)
(* Segments, voices and the draft are left out: the draft decides only        *)
(* whether generate throws.                                                   *)
EXTENDS Naturals

CONSTANTS Job,        \* job identifiers
          NoJob,      \* null
          Scenarios,  \* scenarios of the settings
          Durations,  \* session lengths, in half hours
          IdleTimes,  \* idle timeouts, in half hours
          Longest,    \* four hours, in half hours
          MaxTime     \* bound on the time explored

ASSUME DemoAssumption ==
  /\ NoJob \notin Job
  /\ Longest \in Nat /\ MaxTime \in Nat
  /\ Durations \subseteq 1 .. Longest /\ IdleTimes \subseteq Nat

VARIABLES demo,          \* snapshot.session: status, startedAt, expiresAt, lastActivityAt
          status,        \* snapshot.jobs: the status of each
          segmented,     \* and whether it has segments
          sessionTimer,  \* the pending timer of sessionTimers, and its scenario
          jobTimer,      \* the next of jobTimers, the job and the scenario they captured
          requestKey,    \* activeRequestKey
          settings,      \* scenario, idleMinutes, sessionMinutes, within the price limit
          keeps,         \* whether the browser stores what the page saves
          time

demoVars == <<demo, status, segmented, sessionTimer, jobTimer, requestKey, settings, keeps, time>>
jobVars == <<status, segmented, jobTimer, requestKey>>

NoTimer == [at |-> "none", job |-> NoJob, scenario |-> "normal"]
EmptySession == [status |-> "off", started |-> 0, expires |-> 0, last |-> 0]
Opening == {"provisioning", "loading", "ready"}

Active(j) == status[j] \in {"queued", "running"}
Busy == \E j \in Job : Active(j)
AllSettings == [scenario : Scenarios, idle : IdleTimes, duration : Durations, affordable : BOOLEAN]

DefaultSettings == {s \in AllSettings : s.scenario = "normal" /\ s.affordable}

\* A first visit; Reload brings the later ones.
DemoInit ==
  /\ demo = EmptySession
  /\ status = [j \in Job |-> "none"]
  /\ segmented = [j \in Job |-> FALSE]
  /\ sessionTimer = NoTimer /\ jobTimer = NoTimer /\ requestKey = NoJob
  /\ settings \in DefaultSettings
  /\ keeps \in BOOLEAN
  /\ time = 0

SetJob(j, new) == status' = [status EXCEPT ![j] = new]
CancelActive == status' = [j \in Job |-> IF Active(j) THEN "cancelled" ELSE status[j]]

------------------------------------------------------------------------------
(* The session.                                                               *)

\* It throws when the example rate of the GPU is above the limit.
StartDemo ==
  /\ demo.status \in {"off", "error"}
  /\ settings.affordable
  /\ demo' = [status |-> "provisioning", started |-> time, expires |-> time + settings.duration,
              last |-> time]
  /\ sessionTimer' = [at |-> "provisioned", job |-> NoJob, scenario |-> settings.scenario]
  /\ UNCHANGED <<jobVars, settings, keeps, time>>

\* The first timer; it schedules the second.
Provisioned ==
  /\ sessionTimer.at = "provisioned"
  /\ IF sessionTimer.scenario = "unavailable"
     THEN demo' = [demo EXCEPT !.status = "error"] /\ sessionTimer' = NoTimer
     ELSE /\ demo' = [demo EXCEPT !.status = "loading"]
          /\ sessionTimer' = [sessionTimer EXCEPT !.at = "loaded"]
  /\ UNCHANGED <<jobVars, settings, keeps, time>>

Loaded ==
  /\ sessionTimer.at = "loaded"
  /\ demo' = [demo EXCEPT !.status = "ready", !.last = time]
  /\ sessionTimer' = NoTimer
  /\ UNCHANGED <<jobVars, settings, keeps, time>>

\* Mutant of StopDemo: the timers of the job stay pending.
StopDemoLeavingTimers ==
  /\ demo.status \notin {"off", "stopping"}
  /\ CancelActive
  /\ requestKey' = NoJob
  /\ demo' = [demo EXCEPT !.status = "stopping"]
  /\ sessionTimer' = [NoTimer EXCEPT !.at = "closed"]
  /\ UNCHANGED <<jobTimer, segmented, settings, keeps, time>>

\* Mutant of StopDemo: the timers are cleared after the closing one is set.
StopDemoClearingLast ==
  /\ demo.status \notin {"off", "stopping"}
  /\ CancelActive
  /\ jobTimer' = NoTimer /\ requestKey' = NoJob
  /\ demo' = [demo EXCEPT !.status = "stopping"]
  /\ sessionTimer' = NoTimer
  /\ UNCHANGED <<segmented, settings, keeps, time>>

\* stopSession: by the user or by tick.
StopDemo ==
  /\ demo.status \notin {"off", "stopping"}
  /\ CancelActive
  /\ jobTimer' = NoTimer /\ requestKey' = NoJob
  /\ demo' = [demo EXCEPT !.status = "stopping"]
  /\ sessionTimer' = [NoTimer EXCEPT !.at = "closed"]
  /\ UNCHANGED <<segmented, settings, keeps, time>>

Closed ==
  /\ sessionTimer.at = "closed"
  /\ demo' = [demo EXCEPT !.status = "off", !.expires = 0]
  /\ sessionTimer' = NoTimer
  /\ UNCHANGED <<jobVars, settings, keeps, time>>

ExtendDemo ==
  LET longest == demo.started + Longest
      next == IF demo.expires + 1 <= longest THEN demo.expires + 1 ELSE longest
  IN /\ demo.status \in Opening
     /\ next > demo.expires
     /\ demo' = [demo EXCEPT !.expires = next]
     /\ UNCHANGED <<jobVars, sessionTimer, settings, keeps, time>>

Expired == demo.status \in Opening /\ time >= demo.expires
IdleTooLong == demo.status = "ready" /\ ~ Busy /\ time - demo.last >= settings.idle

\* tick, once a second.
DemoTick == (Expired \/ IdleTooLong) /\ StopDemo

------------------------------------------------------------------------------
(* Jobs.                                                                      *)

\* generate throws unless the draft is valid; an expressive script has segments.
Generate(j) ==
  /\ status[j] = "none"
  /\ requestKey = NoJob /\ ~ Busy
  /\ demo.status = "ready"
  /\ SetJob(j, "queued")
  /\ \E expressive \in BOOLEAN : segmented' = [segmented EXCEPT ![j] = expressive]
  /\ requestKey' = j
  /\ jobTimer' = [at |-> "begin", job |-> j, scenario |-> settings.scenario]
  /\ demo' = [demo EXCEPT !.last = time]
  /\ UNCHANGED <<sessionTimer, settings, keeps, time>>

\* The timers at 550, 1600 and 2900 ms, in this order.
Begun ==
  /\ jobTimer.at = "begin"
  /\ SetJob(jobTimer.job, "running")
  /\ jobTimer' = [jobTimer EXCEPT !.at = "progress"]
  /\ UNCHANGED <<demo, segmented, requestKey, sessionTimer, settings, keeps, time>>

Progressed ==
  /\ jobTimer.at = "progress"
  /\ jobTimer' = [jobTimer EXCEPT !.at = "finish"]
  /\ UNCHANGED <<demo, status, segmented, requestKey, sessionTimer, settings, keeps, time>>

Finished ==
  /\ jobTimer.at = "finish"
  /\ SetJob(jobTimer.job, IF jobTimer.scenario \in {"failure", "disconnected"}
                          THEN "failed" ELSE "succeeded")
  /\ requestKey' = NoJob
  /\ jobTimer' = NoTimer
  /\ demo' = [demo EXCEPT !.last = time,
                          !.status = IF jobTimer.scenario = "disconnected" THEN "error" ELSE @]
  /\ UNCHANGED <<segmented, sessionTimer, settings, keeps, time>>

CancelDemo(j) ==
  /\ Active(j)
  /\ SetJob(j, "cancelled")
  /\ jobTimer' = NoTimer /\ requestKey' = NoJob
  /\ demo' = [demo EXCEPT !.last = time]
  /\ UNCHANGED <<segmented, sessionTimer, settings, keeps, time>>

\* Mutant of RetryDemo: another job may be active.
RetryBesideActive(j) ==
  /\ status[j] # "none" /\ segmented[j]
  /\ SetJob(j, "succeeded")
  /\ UNCHANGED <<demo, segmented, jobTimer, requestKey, sessionTimer, settings, keeps, time>>

\* retrySegment succeeds at once, in whatever state the session is.
RetryDemo(j) ==
  /\ status[j] # "none" /\ segmented[j]
  /\ ~ Busy
  /\ SetJob(j, "succeeded")
  /\ UNCHANGED <<demo, segmented, jobTimer, requestKey, sessionTimer, settings, keeps, time>>

------------------------------------------------------------------------------
(* The page.                                                                  *)

ChangeSettings ==
  /\ settings' \in AllSettings
  /\ UNCHANGED <<demo, jobVars, sessionTimer, keeps, time>>

Forget ==
  /\ demo' = EmptySession
  /\ status' = [j \in Job |-> "none"]
  /\ segmented' = [j \in Job |-> FALSE]
  /\ sessionTimer' = NoTimer /\ jobTimer' = NoTimer /\ requestKey' = NoJob

ResetDemo ==
  /\ Forget
  /\ settings' \in DefaultSettings
  /\ UNCHANGED <<keeps, time>>

\* The page is loaded again: its timers are gone, and hydrate takes what the
\* subscriber saved at the last publish, which is everything or, when the
\* browser refuses to store, nothing.
Reload ==
  /\ IF keeps
     THEN /\ demo' = EmptySession
          /\ CancelActive
          /\ sessionTimer' = NoTimer /\ jobTimer' = NoTimer /\ requestKey' = NoJob
          /\ UNCHANGED <<segmented, settings>>
     ELSE Forget /\ settings' \in DefaultSettings
  /\ UNCHANGED <<keeps, time>>

TimePasses ==
  /\ time < MaxTime /\ time' = time + 1
  /\ UNCHANGED <<demo, jobVars, sessionTimer, settings, keeps>>

SessionTimers == Provisioned \/ Loaded \/ Closed
JobTimers == Begun \/ Progressed \/ Finished

DemoNext ==
  \/ StartDemo \/ StopDemo \/ ExtendDemo \/ DemoTick \/ SessionTimers
  \/ \E j \in Job : Generate(j) \/ CancelDemo(j) \/ RetryDemo(j)
  \/ JobTimers
  \/ ChangeSettings \/ ResetDemo \/ Reload \/ TimePasses

DemoSpec == DemoInit /\ [][DemoNext]_demoVars

\* Timers fire and the interval calls tick.
DemoFairness ==
  /\ WF_demoVars(SessionTimers) /\ WF_demoVars(JobTimers) /\ WF_demoVars(DemoTick)

------------------------------------------------------------------------------
(* Properties.                                                                *)

\* The types of the snapshot.
DemoTypeOK ==
  /\ demo \in [status : {"off", "provisioning", "loading", "ready", "stopping", "error"},
               started : Nat, expires : Nat, last : Nat]
  /\ status \in [Job -> {"none", "queued", "running", "succeeded", "failed", "cancelled"}]
  /\ segmented \in [Job -> BOOLEAN]
  /\ sessionTimer \in [at : {"none", "provisioned", "loaded", "closed"}, job : {NoJob},
                       scenario : Scenarios \cup {"normal"}]
  /\ jobTimer \in [at : {"none", "begin", "progress", "finish"}, job : Job \cup {NoJob},
                   scenario : Scenarios \cup {"normal"}]
  /\ requestKey \in Job \cup {NoJob}
  /\ settings \in AllSettings
  /\ keeps \in BOOLEAN /\ time \in Nat

\* A pending timer belongs to what the page shows: the timers of a job to the
\* one job that is active, in a session that is ready, and those of a session
\* to the state it is in.  No timer of an earlier session or job, stopped,
\* cancelled, reset or finished, changes a later one (demo-service.ts:311,
\* 354-356, 530-531, 574-575), and the request key never locks generate out.
TimersBelong ==
  /\ \A j \in Job : Active(j) => demo.status = "ready" /\ jobTimer.job = j
  /\ jobTimer.at # "none" => \E j \in Job : Active(j) /\ jobTimer.job = j
  /\ requestKey = jobTimer.job
  /\ sessionTimer.at = (CASE demo.status = "provisioning" -> "provisioned"
                          [] demo.status = "loading" -> "loaded"
                          [] demo.status = "stopping" -> "closed"
                          [] OTHER -> "none")

\* Sessions that start come to rest, and jobs end: the page never stays in a
\* state that its timers are to end.
DemoSettles ==
  /\ []<>(demo.status # "stopping")
  /\ []<>(demo.status \notin Opening \/ demo.expires > MaxTime)
  /\ []<>~ Busy

\* The demo implements the studio's job contract, with a retry that accepts any
\* ended job and succeeds at once, and a list that can be dropped.
DemoContract == INSTANCE JobContract WITH
  Retryable <- {"succeeded", "failed", "cancelled"}, Retried <- "succeeded", Resettable <- TRUE
DemoContractSpec == DemoContract!Spec
==============================================================================
