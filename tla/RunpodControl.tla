---------------------------- MODULE RunpodControl ----------------------------
(***************************************************************************)
(* The RunPod control plane of VoxCPM Studio: the requests of             *)
(* src/server/runpod-controller.ts (start, stop, extend, reconcile, the   *)
(* watchdog run and the workload observation of the job routes) executed  *)
(* concurrently by several processes that share one persisted state (a    *)
(* session, a lease, the idempotency records) and one RunPod account.     *)
(*                                                                         *)
(* An action is what a request does between two awaits that let another   *)
(* process in: one store transaction, or one exchange with RunPod.  A     *)
(* store read is joined to the exchange it prepares.  The store itself    *)
(* is atomic here; ControlFileLock examines that assumption.              *)
(*                                                                         *)
(* All start requests carry the same input, hence one Pod name: podName,  *)
(* profile, cloud and rate are constant and are left out.  Times are      *)
(* ticks; Never stands for null.                                          *)
(***************************************************************************)
EXTENDS Integers, FiniteSets

CONSTANTS
  Proc,          \* request slots: one runs at most one request at a time
  Roles,         \* the kinds of request each slot may issue
  Pod,           \* Pods the account can hold
  StartKey, StopKey, ExtendKey,   \* idempotency keys the callers use
  Nil,           \* no Pod, no owner, no key
  Faults,        \* the failures that may occur
  Lease,         \* LEASE_MILLISECONDS
  Duration,      \* session duration asked for
  Extension,     \* the 30 minutes of an extension
  MaxSession,    \* maximum duration (hard cost limit included)
  Cutoff,        \* RUNPOD_ADMISSION_CUTOFF_SECONDS
  IdleTicks,     \* settings.idleMinutes
  Backoff,       \* 30 s, the first retry delay
  MaxFailures,   \* MAX_STOP_FAILURES
  Horizon,       \* bound: callers issue requests up to this time
  MaxTime        \* bound: here the clock stops, unless a retry or a lease awaits it

Kinds == {"start", "stop", "extend", "reconcile", "watchdog", "observe", "job"}
FaultKinds == {"crash",        \* a process dies between two steps
               "lost",         \* a request, or its reply, is lost
               "late",         \* RunPod applies a request after its caller gave up
               "refuse",       \* RunPod refuses an action, a lookup fails
               "overrun",      \* an operation outlives its lease
               "pod"}          \* a Pod fails or is terminated in the console

ASSUME ProcAssumption == Nil \notin Proc
ASSUME PodAssumption == Nil \notin Pod
ASSUME RolesAssumption == Roles \in [Proc -> SUBSET Kinds]
ASSUME FaultsAssumption == Faults \subseteq FaultKinds
ASSUME TimeAssumption ==
  /\ Lease \in Nat \ {0} /\ Duration \in Nat \ {0} /\ MaxFailures \in Nat \ {0}
  /\ Extension \in Nat /\ MaxSession \in Nat /\ Cutoff \in Nat
  /\ IdleTicks \in Nat /\ Backoff \in Nat /\ Horizon \in Nat /\ MaxTime \in Nat

\* 2^n is a number: the provers have no theory of exponentiation.
ASSUME BackoffAssumption == \A n \in 0..MaxFailures : 2^n \in Nat

VARIABLES
  now,      \* the clock of the host
  session,  \* RunpodControlState.session
  lease,    \* RunpodControlState.lease
  ops,      \* RunpodControlState.operations, by id
  pods,     \* what RunPod holds
  calls,    \* mutations sent to RunPod and not applied yet
  creates,  \* history: create requests sent to RunPod, per key
  job,      \* the application's workload: whether a job is active, the last
            \* activity, and the drains that have read the job as active
  pc, loc   \* where each request stands and what it remembers

store == <<session, lease, ops>>
vars == <<now, session, lease, ops, pods, calls, creates, job, pc, loc>>
cloud == <<pods, calls, creates>>
------------------------------------------------------------------------------
Never == -1
Time == Int

Phases == {"off", "planned", "starting", "loading_model", "ready",
           "stopping", "stopped", "error"}
\* STARTING also stands for PROVISIONING, and the phase starting for provisioning.
PodStatus == {"ABSENT", "STARTING", "RUNNING", "EXITED", "ERROR", "TERMINATED"}
Reasons == {"none", "manual", "hard_deadline", "idle_deadline"}

\* A watchdog stop is identified by what it was decided from.
WatchdogKey == [deadline : Time, reason : Reasons, retry : Nat]
OpId == StartKey \cup StopKey \cup ExtendKey \cup WatchdogKey

Op == [kind : {"start", "extend", "stop", "watchdog-stop"},
       status : {"pending", "succeeded", "failed"}, attempted : BOOLEAN]

Session == [phase : Phases, podId : Pod \cup {Nil},
            startedAt : Time, readyAt : Time, hardDeadline : Time,
            idleDeadline : Time, busy : BOOLEAN,
            drainStarted : BOOLEAN, drainCompleted : BOOLEAN, cancelAt : Time,
            stopConfirmed : BOOLEAN, stopReason : Reasons,
            retryCount : Nat, nextRetryAt : Time]

EmptySession ==
  [phase |-> "off", podId |-> Nil, startedAt |-> Never, readyAt |-> Never,
   hardDeadline |-> Never, idleDeadline |-> Never, busy |-> FALSE,
   drainStarted |-> FALSE, drainCompleted |-> FALSE, cancelAt |-> Never,
   stopConfirmed |-> FALSE, stopReason |-> "none", retryCount |-> 0,
   nextRetryAt |-> Never]

NoLease == [owner |-> Nil, expiresAt |-> Never]
NoJob(last) == [active |-> FALSE, last |-> last, drains |-> {}]

\* What a request remembers: its kind and key, when its lease expires, when it
\* began, the Pod and status it saw, the recorded attempt, its reason, and a
\* time and a flag carried from one of its steps to the next.
EmptyLoc == [kind |-> "none", key |-> Nil, expires |-> Never, at |-> Never,
             pod |-> Nil, seen |-> "ABSENT", attempted |-> FALSE,
             reason |-> "none", time |-> Never, flag |-> FALSE]

\* The points of a request that lie inside withLease.
Leased == {"start_inspect", "start_plan", "mark", "send", "wait", "start_commit",
           "extend_commit", "stop_pending", "stop_find", "stop_confirm",
           "stop_request", "stop_commit", "fail", "release"}
Unleased == {"idle", "reconcile_commit", "drain_claim", "drain_cancel", "drain_mark",
             "drain_done", "drain_read", "sync_read", "sync_commit", "sync_decide",
             "watchdog_stop", "job_queue"}

InLease(p) == pc[p] \in Leased
Fault(f) == f \in Faults

Upsert(id, op) == [i \in DOMAIN ops \cup {id} |-> IF i = id THEN op ELSE ops[i]]

\* Mutant of InfrastructurePhase: the status is stored as the phase.
StatusAsPhase(status) == status

InfrastructurePhase(status) ==
  CASE status = "STARTING" -> "starting"
    [] status = "RUNNING" -> "loading_model"
    [] status \in {"EXITED", "TERMINATED"} -> "stopped"
    [] OTHER -> "error"

IsStopped(status) == status \in {"EXITED", "TERMINATED"}
Passed(time, at) == time # Never /\ time <= at
AdmissionCutoff(deadline) == deadline - Cutoff
RetryAt(count, at) ==
  IF count >= MaxFailures THEN Never ELSE at + Backoff * 2^(count - 1)

\* findSessionPod: the recorded Pod if RunPod still knows it, else the managed ones.
Managed == {q \in Pod : pods[q] # "ABSENT"}
Candidates(id) == IF id \in Managed THEN {id} ELSE Managed
Ambiguous(S) == \E a, b \in S : a # b
The(S) == IF S = {} THEN Nil ELSE CHOOSE q \in S : TRUE
StatusOf(q) == IF q = Nil THEN "ABSENT" ELSE pods[q]

Init ==
  /\ now = 0
  /\ session = EmptySession /\ lease = NoLease
  /\ ops = [i \in {} |-> [kind |-> "start", status |-> "pending", attempted |-> FALSE]]
  /\ pods = [q \in Pod |-> "ABSENT"] /\ calls = {} /\ creates = [k \in StartKey |-> 0]
  /\ job = NoJob(Never)
  /\ pc = [p \in Proc |-> "idle"] /\ loc = [p \in Proc |-> EmptyLoc]

Goto(p, label) == pc' = [pc EXCEPT ![p] = label]
Remember(p, r) == loc' = [loc EXCEPT ![p] = r]
Return(p) == Goto(p, "idle") /\ Remember(p, EmptyLoc)
------------------------------------------------------------------------------
(* The lease.  A call that finds it taken answers 409 and changes nothing. *)

\* Mutants of LeaseFree: a lease is taken over one tick early, or never.
LeaseFreeEarly == lease.owner = Nil \/ lease.expiresAt <= now + 1
LeaseNeverExpires == lease.owner = Nil

LeaseFree == lease.owner = Nil \/ lease.expiresAt <= now

Acquire(p) == /\ LeaseFree
              /\ lease' = [owner |-> p, expiresAt |-> now + Lease]

ReleaseLease(p) ==
  /\ pc[p] = "release"
  /\ lease' = IF lease.owner = p THEN NoLease ELSE lease
  /\ Return(p)
  /\ UNCHANGED <<now, session, ops, cloud, job>>

\* Mutant of AttemptRecorded: a retry forgets that RunPod was already asked.
AttemptForgotten(key) == FALSE

AttemptRecorded(key) == key \in DOMAIN ops /\ ops[key].attempted
Refused(key, kind) == key \in DOMAIN ops /\ ops[key].kind # kind
AlreadySucceeded(key) == key \in DOMAIN ops /\ ops[key].status = "succeeded"

(* withLease up to the first read: a key that another kind of request used is
   refused, an operation that already succeeded returns its state; otherwise
   the request goes on at label with f as its memory. *)
Enter(p, key, label, f) ==
  /\ Acquire(p)
  /\ Goto(p, IF Refused(key, f.kind) \/ AlreadySucceeded(key) THEN "release" ELSE label)
  /\ Remember(p, [f EXCEPT !.key = key, !.expires = now + Lease,
                           !.attempted = AttemptRecorded(key)])

Issues(p, kind) == pc[p] = "idle" /\ kind \in Roles[p]
Calls(p, kind) == Issues(p, kind) /\ now <= Horizon
------------------------------------------------------------------------------
(* start *)

StartCall(p, k) ==
  /\ Calls(p, "start")
  /\ Enter(p, k, "start_inspect", [EmptyLoc EXCEPT !.kind = "start"])
  /\ UNCHANGED <<now, session, ops, cloud, job>>

\* Catalog and inventory: price, capacity, foreign Pods, a failing lookup.
StartRefused(p) ==
  /\ pc[p] = "start_inspect"
  /\ \/ Fault("refuse")
     \/ Ambiguous(Managed)
     \/ \E q \in Managed : pods[q] \in {"TERMINATED", "ERROR"}
     \/ Managed = {} /\ loc[p].attempted
  /\ Goto(p, "release")
  /\ UNCHANGED <<now, session, lease, ops, cloud, job, loc>>

StartInspect(p) ==
  /\ pc[p] = "start_inspect"
  /\ ~Ambiguous(Managed)
  /\ \A q \in Managed : pods[q] \notin {"TERMINATED", "ERROR"}
  /\ Managed = {} => ~loc[p].attempted
  /\ Goto(p, "start_plan")
  /\ Remember(p, [loc[p] EXCEPT !.pod = The(Managed), !.seen = StatusOf(The(Managed))])
  /\ UNCHANGED <<now, session, lease, ops, cloud, job>>

StartPlan(p) ==
  /\ pc[p] = "start_plan"
  /\ ops' = Upsert(loc[p].key, [kind |-> "start", status |-> "pending",
                                attempted |-> loc[p].attempted])
  /\ session' = [EmptySession EXCEPT
       !.phase = IF loc[p].pod = Nil THEN "planned" ELSE InfrastructurePhase(loc[p].seen),
       !.podId = loc[p].pod, !.startedAt = now, !.hardDeadline = now + Duration]
  /\ Goto(p, IF loc[p].seen \in {"ABSENT", "EXITED"} THEN "mark" ELSE "start_commit")
  /\ UNCHANGED <<now, lease, cloud, job, loc>>

StartCommit(p) ==
  /\ pc[p] = "start_commit"
  /\ ops' = [ops EXCEPT ![loc[p].key].status = "succeeded"]
  /\ session' = [session EXCEPT !.podId = loc[p].pod,
                                !.phase = InfrastructurePhase(loc[p].seen)]
  /\ Goto(p, "release")
  /\ UNCHANGED <<now, lease, cloud, job, loc>>
------------------------------------------------------------------------------
(* RunPod mutations, for start and stop alike. *)

\* Mutant of MarkMutationAttempted: the mark is not written before the request.
MutationNotMarked(p) ==
  pc[p] = "mark" /\ Goto(p, "send") /\ UNCHANGED <<now, store, cloud, job, loc>>

MarkMutationAttempted(p) ==
  /\ pc[p] = "mark"
  /\ ops' = [ops EXCEPT ![loc[p].key].attempted = TRUE]
  /\ Goto(p, "send")
  /\ UNCHANGED <<now, session, lease, cloud, job, loc>>

\* Mutant of Verb: a stopped Pod is replaced instead of resumed.
CreateInsteadOfResume(p) == IF loc[p].kind = "start" THEN "create" ELSE "stop"

Verb(p) == IF loc[p].kind # "start" THEN "stop"
           ELSE IF loc[p].pod = Nil THEN "create" ELSE "resume"

Send(p) ==
  /\ pc[p] = "send"
  /\ calls' = calls \cup {[proc |-> p, key |-> loc[p].key, verb |-> Verb(p),
                           pod |-> loc[p].pod]}
  /\ creates' = IF Verb(p) = "create" THEN [creates EXCEPT ![loc[p].key] = @ + 1]
                ELSE creates
  /\ Goto(p, "wait")
  /\ UNCHANGED <<now, session, lease, ops, pods, job, loc>>

AwaitsReply(p, c) == pc[p] = "wait" /\ c.proc = p /\ c.key = loc[p].key
AfterReply(p) == IF loc[p].kind = "start" THEN "start_commit" ELSE "stop_commit"

\* The answer of RunPod arrives: the Pod concerned and its status.
Reply(p, q, status) ==
  /\ Goto(p, AfterReply(p))
  /\ Remember(p, [loc[p] EXCEPT !.pod = q, !.seen = status])

\* RunPod applies a mutation; the caller gets the new status, or the reply is lost.
CloudApply(c) ==
  /\ \E q \in Pod :
       /\ CASE c.verb = "create" ->
                 pods[q] = "ABSENT" /\ pods' = [pods EXCEPT ![q] = "STARTING"]
            [] c.verb = "resume" ->
                 q = c.pod /\ pods' = [pods EXCEPT ![q] =
                   IF @ = "EXITED" THEN "STARTING" ELSE @]
            [] c.verb = "stop" ->
                 q = c.pod /\ pods' = [pods EXCEPT ![q] =
                   IF @ \in {"STARTING", "RUNNING"} THEN "EXITED" ELSE @]
       /\ \/ AwaitsReply(c.proc, c) /\ pods'[q] # "ABSENT" /\ Reply(c.proc, q, pods'[q])
          \/ /\ AwaitsReply(c.proc, c) => Fault("lost") \/ pods'[q] = "ABSENT"
             /\ UNCHANGED <<pc, loc>>
  /\ calls' = calls \ {c}
  /\ UNCHANGED <<now, store, creates, job>>

\* RunPod accepts a stop and answers before the Pod has exited.
CloudAccept(c) ==
  /\ c.verb = "stop" /\ AwaitsReply(c.proc, c) /\ StatusOf(c.pod) # "ABSENT"
  /\ Reply(c.proc, c.pod, StatusOf(c.pod))
  /\ UNCHANGED <<now, session, lease, ops, cloud, job>>

\* A request that never takes effect.
CloudDrop(c) ==
  /\ Fault("lost")
  /\ calls' = calls \ {c}
  /\ UNCHANGED <<now, store, pods, creates, job, pc, loc>>

\* The 15 s timeout, a network error or an HTTP error.
CallFails(p) ==
  /\ pc[p] = "wait"
  /\ (\E c \in calls : AwaitsReply(p, c)) => Fault("late")
  /\ Goto(p, "fail")
  /\ UNCHANGED <<now, session, lease, ops, cloud, job, loc>>

\* Mutant of ScheduleRetry: the failure is counted, its retry is not scheduled.
CountFailureOnly(s) == [s EXCEPT !.retryCount = @ + 1]

\* The retry a failed or unverified watchdog stop leaves behind.
ScheduleRetry(s) ==
  [s EXCEPT !.retryCount = @ + 1, !.nextRetryAt = RetryAt(s.retryCount + 1, now)]

RecordFailure(p) ==
  /\ pc[p] = "fail"
  /\ ops' = [ops EXCEPT ![loc[p].key].status = "failed"]
  /\ session' = LET failed == [session EXCEPT !.phase = "error"]
                IN  IF loc[p].kind = "watchdog-stop" THEN ScheduleRetry(failed)
                    ELSE failed
  /\ Goto(p, "release")
  /\ UNCHANGED <<now, lease, cloud, job, loc>>
------------------------------------------------------------------------------
(* stop *)

StopCall(p, k) ==
  /\ Calls(p, "stop")
  /\ Enter(p, k, "stop_pending", [EmptyLoc EXCEPT !.kind = "stop", !.reason = "manual"])
  /\ UNCHANGED <<now, session, ops, cloud, job>>

StopPending(p) ==
  /\ pc[p] = "stop_pending"
  /\ ops' = Upsert(loc[p].key, [kind |-> loc[p].kind, status |-> "pending",
                                attempted |-> loc[p].attempted])
  /\ Goto(p, "stop_find")
  /\ UNCHANGED <<now, session, lease, cloud, job, loc>>

\* A lookup that fails, a locked Pod or one without a stop action.
StopRefused(p) ==
  /\ pc[p] = "stop_find"
  /\ Fault("refuse") \/ Ambiguous(Candidates(session.podId))
  /\ Goto(p, "fail")
  /\ UNCHANGED <<now, session, lease, ops, cloud, job, loc>>

StopFind(p) ==
  LET found == Candidates(session.podId)
  IN /\ pc[p] = "stop_find"
     /\ ~Ambiguous(found)
     /\ Remember(p, [loc[p] EXCEPT !.pod = The(found), !.seen = StatusOf(The(found))])
     /\ Goto(p, IF found = {} \/ IsStopped(StatusOf(The(found)))
                THEN "stop_confirm" ELSE "stop_request")
     /\ UNCHANGED <<now, session, lease, ops, cloud, job>>

StopConfirm(p) ==
  /\ pc[p] = "stop_confirm"
  /\ ops' = [ops EXCEPT ![loc[p].key].status = "succeeded"]
  /\ session' = [session EXCEPT !.phase = IF loc[p].pod = Nil THEN "off" ELSE "stopped",
                                !.stopConfirmed = TRUE, !.stopReason = loc[p].reason,
                                !.nextRetryAt = Never]
  /\ Goto(p, "release")
  /\ UNCHANGED <<now, lease, cloud, job, loc>>

StopRequest(p) ==
  /\ pc[p] = "stop_request"
  /\ session' = [session EXCEPT !.phase = "stopping", !.stopReason = loc[p].reason]
  /\ Goto(p, "mark")
  /\ UNCHANGED <<now, lease, ops, cloud, job, loc>>

StopCommit(p) ==
  LET confirmed == IsStopped(loc[p].seen)
      answered == [session EXCEPT !.phase = IF confirmed THEN "stopped" ELSE "stopping",
                                  !.stopConfirmed = confirmed]
  IN /\ pc[p] = "stop_commit"
     /\ ops' = [ops EXCEPT ![loc[p].key].status =
                  IF confirmed THEN "succeeded" ELSE "pending"]
     /\ session' = IF confirmed
                   THEN [answered EXCEPT !.retryCount = 0, !.nextRetryAt = Never]
                   ELSE IF loc[p].kind = "watchdog-stop" THEN ScheduleRetry(answered)
                   ELSE answered
     /\ Goto(p, "release")
     /\ UNCHANGED <<now, lease, cloud, job, loc>>
------------------------------------------------------------------------------
(* extend *)

\* Mutant of WithinMaximum: the maximum is counted from now.
WithinMaximumFromNow(deadline) == deadline <= now + MaxSession

WithinMaximum(deadline) == deadline <= session.startedAt + MaxSession

Extendable(deadline) ==
  /\ session.phase = "ready" /\ session.startedAt # Never
  /\ session.hardDeadline # Never /\ ~session.drainStarted
  /\ session.hardDeadline > now
  /\ WithinMaximum(deadline)

ExtendCall(p, k) ==
  LET deadline == session.hardDeadline + Extension
  IN /\ Calls(p, "extend")
     /\ Enter(p, k, IF Extendable(deadline) THEN "extend_commit" ELSE "release",
              [EmptyLoc EXCEPT !.kind = "extend", !.time = deadline])
     /\ UNCHANGED <<now, session, ops, cloud, job>>

ExtendCommit(p) ==
  /\ pc[p] = "extend_commit"
  /\ session' = [session EXCEPT !.hardDeadline = loc[p].time]
  /\ ops' = Upsert(loc[p].key, [kind |-> "extend", status |-> "succeeded",
                                attempted |-> FALSE])
  /\ Goto(p, "release")
  /\ UNCHANGED <<now, lease, cloud, job, loc>>
------------------------------------------------------------------------------
(* reconcile: takes no lease *)

\* The Pod is looked up, and probed for readiness unless the session is stopping.
ReconcileRead(p) ==
  LET found == Candidates(session.podId)
      status == StatusOf(The(found))
  IN /\ Issues(p, "reconcile")
     /\ ~Ambiguous(found)
     /\ found = {} => session.phase # "planned"
     /\ \E ready \in IF status = "RUNNING" /\ session.phase # "stopping"
                     THEN BOOLEAN ELSE {FALSE} :
          Remember(p, [EmptyLoc EXCEPT !.kind = "reconcile", !.pod = The(found),
                                       !.seen = status, !.flag = ready])
     /\ Goto(p, "reconcile_commit")
     /\ UNCHANGED <<now, store, cloud, job>>

\* The session once RunPod reported the status of its Pod.
Observed(s, status, ready) ==
  CASE IsStopped(status) ->
         [s EXCEPT !.phase = "stopped", !.stopConfirmed = TRUE, !.nextRetryAt = Never]
    [] status = "RUNNING" ->
         [s EXCEPT !.readyAt = IF ready /\ @ = Never THEN now ELSE @,
                   !.phase = IF @ = "stopping" THEN @
                             ELSE IF ready THEN "ready" ELSE "loading_model"]
    [] OTHER ->
         [s EXCEPT !.phase = IF @ = "stopping" THEN @ ELSE InfrastructurePhase(status)]

ReconcileCommit(p) ==
  LET status == loc[p].seen
      tracked == [session EXCEPT !.podId = loc[p].pod]
  IN /\ pc[p] = "reconcile_commit"
     /\ session' = IF loc[p].pod = Nil THEN [tracked EXCEPT !.phase = "off"]
                   ELSE Observed(tracked, status, loc[p].flag)
     /\ ops' = IF loc[p].pod # Nil /\ IsStopped(status)
               THEN [i \in DOMAIN ops |->
                      IF ops[i].status = "pending" /\ ops[i].kind \in {"stop", "watchdog-stop"}
                      THEN [ops[i] EXCEPT !.status = "succeeded"] ELSE ops[i]]
               ELSE ops
     /\ Return(p)
     /\ UNCHANGED <<now, lease, cloud, job>>
------------------------------------------------------------------------------
(* The watchdog run: takes the lease only when it comes to stop. *)

Watched == session.podId # Nil /\ session.phase \notin {"off", "stopped"}
Retrying == session.retryCount > 0
\* Mutant of RetryDue: the backoff is ignored.
RetryAtOnce == TRUE
RetryDue == Passed(session.nextRetryAt, now)
HardDeadlineReached == Passed(session.hardDeadline, now)
CutoffReached == session.hardDeadline # Never /\ AdmissionCutoff(session.hardDeadline) <= now

WatchdogDecision ==
  CASE ~Watched \/ session.retryCount >= MaxFailures -> "idle"
    [] OTHER ->
         CASE Retrying -> IF RetryDue THEN "watchdog_stop" ELSE "idle"
           [] ~Retrying /\ (CutoffReached \/ HardDeadlineReached \/ session.drainStarted) ->
                "drain_claim"
           [] OTHER -> "sync_read"

WatchdogReason ==
  CASE Retrying -> IF session.stopReason = "none" THEN "hard_deadline" ELSE session.stopReason
    [] ~Retrying /\ HardDeadlineReached -> "hard_deadline"
    [] OTHER -> "none"

StopKeyFor(s, reason) ==
  [deadline |-> IF reason = "hard_deadline" THEN s.hardDeadline ELSE s.idleDeadline,
   reason |-> reason, retry |-> s.retryCount]

WatchdogRead(p) ==
  /\ Issues(p, "watchdog") /\ WatchdogDecision # "idle"
  /\ Remember(p, [EmptyLoc EXCEPT
       !.kind = "watchdog", !.reason = WatchdogReason, !.at = now,
       !.key = IF WatchdogDecision = "watchdog_stop"
               THEN StopKeyFor(session, WatchdogReason) ELSE Nil])
  /\ Goto(p, WatchdogDecision)
  /\ UNCHANGED <<now, store, cloud, job>>

DrainClaim(p) ==
  /\ pc[p] = "drain_claim"
  /\ IF \/ session.drainCompleted
        \/ session.cancelAt # Never /\ now - session.cancelAt < Lease
     THEN UNCHANGED session /\ Goto(p, "drain_read")
     ELSE /\ session' = [session EXCEPT !.drainStarted = TRUE, !.cancelAt = now,
                                        !.idleDeadline = Never]
          /\ Goto(p, "drain_cancel")
  /\ UNCHANGED <<now, lease, ops, cloud, job, loc>>

\* cancelActive reads which jobs are active and sends the worker their
\* cancellations, or throws.
DrainCancel(p) ==
  /\ pc[p] = "drain_cancel"
  /\ \/ /\ job' = [job EXCEPT !.drains = IF job.active THEN @ \cup {p} ELSE @]
        /\ Goto(p, "drain_mark")
     \/ Fault("refuse") /\ Goto(p, "drain_done") /\ UNCHANGED job
  /\ UNCHANGED <<now, store, cloud, loc>>

\* Then it marks those of them that are still active cancelled, or throws.
DrainMark(p) ==
  /\ pc[p] = "drain_mark"
  /\ \/ p \in job.drains /\ job' = NoJob(now)
     \/ (p \notin job.drains \/ Fault("refuse")) /\ UNCHANGED job
  /\ Goto(p, "drain_done")
  /\ UNCHANGED <<now, store, cloud, loc>>

DrainDone(p) ==
  /\ pc[p] = "drain_done"
  /\ session' = [session EXCEPT !.drainCompleted = TRUE, !.busy = FALSE]
  /\ Goto(p, "drain_read")
  /\ UNCHANGED <<now, lease, ops, cloud, job, loc>>

\* The state the drain returns: a hard deadline stop takes its identity from it,
\* another drain ends the run.
DrainRead(p) ==
  /\ pc[p] = "drain_read"
  /\ IF loc[p].reason = "hard_deadline"
     THEN /\ Goto(p, "watchdog_stop")
          /\ Remember(p, [loc[p] EXCEPT !.key = StopKeyFor(session, "hard_deadline")])
     ELSE Return(p)
  /\ UNCHANGED <<now, store, cloud, job>>

ObserveCall(p) ==
  /\ Issues(p, "observe") /\ Watched
  /\ Goto(p, "sync_read")
  /\ Remember(p, [EmptyLoc EXCEPT !.kind = "observe"])
  /\ UNCHANGED <<now, store, cloud, job>>

\* The workload snapshot, used by the transaction after it.
SyncRead(p) ==
  /\ pc[p] = "sync_read"
  /\ Remember(p, [loc[p] EXCEPT !.flag = job.active, !.time = job.last])
  /\ Goto(p, "sync_commit")
  /\ UNCHANGED <<now, store, cloud, job>>

Later(a, b) == IF a >= b THEN a ELSE b
Earlier(a, b) == IF a <= b THEN a ELSE b

\* Mutant of Baseline: the last activity is left out.
BaselineWithoutActivity(last) ==
  LET known == Later(session.startedAt, session.readyAt)
  IN  IF known = Never THEN now ELSE Earlier(known, now)

\* The latest of start, readiness and activity, none of them in the future.
Baseline(last) ==
  LET known == Later(session.startedAt, Later(session.readyAt, last))
  IN  IF known = Never THEN now ELSE Earlier(known, now)

Synced(active, last) ==
  [session EXCEPT !.busy = active,
     !.idleDeadline = IF session.phase # "ready" \/ active THEN Never
                      ELSE Baseline(last) + IdleTicks]

\* What an observation does ends here; a watchdog run goes on, and keeps the idle
\* deadline it wrote (history: only a property looks at it).
SyncCommit(p) ==
  /\ pc[p] = "sync_commit"
  /\ session' = Synced(loc[p].flag, loc[p].time)
  /\ IF loc[p].kind = "watchdog"
     THEN /\ Goto(p, "sync_decide")
          /\ Remember(p, [loc[p] EXCEPT !.flag = FALSE, !.time = session'.idleDeadline])
     ELSE Return(p)
  /\ UNCHANGED <<now, lease, ops, cloud, job>>

\* The run reads the store again, and decides on what is there by then.
SyncDecide(p) ==
  /\ pc[p] = "sync_decide"
  /\ IF ~session.busy /\ Passed(session.idleDeadline, loc[p].at)
     THEN /\ Goto(p, "watchdog_stop")
          /\ Remember(p, [loc[p] EXCEPT !.reason = "idle_deadline",
                                        !.key = StopKeyFor(session, "idle_deadline")])
     ELSE Return(p)
  /\ UNCHANGED <<now, store, cloud, job>>

WatchdogStop(p) ==
  /\ pc[p] = "watchdog_stop"
  /\ \/ Enter(p, loc[p].key, "stop_pending",
              [EmptyLoc EXCEPT !.kind = "watchdog-stop", !.reason = loc[p].reason,
                               !.at = loc[p].at, !.time = loc[p].time])
     \/ ~LeaseFree /\ Return(p) /\ UNCHANGED lease
  /\ UNCHANGED <<now, session, ops, cloud, job>>
------------------------------------------------------------------------------
(* The job route: admission is checked, then the single-job queue takes or refuses the job. *)

AdmissionOpen ==
  /\ session.phase = "ready" /\ ~session.drainStarted
  /\ session.hardDeadline # Never /\ AdmissionCutoff(session.hardDeadline) > now

JobAdmit(p) ==
  /\ Issues(p, "job") /\ AdmissionOpen
  /\ Goto(p, "job_queue")
  /\ UNCHANGED <<now, store, cloud, job, loc>>

JobQueue(p) ==
  /\ pc[p] = "job_queue"
  /\ job' = IF job.active THEN job ELSE [active |-> TRUE, last |-> now, drains |-> {}]
  /\ Goto(p, "idle")
  /\ UNCHANGED <<now, store, cloud, loc>>

JobEnds ==
  /\ job.active
  /\ job' = NoJob(now)
  /\ UNCHANGED <<now, store, cloud, pc, loc>>
------------------------------------------------------------------------------
(* The environment: Pods, the clock, crashes. *)

PodBoots(q) ==
  /\ pods[q] = "STARTING"
  /\ pods' = [pods EXCEPT ![q] = "RUNNING"]
  /\ UNCHANGED <<now, store, calls, creates, job, pc, loc>>

PodFails(q) ==
  /\ Fault("pod") /\ pods[q] \in {"STARTING", "RUNNING", "EXITED"}
  /\ \E s \in {"ABSENT", "ERROR", "TERMINATED"} : pods' = [pods EXCEPT ![q] = s]
  /\ UNCHANGED <<now, store, calls, creates, job, pc, loc>>

\* The clock goes past MaxTime only to the next retry or the end of an orphaned lease.
Orphaned == lease.owner # Nil /\ ~\E p \in Proc : p = lease.owner /\ InLease(p)
Awaited == Later(MaxTime, Later(session.nextRetryAt,
                                IF Orphaned THEN lease.expiresAt ELSE Never))

\* Without the fault "overrun" an operation ends before its lease does; without
\* "late" RunPod answers, or never will, within a tick.
Tick ==
  /\ now < Awaited
  /\ Fault("late") \/ calls = {}
  /\ Fault("overrun") \/ \A p \in Proc : InLease(p) => now + 1 < loc[p].expires
  /\ now' = now + 1
  /\ UNCHANGED <<store, cloud, job, pc, loc>>

Crash(p) ==
  /\ Fault("crash") /\ pc[p] # "idle" /\ now < MaxTime
  /\ Return(p)
  /\ UNCHANGED <<now, store, cloud, job>>

StartSteps(p) == StartRefused(p) \/ StartInspect(p) \/ StartPlan(p) \/ StartCommit(p)
StopSteps(p) == StopPending(p) \/ StopRefused(p) \/ StopFind(p) \/ StopConfirm(p)
                \/ StopRequest(p) \/ StopCommit(p)
CallSteps(p) == MarkMutationAttempted(p) \/ Send(p) \/ CallFails(p) \/ RecordFailure(p)
WatchdogSteps(p) == DrainClaim(p) \/ DrainCancel(p) \/ DrainMark(p) \/ DrainDone(p)
                    \/ DrainRead(p) \/ SyncRead(p) \/ SyncCommit(p) \/ SyncDecide(p)
                    \/ WatchdogStop(p)

\* What a request does once it has been issued.
Progress(p) == StartSteps(p) \/ StopSteps(p) \/ CallSteps(p) \/ WatchdogSteps(p)
               \/ ExtendCommit(p) \/ ReconcileCommit(p) \/ JobQueue(p) \/ ReleaseLease(p)

Request(p) == \/ \E k \in StartKey : StartCall(p, k)
              \/ \E k \in StopKey : StopCall(p, k)
              \/ \E k \in ExtendKey : ExtendCall(p, k)
              \/ ReconcileRead(p) \/ WatchdogRead(p) \/ ObserveCall(p) \/ JobAdmit(p)

Cloud == \E c \in calls : CloudApply(c) \/ CloudAccept(c) \/ CloudDrop(c)

Next == \/ \E p \in Proc : Request(p) \/ Progress(p) \/ Crash(p)
        \/ Cloud
        \/ \E q \in Pod : PodBoots(q) \/ PodFails(q)
        \/ JobEnds \/ Tick

Spec == Init /\ [][Next]_vars

\* Requests that were issued go on, RunPod answers, Pods boot, time passes and
\* the systemd timer runs the watchdog again and again.
Fairness ==
  /\ \A p \in Proc : WF_vars(Progress(p)) /\ WF_vars(WatchdogRead(p))
  /\ WF_vars(\E c \in calls : CloudApply(c) \/ CloudAccept(c))
  /\ \A q \in Pod : WF_vars(PodBoots(q))
  /\ WF_vars(Tick)

FairSpec == Spec /\ Fairness
------------------------------------------------------------------------------
(* Properties *)

Call == [proc : Proc, key : OpId, verb : {"create", "resume", "stop"},
         pod : Pod \cup {Nil}]

Local == [kind : Kinds \cup {"none", "watchdog-stop"}, key : OpId \cup {Nil},
          expires : Time, at : Time, pod : Pod \cup {Nil}, seen : PodStatus,
          attempted : BOOLEAN, reason : Reasons, time : Time, flag : BOOLEAN]

\* Every variable stays in its range.
TypeOK ==
  /\ now \in Nat
  /\ session \in Session
  /\ lease \in [owner : Proc \cup {Nil}, expiresAt : Time]
  /\ DOMAIN ops \subseteq OpId /\ \A i \in DOMAIN ops : ops[i] \in Op
  /\ pods \in [Pod -> PodStatus]
  /\ calls \subseteq Call
  /\ creates \in [StartKey -> Nat]
  /\ job \in [active : BOOLEAN, last : Time, drains : SUBSET Proc]
  /\ pc \in [Proc -> Leased \cup Unleased]
  /\ loc \in [Proc -> Local]

\* Two operations are inside withLease together only when one has outlived
\* its lease: an unexpired lease is never given away nor released by another.
LeaseExclusion ==
  \A p, q \in Proc :
    p # q /\ InLease(p) /\ InLease(q) => loc[p].expires <= now \/ loc[q].expires <= now

\* Retrying start with the same idempotency key, after a crash, a timeout or a
\* lost reply, never sends RunPod a second create.
CreateOnce == \A k \in StartKey : creates[k] <= 1

\* Two clicks, two processes or a restart never leave two managed Pods.
OnePod == ~Ambiguous(Managed)

\* No sequence of starts and extensions pushes the hard deadline past the
\* maximum duration of the session that is running.
DeadlineBounded ==
  session.hardDeadline # Never => session.hardDeadline <= session.startedAt + MaxSession

Alive(q) == pods[q] \in {"STARTING", "RUNNING"}
StoreInUse == \E p \in Proc : InLease(p)

\* A Pod that is up while the watchdog ignores the session always leaves a
\* start record whose mutation was attempted and never confirmed: the trace
\* the next start needs to adopt the Pod instead of creating another.
UnwatchedPodIsRecorded ==
  \A q \in Pod : Alive(q) /\ ~(Watched /\ session.podId = q) /\ ~StoreInUse =>
    \E i \in DOMAIN ops :
      ops[i].kind = "start" /\ ops[i].attempted /\ ops[i].status # "succeeded"

\* With one watchdog, a stop it sends is the first one or its retry is due, and
\* it stops trying after MAX_STOP_FAILURES.
RetryDiscipline ==
  /\ session.retryCount <= MaxFailures
  /\ \A p \in Proc : pc[p] = "send" /\ loc[p].kind = "watchdog-stop" =>
       session.retryCount = 0 \/ Passed(session.nextRetryAt, now)

\* A session is closed (phase stopped) only when RunPod was seen to have
\* stopped its Pod, and it has not come up again behind the record.
ClosedMeansStopped ==
  session.phase \in {"off", "stopped"} => StoreInUse \/ \A q \in Pod : pods[q] # "RUNNING"

\* The first attempt at an idle stop (the one whose key counts no retry; a retry
\* does not look at the workload again).
SendsIdleStop(p) ==
  /\ pc[p] = "send" /\ loc[p].kind = "watchdog-stop"
  /\ loc[p].reason = "idle_deadline" /\ loc[p].key.retry = 0

\* A run that stops for the idle deadline it wrote itself saw no active job, and
\* the last activity before the run is at least the idle minutes old: the one job
\* the stop can hit is a job queued since, however stale the observations written
\* before that (controller.ts:528-554, 1178-1184).
IdleStopAfterQuiet ==
  \A p \in Proc : SendsIdleStop(p) /\ loc[p].key.deadline = loc[p].time =>
    \/ job.last >= loc[p].at
    \/ ~job.active /\ job.last + IdleTicks <= loc[p].at

\* A watched Pod that is still up at the hard deadline goes down, whatever fails on
\* the way, unless a caller renewed the session or the retries are exhausted.
PodUp == session.podId # Nil /\ Alive(session.podId)
HardDeadlineStops ==
  (Watched /\ HardDeadlineReached /\ PodUp)
    ~> (~HardDeadlineReached \/ ~PodUp \/ session.retryCount >= MaxFailures)
==============================================================================
