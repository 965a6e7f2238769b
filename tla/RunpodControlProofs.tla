------------------------- MODULE RunpodControlProofs -------------------------
(* Proofs about RunpodControl for any processes, Pods, keys, durations and    *)
(* failures: type correctness, the exclusion given by the lease, and what the *)
(* lease buys while no operation outlives it, one operation at a time, hence  *)
(* a bounded hard deadline and at most one create per idempotency key.        *)
EXTENDS RunpodControl, TLAPS

\* What a request needs to remember where it stands: inside the lease, and when it
\* comes to stop, the identity of its operation; the kind of a stop.
Memory ==
  \A p \in Proc :
    /\ pc[p] \in Leased \cup {"watchdog_stop"} => loc[p].key \in OpId
    /\ pc[p] = "stop_pending" => loc[p].kind \in {"stop", "watchdog-stop"}

\* The lease names the process whose lease has not expired.
LeaseHeld ==
  \A p \in Proc :
    InLease(p) /\ loc[p].expires > now =>
      lease.owner = p /\ lease.expiresAt = loc[p].expires

IInv == TypeOK /\ Memory /\ LeaseHeld
------------------------------------------------------------------------------
(* The operators the actions are built from. *)

\* The phase shown for a RunPod status is a phase.
LEMMA PhaseType == \A s : InfrastructurePhase(s) \in Phases
  BY DEF InfrastructurePhase, Phases

\* findSessionPod looks among the Pods of the account.
LEMMA CandidatesType ==
  ASSUME NEW id PROVE Candidates(id) \subseteq Pod
  BY DEF Candidates, Managed

\* The Pod found is one of the Pods, or none.
LEMMA TheType ==
  ASSUME NEW S, S \subseteq Pod PROVE The(S) \in Pod \cup {Nil}
<1>1. CASE S = {} BY <1>1 DEF The
<1>2. CASE S # {} BY <1>2 DEF The
<1> QED BY <1>1, <1>2

\* The status of a Pod found, ABSENT when there is none.
LEMMA StatusType ==
  ASSUME pods \in [Pod -> PodStatus], NEW q \in Pod \cup {Nil}
  PROVE  StatusOf(q) \in PodStatus
  BY DEF StatusOf, PodStatus

\* The identity of a watchdog stop is an operation id.
LEMMA KeyType ==
  ASSUME NEW s \in Session, NEW r \in Reasons PROVE StopKeyFor(s, r) \in OpId
  BY DEF StopKeyFor, OpId, WatchdogKey, Session

\* The reason the watchdog decides on is a reason.
LEMMA ReasonType == ASSUME session \in Session PROVE WatchdogReason \in Reasons
  BY DEF WatchdogReason, Session, Reasons, Retrying

\* The next retry is a time.
LEMMA RetryAtType ==
  ASSUME NEW n \in Nat \ {0}, NEW at \in Int PROVE RetryAt(n, at) \in Time
<1>1. CASE n >= MaxFailures BY <1>1 DEF RetryAt, Never, Time
<1>2. CASE ~(n >= MaxFailures)
  <2>1. n - 1 \in 0..MaxFailures BY <1>2, TimeAssumption
  <2>2. 2^(n - 1) \in Nat BY <2>1, BackoffAssumption
  <2>3. Backoff * 2^(n - 1) \in Int BY <2>2, TimeAssumption
  <2> QED BY <1>2, <2>3 DEF RetryAt, Time
<1> QED BY <1>1, <1>2

\* Recording a failed stop keeps the session well formed.
LEMMA ScheduleRetryType ==
  ASSUME NEW s \in Session, now \in Nat PROVE ScheduleRetry(s) \in Session
<1>1. s.retryCount + 1 \in Nat \ {0} BY DEF Session
<1>2. RetryAt(s.retryCount + 1, now) \in Time BY <1>1, RetryAtType
<1> QED BY <1>1, <1>2 DEF ScheduleRetry, Session

\* Synchronising the workload keeps the session well formed.
LEMMA SyncedType ==
  ASSUME session \in Session, now \in Nat, NEW active \in BOOLEAN, NEW last \in Time
  PROVE  Synced(active, last) \in Session
<1>1. Baseline(last) \in Int
  BY DEF Baseline, Later, Earlier, Session, Time, Never
<1>2. Baseline(last) + IdleTicks \in Time BY <1>1, TimeAssumption DEF Time
<1>3. (IF session.phase # "ready" \/ active THEN Never ELSE Baseline(last) + IdleTicks)
        \in Time
  BY <1>2 DEF Time, Never
<1> QED BY <1>3 DEF Synced, Session
------------------------------------------------------------------------------
(* Type correctness, one step per action. *)

\* The initial memory of a request and the initial session are well formed.
LEMMA EmptyLocType == EmptyLoc \in Local
  BY DEF EmptyLoc, Local, Never, Time, PodStatus, Reasons
LEMMA EmptySessionType == EmptySession \in Session
  BY DEF EmptySession, Session, Never, Time, Phases, Reasons

\* A request moves to a point of the program.
LEMMA GotoType ==
  ASSUME TypeOK, NEW p \in Proc, NEW l \in Leased \cup Unleased, Goto(p, l)
  PROVE  /\ pc' \in [Proc -> Leased \cup Unleased]
         /\ pc'[p] = l /\ \A q \in Proc \ {p} : pc'[q] = pc[q]
  BY DEF Goto, TypeOK

\* A request ends and forgets.
LEMMA ReturnType ==
  ASSUME TypeOK, NEW p \in Proc, Return(p)
  PROVE  /\ pc' \in [Proc -> Leased \cup Unleased] /\ loc' \in [Proc -> Local]
         /\ pc'[p] = "idle"
         /\ \A q \in Proc \ {p} : pc'[q] = pc[q] /\ loc'[q] = loc[q]
<1>1. "idle" \in Leased \cup Unleased BY DEF Unleased
<1> QED BY <1>1, EmptyLocType, GotoType DEF Return, Remember, TypeOK

\* A request remembers something well formed.
LEMMA RememberType ==
  ASSUME TypeOK, NEW p \in Proc, NEW r \in Local, Remember(p, r)
  PROVE  /\ loc' \in [Proc -> Local]
         /\ loc'[p] = r /\ \A q \in Proc \ {p} : loc'[q] = loc[q]
  BY DEF Remember, TypeOK

\* A request that has not got a key yet keeps or loses nothing: what Memory says
\* of the others stands.
LEMMA MemoryKept ==
  ASSUME Memory, NEW p \in Proc,
         \A q \in Proc \ {p} : pc'[q] = pc[q] /\ loc'[q] = loc[q],
         pc'[p] \in Leased \cup {"watchdog_stop"} => loc'[p].key \in OpId,
         pc'[p] = "stop_pending" => loc'[p].kind \in {"stop", "watchdog-stop"}
  PROVE  Memory'
  BY DEF Memory, OpId, WatchdogKey

\* A request gets the lease, its key and its place.
LEMMA EnterType ==
  ASSUME TypeOK, Memory, NEW p \in Proc, NEW key \in OpId, NEW label \in Leased,
         NEW f \in Local, Enter(p, key, label, f),
         label = "stop_pending" => f.kind \in {"stop", "watchdog-stop"}
  PROVE  /\ pc' \in [Proc -> Leased \cup Unleased] /\ loc' \in [Proc -> Local]
         /\ lease' \in [owner : Proc \cup {Nil}, expiresAt : Time]
         /\ Memory'
<1>1. pc' \in [Proc -> Leased \cup Unleased] /\ pc'[p] \in {label, "release"}
      /\ \A q \in Proc \ {p} : pc'[q] = pc[q]
  BY DEF Enter, Goto, TypeOK, Leased, Unleased
<1> DEFINE remembered == [f EXCEPT !.key = key, !.expires = now + Lease,
                                   !.attempted = AttemptRecorded(key)]
<1>2. now + Lease \in Time BY TimeAssumption DEF Time, TypeOK
<1>3. AttemptRecorded(key) \in BOOLEAN BY DEF AttemptRecorded, TypeOK, Op
<1>4. remembered \in Local /\ remembered.key = key /\ remembered.kind = f.kind
  BY <1>2, <1>3 DEF Local
<1>5. Remember(p, remembered) BY DEF Enter
<1> HIDE DEF remembered
<1>6. loc' \in [Proc -> Local] /\ loc'[p] = remembered
      /\ \A q \in Proc \ {p} : loc'[q] = loc[q]
  BY <1>4, <1>5, RememberType
<1>7. lease' \in [owner : Proc \cup {Nil}, expiresAt : Time]
  BY <1>2 DEF Enter, Acquire
<1>8. Memory' BY <1>1, <1>4, <1>6, MemoryKept
<1> QED BY <1>1, <1>6, <1>7, <1>8

\* start.
LEMMA StartTypes ==
  ASSUME TypeOK, Memory, NEW p \in Proc,
         (\E k \in StartKey : StartCall(p, k)) \/ StartSteps(p)
  PROVE  TypeOK' /\ Memory'
<1>1. CASE \E k \in StartKey : StartCall(p, k)
  <2> DEFINE f == [EmptyLoc EXCEPT !.kind = "start"]
  <2>1. PICK k \in StartKey : StartCall(p, k) BY <1>1
  <2>2. f \in Local
    BY EmptyLocType DEF Local, Kinds
  <2>3. k \in OpId /\ "start_inspect" \in Leased BY DEF OpId, Leased
  <2>4. Enter(p, k, "start_inspect", f) BY <2>1 DEF StartCall
  <2> HIDE DEF f
  <2>5. /\ pc' \in [Proc -> Leased \cup Unleased] /\ loc' \in [Proc -> Local]
        /\ lease' \in [owner : Proc \cup {Nil}, expiresAt : Time] /\ Memory'
    BY <2>2, <2>3, <2>4, EnterType
  <2> QED BY <2>1, <2>5 DEF StartCall, TypeOK, cloud
<1>2. CASE StartRefused(p)
  BY <1>2 DEF StartRefused, TypeOK, Memory, Goto, Leased, Unleased, cloud
<1>3. CASE StartInspect(p)
  <2>1. The(Managed) \in Pod \cup {Nil} BY TheType DEF Managed
  <2>2. StatusOf(The(Managed)) \in PodStatus BY <2>1, StatusType DEF TypeOK
  <2> DEFINE r == [loc[p] EXCEPT !.pod = The(Managed), !.seen = StatusOf(The(Managed))]
  <2>3. r \in Local /\ r.key = loc[p].key BY <2>1, <2>2 DEF TypeOK, Local
  <2>4. Remember(p, r) BY <1>3 DEF StartInspect
  <2> HIDE DEF r
  <2>5. loc' \in [Proc -> Local] /\ loc'[p].key = loc[p].key
        /\ \A q \in Proc \ {p} : loc'[q] = loc[q]
    BY <2>3, <2>4, RememberType
  <2>6. pc' \in [Proc -> Leased \cup Unleased] /\ Memory'
    BY <1>3, <2>5 DEF StartInspect, TypeOK, Memory, Goto, Leased, Unleased
  <2> QED BY <1>3, <2>5, <2>6 DEF StartInspect, TypeOK, cloud
<1>4. CASE StartPlan(p)
  <2>1. loc[p] \in Local /\ loc[p].key \in OpId BY <1>4 DEF StartPlan, TypeOK, Memory, Leased
  <2>2. DOMAIN ops' \subseteq OpId /\ \A i \in DOMAIN ops' : ops'[i] \in Op
    BY <1>4, <2>1 DEF StartPlan, TypeOK, Upsert, Op, Local
  <2>3. now + Duration \in Time /\ now \in Time BY TimeAssumption DEF TypeOK, Time
  <2>4. (IF loc[p].pod = Nil THEN "planned" ELSE InfrastructurePhase(loc[p].seen)) \in Phases
    BY PhaseType DEF Phases
  <2>5. session' \in Session
    BY <1>4, <2>1, <2>3, <2>4, EmptySessionType DEF StartPlan, Session, Local
  <2>6. pc' \in [Proc -> Leased \cup Unleased] /\ Memory'
    BY <1>4 DEF StartPlan, TypeOK, Memory, Goto, Leased, Unleased
  <2> QED BY <1>4, <2>2, <2>5, <2>6 DEF StartPlan, TypeOK, cloud
<1>5. CASE StartCommit(p)
  <2>1. loc[p] \in Local BY DEF TypeOK
  <2>2. DOMAIN ops' \subseteq OpId /\ \A i \in DOMAIN ops' : ops'[i] \in Op
    BY <1>5 DEF StartCommit, TypeOK, Op
  <2>3. session' \in Session
    BY <1>5, <2>1, PhaseType DEF StartCommit, Session, Local, TypeOK
  <2>4. pc' \in [Proc -> Leased \cup Unleased] /\ Memory'
    BY <1>5 DEF StartCommit, TypeOK, Memory, Goto, Leased, Unleased
  <2> QED BY <1>5, <2>2, <2>3, <2>4 DEF StartCommit, TypeOK, cloud
<1> QED BY <1>1, <1>2, <1>3, <1>4, <1>5 DEF StartSteps

\* The exchanges with RunPod.
LEMMA CallTypes ==
  ASSUME TypeOK, Memory, NEW p \in Proc, CallSteps(p)
  PROVE  TypeOK' /\ Memory'
<1>1. CASE MarkMutationAttempted(p)
  BY <1>1 DEF MarkMutationAttempted, TypeOK, Memory, Goto, Leased, Unleased, cloud, Op
<1>2. CASE Send(p)
  <2>1. loc[p] \in Local /\ loc[p].key \in OpId BY <1>2 DEF Send, TypeOK, Memory, Leased
  <2> DEFINE c == [proc |-> p, key |-> loc[p].key, verb |-> Verb(p), pod |-> loc[p].pod]
  <2>2. c \in Call
    <3>1. Verb(p) \in {"create", "resume", "stop"} BY DEF Verb
    <3>2. loc[p].pod \in Pod \cup {Nil} BY <2>1 DEF Local
    <3> QED BY <2>1, <3>1, <3>2 DEF Call
  <2>3. calls' \subseteq Call
    <3>1. calls' = calls \cup {c} BY <1>2 DEF Send
    <3> HIDE DEF c
    <3> QED BY <2>2, <3>1 DEF TypeOK
  <2> HIDE DEF c
  <2>4. creates' \in [StartKey -> Nat]
    <3> DEFINE counted == [creates EXCEPT ![loc[p].key] = creates[loc[p].key] + 1]
    <3>1. ASSUME NEW k PROVE [creates EXCEPT ![k] = creates[k] + 1] \in [StartKey -> Nat]
      <4>1. creates \in [StartKey -> Nat] BY DEF TypeOK
      <4>2. CASE k \in StartKey
        <5>1. creates[k] + 1 \in Nat BY <4>1, <4>2
        <5> QED BY <4>1, <5>1
      <4>3. CASE k \notin StartKey BY <4>1, <4>3
      <4> QED BY <4>2, <4>3
    <3>2. creates' \in {creates, counted} BY <1>2 DEF Send
    <3>3. counted \in [StartKey -> Nat] BY <3>1
    <3> QED BY <3>2, <3>3 DEF TypeOK
  <2>5. pc' \in [Proc -> Leased \cup Unleased] /\ Memory'
    BY <1>2 DEF Send, TypeOK, Memory, Goto, Leased, Unleased
  <2> QED BY <1>2, <2>3, <2>4, <2>5 DEF Send, TypeOK
<1>3. CASE CallFails(p)
  BY <1>3 DEF CallFails, TypeOK, Memory, Goto, Leased, Unleased, cloud
<1>4. CASE RecordFailure(p)
  <2> DEFINE failed == [session EXCEPT !.phase = "error"]
  <2>1. failed \in Session BY DEF TypeOK, Session, Phases
  <2>2. session' \in {failed, ScheduleRetry(failed)} BY <1>4 DEF RecordFailure
  <2> HIDE DEF failed
  <2>3. session' \in Session BY <2>1, <2>2, ScheduleRetryType DEF TypeOK
  <2>4. DOMAIN ops' \subseteq OpId /\ \A i \in DOMAIN ops' : ops'[i] \in Op
    BY <1>4 DEF RecordFailure, TypeOK, Op
  <2>5. pc' \in [Proc -> Leased \cup Unleased] /\ Memory'
    BY <1>4 DEF RecordFailure, TypeOK, Memory, Goto, Leased, Unleased
  <2> QED BY <1>4, <2>3, <2>4, <2>5 DEF RecordFailure, TypeOK, cloud
<1> QED BY <1>1, <1>2, <1>3, <1>4 DEF CallSteps

\* RunPod applies, accepts or drops a request.
LEMMA CloudTypes ==
  ASSUME TypeOK, Memory, Cloud PROVE TypeOK' /\ Memory'
<1>1. ASSUME NEW p \in Proc, NEW q \in Pod, NEW s \in PodStatus, Reply(p, q, s)
      PROVE  /\ pc' \in [Proc -> Leased \cup Unleased] /\ loc' \in [Proc -> Local]
             /\ pc[p] \in Leased => Memory'
  <2> DEFINE r == [loc[p] EXCEPT !.pod = q, !.seen = s]
  <2>1. r \in Local /\ r.key = loc[p].key BY <1>1 DEF TypeOK, Local
  <2>2. Remember(p, r) BY <1>1 DEF Reply
  <2> HIDE DEF r
  <2>3. loc' \in [Proc -> Local] /\ loc'[p].key = loc[p].key
        /\ \A o \in Proc \ {p} : loc'[o] = loc[o]
    BY <2>1, <2>2, RememberType
  <2> QED BY <1>1, <2>3 DEF Reply, AfterReply, Goto, TypeOK, Memory, Leased, Unleased
<1>2. PICK c \in calls : CloudApply(c) \/ CloudAccept(c) \/ CloudDrop(c) BY DEF Cloud
<1>3. c \in Call /\ c.proc \in Proc BY DEF TypeOK, Call
<1>4. CASE CloudApply(c)
  <2>1. pods' \in [Pod -> PodStatus]
    <3>1. c.verb \in {"create", "resume", "stop"} BY <1>3 DEF Call
    <3>2. CASE c.verb = "create" BY <1>4, <3>2 DEF CloudApply, TypeOK, PodStatus
    <3>3. CASE c.verb = "resume" BY <1>4, <3>3 DEF CloudApply, TypeOK, PodStatus
    <3>4. CASE c.verb = "stop" BY <1>4, <3>4 DEF CloudApply, TypeOK, PodStatus
    <3> QED BY <3>1, <3>2, <3>3, <3>4
  <2>2. /\ pc' \in [Proc -> Leased \cup Unleased] /\ loc' \in [Proc -> Local] /\ Memory'
    <3>1. CASE UNCHANGED <<pc, loc>> BY <3>1 DEF TypeOK, Memory
    <3>2. CASE ~UNCHANGED <<pc, loc>>
      <4>1. PICK q \in Pod : AwaitsReply(c.proc, c) /\ Reply(c.proc, q, pods'[q])
        BY <1>4, <3>2 DEF CloudApply
      <4>2. pc[c.proc] \in Leased BY <4>1 DEF AwaitsReply, Leased
      <4> QED BY <1>1, <1>3, <2>1, <4>1, <4>2
    <3> QED BY <3>1, <3>2
  <2> QED BY <1>4, <2>1, <2>2 DEF CloudApply, TypeOK, store
<1>5. CASE CloudAccept(c)
  <2>1. c.pod \in Pod BY <1>3, <1>5 DEF CloudAccept, Call, StatusOf
  <2>2. StatusOf(c.pod) \in PodStatus BY <2>1, StatusType DEF TypeOK
  <2>3. pc[c.proc] \in Leased BY <1>5 DEF CloudAccept, AwaitsReply, Leased
  <2>4. pc' \in [Proc -> Leased \cup Unleased] /\ loc' \in [Proc -> Local] /\ Memory'
    BY <1>1, <1>3, <1>5, <2>1, <2>2, <2>3 DEF CloudAccept
  <2> QED BY <1>5, <2>4 DEF CloudAccept, TypeOK, cloud
<1>6. CASE CloudDrop(c)
  BY <1>6 DEF CloudDrop, TypeOK, Memory, store
<1> QED BY <1>2, <1>4, <1>5, <1>6

\* What Pod a request found.
LEMMA FoundType ==
  ASSUME TypeOK, NEW id
  PROVE  /\ The(Candidates(id)) \in Pod \cup {Nil}
         /\ StatusOf(The(Candidates(id))) \in PodStatus
  BY CandidatesType, TheType, StatusType DEF TypeOK

\* stop.
LEMMA StopTypes ==
  ASSUME TypeOK, Memory, NEW p \in Proc,
         (\E k \in StopKey : StopCall(p, k)) \/ StopSteps(p)
  PROVE  TypeOK' /\ Memory'
<1>1. CASE \E k \in StopKey : StopCall(p, k)
  <2> DEFINE f == [EmptyLoc EXCEPT !.kind = "stop", !.reason = "manual"]
  <2>1. PICK k \in StopKey : StopCall(p, k) BY <1>1
  <2>2. f \in Local /\ f.kind = "stop" BY EmptyLocType DEF Local, Kinds, Reasons
  <2>3. k \in OpId /\ "stop_pending" \in Leased BY DEF OpId, Leased
  <2>4. Enter(p, k, "stop_pending", f) BY <2>1 DEF StopCall
  <2> HIDE DEF f
  <2>5. /\ pc' \in [Proc -> Leased \cup Unleased] /\ loc' \in [Proc -> Local]
        /\ lease' \in [owner : Proc \cup {Nil}, expiresAt : Time] /\ Memory'
    BY <2>2, <2>3, <2>4, EnterType
  <2> QED BY <2>1, <2>5 DEF StopCall, TypeOK, cloud
<1>2. CASE StopPending(p)
  <2>1. /\ loc[p] \in Local /\ loc[p].key \in OpId
        /\ loc[p].kind \in {"stop", "watchdog-stop"}
    BY <1>2 DEF StopPending, TypeOK, Memory, Leased
  <2>2. DOMAIN ops' \subseteq OpId /\ \A i \in DOMAIN ops' : ops'[i] \in Op
    BY <1>2, <2>1 DEF StopPending, TypeOK, Upsert, Op, Local
  <2>3. pc' \in [Proc -> Leased \cup Unleased] /\ Memory'
    BY <1>2 DEF StopPending, TypeOK, Memory, Goto, Leased, Unleased
  <2> QED BY <1>2, <2>2, <2>3 DEF StopPending, TypeOK, cloud
<1>3. CASE StopRefused(p)
  BY <1>3 DEF StopRefused, TypeOK, Memory, Goto, Leased, Unleased, cloud
<1>4. CASE StopFind(p)
  <2> DEFINE found == Candidates(session.podId)
             r == [loc[p] EXCEPT !.pod = The(found), !.seen = StatusOf(The(found))]
  <2>1. r \in Local /\ r.key = loc[p].key BY FoundType DEF TypeOK, Local
  <2>2. Remember(p, r) BY <1>4 DEF StopFind
  <2>3. pc' \in [Proc -> Leased \cup Unleased] /\ pc'[p] # "stop_pending"
        /\ \A q \in Proc \ {p} : pc'[q] = pc[q]
    BY <1>4 DEF StopFind, TypeOK, Goto, Leased, Unleased
  <2>4. pc[p] = "stop_find" BY <1>4 DEF StopFind
  <2> HIDE DEF r
  <2>5. loc' \in [Proc -> Local] /\ loc'[p].key = loc[p].key
        /\ \A q \in Proc \ {p} : loc'[q] = loc[q]
    BY <2>1, <2>2, RememberType
  <2>6. Memory' BY <2>3, <2>4, <2>5 DEF Memory, Leased
  <2> QED BY <1>4, <2>3, <2>5, <2>6 DEF StopFind, TypeOK, cloud
<1>5. CASE StopConfirm(p)
  <2>1. loc[p] \in Local BY DEF TypeOK
  <2>2. DOMAIN ops' \subseteq OpId /\ \A i \in DOMAIN ops' : ops'[i] \in Op
    BY <1>5 DEF StopConfirm, TypeOK, Op
  <2>3. session' \in Session
    <3> DEFINE phase == IF loc[p].pod = Nil THEN "off" ELSE "stopped"
    <3>1. /\ session \in Session /\ phase \in Phases /\ loc[p].reason \in Reasons
          /\ Never \in Time
      BY <2>1 DEF TypeOK, Phases, Local, Never, Time
    <3>2. session' = [session EXCEPT !.phase = phase, !.stopConfirmed = TRUE,
                                     !.stopReason = loc[p].reason, !.nextRetryAt = Never]
      BY <1>5 DEF StopConfirm
    <3> HIDE DEF phase
    <3> QED BY <3>1, <3>2 DEF Session
  <2>4. pc' \in [Proc -> Leased \cup Unleased] /\ Memory'
    BY <1>5 DEF StopConfirm, TypeOK, Memory, Goto, Leased, Unleased
  <2> QED BY <1>5, <2>2, <2>3, <2>4 DEF StopConfirm, TypeOK, cloud
<1>6. CASE StopRequest(p)
  <2>1. loc[p] \in Local BY DEF TypeOK
  <2>2. session' \in Session
    BY <1>6, <2>1 DEF StopRequest, Session, Local, TypeOK, Phases
  <2>3. pc' \in [Proc -> Leased \cup Unleased] /\ Memory'
    BY <1>6 DEF StopRequest, TypeOK, Memory, Goto, Leased, Unleased
  <2> QED BY <1>6, <2>2, <2>3 DEF StopRequest, TypeOK, cloud
<1>7. CASE StopCommit(p)
  <2> DEFINE confirmed == IsStopped(loc[p].seen)
             answered == [session EXCEPT
                            !.phase = IF confirmed THEN "stopped" ELSE "stopping",
                            !.stopConfirmed = confirmed]
             closed == [answered EXCEPT !.retryCount = 0, !.nextRetryAt = Never]
  <2>1. confirmed \in BOOLEAN BY DEF IsStopped
  <2>2. answered \in Session
    <3>1. (IF confirmed THEN "stopped" ELSE "stopping") \in Phases BY DEF Phases
    <3> QED BY <2>1, <3>1 DEF TypeOK, Session
  <2>3. closed \in Session
    <3>1. Never \in Time BY DEF Never, Time
    <3> HIDE DEF answered
    <3> QED BY <2>2, <3>1 DEF Session
  <2>4. session' \in {closed, ScheduleRetry(answered), answered}
    BY <1>7 DEF StopCommit
  <2>5. DOMAIN ops' \subseteq OpId /\ \A i \in DOMAIN ops' : ops'[i] \in Op
    BY <1>7 DEF StopCommit, TypeOK, Op
  <2> HIDE DEF answered, closed
  <2>6. session' \in Session BY <2>2, <2>3, <2>4, ScheduleRetryType DEF TypeOK
  <2>7. pc' \in [Proc -> Leased \cup Unleased] /\ Memory'
    BY <1>7 DEF StopCommit, TypeOK, Memory, Goto, Leased, Unleased
  <2> QED BY <1>7, <2>5, <2>6, <2>7 DEF StopCommit, TypeOK, cloud
<1> QED BY <1>1, <1>2, <1>3, <1>4, <1>5, <1>6, <1>7 DEF StopSteps

\* extend.
LEMMA ExtendTypes ==
  ASSUME TypeOK, Memory, NEW p \in Proc,
         (\E k \in ExtendKey : ExtendCall(p, k)) \/ ExtendCommit(p)
  PROVE  TypeOK' /\ Memory'
<1>1. CASE \E k \in ExtendKey : ExtendCall(p, k)
  <2> DEFINE deadline == session.hardDeadline + Extension
             f == [EmptyLoc EXCEPT !.kind = "extend", !.time = deadline]
             label == IF Extendable(deadline) THEN "extend_commit" ELSE "release"
  <2>1. PICK k \in ExtendKey : ExtendCall(p, k) BY <1>1
  <2>2. deadline \in Time BY TimeAssumption DEF TypeOK, Session, Time
  <2>3. f \in Local
    <3> HIDE DEF deadline
    <3> QED BY <2>2, EmptyLocType DEF Local, Kinds
  <2>4. k \in OpId /\ label \in Leased /\ label # "stop_pending" BY DEF OpId, Leased
  <2>5. Enter(p, k, label, f) BY <2>1 DEF ExtendCall
  <2> HIDE DEF f, label
  <2>6. /\ pc' \in [Proc -> Leased \cup Unleased] /\ loc' \in [Proc -> Local]
        /\ lease' \in [owner : Proc \cup {Nil}, expiresAt : Time] /\ Memory'
    BY <2>3, <2>4, <2>5, EnterType
  <2> QED BY <2>1, <2>6 DEF ExtendCall, TypeOK, cloud
<1>2. CASE ExtendCommit(p)
  <2>1. loc[p] \in Local /\ loc[p].key \in OpId
    BY <1>2 DEF ExtendCommit, TypeOK, Memory, Leased
  <2>2. DOMAIN ops' \subseteq OpId /\ \A i \in DOMAIN ops' : ops'[i] \in Op
    BY <1>2, <2>1 DEF ExtendCommit, TypeOK, Upsert, Op
  <2>3. session' \in Session BY <1>2, <2>1 DEF ExtendCommit, TypeOK, Session, Local
  <2>4. pc' \in [Proc -> Leased \cup Unleased] /\ Memory'
    BY <1>2 DEF ExtendCommit, TypeOK, Memory, Goto, Leased, Unleased
  <2> QED BY <1>2, <2>2, <2>3, <2>4 DEF ExtendCommit, TypeOK, cloud
<1> QED BY <1>1, <1>2

\* The session stays well formed whatever RunPod reports.
LEMMA ObservedType ==
  ASSUME NEW s \in Session, NEW status, NEW ready, now \in Nat
  PROVE  Observed(s, status, ready) \in Session
<1>1. CASE IsStopped(status)
  <2>1. Never \in Time /\ "stopped" \in Phases BY DEF Never, Time, Phases
  <2>2. Observed(s, status, ready) =
          [s EXCEPT !.phase = "stopped", !.stopConfirmed = TRUE, !.nextRetryAt = Never]
    BY <1>1 DEF Observed, IsStopped
  <2> QED BY <2>1, <2>2 DEF Session
<1>2. CASE status = "RUNNING"
  <2> DEFINE at == IF ready /\ s.readyAt = Never THEN now ELSE s.readyAt
             phase == IF s.phase = "stopping" THEN s.phase
                      ELSE IF ready THEN "ready" ELSE "loading_model"
  <2>1. at \in Time BY DEF Session, Time
  <2>2. phase \in Phases BY DEF Phases
  <2>3. Observed(s, status, ready) = [s EXCEPT !.readyAt = at, !.phase = phase]
    BY <1>2 DEF Observed, IsStopped
  <2> HIDE DEF at, phase
  <2> QED BY <2>1, <2>2, <2>3 DEF Session
<1>3. CASE ~IsStopped(status) /\ status # "RUNNING"
  <2> DEFINE phase == IF s.phase = "stopping" THEN s.phase ELSE InfrastructurePhase(status)
  <2>1. phase \in Phases BY PhaseType DEF Session
  <2>2. Observed(s, status, ready) = [s EXCEPT !.phase = phase] BY <1>3 DEF Observed
  <2> HIDE DEF phase
  <2> QED BY <2>1, <2>2 DEF Session
<1> QED BY <1>1, <1>2, <1>3

\* reconcile.
LEMMA ReconcileTypes ==
  ASSUME TypeOK, Memory, NEW p \in Proc, ReconcileRead(p) \/ ReconcileCommit(p)
  PROVE  TypeOK' /\ Memory'
<1>1. CASE ReconcileRead(p)
  <2> DEFINE found == Candidates(session.podId)
             r(ready) == [EmptyLoc EXCEPT !.kind = "reconcile", !.pod = The(found),
                                          !.seen = StatusOf(The(found)), !.flag = ready]
  <2>1. PICK ready \in BOOLEAN : Remember(p, r(ready)) BY <1>1 DEF ReconcileRead
  <2>2. r(ready) \in Local BY FoundType, EmptyLocType DEF Local, Kinds
  <2> HIDE DEF r
  <2>3. /\ loc' \in [Proc -> Local]
        /\ \A q \in Proc \ {p} : loc'[q] = loc[q]
    BY <2>1, <2>2, RememberType
  <2>4. pc' \in [Proc -> Leased \cup Unleased] /\ Memory'
    BY <1>1, <2>3 DEF ReconcileRead, TypeOK, Memory, Goto, Leased, Unleased
  <2> QED BY <1>1, <2>3, <2>4 DEF ReconcileRead, TypeOK, cloud, store
<1>2. CASE ReconcileCommit(p)
  <2>1. loc[p] \in Local /\ session \in Session BY DEF TypeOK
  <2>2. session' \in Session
    <3> DEFINE tracked == [session EXCEPT !.podId = loc[p].pod]
    <3>1. tracked \in Session BY <2>1 DEF Session, Local
    <3>2. session' \in {[tracked EXCEPT !.phase = "off"],
                         Observed(tracked, loc[p].seen, loc[p].flag)}
      BY <1>2 DEF ReconcileCommit
    <3> HIDE DEF tracked
    <3>3. [tracked EXCEPT !.phase = "off"] \in Session BY <3>1 DEF Session, Phases
    <3>4. Observed(tracked, loc[p].seen, loc[p].flag) \in Session
      BY <3>1, ObservedType DEF TypeOK
    <3> QED BY <3>2, <3>3, <3>4
  <2>3. DOMAIN ops' \subseteq OpId /\ \A i \in DOMAIN ops' : ops'[i] \in Op
    BY <1>2 DEF ReconcileCommit, TypeOK, Op
  <2>4. pc' \in [Proc -> Leased \cup Unleased] /\ loc' \in [Proc -> Local] /\ Memory'
    BY <1>2, ReturnType, MemoryKept DEF ReconcileCommit, Leased
  <2> QED BY <1>2, <2>2, <2>3, <2>4 DEF ReconcileCommit, TypeOK, cloud
<1> QED BY <1>1, <1>2

\* The end of a drain: on to the stop, or the end of the run.
LEMMA DrainReadType ==
  ASSUME TypeOK, Memory, NEW p \in Proc, DrainRead(p)
  PROVE  TypeOK' /\ Memory'
<1>1. /\ pc' \in [Proc -> Leased \cup Unleased] /\ loc' \in [Proc -> Local]
      /\ Memory'
  <2>1. CASE loc[p].reason = "hard_deadline"
    <3> DEFINE r == [loc[p] EXCEPT !.key = StopKeyFor(session, "hard_deadline")]
    <3>1. StopKeyFor(session, "hard_deadline") \in OpId
      BY DEF StopKeyFor, OpId, WatchdogKey, Session, Reasons, TypeOK
    <3>2. r \in Local /\ r.key \in OpId BY <3>1 DEF TypeOK, Local
    <3>3. Remember(p, r) /\ Goto(p, "watchdog_stop") BY <2>1 DEF DrainRead
    <3> HIDE DEF r
    <3>4. /\ loc' \in [Proc -> Local] /\ loc'[p].key \in OpId
          /\ \A q \in Proc \ {p} : loc'[q] = loc[q]
      BY <3>2, <3>3, RememberType
    <3>5. /\ pc' \in [Proc -> Leased \cup Unleased] /\ pc'[p] = "watchdog_stop"
          /\ \A q \in Proc \ {p} : pc'[q] = pc[q]
      BY <3>3, GotoType DEF Unleased
    <3> QED BY <3>4, <3>5, MemoryKept
  <2>2. CASE loc[p].reason # "hard_deadline"
    BY <2>2, ReturnType, MemoryKept DEF DrainRead, Leased
  <2> QED BY <2>1, <2>2
<1> QED BY <1>1 DEF DrainRead, TypeOK, cloud, store

\* The watchdog decides.
LEMMA DecisionTypes ==
  ASSUME TypeOK, Memory, NEW p \in Proc, WatchdogRead(p)
  PROVE  TypeOK' /\ Memory'
<1> DEFINE key == IF WatchdogDecision = "watchdog_stop"
                  THEN StopKeyFor(session, WatchdogReason) ELSE Nil
           r == [EmptyLoc EXCEPT !.kind = "watchdog", !.reason = WatchdogReason,
                                 !.at = now, !.key = key]
<1>1. WatchdogDecision \in {"idle", "watchdog_stop", "drain_claim", "sync_read"}
  BY DEF WatchdogDecision
<1>2. WatchdogReason \in Reasons BY ReasonType DEF TypeOK
<1>3. key \in OpId \cup {Nil} /\ (WatchdogDecision = "watchdog_stop" => key \in OpId)
  BY <1>2, KeyType DEF TypeOK
<1>4. now \in Time BY DEF TypeOK, Time
<1>5. Remember(p, r) /\ Goto(p, WatchdogDecision) /\ WatchdogDecision # "idle"
  BY DEF WatchdogRead
<1> HIDE DEF key
<1>6. r \in Local /\ r.key = key BY <1>2, <1>3, <1>4, EmptyLocType DEF Local, Kinds
<1> HIDE DEF r
<1>7. /\ loc' \in [Proc -> Local] /\ loc'[p].key = key
      /\ \A q \in Proc \ {p} : loc'[q] = loc[q]
  BY <1>5, <1>6, RememberType
<1>8. /\ pc' \in [Proc -> Leased \cup Unleased] /\ pc'[p] = WatchdogDecision
      /\ \A q \in Proc \ {p} : pc'[q] = pc[q]
  BY <1>1, <1>5, GotoType DEF Unleased
<1>9. Memory' BY <1>1, <1>3, <1>7, <1>8, MemoryKept DEF Leased
<1> QED BY <1>7, <1>8, <1>9 DEF WatchdogRead, TypeOK, cloud, store

\* The watchdog and the workload observation.
LEMMA WatchdogTypes ==
  ASSUME TypeOK, Memory, NEW p \in Proc, WatchdogSteps(p) \/ ObserveCall(p)
  PROVE  TypeOK' /\ Memory'
<1>1. CASE DrainClaim(p)
  <2> DEFINE claimed == [session EXCEPT !.drainStarted = TRUE, !.cancelAt = now,
                                        !.idleDeadline = Never]
  <2>1. claimed \in Session
    <3>1. now \in Time /\ Never \in Time BY DEF TypeOK, Time, Never
    <3> QED BY <3>1 DEF TypeOK, Session
  <2>2. session' \in {session, claimed} BY <1>1 DEF DrainClaim
  <2> HIDE DEF claimed
  <2>3. pc' \in [Proc -> Leased \cup Unleased] /\ Memory'
    BY <1>1, GotoType, MemoryKept DEF DrainClaim, Leased, Unleased
  <2> QED BY <1>1, <2>1, <2>2, <2>3 DEF DrainClaim, TypeOK, cloud
<1>2. CASE DrainCancel(p)
  <2>1. job' \in [active : BOOLEAN, last : Time, drains : SUBSET Proc]
    BY <1>2 DEF DrainCancel, TypeOK
  <2>2. pc' \in [Proc -> Leased \cup Unleased] /\ Memory'
    BY <1>2, GotoType, MemoryKept DEF DrainCancel, Leased, Unleased
  <2> QED BY <1>2, <2>1, <2>2 DEF DrainCancel, TypeOK, cloud, store
<1>3. CASE DrainMark(p)
  <2>1. job' \in [active : BOOLEAN, last : Time, drains : SUBSET Proc]
    <3>1. job' \in {job, NoJob(now)} BY <1>3 DEF DrainMark
    <3>2. NoJob(now) \in [active : BOOLEAN, last : Time, drains : SUBSET Proc]
      BY DEF TypeOK, NoJob, Time
    <3> QED BY <3>1, <3>2 DEF TypeOK
  <2>2. pc' \in [Proc -> Leased \cup Unleased] /\ Memory'
    BY <1>3, GotoType, MemoryKept DEF DrainMark, Leased, Unleased
  <2> QED BY <1>3, <2>1, <2>2 DEF DrainMark, TypeOK, cloud, store
<1>8. CASE DrainDone(p)
  <2>1. session' \in Session BY <1>8 DEF DrainDone, TypeOK, Session
  <2>2. pc' \in [Proc -> Leased \cup Unleased] /\ Memory'
    BY <1>8, GotoType, MemoryKept DEF DrainDone, Leased, Unleased
  <2> QED BY <1>8, <2>1, <2>2 DEF DrainDone, TypeOK, cloud
<1>4. CASE SyncRead(p)
  <2> DEFINE r == [loc[p] EXCEPT !.flag = job.active, !.time = job.last]
  <2>1. r \in Local BY DEF TypeOK, Local
  <2>2. Remember(p, r) /\ Goto(p, "sync_commit") BY <1>4 DEF SyncRead
  <2> HIDE DEF r
  <2>3. loc' \in [Proc -> Local] /\ \A q \in Proc \ {p} : loc'[q] = loc[q]
    BY <2>1, <2>2, RememberType
  <2>4. pc' \in [Proc -> Leased \cup Unleased] /\ Memory'
    BY <2>2, <2>3, GotoType, MemoryKept DEF Leased, Unleased
  <2> QED BY <1>4, <2>3, <2>4 DEF SyncRead, TypeOK, cloud, store
<1>5. CASE SyncCommit(p)
  <2> DEFINE r == [loc[p] EXCEPT !.flag = FALSE, !.time = session'.idleDeadline]
  <2>1. session' \in Session
    <3>1. loc[p].flag \in BOOLEAN /\ loc[p].time \in Time BY DEF TypeOK, Local
    <3> QED BY <1>5, <3>1, SyncedType DEF SyncCommit, TypeOK
  <2>2. /\ pc' \in [Proc -> Leased \cup Unleased] /\ loc' \in [Proc -> Local]
        /\ Memory'
    <3>1. CASE Goto(p, "sync_decide") /\ Remember(p, r)
      <4>1. session'.idleDeadline \in Time BY <2>1 DEF Session
      <4>2. r \in Local BY <4>1 DEF TypeOK, Local
      <4> HIDE DEF r
      <4> QED BY <3>1, <4>2, GotoType, RememberType, MemoryKept DEF Leased, Unleased
    <3>2. CASE Return(p) BY <3>2, ReturnType, MemoryKept DEF Leased
    <3> QED BY <1>5, <3>1, <3>2 DEF SyncCommit
  <2> QED BY <1>5, <2>1, <2>2 DEF SyncCommit, TypeOK, cloud
<1>9. CASE SyncDecide(p)
  <2> DEFINE r == [loc[p] EXCEPT !.reason = "idle_deadline",
                                 !.key = StopKeyFor(session, "idle_deadline")]
  <2>1. /\ pc' \in [Proc -> Leased \cup Unleased] /\ loc' \in [Proc -> Local]
        /\ Memory'
    <3>1. CASE Goto(p, "watchdog_stop") /\ Remember(p, r)
      <4>1. StopKeyFor(session, "idle_deadline") \in OpId
        BY DEF StopKeyFor, OpId, WatchdogKey, Session, Reasons, TypeOK
      <4>2. r \in Local /\ r.key \in OpId BY <4>1 DEF TypeOK, Local, Reasons
      <4> HIDE DEF r
      <4> QED BY <3>1, <4>2, GotoType, RememberType, MemoryKept DEF Unleased
    <3>2. CASE Return(p) BY <3>2, ReturnType, MemoryKept DEF Leased
    <3> QED BY <1>9, <3>1, <3>2 DEF SyncDecide
  <2> QED BY <1>9, <2>1 DEF SyncDecide, TypeOK, cloud, store
<1>6. CASE WatchdogStop(p)
  <2> DEFINE f == [EmptyLoc EXCEPT !.kind = "watchdog-stop", !.reason = loc[p].reason,
                                   !.at = loc[p].at, !.time = loc[p].time]
  <2>1. CASE Enter(p, loc[p].key, "stop_pending", f)
    <3>1. f \in Local /\ f.kind = "watchdog-stop"
      BY EmptyLocType DEF TypeOK, Local, Kinds
    <3>2. loc[p].key \in OpId /\ "stop_pending" \in Leased
      BY <1>6 DEF WatchdogStop, Memory, Leased
    <3> HIDE DEF f
    <3>3. /\ pc' \in [Proc -> Leased \cup Unleased] /\ loc' \in [Proc -> Local]
          /\ lease' \in [owner : Proc \cup {Nil}, expiresAt : Time] /\ Memory'
      BY <2>1, <3>1, <3>2, EnterType
    <3> QED BY <1>6, <3>3 DEF WatchdogStop, TypeOK, cloud
  <2>2. CASE Return(p) /\ UNCHANGED lease
    BY <1>6, <2>2, ReturnType, MemoryKept DEF WatchdogStop, TypeOK, cloud, Leased
  <2> QED BY <1>6, <2>1, <2>2 DEF WatchdogStop
<1>7. CASE ObserveCall(p)
  <2> DEFINE r == [EmptyLoc EXCEPT !.kind = "observe"]
  <2>1. r \in Local BY EmptyLocType DEF Local, Kinds
  <2>2. Remember(p, r) /\ Goto(p, "sync_read") BY <1>7 DEF ObserveCall
  <2> HIDE DEF r
  <2>3. /\ pc' \in [Proc -> Leased \cup Unleased] /\ loc' \in [Proc -> Local]
        /\ Memory'
    BY <2>1, <2>2, GotoType, RememberType, MemoryKept DEF Leased, Unleased
  <2> QED BY <1>7, <2>3 DEF ObserveCall, TypeOK, cloud, store
<1> QED
  BY <1>1, <1>2, <1>3, <1>4, <1>5, <1>6, <1>7, <1>8, <1>9, DrainReadType
  DEF WatchdogSteps

\* The lease given back, the job route, Pods, the clock and crashes.
LEMMA OtherTypes ==
  ASSUME TypeOK, Memory,
         \/ \E p \in Proc : ReleaseLease(p) \/ JobAdmit(p) \/ JobQueue(p) \/ Crash(p)
         \/ \E q \in Pod : PodBoots(q) \/ PodFails(q)
         \/ JobEnds \/ Tick
  PROVE  TypeOK' /\ Memory'
<1> now \in Time BY DEF TypeOK, Time
<1>1. ASSUME NEW p \in Proc, ReleaseLease(p) PROVE TypeOK' /\ Memory'
  <2>1. lease' \in [owner : Proc \cup {Nil}, expiresAt : Time]
    BY <1>1 DEF ReleaseLease, NoLease, Never, Time, TypeOK
  <2>2. Return(p) BY <1>1 DEF ReleaseLease
  <2>3. Memory' BY <2>2, ReturnType, MemoryKept DEF Leased
  <2> QED BY <1>1, <2>1, <2>2, <2>3, ReturnType DEF ReleaseLease, TypeOK, cloud
<1>2. ASSUME NEW p \in Proc, JobAdmit(p) PROVE TypeOK' /\ Memory'
  <2>1. Memory' /\ pc' \in [Proc -> Leased \cup Unleased]
    BY <1>2, GotoType, MemoryKept DEF JobAdmit, Leased, Unleased
  <2> QED BY <1>2, <2>1 DEF JobAdmit, TypeOK, cloud, store
<1>3. ASSUME NEW p \in Proc, JobQueue(p) PROVE TypeOK' /\ Memory'
  <2>1. Memory' /\ pc' \in [Proc -> Leased \cup Unleased]
    BY <1>3, GotoType, MemoryKept DEF JobQueue, Leased, Unleased
  <2>2. job' \in [active : BOOLEAN, last : Time, drains : SUBSET Proc]
    BY <1>3 DEF JobQueue, TypeOK, Time
  <2> QED BY <1>3, <2>1, <2>2 DEF JobQueue, TypeOK, cloud, store
<1>4. ASSUME NEW p \in Proc, Crash(p) PROVE TypeOK' /\ Memory'
  <2>1. Return(p) BY <1>4 DEF Crash
  <2>2. Memory' BY <2>1, ReturnType, MemoryKept DEF Leased
  <2> QED BY <1>4, <2>1, <2>2, ReturnType DEF Crash, TypeOK, cloud, store
<1>5. ASSUME NEW q \in Pod, PodBoots(q) \/ PodFails(q) PROVE TypeOK' /\ Memory'
  <2>1. pods' \in [Pod -> PodStatus] BY <1>5 DEF PodBoots, PodFails, TypeOK, PodStatus
  <2>2. UNCHANGED <<now, store, calls, creates, job, pc, loc>>
    BY <1>5 DEF PodBoots, PodFails
  <2> QED BY <2>1, <2>2 DEF TypeOK, Memory, store
<1>6. CASE JobEnds
  <2>1. job' \in [active : BOOLEAN, last : Time, drains : SUBSET Proc]
    BY <1>6 DEF JobEnds, NoJob, Time
  <2> QED BY <1>6, <2>1 DEF JobEnds, TypeOK, Memory, cloud, store
<1>7. CASE Tick
  BY <1>7 DEF Tick, TypeOK, Memory, cloud, store
<1> QED BY <1>1, <1>2, <1>3, <1>4, <1>5, <1>6, <1>7

\* Every step keeps the types and the memory of the requests.
LEMMA TypeStep == TypeOK /\ Memory /\ [Next]_vars => TypeOK' /\ Memory'
<1> SUFFICES ASSUME TypeOK, Memory, [Next]_vars PROVE TypeOK' /\ Memory'
  OBVIOUS
<1>1. ASSUME NEW p \in Proc, Request(p) \/ Progress(p) \/ Crash(p)
      PROVE  TypeOK' /\ Memory'
  BY <1>1, StartTypes, CallTypes, StopTypes, ExtendTypes, ReconcileTypes,
     DecisionTypes, WatchdogTypes, OtherTypes
  DEF Request, Progress
<1>2. CASE Cloud BY <1>2, CloudTypes
<1>3. CASE (\E q \in Pod : PodBoots(q) \/ PodFails(q)) \/ JobEnds \/ Tick
  BY <1>3, OtherTypes
<1>4. CASE UNCHANGED vars BY <1>4 DEF vars, TypeOK, Memory
<1> QED BY <1>1, <1>2, <1>3, <1>4 DEF Next

\* The initial state is well formed.
LEMMA TypeInit == Init => TypeOK /\ Memory
<1> SUFFICES ASSUME Init PROVE TypeOK /\ Memory
  OBVIOUS
<1>1. lease \in [owner : Proc \cup {Nil}, expiresAt : Time]
      /\ job \in [active : BOOLEAN, last : Time, drains : SUBSET Proc]
  BY DEF Init, NoLease, NoJob, Never, Time
<1>2. pc \in [Proc -> Leased \cup Unleased] /\ loc \in [Proc -> Local]
  BY EmptyLocType DEF Init, Unleased
<1>3. Memory BY DEF Init, Memory, Leased
<1> QED BY <1>1, <1>2, <1>3, EmptySessionType DEF Init, TypeOK, PodStatus

\* Every variable stays in its range.
THEOREM TypeCorrect == Spec => []TypeOK
<1>1. Init => TypeOK /\ Memory BY TypeInit
<1>2. TypeOK /\ Memory /\ [Next]_vars => (TypeOK /\ Memory)' BY TypeStep
<1> QED BY <1>1, <1>2, PTL DEF Spec
------------------------------------------------------------------------------
(* Exclusion.  LeaseExclusion alone is not inductive: nothing in it keeps an *)
(* operation from releasing, or being given, a lease it does not hold.       *)
(* LeaseHeld relates each operation to the lease that is recorded.           *)

\* What a step of one request may do about the lease: be granted it, go on inside
\* it, or be outside afterwards, having given back at most a lease of its own.
Granted(p) == /\ LeaseFree
              /\ lease' = [owner |-> p, expiresAt |-> now + Lease]
              /\ loc'[p].expires = now + Lease
Inside(p) == InLease(p) /\ loc'[p].expires = loc[p].expires /\ lease' = lease
Outside(p) == pc'[p] \notin Leased /\ (lease' = lease \/ lease.owner = p)

Moves(p) ==
  /\ now' = now
  /\ \A q \in Proc \ {p} : pc'[q] = pc[q] /\ loc'[q] = loc[q]
  /\ Granted(p) \/ Inside(p) \/ Outside(p)

\* The lease is granted.
LEMMA MovesGranted ==
  ASSUME TypeOK, NEW p \in Proc, NEW key, NEW label, NEW f \in Local,
         Enter(p, key, label, f), now' = now
  PROVE  Moves(p)
<1> DEFINE r == [f EXCEPT !.key = key, !.expires = now + Lease,
                          !.attempted = AttemptRecorded(key)]
<1>1. r.expires = now + Lease BY DEF Local
<1>2. Remember(p, r) BY DEF Enter
<1> HIDE DEF r
<1>3. loc'[p] = r /\ \A q \in Proc \ {p} : pc'[q] = pc[q] /\ loc'[q] = loc[q]
  BY <1>2 DEF Enter, Remember, Goto, TypeOK
<1> QED BY <1>1, <1>3 DEF Moves, Granted, Enter, Acquire

\* Going on inside the lease: the place, and what is remembered, may change.
LEMMA MovesInside ==
  ASSUME TypeOK, NEW p \in Proc, NEW l, InLease(p), Goto(p, l),
         NEW r, loc' = loc \/ (Remember(p, r) /\ r.expires = loc[p].expires),
         UNCHANGED <<now, lease>>
  PROVE  Moves(p)
<1>1. \A q \in Proc \ {p} : pc'[q] = pc[q] /\ loc'[q] = loc[q]
  BY DEF Goto, Remember, TypeOK
<1>2. loc'[p].expires = loc[p].expires BY DEF Remember, TypeOK
<1> QED BY <1>1, <1>2 DEF Moves, Inside

\* Going on outside the lease.
LEMMA MovesOutside ==
  ASSUME TypeOK, NEW p \in Proc, NEW l, l \notin Leased, Goto(p, l),
         NEW r, loc' = loc \/ Remember(p, r), UNCHANGED <<now, lease>>
  PROVE  Moves(p)
<1>1. /\ \A q \in Proc \ {p} : pc'[q] = pc[q] /\ loc'[q] = loc[q]
      /\ pc'[p] \notin Leased
  BY DEF Goto, Remember, TypeOK
<1> QED BY <1>1 DEF Moves, Outside

\* What start, stop, extend and the exchanges with RunPod do inside the lease.
LEMMA OperationMoves ==
  ASSUME TypeOK, NEW p \in Proc,
         StartSteps(p) \/ StopSteps(p) \/ CallSteps(p) \/ ExtendCommit(p)
  PROVE  Moves(p)
<1>1. InLease(p) /\ UNCHANGED <<now, lease>>
  <2>1. CASE StartSteps(p)
    BY <2>1 DEF StartSteps, StartRefused, StartInspect, StartPlan, StartCommit, InLease, Leased
  <2>2. CASE StopSteps(p)
    BY <2>2 DEF StopSteps, StopPending, StopRefused, StopFind, StopConfirm, StopRequest,
                StopCommit, InLease, Leased
  <2>3. CASE CallSteps(p)
    BY <2>3 DEF CallSteps, MarkMutationAttempted, Send, CallFails, RecordFailure,
                InLease, Leased
  <2>4. CASE ExtendCommit(p) BY <2>4 DEF ExtendCommit, InLease, Leased
  <2> QED BY <2>1, <2>2, <2>3, <2>4
<1>2. \E l : Goto(p, l)
  BY DEF StartSteps, StartRefused, StartInspect, StartPlan, StartCommit, StopSteps,
         StopPending, StopRefused, StopFind, StopConfirm, StopRequest, StopCommit,
         CallSteps, MarkMutationAttempted, Send, CallFails, RecordFailure, ExtendCommit
<1>3. CASE UNCHANGED loc BY <1>1, <1>2, <1>3, MovesInside
<1>4. CASE StartInspect(p)
  <2> DEFINE r == [loc[p] EXCEPT !.pod = The(Managed), !.seen = StatusOf(The(Managed))]
  <2>1. r.expires = loc[p].expires BY DEF TypeOK, Local
  <2>2. Remember(p, r) BY <1>4 DEF StartInspect
  <2> HIDE DEF r
  <2> QED BY <1>1, <1>2, <2>1, <2>2, MovesInside
<1>5. CASE StopFind(p)
  <2> DEFINE found == Candidates(session.podId)
             r == [loc[p] EXCEPT !.pod = The(found), !.seen = StatusOf(The(found))]
  <2>1. r.expires = loc[p].expires BY DEF TypeOK, Local
  <2>2. Remember(p, r) BY <1>5 DEF StopFind
  <2> HIDE DEF r
  <2> QED BY <1>1, <1>2, <2>1, <2>2, MovesInside
<1> QED
  BY <1>3, <1>4, <1>5
  DEF StartSteps, StartRefused, StartPlan, StartCommit, StopSteps,
      StopPending, StopRefused, StopConfirm, StopRequest, StopCommit,
      CallSteps, MarkMutationAttempted, Send, CallFails, RecordFailure, ExtendCommit

\* RunPod's answers reach an operation without touching its lease.
LEMMA CloudMoves ==
  ASSUME TypeOK, Cloud
  PROVE  (\E p \in Proc : Moves(p)) \/ UNCHANGED <<now, lease, pc, loc>>
<1>1. PICK c \in calls : CloudApply(c) \/ CloudAccept(c) \/ CloudDrop(c) BY DEF Cloud
<1>2. c.proc \in Proc BY DEF TypeOK, Call
<1>3. UNCHANGED <<now, lease>> BY <1>1 DEF CloudApply, CloudAccept, CloudDrop, store
<1>4. CASE UNCHANGED <<pc, loc>> BY <1>3, <1>4
<1>5. ASSUME NEW q, NEW s, AwaitsReply(c.proc, c), Reply(c.proc, q, s)
      PROVE  Moves(c.proc)
  <2> DEFINE p == c.proc
             r == [loc[p] EXCEPT !.pod = q, !.seen = s]
  <2>1. r.expires = loc[p].expires BY <1>2 DEF TypeOK, Local
  <2>2. Remember(p, r) /\ Goto(p, AfterReply(p)) BY <1>5 DEF Reply
  <2>3. InLease(p) BY <1>5 DEF AwaitsReply, InLease, Leased
  <2> HIDE DEF r
  <2>4. p \in Proc BY <1>2
  <2> QED BY <1>3, <2>1, <2>2, <2>3, <2>4, MovesInside
<1> QED BY <1>1, <1>2, <1>4, <1>5 DEF CloudApply, CloudAccept, CloudDrop

\* The shape of every step, as far as the lease is concerned.
LEMMA StepShape ==
  ASSUME TypeOK, [Next]_vars
  PROVE  \/ \E p \in Proc : Moves(p)
         \/ UNCHANGED <<now, lease, pc, loc>>
         \/ Tick
<1> "idle" \notin Leased /\ Unleased \cap Leased = {} BY DEF Leased, Unleased
<1>1. ASSUME NEW p \in Proc, Request(p) PROVE Moves(p)
  <2>1. ASSUME NEW k \in StartKey, StartCall(p, k) PROVE Moves(p)
    <3>1. [EmptyLoc EXCEPT !.kind = "start"] \in Local BY EmptyLocType DEF Local, Kinds
    <3> QED BY <2>1, <3>1, MovesGranted DEF StartCall
  <2>2. ASSUME NEW k \in StopKey, StopCall(p, k) PROVE Moves(p)
    <3>1. [EmptyLoc EXCEPT !.kind = "stop", !.reason = "manual"] \in Local
      BY EmptyLocType DEF Local, Kinds, Reasons
    <3> QED BY <2>2, <3>1, MovesGranted DEF StopCall
  <2>3. ASSUME NEW k \in ExtendKey, ExtendCall(p, k) PROVE Moves(p)
    <3> DEFINE deadline == session.hardDeadline + Extension
    <3>1. deadline \in Time BY TimeAssumption DEF TypeOK, Session, Time
    <3>2. [EmptyLoc EXCEPT !.kind = "extend", !.time = deadline] \in Local
      <4> HIDE DEF deadline
      <4> QED BY <3>1, EmptyLocType DEF Local, Kinds
    <3> QED BY <2>3, <3>2, MovesGranted DEF ExtendCall
  <2>4. CASE ReconcileRead(p)
    BY <2>4, MovesOutside DEF ReconcileRead, Unleased, store
  <2>5. CASE WatchdogRead(p)
    <3>1. WatchdogDecision \in {"idle", "watchdog_stop", "drain_claim", "sync_read"}
      BY DEF WatchdogDecision
    <3> QED BY <2>5, <3>1, MovesOutside DEF WatchdogRead, Leased, store
  <2>6. CASE ObserveCall(p) BY <2>6, MovesOutside DEF ObserveCall, Unleased, store
  <2>7. CASE JobAdmit(p) BY <2>7, MovesOutside DEF JobAdmit, Unleased, store
  <2> QED BY <1>1, <2>1, <2>2, <2>3, <2>4, <2>5, <2>6, <2>7 DEF Request
<1>2. ASSUME NEW p \in Proc, Progress(p) PROVE Moves(p)
  <2>1. CASE StartSteps(p) \/ StopSteps(p) \/ CallSteps(p) \/ ExtendCommit(p)
    BY <2>1, OperationMoves
  <2>2. CASE DrainRead(p) BY <2>2, MovesOutside DEF DrainRead, Return, store, Leased
  <2>3. CASE DrainClaim(p) BY <2>3, MovesOutside DEF DrainClaim, Leased
  <2>4. CASE DrainCancel(p) \/ DrainMark(p)
    BY <2>4, MovesOutside DEF DrainCancel, DrainMark, store, Leased
  <2>5. CASE DrainDone(p) BY <2>5, MovesOutside DEF DrainDone, Leased
  <2>6. CASE SyncRead(p) BY <2>6, MovesOutside DEF SyncRead, Unleased, store
  <2>7. CASE SyncCommit(p) \/ SyncDecide(p)
    BY <2>7, MovesOutside DEF SyncCommit, SyncDecide, Return, store, Leased
  <2>8. CASE WatchdogStop(p)
    <3> DEFINE f == [EmptyLoc EXCEPT !.kind = "watchdog-stop", !.reason = loc[p].reason,
                                     !.at = loc[p].at, !.time = loc[p].time]
    <3>1. f \in Local BY EmptyLocType DEF TypeOK, Local, Kinds
    <3> HIDE DEF f
    <3>2. CASE Enter(p, loc[p].key, "stop_pending", f)
      BY <2>8, <3>1, <3>2, MovesGranted DEF WatchdogStop
    <3>3. CASE Return(p) /\ UNCHANGED lease
      BY <2>8, <3>3, MovesOutside DEF WatchdogStop, Return
    <3> QED BY <2>8, <3>2, <3>3 DEF WatchdogStop, f
  <2>9. CASE ReconcileCommit(p) BY <2>9, MovesOutside DEF ReconcileCommit, Return
  <2>10. CASE JobQueue(p) BY <2>10, MovesOutside DEF JobQueue, store
  <2>11. CASE ReleaseLease(p)
    <3>1. \A q \in Proc \ {p} : pc'[q] = pc[q] /\ loc'[q] = loc[q]
      BY <2>11 DEF ReleaseLease, Return, Goto, Remember, TypeOK
    <3>2. pc'[p] \notin Leased
      BY <2>11 DEF ReleaseLease, Return, Goto, TypeOK
    <3>3. lease' = lease \/ lease.owner = p BY <2>11 DEF ReleaseLease
    <3>4. now' = now BY <2>11 DEF ReleaseLease
    <3> QED BY <3>1, <3>2, <3>3, <3>4 DEF Moves, Outside
  <2> QED BY <1>2, <2>1, <2>2, <2>3, <2>4, <2>5, <2>6, <2>7, <2>8, <2>9, <2>10, <2>11
          DEF Progress, WatchdogSteps
<1>3. ASSUME NEW p \in Proc, Crash(p) PROVE Moves(p)
  BY <1>3, MovesOutside DEF Crash, Return, store
<1>4. CASE (\E q \in Pod : PodBoots(q) \/ PodFails(q)) \/ JobEnds \/ UNCHANGED vars
  BY <1>4 DEF PodBoots, PodFails, JobEnds, vars, store
<1> QED BY <1>1, <1>2, <1>3, <1>4, CloudMoves DEF Next

\* Every step keeps the lease with the operation that holds it.
LEMMA LeaseStep ==
  ASSUME TypeOK, LeaseHeld, [Next]_vars PROVE LeaseHeld'
<1>1. \A q \in Proc : loc[q].expires \in Int /\ now \in Int BY DEF TypeOK, Local, Time
<1>2. ASSUME NEW p \in Proc, Moves(p) PROVE LeaseHeld'
  <2>1. CASE Granted(p)
    <3>1. \A q \in Proc \ {p} : InLease(q) => loc[q].expires <= now
      <4> SUFFICES ASSUME NEW q \in Proc \ {p}, InLease(q), loc[q].expires > now
                   PROVE  FALSE
        BY <1>1
      <4>1. lease.owner = q /\ lease.expiresAt = loc[q].expires BY DEF LeaseHeld
      <4> QED BY <1>1, <2>1, <4>1, ProcAssumption DEF Granted, LeaseFree
    <3> QED BY <1>1, <1>2, <2>1, <3>1 DEF Moves, Granted, LeaseHeld, InLease
  <2>2. CASE Inside(p) BY <1>2, <2>2 DEF Moves, Inside, LeaseHeld, InLease
  <2>3. CASE Outside(p) BY <1>2, <2>3 DEF Moves, Outside, LeaseHeld, InLease
  <2> QED BY <1>2, <2>1, <2>2, <2>3 DEF Moves
<1>3. CASE UNCHANGED <<now, lease, pc, loc>> BY <1>3 DEF LeaseHeld, InLease
<1>4. CASE Tick BY <1>1, <1>4 DEF Tick, LeaseHeld, InLease, store
<1> QED BY <1>2, <1>3, <1>4, StepShape

\* Two operations are inside withLease together only when one has outlived its
\* lease, for any number of processes, any durations and any failures.
THEOREM Exclusion == Spec => []LeaseExclusion
<1>1. Init => IInv
  <2>1. Init => LeaseHeld BY DEF Init, LeaseHeld, InLease, Leased
  <2> QED BY <2>1, TypeInit DEF IInv
<1>2. IInv /\ [Next]_vars => IInv' BY TypeStep, LeaseStep DEF IInv
<1>3. IInv => LeaseExclusion
  <2>1. ASSUME TypeOK, NEW p \in Proc PROVE loc[p].expires \in Int /\ now \in Int
    BY <2>1 DEF TypeOK, Local, Time
  <2> QED BY <2>1 DEF IInv, LeaseHeld, LeaseExclusion
<1> QED BY <1>1, <1>2, <1>3, PTL DEF Spec
------------------------------------------------------------------------------
(* What the lease buys while no operation outlives it: one operation at a     *)
(* time, hence a bounded hard deadline and at most one create per idempotency *)
(* key, whatever else fails.                                                  *)

\* While no operation outlives its lease, whoever is inside has an unexpired one.
Unexpired == \A p \in Proc : InLease(p) => loc[p].expires > now
------------------------------------------------------------------------------
\* The clock waits for the operations, so their leases do not expire.
LEMMA UnexpiredStep ==
  ASSUME ~Fault("overrun"), TypeOK, Unexpired, [Next]_vars PROVE Unexpired'
<1>1. now \in Int /\ now + Lease > now BY TimeAssumption DEF TypeOK
<1>2. ASSUME NEW p \in Proc, Moves(p) PROVE Unexpired'
  BY <1>1, <1>2 DEF Moves, Granted, Inside, Outside, Unexpired, InLease
<1>3. CASE UNCHANGED <<now, lease, pc, loc>> BY <1>3 DEF Unexpired, InLease
<1>4. CASE Tick BY <1>4 DEF Tick, Unexpired, InLease, store
<1> QED BY <1>2, <1>3, <1>4, StepShape

\* One operation at a time.
LEMMA OneInside ==
  ASSUME LeaseHeld, Unexpired, NEW p \in Proc, InLease(p)
  PROVE  \A q \in Proc \ {p} : ~InLease(q)
  BY DEF LeaseHeld, Unexpired
------------------------------------------------------------------------------
(* The hard deadline.  DeadlineBounded is not inductive: an extension is      *)
(* checked in one step and written in another, and what was checked is about  *)
(* the session then.  The lease keeps any start out in between.               *)

PendingExtension ==
  \A p \in Proc : pc[p] = "extend_commit" => loc[p].time <= session.startedAt + MaxSession

\* Only start and extend touch the start and the hard deadline of a session.
LEMMA DeadlineKept ==
  ASSUME TypeOK, [Next]_vars,
         \A p \in Proc : ~StartPlan(p) /\ ~ExtendCommit(p)
  PROVE  UNCHANGED <<session.hardDeadline, session.startedAt>>
<1> session \in Session BY DEF TypeOK
<1>1. CASE session' = session BY <1>1
<1>2. ASSUME NEW p \in Proc, StartSteps(p) PROVE UNCHANGED <<session.hardDeadline, session.startedAt>>
  BY <1>2 DEF StartSteps, StartRefused, StartInspect, StartCommit, Session
<1>3. ASSUME NEW p \in Proc, StopSteps(p) PROVE UNCHANGED <<session.hardDeadline, session.startedAt>>
  BY <1>3 DEF StopSteps, StopPending, StopRefused, StopFind, StopConfirm, StopRequest,
              StopCommit, ScheduleRetry, Session
<1>4. ASSUME NEW p \in Proc, CallSteps(p) PROVE UNCHANGED <<session.hardDeadline, session.startedAt>>
  BY <1>4 DEF CallSteps, MarkMutationAttempted, Send, CallFails, RecordFailure,
              ScheduleRetry, Session
<1>5. ASSUME NEW p \in Proc, WatchdogSteps(p) PROVE UNCHANGED <<session.hardDeadline, session.startedAt>>
  BY <1>5 DEF WatchdogSteps, DrainClaim, DrainCancel, DrainMark, DrainDone, DrainRead,
              SyncRead, SyncCommit, SyncDecide, Synced, WatchdogStop, Session, store
<1>6. ASSUME NEW p \in Proc, ReconcileCommit(p) PROVE UNCHANGED <<session.hardDeadline, session.startedAt>>
  BY <1>6 DEF ReconcileCommit, Observed, Session
<1>7. ASSUME NEW p \in Proc, Request(p) \/ JobQueue(p) \/ ReleaseLease(p) \/ Crash(p)
      PROVE  session' = session
  BY <1>7 DEF Request, StartCall, StopCall, ExtendCall, ReconcileRead, WatchdogRead,
              ObserveCall, JobAdmit, JobQueue, ReleaseLease, Crash, store
<1>8. CASE Cloud BY <1>8 DEF Cloud, CloudApply, CloudAccept, CloudDrop, store
<1>9. CASE (\E q \in Pod : PodBoots(q) \/ PodFails(q)) \/ JobEnds \/ Tick \/ UNCHANGED vars
  BY <1>9 DEF PodBoots, PodFails, JobEnds, Tick, vars, store
<1> QED BY <1>1, <1>2, <1>3, <1>4, <1>5, <1>6, <1>7, <1>8, <1>9 DEF Next, Progress

\* A step that leads its request elsewhere leaves the extensions of the others alone.
LEMMA Elsewhere ==
  ASSUME TypeOK, NEW p \in Proc, pc'[p] = "extend_commit",
         NEW q \in Proc, NEW l, l # "extend_commit", Goto(q, l),
         NEW r, loc' = loc \/ Remember(q, r)
  PROVE  pc[p] = "extend_commit" /\ loc'[p] = loc[p]
  BY DEF Goto, Remember, TypeOK

\* An extension about to be written has just been accepted, or was about to be
\* written before.
LEMMA ExtensionPending ==
  ASSUME TypeOK, [Next]_vars, NEW p \in Proc, pc'[p] = "extend_commit"
  PROVE  \/ pc[p] = "extend_commit" /\ loc'[p] = loc[p]
         \/ \E k \in ExtendKey : ExtendCall(p, k)
<1> DEFINE Kept == pc[p] = "extend_commit" /\ loc'[p] = loc[p]
<1>1. ASSUME NEW q \in Proc, NEW k \in StartKey, StartCall(q, k) PROVE Kept
  BY <1>1, Elsewhere DEF StartCall, Enter
<1>2. ASSUME NEW q \in Proc, NEW k \in StopKey, StopCall(q, k) PROVE Kept
  BY <1>2, Elsewhere DEF StopCall, Enter
<1>3. ASSUME NEW q \in Proc, NEW k \in ExtendKey, ExtendCall(q, k), q # p PROVE Kept
  BY <1>3 DEF ExtendCall, Enter, Goto, Remember, TypeOK
<1>4. ASSUME NEW q \in Proc, ReconcileRead(q) \/ ObserveCall(q) \/ JobAdmit(q) PROVE Kept
  BY <1>4, Elsewhere DEF ReconcileRead, ObserveCall, JobAdmit
<1>5. ASSUME NEW q \in Proc, WatchdogRead(q) PROVE Kept
  <2>1. WatchdogDecision # "extend_commit" BY DEF WatchdogDecision
  <2> QED BY <1>5, <2>1, Elsewhere DEF WatchdogRead
<1>6. ASSUME NEW q \in Proc, StartSteps(q) PROVE Kept
  BY <1>6, Elsewhere DEF StartSteps, StartRefused, StartInspect, StartPlan, StartCommit
<1>7. ASSUME NEW q \in Proc, StopSteps(q) PROVE Kept
  BY <1>7, Elsewhere
  DEF StopSteps, StopPending, StopRefused, StopFind, StopConfirm, StopRequest, StopCommit
<1>8. ASSUME NEW q \in Proc, CallSteps(q) PROVE Kept
  BY <1>8, Elsewhere DEF CallSteps, MarkMutationAttempted, Send, CallFails, RecordFailure
<1>9. ASSUME NEW q \in Proc, WatchdogSteps(q) PROVE Kept
  <2>1. CASE DrainRead(q) BY <2>1, Elsewhere DEF DrainRead, Return
  <2>2. CASE DrainClaim(q) \/ DrainDone(q) BY <2>2, Elsewhere DEF DrainClaim, DrainDone
  <2>3. CASE DrainCancel(q) \/ SyncRead(q) BY <2>3, Elsewhere DEF DrainCancel, SyncRead
  <2>4. CASE DrainMark(q) BY <2>4, Elsewhere DEF DrainMark
  <2>5. CASE SyncCommit(q) \/ SyncDecide(q)
    BY <2>5, Elsewhere DEF SyncCommit, SyncDecide, Return
  <2>6. CASE WatchdogStop(q) BY <2>6, Elsewhere DEF WatchdogStop, Enter, Return
  <2> QED BY <1>9, <2>1, <2>2, <2>3, <2>4, <2>5, <2>6 DEF WatchdogSteps
<1>10. ASSUME NEW q \in Proc,
              ExtendCommit(q) \/ ReconcileCommit(q) \/ JobQueue(q) \/ ReleaseLease(q) \/ Crash(q)
       PROVE  Kept
  BY <1>10, Elsewhere DEF ExtendCommit, ReconcileCommit, JobQueue, ReleaseLease, Crash, Return
<1>11. CASE Cloud
  <2>1. PICK c \in calls : CloudApply(c) \/ CloudAccept(c) \/ CloudDrop(c) BY <1>11 DEF Cloud
  <2>2. c.proc \in Proc BY DEF TypeOK, Call
  <2>3. ASSUME NEW q, NEW s, Reply(c.proc, q, s) PROVE Kept
    BY <2>2, <2>3, Elsewhere DEF Reply, AfterReply
  <2> QED BY <2>1, <2>3 DEF CloudApply, CloudAccept, CloudDrop
<1>12. CASE (\E q \in Pod : PodBoots(q) \/ PodFails(q)) \/ JobEnds \/ Tick \/ UNCHANGED vars
  BY <1>12 DEF PodBoots, PodFails, JobEnds, Tick, vars
<1> HIDE DEF Kept
<1>13. ASSUME NEW q \in Proc, Request(q)
       PROVE  Kept \/ \E k \in ExtendKey : ExtendCall(p, k)
  BY <1>13, <1>1, <1>2, <1>3, <1>4, <1>5 DEF Request
<1> QED BY <1>6, <1>7, <1>8, <1>9, <1>10, <1>11, <1>12, <1>13 DEF Next, Progress, Kept

\* An accepted extension is within bounds.
LEMMA ExtensionAccepted ==
  ASSUME TypeOK, NEW p \in Proc, NEW k \in ExtendKey, ExtendCall(p, k),
         pc'[p] = "extend_commit"
  PROVE  WithinMaximum(loc'[p].time) /\ session' = session
<1> DEFINE deadline == session.hardDeadline + Extension
           label == IF Extendable(deadline) THEN "extend_commit" ELSE "release"
           f == [EmptyLoc EXCEPT !.kind = "extend", !.time = deadline]
           r == [f EXCEPT !.key = k, !.expires = now + Lease,
                          !.attempted = AttemptRecorded(k)]
<1>1. Enter(p, k, label, f) /\ session' = session BY DEF ExtendCall
<1>2. r.time = deadline BY DEF EmptyLoc
<1>3. loc'[p] = r BY <1>1 DEF Enter, Remember, TypeOK
<1>4. pc'[p] = IF Refused(k, f.kind) \/ AlreadySucceeded(k) THEN "release" ELSE label
  BY <1>1 DEF Enter, Goto, TypeOK
<1>5. Extendable(deadline) BY <1>4
<1> QED BY <1>1, <1>2, <1>3, <1>5 DEF Extendable

DeadlineInv == IInv /\ Unexpired /\ PendingExtension /\ DeadlineBounded

\* Every step keeps the hard deadline bounded.
LEMMA DeadlineStep ==
  ASSUME ~Fault("overrun"), Duration <= MaxSession, DeadlineInv, [Next]_vars
  PROVE  DeadlineInv'
<1> TypeOK /\ LeaseHeld /\ Unexpired /\ TypeOK' BY TypeStep DEF DeadlineInv, IInv
<1>1. IInv' BY TypeStep, LeaseStep DEF DeadlineInv, IInv
<1>2. Unexpired' BY UnexpiredStep
<1>3. DeadlineBounded'
  <2>1. ASSUME NEW p \in Proc, StartPlan(p) PROVE DeadlineBounded'
    <3>1. session'.hardDeadline = now + Duration /\ session'.startedAt = now
      BY <2>1 DEF StartPlan, EmptySession
    <3> QED BY <3>1, TimeAssumption DEF DeadlineBounded, TypeOK
  <2>2. ASSUME NEW p \in Proc, ExtendCommit(p) PROVE DeadlineBounded'
    <3>1. session'.hardDeadline = loc[p].time /\ session'.startedAt = session.startedAt
      BY <2>2 DEF ExtendCommit, TypeOK, Session
    <3>2. loc[p].time <= session.startedAt + MaxSession
      BY <2>2 DEF ExtendCommit, DeadlineInv, PendingExtension
    <3> QED BY <3>1, <3>2 DEF DeadlineBounded
  <2>3. CASE \A p \in Proc : ~StartPlan(p) /\ ~ExtendCommit(p)
    BY <2>3, DeadlineKept DEF DeadlineInv, DeadlineBounded
  <2> QED BY <2>1, <2>2, <2>3
<1>4. PendingExtension'
  <2> SUFFICES ASSUME NEW p \in Proc, pc'[p] = "extend_commit"
               PROVE  loc'[p].time <= session'.startedAt + MaxSession
    BY DEF PendingExtension
  <2>1. CASE \E k \in ExtendKey : ExtendCall(p, k)
    <3>1. WithinMaximum(loc'[p].time) /\ session' = session BY <2>1, ExtensionAccepted
    <3> QED BY <3>1 DEF WithinMaximum
  <2>2. CASE pc[p] = "extend_commit" /\ loc'[p] = loc[p]
    <3>1. loc[p].time <= session.startedAt + MaxSession
      BY <2>2 DEF DeadlineInv, PendingExtension
    <3>2. \A q \in Proc \ {p} : ~InLease(q) BY <2>2, OneInside DEF InLease, Leased
    <3>3. \A q \in Proc : ~StartPlan(q)
      BY <2>2, <3>2 DEF StartPlan, InLease, Leased
    <3>4. \A q \in Proc : ExtendCommit(q) => session'.startedAt = session.startedAt
      BY DEF ExtendCommit, TypeOK, Session
    <3>5. session'.startedAt = session.startedAt BY <3>3, <3>4, DeadlineKept
    <3> QED BY <2>2, <3>1, <3>5
  <2> QED BY <2>1, <2>2, ExtensionPending
<1> QED BY <1>1, <1>2, <1>3, <1>4 DEF DeadlineInv

\* No interleaving of starts, stops, extensions, watchdogs and crashes pushes the
\* hard deadline past the maximum duration, provided the duration asked for is
\* within it and no operation outlives its lease.
THEOREM HardDeadlineBounded ==
  ASSUME ~Fault("overrun"), Duration <= MaxSession
  PROVE  Spec => []DeadlineBounded
<1>1. Init => DeadlineInv
  <2> SUFFICES ASSUME Init PROVE DeadlineInv
    OBVIOUS
  <2>1. IInv BY TypeInit DEF IInv, Init, LeaseHeld, InLease, Leased
  <2>2. Unexpired /\ PendingExtension
    BY DEF Init, Unexpired, PendingExtension, InLease, Leased
  <2>3. DeadlineBounded BY DEF Init, DeadlineBounded, EmptySession
  <2> QED BY <2>1, <2>2, <2>3 DEF DeadlineInv
<1>2. DeadlineInv /\ [Next]_vars => DeadlineInv' BY DeadlineStep
<1>3. DeadlineInv => DeadlineBounded BY DEF DeadlineInv
<1> QED BY <1>1, <1>2, <1>3, PTL DEF Spec
------------------------------------------------------------------------------
(* At most one create per idempotency key, whatever crashes, replies lost or  *)
(* late and refusals interrupt the request and its retries.                   *)

\* Every create sent is on record as an attempted start.
Recorded ==
  \A k \in StartKey :
    \/ creates[k] = 0
    \/ creates[k] = 1 /\ AttemptRecorded(k) /\ ops[k].kind = "start"

Points == {"start_inspect", "start_plan", "stop_pending", "stop_find", "stop_request",
           "extend_commit", "mark", "send"}

Creating(p) == pc[p] \in {"mark", "send"} /\ Verb(p) = "create"

\* What a request knows of the operations at the points that lead to a create, or
\* that write an operation.
Standing(p) ==
  /\ pc[p] \in {"start_inspect", "start_plan"} =>
       /\ loc[p].kind = "start" /\ ~Refused(loc[p].key, "start")
       /\ loc[p].attempted = AttemptRecorded(loc[p].key)
  /\ pc[p] = "start_plan" /\ loc[p].pod = Nil => ~loc[p].attempted
  /\ pc[p] = "stop_pending" => ~Refused(loc[p].key, loc[p].kind)
  /\ pc[p] \in {"stop_pending", "stop_find", "stop_request"} => loc[p].kind # "start"
  /\ pc[p] = "extend_commit" => ~Refused(loc[p].key, "extend")
  /\ Creating(p) =>
       /\ loc[p].key \in DOMAIN ops /\ ops[loc[p].key].kind = "start"
       /\ loc[p].key \in StartKey => creates[loc[p].key] = 0
  /\ Creating(p) /\ pc[p] = "send" => AttemptRecorded(loc[p].key)

CreateInv == IInv /\ Unexpired /\ Recorded /\ \A p \in Proc : Standing(p)
------------------------------------------------------------------------------
\* The kinds and marks of the operations, and the creates, stay.
OpsKept ==
  /\ creates' = creates
  /\ DOMAIN ops' = DOMAIN ops
  /\ \A i \in DOMAIN ops : ops'[i].kind = ops[i].kind /\ ops'[i].attempted = ops[i].attempted

Writes(p) == StartPlan(p) \/ StopPending(p) \/ ExtendCommit(p)
             \/ MarkMutationAttempted(p) \/ Send(p)

\* A change of status is not one of kind or mark.
LEMMA StatusOnly ==
  ASSUME TypeOK, creates' = creates, NEW k, NEW s, ops' = [ops EXCEPT ![k].status = s]
  PROVE  OpsKept
  BY DEF TypeOK, Op, OpsKept

\* Five actions write operations or send creates, the others change at most a status.
LEMMA OpsStep ==
  ASSUME TypeOK, [Next]_vars, \A p \in Proc : ~Writes(p)
  PROVE  OpsKept
<1>1. CASE UNCHANGED <<ops, creates>> BY <1>1 DEF OpsKept
<1>2. ASSUME NEW p \in Proc, StartSteps(p) PROVE OpsKept
  <2>1. CASE StartCommit(p) BY <2>1, StatusOnly DEF StartCommit, cloud
  <2> QED BY <1>1, <1>2, <2>1 DEF StartSteps, StartRefused, StartInspect, Writes, cloud
<1>3. ASSUME NEW p \in Proc, StopSteps(p) PROVE OpsKept
  <2>1. CASE StopConfirm(p) BY <2>1, StatusOnly DEF StopConfirm, cloud
  <2>2. CASE StopCommit(p) BY <2>2, StatusOnly DEF StopCommit, cloud
  <2> QED BY <1>1, <1>3, <2>1, <2>2
          DEF StopSteps, StopRefused, StopFind, StopRequest, Writes, cloud
<1>4. ASSUME NEW p \in Proc, CallSteps(p) PROVE OpsKept
  <2>1. CASE RecordFailure(p) BY <2>1, StatusOnly DEF RecordFailure, cloud
  <2> QED BY <1>1, <1>4, <2>1 DEF CallSteps, CallFails, Writes, cloud
<1>5. ASSUME NEW p \in Proc, WatchdogSteps(p) PROVE OpsKept
  BY <1>1, <1>5 DEF WatchdogSteps, DrainClaim, DrainCancel, DrainMark, DrainDone,
                    DrainRead, SyncRead, SyncCommit, SyncDecide,
                    WatchdogStop, store, cloud
<1>6. ASSUME NEW p \in Proc, ReconcileCommit(p) PROVE OpsKept
  BY <1>6 DEF ReconcileCommit, TypeOK, Op, OpsKept, cloud
<1>7. ASSUME NEW p \in Proc, Request(p) \/ JobQueue(p) \/ ReleaseLease(p) \/ Crash(p)
      PROVE  UNCHANGED <<ops, creates>>
  BY <1>7 DEF Request, StartCall, StopCall, ExtendCall, ReconcileRead, WatchdogRead,
              ObserveCall, JobAdmit, JobQueue, ReleaseLease, Crash, store, cloud
<1>8. CASE Cloud BY <1>1, <1>8 DEF Cloud, CloudApply, CloudAccept, CloudDrop, store, cloud
<1>9. CASE (\E q \in Pod : PodBoots(q) \/ PodFails(q)) \/ JobEnds \/ Tick \/ UNCHANGED vars
  BY <1>1, <1>9 DEF PodBoots, PodFails, JobEnds, Tick, vars, store, cloud
<1> QED BY <1>1, <1>2, <1>3, <1>4, <1>5, <1>6, <1>7, <1>8, <1>9
        DEF Next, Progress, Writes
------------------------------------------------------------------------------
\* A step of one request leaves the others where they are, and itself nowhere near.
LEMMA Away ==
  ASSUME TypeOK, NEW p \in Proc, pc'[p] \in Points,
         NEW q \in Proc, NEW l, l \notin Points, Goto(q, l),
         NEW r, loc' = loc \/ Remember(q, r)
  PROVE  pc'[p] = pc[p] /\ loc'[p] = loc[p]
  BY DEF Goto, Remember, TypeOK

\* A step of one request leaves the others where they are.
LEMMA Others ==
  ASSUME TypeOK, NEW p \in Proc, NEW q \in Proc, q # p, NEW l, Goto(q, l),
         NEW r, loc' = loc \/ Remember(q, r)
  PROVE  pc'[p] = pc[p] /\ loc'[p] = loc[p]
  BY DEF Goto, Remember, TypeOK

Enters(p) == \/ \E k \in StartKey : StartCall(p, k)
             \/ \E k \in StopKey : StopCall(p, k)
             \/ \E k \in ExtendKey : ExtendCall(p, k)
             \/ WatchdogStop(p)

Advances(p) == StartInspect(p) \/ StartPlan(p) \/ StopPending(p) \/ StopFind(p)
               \/ StopRequest(p) \/ MarkMutationAttempted(p)

\* How a request comes to one of the points.
LEMMA Arrival ==
  ASSUME TypeOK, [Next]_vars, NEW p \in Proc, pc'[p] \in Points
  PROVE  (pc'[p] = pc[p] /\ loc'[p] = loc[p]) \/ Enters(p) \/ Advances(p)
<1> DEFINE Stays == pc'[p] = pc[p] /\ loc'[p] = loc[p]
<1>1. ASSUME NEW q \in Proc, Enters(q), q # p PROVE Stays
  BY <1>1, Others DEF Enters, StartCall, StopCall, ExtendCall, WatchdogStop, Enter, Return
<1>2. ASSUME NEW q \in Proc, Advances(q), q # p PROVE Stays
  BY <1>2, Others DEF Advances, StartInspect, StartPlan, StopPending, StopFind, StopRequest,
                      MarkMutationAttempted
<1>3. ASSUME NEW q \in Proc, ReconcileRead(q) \/ ObserveCall(q) \/ JobAdmit(q) PROVE Stays
  BY <1>3, Away DEF ReconcileRead, ObserveCall, JobAdmit, Points
<1>4. ASSUME NEW q \in Proc, WatchdogRead(q) PROVE Stays
  <2>1. WatchdogDecision \notin Points BY DEF WatchdogDecision, Points
  <2> QED BY <1>4, <2>1, Away DEF WatchdogRead
<1>5. ASSUME NEW q \in Proc, StartRefused(q) \/ StartCommit(q) PROVE Stays
  BY <1>5, Away DEF StartRefused, StartCommit, Points
<1>6. ASSUME NEW q \in Proc, StopRefused(q) \/ StopConfirm(q) \/ StopCommit(q) PROVE Stays
  BY <1>6, Away DEF StopRefused, StopConfirm, StopCommit, Points
<1>7. ASSUME NEW q \in Proc, Send(q) \/ CallFails(q) \/ RecordFailure(q) PROVE Stays
  BY <1>7, Away DEF Send, CallFails, RecordFailure, Points
<1>8. ASSUME NEW q \in Proc, WatchdogSteps(q), ~WatchdogStop(q) PROVE Stays
  <2>1. CASE DrainRead(q) BY <2>1, Away DEF DrainRead, Return, Points
  <2>2. CASE DrainClaim(q) \/ DrainDone(q)
    BY <2>2, Away DEF DrainClaim, DrainDone, Points
  <2>3. CASE DrainCancel(q) \/ SyncRead(q) BY <2>3, Away DEF DrainCancel, SyncRead, Points
  <2>4. CASE DrainMark(q) BY <2>4, Away DEF DrainMark, Points
  <2>5. CASE SyncCommit(q) \/ SyncDecide(q)
    BY <2>5, Away DEF SyncCommit, SyncDecide, Return, Points
  <2> QED BY <1>8, <2>1, <2>2, <2>3, <2>4, <2>5 DEF WatchdogSteps
<1>9. ASSUME NEW q \in Proc,
             ExtendCommit(q) \/ ReconcileCommit(q) \/ JobQueue(q) \/ ReleaseLease(q) \/ Crash(q)
      PROVE  Stays
  BY <1>9, Away DEF ExtendCommit, ReconcileCommit, JobQueue, ReleaseLease, Crash, Return, Points
<1>10. CASE Cloud
  <2>1. PICK c \in calls : CloudApply(c) \/ CloudAccept(c) \/ CloudDrop(c) BY <1>10 DEF Cloud
  <2>2. c.proc \in Proc BY DEF TypeOK, Call
  <2>3. ASSUME NEW q, NEW s, Reply(c.proc, q, s) PROVE Stays
    BY <2>2, <2>3, Away DEF Reply, AfterReply, Points
  <2> QED BY <2>1, <2>3 DEF CloudApply, CloudAccept, CloudDrop
<1>11. CASE (\E q \in Pod : PodBoots(q) \/ PodFails(q)) \/ JobEnds \/ Tick \/ UNCHANGED vars
  BY <1>11 DEF PodBoots, PodFails, JobEnds, Tick, vars
<1> HIDE DEF Stays
<1>12. ASSUME NEW q \in Proc, Request(q) PROVE Stays \/ Enters(p)
  BY <1>12, <1>1, <1>3, <1>4 DEF Request, Enters
<1>13. ASSUME NEW q \in Proc, Progress(q) PROVE Stays \/ Enters(p) \/ Advances(p)
  BY <1>13, <1>1, <1>2, <1>5, <1>6, <1>7, <1>8, <1>9
  DEF Progress, StartSteps, StopSteps, CallSteps, Enters, Advances
<1> QED BY <1>9, <1>10, <1>11, <1>12, <1>13 DEF Next, Stays
------------------------------------------------------------------------------
\* Nothing changes for a request that stays.
LEMMA StandingKept ==
  ASSUME NEW p \in Proc, Standing(p), OpsKept, pc'[p] = pc[p], loc'[p] = loc[p]
  PROVE  Standing(p)'
  BY DEF Standing, OpsKept, Creating, Verb, Refused, AttemptRecorded

\* A request away from the points need not know anything.
LEMMA StandingAway ==
  ASSUME NEW p \in Proc, pc'[p] \notin Points PROVE Standing(p)'
  BY DEF Standing, Creating, Points

\* What a request that was let in knows of its key.
LEMMA EnterKnows ==
  ASSUME TypeOK, NEW p \in Proc, NEW key, NEW label, NEW f \in Local,
         Enter(p, key, label, f), pc'[p] \in Points
  PROVE  /\ pc'[p] = label /\ loc'[p].key = key /\ loc'[p].kind = f.kind
         /\ loc'[p].attempted = AttemptRecorded(key) /\ ~Refused(key, f.kind)
<1> DEFINE r == [f EXCEPT !.key = key, !.expires = now + Lease,
                          !.attempted = AttemptRecorded(key)]
<1>1. r.key = key /\ r.kind = f.kind /\ r.attempted = AttemptRecorded(key) BY DEF Local
<1>2. Remember(p, r) BY DEF Enter
<1> HIDE DEF r
<1>3. loc'[p] = r BY <1>2 DEF Remember, TypeOK
<1>4. pc'[p] = label /\ ~Refused(key, f.kind) BY DEF Enter, Goto, TypeOK, Points
<1> QED BY <1>1, <1>3, <1>4

\* A request let into the lease at one of the points knows what the point requires.
LEMMA EntersStanding ==
  ASSUME TypeOK, NEW p \in Proc, Enters(p), pc'[p] \in Points PROVE Standing(p)'
<1>1. ASSUME NEW k \in StartKey, StartCall(p, k) PROVE Standing(p)'
  <2> DEFINE f == [EmptyLoc EXCEPT !.kind = "start"]
  <2>1. f \in Local /\ f.kind = "start" BY EmptyLocType DEF Local, Kinds
  <2>2. Enter(p, k, "start_inspect", f) /\ ops' = ops BY <1>1 DEF StartCall
  <2> HIDE DEF f
  <2> QED BY <2>1, <2>2, EnterKnows DEF Standing, Creating, Refused, AttemptRecorded
<1>2. ASSUME NEW k \in StopKey, StopCall(p, k) PROVE Standing(p)'
  <2> DEFINE f == [EmptyLoc EXCEPT !.kind = "stop", !.reason = "manual"]
  <2>1. f \in Local /\ f.kind = "stop" BY EmptyLocType DEF Local, Kinds, Reasons
  <2>2. Enter(p, k, "stop_pending", f) /\ ops' = ops BY <1>2 DEF StopCall
  <2> HIDE DEF f
  <2> QED BY <2>1, <2>2, EnterKnows DEF Standing, Creating, Refused
<1>3. ASSUME NEW k \in ExtendKey, ExtendCall(p, k) PROVE Standing(p)'
  <2> DEFINE deadline == session.hardDeadline + Extension
             f == [EmptyLoc EXCEPT !.kind = "extend", !.time = deadline]
             label == IF Extendable(deadline) THEN "extend_commit" ELSE "release"
  <2>1. deadline \in Time BY TimeAssumption DEF TypeOK, Session, Time
  <2>2. label \in {"extend_commit", "release"} /\ "release" \notin Points BY DEF Points
  <2>3. Enter(p, k, label, f) /\ ops' = ops BY <1>3 DEF ExtendCall
  <2> HIDE DEF deadline
  <2>4. f \in Local /\ f.kind = "extend" BY <2>1, EmptyLocType DEF Local, Kinds
  <2> HIDE DEF f, label
  <2> QED BY <2>2, <2>3, <2>4, EnterKnows DEF Standing, Creating, Refused
<1>4. CASE WatchdogStop(p)
  <2> DEFINE f == [EmptyLoc EXCEPT !.kind = "watchdog-stop", !.reason = loc[p].reason,
                                   !.at = loc[p].at, !.time = loc[p].time]
  <2>1. f \in Local /\ f.kind = "watchdog-stop" BY EmptyLocType DEF TypeOK, Local, Kinds
  <2>2. ops' = ops BY <1>4 DEF WatchdogStop
  <2>3. Enter(p, loc[p].key, "stop_pending", f)
    BY <1>4 DEF WatchdogStop, Return, Goto, TypeOK, Points
  <2> HIDE DEF f
  <2> QED BY <2>1, <2>2, <2>3, EnterKnows DEF Standing, Creating, Refused
<1> QED BY <1>1, <1>2, <1>3, <1>4 DEF Enters

\* One step further, a request knows what it has to.
LEMMA AdvancesStanding ==
  ASSUME TypeOK, Memory, Recorded, NEW p \in Proc, Standing(p), Advances(p)
  PROVE  Standing(p)'
<1> loc[p] \in Local /\ pc \in [Proc -> Leased \cup Unleased] BY DEF TypeOK
<1>1. CASE StartInspect(p)
  <2> DEFINE r == [loc[p] EXCEPT !.pod = The(Managed), !.seen = StatusOf(The(Managed))]
  <2>1. /\ r.key = loc[p].key /\ r.kind = loc[p].kind /\ r.pod = The(Managed)
        /\ r.attempted = loc[p].attempted
    BY DEF Local
  <2>2. Remember(p, r) /\ ops' = ops /\ pc'[p] = "start_plan" /\ pc[p] = "start_inspect"
    BY <1>1 DEF StartInspect, Goto
  <2> HIDE DEF r
  <2>3. loc'[p] = r BY <2>2 DEF Remember, TypeOK
  <2>4. The(Managed) = Nil => ~loc[p].attempted
    BY <1>1, PodAssumption DEF StartInspect, The, Managed
  <2> QED BY <2>1, <2>2, <2>3, <2>4 DEF Standing, Creating, Refused, AttemptRecorded
<1>2. CASE StartPlan(p)
  <2>1. /\ pc[p] = "start_plan" /\ loc' = loc /\ creates' = creates
        /\ pc'[p] \in {"mark", "start_commit"}
    BY <1>2 DEF StartPlan, Goto, cloud
  <2>2. loc[p].key \in DOMAIN ops' /\ ops'[loc[p].key].kind = "start"
    BY <1>2 DEF StartPlan, Upsert
  <2>3. loc[p].pod = Nil /\ loc[p].key \in StartKey => creates[loc[p].key] = 0
    BY <2>1 DEF Standing, Recorded
  <2> QED BY <2>1, <2>2, <2>3 DEF Standing, Creating, Verb
<1>3. CASE StopPending(p)
  BY <1>3 DEF StopPending, Goto, Standing, Creating
<1>4. CASE StopFind(p)
  <2> DEFINE found == Candidates(session.podId)
             r == [loc[p] EXCEPT !.pod = The(found), !.seen = StatusOf(The(found))]
  <2>1. r.kind = loc[p].kind BY DEF Local
  <2>2. /\ Remember(p, r) /\ pc[p] = "stop_find"
        /\ pc'[p] \in {"stop_confirm", "stop_request"}
    BY <1>4 DEF StopFind, Goto
  <2> HIDE DEF r
  <2>3. loc'[p] = r BY <2>2 DEF Remember, TypeOK
  <2> QED BY <2>1, <2>2, <2>3 DEF Standing, Creating
<1>5. CASE StopRequest(p)
  BY <1>5 DEF StopRequest, Goto, Standing, Creating, Verb
<1>6. CASE MarkMutationAttempted(p)
  <2>1. /\ pc[p] = "mark" /\ pc'[p] = "send" /\ loc' = loc /\ creates' = creates
        /\ ops' = [ops EXCEPT ![loc[p].key].attempted = TRUE]
    BY <1>6 DEF MarkMutationAttempted, Goto, cloud
  <2>2. ASSUME loc[p].key \in DOMAIN ops
        PROVE  /\ loc[p].key \in DOMAIN ops' /\ ops'[loc[p].key].attempted
               /\ ops'[loc[p].key].kind = ops[loc[p].key].kind
    BY <2>1, <2>2 DEF TypeOK, Op
  <2> QED BY <2>1, <2>2 DEF Standing, Creating, Verb, AttemptRecorded
<1> QED BY <1>1, <1>2, <1>3, <1>4, <1>5, <1>6 DEF Advances
------------------------------------------------------------------------------
\* Writing an operation, or sending a create, keeps the record.
LEMMA WritesRecorded ==
  ASSUME TypeOK, Memory, Recorded, NEW p \in Proc, Standing(p), Writes(p)
  PROVE  Recorded'
<1> loc[p] \in Local /\ \A i \in DOMAIN ops : ops[i] \in Op BY DEF TypeOK
<1>1. CASE StartPlan(p)
  BY <1>1 DEF StartPlan, Upsert, Standing, Recorded, AttemptRecorded, cloud
<1>2. CASE StopPending(p)
  BY <1>2 DEF StopPending, Upsert, Standing, Recorded, Refused, AttemptRecorded, cloud
<1>3. CASE ExtendCommit(p)
  BY <1>3 DEF ExtendCommit, Upsert, Standing, Recorded, Refused, AttemptRecorded, cloud
<1>4. CASE MarkMutationAttempted(p)
  BY <1>4 DEF MarkMutationAttempted, Recorded, AttemptRecorded, Op, cloud
<1>5. CASE Send(p)
  <2>1. ops' = ops /\ creates \in [StartKey -> Nat] BY <1>5 DEF Send, TypeOK
  <2>2. CASE Verb(p) # "create" BY <1>5, <2>1, <2>2 DEF Send, Recorded, AttemptRecorded
  <2>3. CASE Verb(p) = "create"
    <3>1. creates' = [creates EXCEPT ![loc[p].key] = @ + 1] BY <1>5, <2>3 DEF Send
    <3>2. /\ ops[loc[p].key].kind = "start" /\ AttemptRecorded(loc[p].key)
          /\ loc[p].key \in StartKey => creates[loc[p].key] = 0
      BY <1>5, <2>3 DEF Send, Standing, Creating
    <3> QED BY <2>1, <3>1, <3>2 DEF Recorded, AttemptRecorded
  <2> QED BY <2>2, <2>3
<1> QED BY <1>1, <1>2, <1>3, <1>4, <1>5 DEF Writes

\* Every step keeps one create per key.
LEMMA CreateStep ==
  ASSUME ~Fault("overrun"), CreateInv, [Next]_vars PROVE CreateInv'
<1> TypeOK /\ Memory /\ LeaseHeld /\ Unexpired /\ Recorded /\ \A p \in Proc : Standing(p)
  BY DEF CreateInv, IInv
<1>1. IInv' BY TypeStep, LeaseStep DEF IInv
<1>2. Unexpired' BY UnexpiredStep
<1>3. CASE \A p \in Proc : ~Writes(p)
  <2>1. OpsKept BY <1>3, OpsStep
  <2>2. Recorded'
    BY <2>1 DEF OpsKept, Recorded, AttemptRecorded
  <2>3. ASSUME NEW p \in Proc PROVE Standing(p)'
    <3>1. CASE pc'[p] \notin Points BY <3>1, StandingAway
    <3>2. CASE pc'[p] \in Points
      BY <2>1, <3>2, Arrival, StandingKept, EntersStanding, AdvancesStanding
    <3> QED BY <3>1, <3>2
  <2> QED BY <1>1, <1>2, <2>2, <2>3 DEF CreateInv
<1>4. ASSUME NEW p \in Proc, Writes(p) PROVE CreateInv'
  <2>1. Recorded' BY <1>4, WritesRecorded
  <2>2. InLease(p)
    BY <1>4 DEF Writes, StartPlan, StopPending, ExtendCommit, MarkMutationAttempted, Send,
                InLease, Leased
  <2>3. ASSUME NEW q \in Proc, q # p PROVE Standing(q)'
    <3>1. ~InLease(q) BY <2>2, <2>3, OneInside
    <3>2. pc'[q] = pc[q]
      BY <1>4, <2>3 DEF Writes, StartPlan, StopPending, ExtendCommit, MarkMutationAttempted,
                        Send, Goto, TypeOK
    <3>3. pc'[q] \notin Points BY <3>1, <3>2 DEF InLease, Leased, Points
    <3> QED BY <3>3, StandingAway
  <2>4. Standing(p)'
    <3>1. CASE Advances(p) BY <3>1, AdvancesStanding
    <3>2. CASE ~Advances(p)
      <4>1. pc'[p] \notin Points
        BY <1>4, <3>2 DEF Writes, Advances, ExtendCommit, Send, Goto, TypeOK, Points
      <4> QED BY <4>1, StandingAway
    <3> QED BY <3>1, <3>2
  <2> QED BY <1>1, <1>2, <2>1, <2>3, <2>4 DEF CreateInv
<1> QED BY <1>3, <1>4

\* No create has been sent at first.
LEMMA CreateInit == Init => CreateInv
<1> SUFFICES ASSUME Init PROVE CreateInv
  OBVIOUS
<1>1. IInv BY TypeInit DEF IInv, Init, LeaseHeld, InLease, Leased
<1>2. Unexpired BY DEF Init, Unexpired, InLease, Leased
<1>3. Recorded BY DEF Init, Recorded
<1>4. \A p \in Proc : Standing(p) BY DEF Init, Standing, Creating
<1> QED BY <1>1, <1>2, <1>3, <1>4 DEF CreateInv

\* Retrying start with the same idempotency key never sends RunPod a second create,
\* whatever crashes, refusals, lost or late replies come in between, provided no
\* operation outlives its lease.
THEOREM OneCreatePerKey == ASSUME ~Fault("overrun") PROVE Spec => []CreateOnce
<1>1. CreateInv /\ [Next]_vars => CreateInv' BY CreateStep
<1>2. CreateInv => CreateOnce BY DEF CreateInv, Recorded, CreateOnce
<1> QED BY <1>1, <1>2, CreateInit, PTL DEF Spec
==============================================================================
