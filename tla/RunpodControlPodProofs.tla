------------------------ MODULE RunpodControlPodProofs ------------------------
(* What start and stop do to the Pods: never two of them, none up without a   *)
(* trace of it, no stop sent again before its retry is due, and none for      *)
(* idleness while the workload is busy.                                       *)
EXTENDS RunpodControlProofs

\* The requests that bring a Pod up, under way.
Exchanges == {c \in calls : c.verb # "stop"}

\* Whoever sent one still has the lease, and waits for the answer unless it died.
ExchangeHeld ==
  \A c \in Exchanges :
    /\ lease.owner = c.proc /\ lease.expiresAt > now
    /\ InLease(c.proc) => AwaitsReply(c.proc, c)
    /\ c.verb = "create" => Managed = {}
    /\ \A d \in Exchanges : c = d

\* The key of a request under way is on record, with its kind.
CallsKnown ==
  \A c \in calls : c.key \in DOMAIN ops /\ (c.verb = "stop" <=> ops[c.key].kind # "start")

KeyedPoints == {"mark", "send", "wait", "start_commit", "stop_find", "stop_request",
                "stop_confirm", "stop_commit", "fail"}

\* So is the key of an operation from its first write on.
Keyed(p) ==
  /\ pc[p] = "start_commit" => loc[p].kind = "start"
  /\ pc[p] \in {"stop_confirm", "stop_commit"} => loc[p].kind # "start"
  /\ pc[p] \in KeyedPoints => loc[p].key \in DOMAIN ops /\ ops[loc[p].key].kind = loc[p].kind

\* A start that found no Pod is right until it has sent its create.
NoPodYet(p) ==
  (pc[p] = "start_plan" /\ loc[p].pod = Nil) \/ Creating(p) => Managed = {}

PodInv == /\ CreateInv /\ ExchangeHeld /\ CallsKnown /\ OnePod
          /\ \A p \in Proc : Keyed(p) /\ NoPodYet(p)
------------------------------------------------------------------------------
(* Who moves, and what it touches. *)

Steps(p) == StartSteps(p) \/ StopSteps(p) \/ CallSteps(p) \/ ExtendCommit(p)
Stays(p) == pc'[p] = pc[p] /\ loc'[p] = loc[p]
Answers(c) == CloudApply(c) \/ CloudAccept(c)
Answered(p) == \E c \in calls : AwaitsReply(p, c) /\ Answers(c)

Aside(p) == ReconcileRead(p) \/ ObserveCall(p) \/ JobAdmit(p) \/ WatchdogRead(p)
            \/ WatchdogSteps(p) \/ ReconcileCommit(p) \/ JobQueue(p) \/ ReleaseLease(p)
            \/ Crash(p)

\* A request moves only by a step of its own, or by an answer to it.
LEMMA Mover ==
  ASSUME TypeOK, [Next]_vars, NEW p \in Proc
  PROVE  Stays(p) \/ Enters(p) \/ Steps(p) \/ Answered(p) \/ Aside(p)
<1> DEFINE Fine == Stays(p) \/ Enters(p) \/ Steps(p) \/ Answered(p) \/ Aside(p)
<1>1. ASSUME NEW q \in Proc, NEW l, Goto(q, l), NEW r, loc' = loc \/ Remember(q, r), q # p
      PROVE  Stays(p)
  BY <1>1, Others DEF Stays
<1>2. ASSUME NEW q \in Proc, Enters(q) PROVE Fine
  BY <1>1, <1>2 DEF Enters, StartCall, StopCall, ExtendCall, WatchdogStop, Enter, Return
<1>3. ASSUME NEW q \in Proc, Steps(q) PROVE Fine
  <2>1. CASE StartSteps(q)
    BY <1>1, <1>3, <2>1 DEF StartSteps, StartRefused, StartInspect, StartPlan, StartCommit
  <2>2. CASE StopSteps(q)
    BY <1>1, <1>3, <2>2 DEF StopSteps, StopPending, StopRefused, StopFind, StopConfirm,
                            StopRequest, StopCommit
  <2>3. CASE CallSteps(q)
    BY <1>1, <1>3, <2>3 DEF CallSteps, MarkMutationAttempted, Send, CallFails, RecordFailure
  <2>4. CASE ExtendCommit(q) BY <1>1, <1>3, <2>4 DEF ExtendCommit
  <2> QED BY <1>3, <2>1, <2>2, <2>3, <2>4 DEF Steps
<1>4. ASSUME NEW q \in Proc, Aside(q) PROVE Fine
  <2> SUFFICES ASSUME q # p PROVE Stays(p)
    BY <1>4
  <2>1. CASE ReconcileRead(q) BY <1>1, <2>1 DEF ReconcileRead
  <2>2. CASE ObserveCall(q) BY <1>1, <2>2 DEF ObserveCall
  <2>3. CASE JobAdmit(q) BY <1>1, <2>3 DEF JobAdmit
  <2>4. CASE WatchdogRead(q) BY <1>1, <2>4 DEF WatchdogRead
  <2>5. CASE WatchdogSteps(q)
    <3>1. CASE DrainRead(q) BY <1>1, <3>1 DEF DrainRead, Return
    <3>2. CASE DrainClaim(q) \/ DrainDone(q) BY <1>1, <3>2 DEF DrainClaim, DrainDone
    <3>3. CASE DrainCancel(q) BY <1>1, <3>3 DEF DrainCancel
    <3>4. CASE DrainMark(q) BY <1>1, <3>4 DEF DrainMark
    <3>5. CASE SyncRead(q) BY <1>1, <3>5 DEF SyncRead
    <3>6. CASE SyncCommit(q) \/ SyncDecide(q)
      BY <1>1, <3>6 DEF SyncCommit, SyncDecide, Return
    <3>7. CASE WatchdogStop(q) BY <1>1, <3>7 DEF WatchdogStop, Enter, Return
    <3> QED BY <2>5, <3>1, <3>2, <3>3, <3>4, <3>5, <3>6, <3>7 DEF WatchdogSteps
  <2>6. CASE ReconcileCommit(q) \/ JobQueue(q) \/ ReleaseLease(q) \/ Crash(q)
    BY <1>1, <2>6 DEF ReconcileCommit, JobQueue, ReleaseLease, Crash, Return
  <2> QED BY <1>4, <2>1, <2>2, <2>3, <2>4, <2>5, <2>6 DEF Aside
<1>5. CASE Cloud
  <2>1. PICK c \in calls : CloudApply(c) \/ CloudAccept(c) \/ CloudDrop(c) BY <1>5 DEF Cloud
  <2>2. c.proc \in Proc BY DEF TypeOK, Call
  <2>3. CASE UNCHANGED <<pc, loc>> BY <2>3 DEF Stays
  <2>4. ASSUME NEW q, NEW s, AwaitsReply(c.proc, c), Reply(c.proc, q, s), Answers(c) PROVE Fine
    BY <1>1, <2>2, <2>4 DEF Reply, Answered
  <2> QED BY <2>1, <2>3, <2>4 DEF CloudApply, CloudAccept, CloudDrop, Answers
<1>6. CASE (\E q \in Pod : PodBoots(q) \/ PodFails(q)) \/ JobEnds \/ Tick \/ UNCHANGED vars
  BY <1>6 DEF PodBoots, PodFails, JobEnds, Tick, vars, Stays
<1> HIDE DEF Fine
<1>7. ASSUME NEW q \in Proc, Request(q) PROVE Fine
  BY <1>2, <1>4, <1>7 DEF Request, Enters, Aside
<1>8. ASSUME NEW q \in Proc, Progress(q) PROVE Fine
  BY <1>3, <1>4, <1>8 DEF Progress, Steps, Aside
<1>9. ASSUME NEW q \in Proc, Crash(q) PROVE Fine BY <1>4, <1>9 DEF Aside
<1> QED BY <1>5, <1>6, <1>7, <1>8, <1>9 DEF Next, Fine

\* What is not an operation goes on outside the lease, and does not reconcile unless
\* it began to.
LEMMA AsideGoes ==
  ASSUME TypeOK, NEW p \in Proc, Aside(p), ~WatchdogStop(p)
  PROVE  /\ pc'[p] \notin Leased
         /\ ~ReconcileRead(p) => pc'[p] # "reconcile_commit"
<1> DEFINE Fine == /\ pc'[p] \notin Leased
                   /\ ~ReconcileRead(p) => pc'[p] # "reconcile_commit"
<1> SUFFICES Fine
  OBVIOUS
<1>1. ASSUME NEW l, Goto(p, l), l \in Unleased, l # "reconcile_commit" PROVE Fine
  BY <1>1 DEF Goto, TypeOK, Leased, Unleased
<1>2. CASE ReconcileRead(p) BY <1>2 DEF ReconcileRead, Goto, TypeOK, Leased
<1> HIDE DEF Fine
<1>3. CASE ObserveCall(p) BY <1>1, <1>3 DEF ObserveCall, Unleased
<1>4. CASE JobAdmit(p) BY <1>1, <1>4 DEF JobAdmit, Unleased
<1>5. CASE WatchdogRead(p)
  <2>1. WatchdogDecision \in {"idle", "watchdog_stop", "drain_claim", "sync_read"}
    BY DEF WatchdogDecision
  <2> QED BY <1>1, <1>5, <2>1 DEF WatchdogRead, Unleased
<1>6. CASE WatchdogSteps(p)
  <2>1. CASE DrainRead(p) BY <1>1, <2>1 DEF DrainRead, Return, Unleased
  <2>2. CASE DrainClaim(p) \/ DrainDone(p)
    BY <1>1, <2>2 DEF DrainClaim, DrainDone, Unleased
  <2>3. CASE DrainCancel(p) BY <1>1, <2>3 DEF DrainCancel, Unleased
  <2>4. CASE DrainMark(p) BY <1>1, <2>4 DEF DrainMark, Unleased
  <2>5. CASE SyncRead(p) BY <1>1, <2>5 DEF SyncRead, Unleased
  <2>6. CASE SyncCommit(p) \/ SyncDecide(p)
    BY <1>1, <2>6 DEF SyncCommit, SyncDecide, Return, Unleased
  <2> QED BY <1>6, <2>1, <2>2, <2>3, <2>4, <2>5, <2>6 DEF WatchdogSteps
<1>7. CASE ReconcileCommit(p) \/ JobQueue(p) \/ ReleaseLease(p) \/ Crash(p)
  BY <1>1, <1>7 DEF ReconcileCommit, JobQueue, ReleaseLease, Crash, Return, Unleased
<1> QED BY <1>2, <1>3, <1>4, <1>5, <1>6, <1>7 DEF Aside

\* How a request comes to be where it is, if that is inside the lease.
LEMMA Actor ==
  ASSUME TypeOK, [Next]_vars, NEW p \in Proc
  PROVE  Stays(p) \/ Enters(p) \/ Steps(p) \/ Answered(p) \/ pc'[p] \notin Leased
  BY Mover, AsideGoes DEF Enters

\* Only RunPod touches the Pods, and what it holds of requests changes when it does
\* or when one is sent.
LEMMA CloudStep ==
  ASSUME TypeOK, [Next]_vars
  PROVE  \/ UNCHANGED <<pods, calls>>
         \/ \E p \in Proc : Send(p)
         \/ \E c \in calls : CloudApply(c) \/ CloudDrop(c)
         \/ \E q \in Pod : PodBoots(q) \/ PodFails(q)
<1>1. ASSUME NEW p \in Proc, Request(p) \/ ReconcileCommit(p) \/ JobQueue(p)
                             \/ ReleaseLease(p) \/ Crash(p) \/ ExtendCommit(p)
      PROVE  UNCHANGED <<pods, calls>>
  BY <1>1 DEF Request, StartCall, StopCall, ExtendCall, ReconcileRead, WatchdogRead,
              ObserveCall, JobAdmit, ReconcileCommit, JobQueue, ReleaseLease, Crash,
              ExtendCommit, cloud
<1>2. ASSUME NEW p \in Proc, StartSteps(p) \/ StopSteps(p) PROVE UNCHANGED <<pods, calls>>
  BY <1>2 DEF StartSteps, StartRefused, StartInspect, StartPlan, StartCommit, StopSteps,
              StopPending, StopRefused, StopFind, StopConfirm, StopRequest, StopCommit, cloud
<1>3. ASSUME NEW p \in Proc, CallSteps(p), ~Send(p) PROVE UNCHANGED <<pods, calls>>
  BY <1>3 DEF CallSteps, MarkMutationAttempted, CallFails, RecordFailure, cloud
<1>4. ASSUME NEW p \in Proc, WatchdogSteps(p) PROVE UNCHANGED <<pods, calls>>
  BY <1>4 DEF WatchdogSteps, DrainClaim, DrainCancel, DrainMark, DrainDone,
              DrainRead, SyncRead, SyncCommit, SyncDecide,
              WatchdogStop, cloud
<1>5. CASE JobEnds \/ Tick \/ UNCHANGED vars BY <1>5 DEF JobEnds, Tick, vars, cloud
<1>6. ASSUME NEW c \in calls, CloudAccept(c) PROVE UNCHANGED <<pods, calls>>
  BY <1>6 DEF CloudAccept, cloud
<1> QED BY <1>1, <1>2, <1>3, <1>4, <1>5, <1>6 DEF Next, Progress, Cloud

\* A lease that has not expired changes hands only when its operation releases it.
LEMMA LeaseStays ==
  ASSUME TypeOK, [Next]_vars
  PROVE  lease' = lease \/ LeaseFree \/ \E p \in Proc : pc[p] = "release"
<1>1. ASSUME NEW p \in Proc, Request(p) PROVE lease' = lease \/ LeaseFree
  BY <1>1 DEF Request, StartCall, StopCall, ExtendCall, Enter, Acquire, ReconcileRead,
              WatchdogRead, ObserveCall, JobAdmit, store
<1>2. ASSUME NEW p \in Proc, WatchdogSteps(p) PROVE lease' = lease \/ LeaseFree
  BY <1>2 DEF WatchdogSteps, DrainClaim, DrainCancel, DrainMark, DrainDone,
              DrainRead, SyncRead, SyncCommit, SyncDecide,
              WatchdogStop, Enter, Acquire, store
<1>3. ASSUME NEW p \in Proc, Steps(p) PROVE lease' = lease
  BY <1>3 DEF Steps, StartSteps, StartRefused, StartInspect, StartPlan, StartCommit, StopSteps,
              StopPending, StopRefused, StopFind, StopConfirm, StopRequest, StopCommit,
              CallSteps, MarkMutationAttempted, Send, CallFails, RecordFailure, ExtendCommit
<1>4. ASSUME NEW p \in Proc, ReconcileCommit(p) \/ JobQueue(p) \/ Crash(p) PROVE lease' = lease
  BY <1>4 DEF ReconcileCommit, JobQueue, Crash, store
<1>5. ASSUME NEW p \in Proc, ReleaseLease(p) PROVE pc[p] = "release"
  BY <1>5 DEF ReleaseLease
<1>6. CASE Cloud BY <1>6 DEF Cloud, CloudApply, CloudAccept, CloudDrop, store
<1>7. CASE (\E q \in Pod : PodBoots(q) \/ PodFails(q)) \/ JobEnds \/ Tick \/ UNCHANGED vars
  BY <1>7 DEF PodBoots, PodFails, JobEnds, Tick, vars, store
<1> QED BY <1>1, <1>2, <1>3, <1>4, <1>5, <1>6, <1>7 DEF Next, Progress, Steps
------------------------------------------------------------------------------
(* One Pod.                                                                   *)

\* An operation at work anywhere but in the exchange itself excludes one under way.
LEMMA NoExchange ==
  ASSUME LeaseHeld, Unexpired, ExchangeHeld, NEW p \in Proc, InLease(p), pc[p] # "wait"
  PROVE  Exchanges = {}
  BY DEF LeaseHeld, Unexpired, ExchangeHeld, AwaitsReply

\* So does the lease standing open.
LEMMA NoExchangeFree ==
  ASSUME TypeOK, ExchangeHeld, LeaseFree PROVE Exchanges = {}
<1> SUFFICES ASSUME NEW c \in Exchanges PROVE FALSE
  OBVIOUS
<1>1. c.proc \in Proc /\ lease.owner = c.proc /\ lease.expiresAt > now
  BY DEF ExchangeHeld, Exchanges, TypeOK, Call
<1>2. lease.expiresAt \in Int /\ now \in Int BY DEF TypeOK, Time
<1> QED BY <1>1, <1>2, ProcAssumption DEF LeaseFree

\* An operation that waits for an answer to a start waits for the exchange.
LEMMA AwaitedVerb ==
  ASSUME CallsKnown, NEW p \in Proc, Keyed(p), NEW c \in calls, AwaitsReply(p, c)
  PROVE  c \in Exchanges <=> loc[p].kind = "start"
  BY DEF CallsKnown, Keyed, KeyedPoints, AwaitsReply, Exchanges

\* No step takes an operation off the record, or changes its kind.
LEMMA KindsKept ==
  ASSUME CreateInv, [Next]_vars
  PROVE  \A i \in DOMAIN ops : i \in DOMAIN ops' /\ ops'[i].kind = ops[i].kind
<1> TypeOK /\ \A p \in Proc : Standing(p) BY DEF CreateInv, IInv
<1> \A i \in DOMAIN ops : ops[i] \in Op BY DEF TypeOK
<1>1. CASE \A p \in Proc : ~Writes(p) BY <1>1, OpsStep DEF OpsKept
<1>2. ASSUME NEW p \in Proc, StartPlan(p)
      PROVE  \A i \in DOMAIN ops : i \in DOMAIN ops' /\ ops'[i].kind = ops[i].kind
  BY <1>2 DEF StartPlan, Upsert, Standing, Refused
<1>3. ASSUME NEW p \in Proc, StopPending(p)
      PROVE  \A i \in DOMAIN ops : i \in DOMAIN ops' /\ ops'[i].kind = ops[i].kind
  BY <1>3 DEF StopPending, Upsert, Standing, Refused
<1>4. ASSUME NEW p \in Proc, ExtendCommit(p)
      PROVE  \A i \in DOMAIN ops : i \in DOMAIN ops' /\ ops'[i].kind = ops[i].kind
  BY <1>4 DEF ExtendCommit, Upsert, Standing, Refused
<1>5. ASSUME NEW p \in Proc, MarkMutationAttempted(p) \/ Send(p)
      PROVE  \A i \in DOMAIN ops : i \in DOMAIN ops' /\ ops'[i].kind = ops[i].kind
  BY <1>5 DEF MarkMutationAttempted, Send, Op
<1> QED BY <1>1, <1>2, <1>3, <1>4, <1>5 DEF Writes

\* No step but the arrival of a create gives the account another Pod.
LEMMA ManagedStep ==
  ASSUME TypeOK, [Next]_vars
  PROVE  \/ Managed' \subseteq Managed
         \/ \E c \in Exchanges : /\ CloudApply(c) /\ c.verb = "create"
                                 /\ \E q \in Pod : Managed' \subseteq Managed \cup {q}
<1>1. CASE UNCHANGED pods BY <1>1 DEF Managed
<1>2. ASSUME NEW q \in Pod, PodBoots(q) \/ PodFails(q) PROVE Managed' \subseteq Managed
  BY <1>2 DEF PodBoots, PodFails, Managed, TypeOK
<1>3. ASSUME NEW c \in calls, CloudApply(c), c.verb # "create" PROVE Managed' \subseteq Managed
  <2>1. c.verb \in {"resume", "stop"} BY <1>3 DEF TypeOK, Call
  <2> QED BY <1>3, <2>1 DEF CloudApply, Managed, TypeOK
<1>4. ASSUME NEW c \in calls, CloudApply(c), c.verb = "create"
      PROVE  \E q \in Pod : Managed' \subseteq Managed \cup {q}
  BY <1>4 DEF CloudApply, Managed, TypeOK
<1>5. \/ UNCHANGED pods
      \/ \E c \in calls : CloudApply(c)
      \/ \E q \in Pod : PodBoots(q) \/ PodFails(q)
  BY CloudStep DEF Send, CloudDrop
<1> QED BY <1>1, <1>2, <1>3, <1>4, <1>5 DEF Exchanges

\* What an operation remembers of its key follows it through its own steps.
LEMMA KeyedStep ==
  ASSUME PodInv, [Next]_vars, NEW p \in Proc PROVE Keyed(p)'
<1> TypeOK /\ CreateInv /\ Standing(p) /\ Keyed(p) /\ CallsKnown
  BY DEF PodInv, CreateInv, IInv
<1> loc[p] \in Local /\ pc \in [Proc -> Leased \cup Unleased] BY DEF TypeOK
<1>1. \A i \in DOMAIN ops : i \in DOMAIN ops' /\ ops'[i].kind = ops[i].kind BY KindsKept
<1>2. CASE Stays(p) BY <1>1, <1>2 DEF Stays, Keyed
<1>4. CASE Enters(p)
  <2>1. pc'[p] \in {"start_inspect", "stop_pending", "extend_commit", "release", "idle"}
    BY <1>4 DEF Enters, StartCall, StopCall, ExtendCall, WatchdogStop, Enter, Return, Goto
  <2> QED BY <2>1 DEF Keyed, KeyedPoints
<1>5. CASE StartSteps(p)
  <2>1. CASE StartRefused(p) \/ StartCommit(p)
    BY <2>1 DEF StartRefused, StartCommit, Goto, Keyed, KeyedPoints
  <2>2. CASE StartInspect(p)
    BY <2>2 DEF StartInspect, Goto, Keyed, KeyedPoints
  <2>3. CASE StartPlan(p)
    <3>1. pc[p] = "start_plan" /\ loc' = loc /\ pc'[p] \in {"mark", "start_commit"}
      BY <2>3 DEF StartPlan, Goto
    <3>2. loc[p].key \in DOMAIN ops' /\ ops'[loc[p].key].kind = "start"
      BY <2>3 DEF StartPlan, Upsert
    <3> QED BY <3>1, <3>2 DEF Standing, Keyed
  <2> QED BY <1>5, <2>1, <2>2, <2>3 DEF StartSteps
<1>6. CASE StopSteps(p)
  <2>1. CASE StopPending(p)
    <3>1. pc[p] = "stop_pending" /\ loc' = loc /\ pc'[p] = "stop_find"
      BY <2>1 DEF StopPending, Goto
    <3>2. loc[p].key \in DOMAIN ops' /\ ops'[loc[p].key].kind = loc[p].kind
      BY <2>1 DEF StopPending, Upsert
    <3> QED BY <3>1, <3>2 DEF Keyed
  <2>2. CASE StopFind(p)
    <3> DEFINE found == Candidates(session.podId)
               r == [loc[p] EXCEPT !.pod = The(found), !.seen = StatusOf(The(found))]
    <3>1. r.kind = loc[p].kind /\ r.key = loc[p].key BY DEF Local
    <3>2. /\ Remember(p, r) /\ pc[p] = "stop_find" /\ ops' = ops
          /\ pc'[p] \in {"stop_confirm", "stop_request"}
      BY <2>2 DEF StopFind, Goto
    <3> HIDE DEF r
    <3>3. loc'[p] = r BY <3>2 DEF Remember, TypeOK
    <3> QED BY <3>1, <3>2, <3>3 DEF Standing, Keyed, KeyedPoints
  <2>3. CASE StopRequest(p)
    BY <1>1, <2>3 DEF StopRequest, Goto, Keyed, KeyedPoints
  <2>4. CASE StopRefused(p)
    BY <1>1, <2>4 DEF StopRefused, Goto, Keyed, KeyedPoints
  <2>5. CASE StopConfirm(p) \/ StopCommit(p)
    BY <2>5 DEF StopConfirm, StopCommit, Goto, Keyed, KeyedPoints
  <2> QED BY <1>6, <2>1, <2>2, <2>3, <2>4, <2>5 DEF StopSteps
<1>7. CASE CallSteps(p)
  BY <1>1, <1>7 DEF CallSteps, MarkMutationAttempted, Send, CallFails, RecordFailure, Goto,
                    Keyed, KeyedPoints
<1>8. CASE ExtendCommit(p) BY <1>8 DEF ExtendCommit, Goto, Keyed, KeyedPoints
<1>9. CASE Answered(p)
  <2>1. PICK c \in calls : AwaitsReply(p, c) /\ Answers(c) BY <1>9 DEF Answered
  <2>2. CASE UNCHANGED <<pc, loc>> BY <1>2, <2>2 DEF Stays
  <2>3. ASSUME NEW q, NEW s, Reply(p, q, s) PROVE Keyed(p)'
    <3> DEFINE r == [loc[p] EXCEPT !.pod = q, !.seen = s]
    <3>1. r.kind = loc[p].kind /\ r.key = loc[p].key BY DEF Local
    <3>2. /\ Remember(p, r) /\ pc[p] = "wait" /\ pc'[p] = AfterReply(p)
      BY <2>1, <2>3 DEF Reply, Goto, AwaitsReply
    <3> HIDE DEF r
    <3>3. loc'[p] = r BY <3>2 DEF Remember, TypeOK
    <3> QED BY <1>1, <3>1, <3>2, <3>3 DEF AfterReply, Keyed, KeyedPoints
  <2>4. c.proc = p BY <2>1 DEF AwaitsReply
  <2> QED BY <2>1, <2>2, <2>3, <2>4 DEF Answers, CloudApply, CloudAccept
<1>10. CASE pc'[p] \notin Leased BY <1>10 DEF Keyed, KeyedPoints, Leased
<1> QED BY <1>2, <1>4, <1>5, <1>6, <1>7, <1>8, <1>9, <1>10, Actor DEF Steps

\* What a step leaves of the exchanges: none is new but one just sent.
LEMMA ExchangesStep ==
  ASSUME TypeOK, [Next]_vars
  PROVE  \/ Exchanges' \subseteq Exchanges
         \/ \E p \in Proc : /\ Send(p) /\ loc[p].kind = "start"
                            /\ \A c \in Exchanges' \ Exchanges :
                                 c.proc = p /\ c.key = loc[p].key /\ c.verb = Verb(p)
<1>1. CASE UNCHANGED <<pods, calls>> BY <1>1 DEF Exchanges
<1>2. ASSUME NEW c \in calls, CloudApply(c) \/ CloudDrop(c) PROVE Exchanges' \subseteq Exchanges
  BY <1>2 DEF CloudApply, CloudDrop, Exchanges
<1>3. ASSUME NEW q \in Pod, PodBoots(q) \/ PodFails(q) PROVE Exchanges' \subseteq Exchanges
  BY <1>3 DEF PodBoots, PodFails, Exchanges
<1>4. ASSUME NEW p \in Proc, Send(p)
      PROVE  /\ \A c \in Exchanges' \ Exchanges :
                  c.proc = p /\ c.key = loc[p].key /\ c.verb = Verb(p)
             /\ loc[p].kind # "start" => Exchanges' \subseteq Exchanges
  BY <1>4 DEF Send, Exchanges, Verb
<1> QED BY <1>1, <1>2, <1>3, <1>4, CloudStep

\* An exchange under way keeps its lease and its operation, until it is over.
LEMMA ExchangeKept ==
  ASSUME ~Fault("late"), PodInv, [Next]_vars, NEW c \in Exchanges, c \in Exchanges'
  PROVE  /\ lease' = lease /\ now' = now
         /\ InLease(c.proc)' => AwaitsReply(c.proc, c)'
         /\ \A d \in Exchanges : ~CloudApply(d)
<1> TypeOK /\ LeaseHeld /\ Unexpired /\ ExchangeHeld /\ CallsKnown
  BY DEF PodInv, CreateInv, IInv
<1> DEFINE p == c.proc
<1>1. c \in calls /\ p \in Proc /\ Keyed(p) BY DEF Exchanges, TypeOK, Call, PodInv
<1>2. ~LeaseFree BY NoExchangeFree
<1>3. lease.owner = p /\ lease.expiresAt > now /\ (InLease(p) => AwaitsReply(p, c))
  BY DEF ExchangeHeld
<1>4. \A q \in Proc : pc[q] # "release"
  BY NoExchange DEF InLease, Leased
<1>5. lease' = lease BY <1>2, <1>4, LeaseStays
<1>6. now' = now
  <2>1. ~Tick BY <1>1 DEF Tick
  <2> QED BY <2>1, StepShape DEF Moves
<1>7. \A d \in Exchanges : ~CloudApply(d)
  <2> SUFFICES ASSUME NEW d \in Exchanges, CloudApply(d) PROVE FALSE
    OBVIOUS
  <2>1. d = c BY DEF ExchangeHeld
  <2> QED BY <2>1 DEF CloudApply, Exchanges
<1> HIDE DEF p
<1>8. ASSUME InLease(p)' PROVE AwaitsReply(p, c)'
  <2>1. CASE Stays(p) BY <1>3, <1>8, <2>1 DEF Stays, InLease, AwaitsReply
  <2>2. CASE Enters(p)
    <3>1. LeaseFree \/ pc'[p] = "idle"
      BY <1>1, <2>2
      DEF Enters, StartCall, StopCall, ExtendCall, WatchdogStop, Enter, Acquire, Return, Goto, TypeOK
    <3> QED BY <1>2, <1>8, <3>1 DEF InLease, Leased
  <2>3. CASE Steps(p)
    <3>1. InLease(p)
      BY <2>3 DEF Steps, StartSteps, StartRefused, StartInspect, StartPlan, StartCommit,
                  StopSteps, StopPending, StopRefused, StopFind, StopConfirm, StopRequest,
                  StopCommit, CallSteps, MarkMutationAttempted, Send, CallFails,
                  RecordFailure, ExtendCommit, InLease, Leased
    <3>2. AwaitsReply(p, c) /\ pc[p] = "wait" BY <1>3, <3>1 DEF AwaitsReply
    <3>3. CallFails(p)
      BY <2>3, <3>2 DEF Steps, StartSteps, StartRefused, StartInspect, StartPlan, StartCommit,
                  StopSteps, StopPending, StopRefused, StopFind, StopConfirm, StopRequest,
                  StopCommit, CallSteps, MarkMutationAttempted, Send, RecordFailure,
                  ExtendCommit
    <3> QED BY <1>1, <3>2, <3>3 DEF CallFails
  <2>4. CASE Answered(p)
    <3>1. PICK d \in calls : AwaitsReply(p, d) /\ Answers(d) BY <2>4 DEF Answered
    <3>2. AwaitsReply(p, c) BY <1>3, <3>1 DEF AwaitsReply, InLease, Leased
    <3>3. d \in Exchanges BY <1>1, <3>1, <3>2, AwaitedVerb
    <3> QED BY <1>7, <3>1, <3>3 DEF Answers, CloudAccept, Exchanges
  <2>5. CASE pc'[p] \notin Leased BY <1>8, <2>5 DEF InLease
  <2> QED BY <1>1, <2>1, <2>2, <2>3, <2>4, <2>5, Actor
<1> QED BY <1>5, <1>6, <1>7, <1>8 DEF p

\* The account has no Pod as long as there was none and no create came through.
LEMMA StillNoPod ==
  ASSUME TypeOK, [Next]_vars, Managed = {}, \A c \in Exchanges : ~CloudApply(c)
  PROVE  Managed' = {}
  BY ManagedStep

\* Every step keeps the exchanges where they belong.
LEMMA ExchangeStep ==
  ASSUME ~Fault("late"), PodInv, [Next]_vars PROVE ExchangeHeld'
<1> TypeOK /\ LeaseHeld /\ Unexpired /\ ExchangeHeld
  BY DEF PodInv, CreateInv, IInv
<1>1. ASSUME NEW c \in Exchanges, c \in Exchanges'
      PROVE  /\ lease'.owner = c.proc /\ lease'.expiresAt > now'
             /\ InLease(c.proc)' => AwaitsReply(c.proc, c)'
             /\ c.verb = "create" => Managed' = {}
  BY <1>1, ExchangeKept, StillNoPod DEF ExchangeHeld
<1>2. CASE Exchanges' \subseteq Exchanges
  BY <1>1, <1>2 DEF ExchangeHeld
<1>3. ASSUME NEW p \in Proc, Send(p), loc[p].kind = "start",
             \A c \in Exchanges' \ Exchanges :
               c.proc = p /\ c.key = loc[p].key /\ c.verb = Verb(p)
      PROVE  ExchangeHeld'
  <2>1. InLease(p) /\ pc[p] = "send" BY <1>3 DEF Send, InLease, Leased
  <2>2. Exchanges = {} BY <2>1, NoExchange
  <2>3. lease.owner = p /\ lease.expiresAt > now BY <2>1 DEF LeaseHeld, Unexpired
  <2>4. UNCHANGED <<lease, now, pods, loc>> /\ pc'[p] = "wait"
    BY <1>3 DEF Send, Goto, TypeOK
  <2>5. Verb(p) = "create" => Managed' = {}
    BY <2>1, <2>4 DEF PodInv, NoPodYet, Creating, Managed
  <2>6. \A c \in Exchanges' : c = [proc |-> p, key |-> loc[p].key, verb |-> Verb(p),
                                   pod |-> loc[p].pod]
    BY <1>3, <2>2 DEF Send, Exchanges
  <2> QED BY <1>3, <2>2, <2>3, <2>4, <2>5, <2>6 DEF ExchangeHeld, AwaitsReply
<1> QED BY <1>2, <1>3, ExchangesStep

\* Every step keeps the requests under way on record.
LEMMA CallsKnownStep ==
  ASSUME PodInv, [Next]_vars PROVE CallsKnown'
<1> TypeOK /\ CreateInv /\ CallsKnown BY DEF PodInv, CreateInv, IInv
<1>1. \A i \in DOMAIN ops : i \in DOMAIN ops' /\ ops'[i].kind = ops[i].kind BY KindsKept
<1>2. CASE calls' \subseteq calls BY <1>1, <1>2 DEF CallsKnown
<1>3. ASSUME NEW p \in Proc, Send(p) PROVE CallsKnown'
  <2>1. ops' = ops /\ pc[p] = "send" BY <1>3 DEF Send
  <2>2. loc[p].key \in DOMAIN ops /\ ops[loc[p].key].kind = loc[p].kind
    BY <2>1 DEF PodInv, Keyed, KeyedPoints
  <2> QED BY <1>3, <2>1, <2>2 DEF Send, CallsKnown, Verb
<1>4. ASSUME NEW c \in calls, CloudApply(c) \/ CloudDrop(c) PROVE calls' \subseteq calls
  BY <1>4 DEF CloudApply, CloudDrop
<1>5. ASSUME NEW q \in Pod, PodBoots(q) \/ PodFails(q) PROVE calls' \subseteq calls
  BY <1>5 DEF PodBoots, PodFails
<1> QED BY <1>2, <1>3, <1>4, <1>5, CloudStep

\* A start that found no Pod goes on without one.
LEMMA NoPodStep ==
  ASSUME PodInv, [Next]_vars, NEW p \in Proc PROVE NoPodYet(p)'
<1> TypeOK /\ LeaseHeld /\ Unexpired /\ ExchangeHeld /\ Standing(p) /\ NoPodYet(p)
  BY DEF PodInv, CreateInv, IInv
<1> loc[p] \in Local /\ pc \in [Proc -> Leased \cup Unleased] BY DEF TypeOK
<1>1. CASE pc'[p] \notin {"start_plan", "mark", "send"} BY <1>1 DEF NoPodYet, Creating
<1>2. CASE pc'[p] = pc[p] /\ loc'[p] = loc[p] /\ pc'[p] \in {"start_plan", "mark", "send"}
  <2>1. Exchanges = {} BY <1>2, NoExchange DEF InLease, Leased
  <2>2. Managed = {} => Managed' = {} BY <2>1, StillNoPod
  <2> QED BY <1>2, <2>2 DEF NoPodYet, Creating, Verb
<1>3. CASE Enters(p)
  <2>1. pc'[p] \in {"start_inspect", "stop_pending", "extend_commit", "release", "idle"}
    BY <1>3 DEF Enters, StartCall, StopCall, ExtendCall, WatchdogStop, Enter, Return, Goto
  <2> QED BY <2>1 DEF NoPodYet, Creating
<1>4. CASE StartInspect(p)
  <2> DEFINE r == [loc[p] EXCEPT !.pod = The(Managed), !.seen = StatusOf(The(Managed))]
  <2>1. r.pod = The(Managed) BY DEF Local
  <2>2. Remember(p, r) /\ pods' = pods /\ pc'[p] = "start_plan"
    BY <1>4 DEF StartInspect, Goto, cloud
  <2> HIDE DEF r
  <2>3. loc'[p] = r BY <2>2 DEF Remember, TypeOK
  <2>4. The(Managed) = Nil => Managed = {} BY PodAssumption DEF The, Managed
  <2> QED BY <2>1, <2>2, <2>3, <2>4 DEF NoPodYet, Creating, Managed
<1>5. CASE StartPlan(p)
  BY <1>5 DEF StartPlan, Goto, cloud, NoPodYet, Creating, Verb, Managed
<1>6. CASE StopPending(p) BY <1>6 DEF StopPending, Goto, NoPodYet, Creating
<1>7. CASE StopFind(p) BY <1>7 DEF StopFind, Goto, NoPodYet, Creating
<1>8. CASE StopRequest(p)
  BY <1>8 DEF StopRequest, Goto, NoPodYet, Creating, Verb, Standing
<1>9. CASE MarkMutationAttempted(p)
  BY <1>9 DEF MarkMutationAttempted, Goto, cloud, NoPodYet, Creating, Verb, Managed
<1>10. {"start_plan", "mark", "send"} \subseteq Points BY DEF Points
<1> QED BY <1>1, <1>2, <1>3, <1>4, <1>5, <1>6, <1>7, <1>8, <1>9, <1>10, Arrival DEF Advances

\* Every step keeps the account to one Pod.
LEMMA PodStep ==
  ASSUME ~Fault("overrun"), ~Fault("late"), PodInv, [Next]_vars PROVE PodInv'
<1>1. CreateInv' BY CreateStep DEF PodInv
<1>2. OnePod'
  <2>1. CASE Managed' \subseteq Managed BY <2>1 DEF PodInv, OnePod, Ambiguous
  <2>2. ASSUME NEW c \in Exchanges, c.verb = "create", NEW q \in Pod,
               Managed' \subseteq Managed \cup {q}
        PROVE  OnePod'
    <3>1. Managed = {} BY <2>2 DEF PodInv, ExchangeHeld
    <3> QED BY <2>2, <3>1 DEF OnePod, Ambiguous
  <2> QED BY <2>1, <2>2, ManagedStep DEF PodInv, CreateInv, IInv
<1> QED BY <1>1, <1>2, ExchangeStep, CallsKnownStep, KeyedStep, NoPodStep DEF PodInv

\* Nothing is under way at first.
LEMMA PodInit == Init => PodInv
<1> SUFFICES ASSUME Init PROVE PodInv
  OBVIOUS
<1>1. CreateInv BY CreateInit
<1>2. Managed = {} /\ Exchanges = {} BY DEF Init, Managed, Exchanges
<1>3. OnePod /\ ExchangeHeld BY <1>2 DEF OnePod, Ambiguous, ExchangeHeld
<1>4. CallsKnown BY DEF Init, CallsKnown
<1>5. \A p \in Proc : Keyed(p) /\ NoPodYet(p)
  BY DEF Init, Keyed, KeyedPoints, NoPodYet, Creating
<1> QED BY <1>1, <1>3, <1>4, <1>5 DEF PodInv

\* Two clicks, two processes, a crash or a lost reply never leave two managed Pods,
\* for any keys, Pods and durations, provided RunPod applies no request after its
\* caller gave up and no operation outlives its lease.
THEOREM NeverTwoPods ==
  ASSUME ~Fault("overrun"), ~Fault("late") PROVE Spec => []OnePod
<1>1. PodInv /\ [Next]_vars => PodInv' BY PodStep
<1>2. PodInv => OnePod BY DEF PodInv
<1> QED BY <1>1, <1>2, PodInit, PTL DEF Spec
------------------------------------------------------------------------------
(* No Pod up without a trace.  The property speaks of the moments when no     *)
(* operation is at work; the invariant says why it holds after a crash too:   *)
(* Covered holds at every point of every operation, because what an operation *)
(* saw of the Pod is still true when it writes it down (Tracked).             *)

NoReconcile == \A p \in Proc : "reconcile" \notin Roles[p]

Down == \A q \in Pod : ~Alive(q)

\* The record of a start that was sent and never confirmed.
Unsettled(k) ==
  k \in DOMAIN ops /\ ops[k].kind = "start" /\ ops[k].attempted /\ ops[k].status # "succeeded"

\* The session watches every Pod that is up, or the next start will find its trace.
Covered ==
  \A q \in Pod : Alive(q) =>
    (Watched /\ session.podId = q) \/ \E k \in DOMAIN ops : Unsettled(k)

\* The one Pod that may be up is the one the operation saw up.
OnlySeen(p) ==
  \A q \in Pod : Alive(q) => q = loc[p].pod /\ loc[p].seen \in {"STARTING", "RUNNING"}

Tracked(p) ==
  /\ pc[p] # "reconcile_commit"
  /\ pc[p] \in {"start_plan", "start_commit"} => OnlySeen(p)
  /\ pc[p] \in {"mark", "send"} /\ loc[p].kind = "start" =>
       Down /\ ops[loc[p].key].status # "succeeded"
  /\ pc[p] = "send" /\ loc[p].kind = "start" => Unsettled(loc[p].key)
  /\ pc[p] = "stop_confirm" => Down
  /\ pc[p] = "stop_commit" /\ IsStopped(loc[p].seen) => Down

\* A Pod comes up only through a request that is on record.
ExchangeTraced == \A c \in Exchanges : Down /\ Unsettled(c.key)

TrackInv == /\ PodInv /\ Covered /\ ExchangeTraced
            /\ \A p \in Proc : Tracked(p)
------------------------------------------------------------------------------
\* A Pod comes up only when RunPod applies a create or a resume.
LEMMA AliveStep ==
  ASSUME TypeOK, [Next]_vars, NEW q \in Pod, Alive(q)', \A c \in Exchanges : ~CloudApply(c)
  PROVE  Alive(q)
<1>1. CASE UNCHANGED pods BY <1>1 DEF Alive
<1>2. ASSUME NEW o \in Pod, PodBoots(o) \/ PodFails(o) PROVE Alive(q)
  BY <1>2 DEF PodBoots, PodFails, Alive, TypeOK
<1>3. ASSUME NEW c \in calls, CloudApply(c) PROVE Alive(q)
  <2>1. c.verb = "stop" BY <1>3 DEF Exchanges
  <2> QED BY <1>3, <2>1 DEF CloudApply, Alive, TypeOK
<1> QED BY <1>1, <1>2, <1>3, CloudStep DEF Send, CloudDrop

\* While an operation is at work, no Pod comes up but through its own exchange.
LEMMA AliveKept ==
  ASSUME PodInv, [Next]_vars, NEW p \in Proc, InLease(p), pc[p] # "wait",
         NEW q \in Pod, Alive(q)'
  PROVE  Alive(q)
<1> TypeOK /\ LeaseHeld /\ Unexpired /\ ExchangeHeld BY DEF PodInv, CreateInv, IInv
<1>1. Exchanges = {} BY NoExchange
<1> QED BY <1>1, AliveStep

\* The actions that change the phase, the Pod or the retries of the session.
SessionWrites(p) == StartPlan(p) \/ StartCommit(p) \/ StopConfirm(p) \/ StopRequest(p)
                    \/ StopCommit(p) \/ RecordFailure(p) \/ ReconcileCommit(p)

LEMMA SessionKept ==
  ASSUME TypeOK, [Next]_vars, \A p \in Proc : ~SessionWrites(p)
  PROVE  UNCHANGED <<session.phase, session.podId, session.retryCount, session.nextRetryAt,
                     session.stopReason>>
<1> session \in Session BY DEF TypeOK
<1> DEFINE Kept == UNCHANGED <<session.phase, session.podId, session.retryCount,
                               session.nextRetryAt, session.stopReason>>
<1>1. CASE session' = session BY <1>1
<1>2. ASSUME NEW p \in Proc, StartSteps(p) \/ StopSteps(p) PROVE session' = session
  BY <1>2 DEF StartSteps, StartRefused, StartInspect, StopSteps, StopPending, StopRefused,
              StopFind, SessionWrites
<1>3. ASSUME NEW p \in Proc, CallSteps(p) PROVE session' = session
  BY <1>3 DEF CallSteps, MarkMutationAttempted, Send, CallFails, SessionWrites
<1>4. ASSUME NEW p \in Proc, WatchdogSteps(p) PROVE Kept
  BY <1>4 DEF WatchdogSteps, DrainClaim, DrainCancel, DrainMark, DrainDone,
              DrainRead, SyncRead, SyncCommit, SyncDecide,
              Synced, WatchdogStop, Session, store
<1>5. ASSUME NEW p \in Proc, ExtendCommit(p) PROVE Kept BY <1>5 DEF ExtendCommit, Session
<1>6. ASSUME NEW p \in Proc, Request(p) \/ JobQueue(p) \/ ReleaseLease(p) \/ Crash(p)
      PROVE  session' = session
  BY <1>6 DEF Request, StartCall, StopCall, ExtendCall, ReconcileRead, WatchdogRead,
              ObserveCall, JobAdmit, JobQueue, ReleaseLease, Crash, store
<1>7. CASE Cloud BY <1>7 DEF Cloud, CloudApply, CloudAccept, CloudDrop, store
<1>8. CASE (\E q \in Pod : PodBoots(q) \/ PodFails(q)) \/ JobEnds \/ Tick \/ UNCHANGED vars
  BY <1>8 DEF PodBoots, PodFails, JobEnds, Tick, vars, store
<1> HIDE DEF Kept
<1>9. Kept
  BY <1>2, <1>3, <1>4, <1>5, <1>6, <1>7, <1>8, <1>1 DEF Next, Progress, SessionWrites, Kept
<1> QED BY <1>9 DEF Kept

\* Who writes operations or sessions is at work under the lease, reconcile apart.
OpWrites(p) == StartPlan(p) \/ StartCommit(p) \/ StopPending(p) \/ StopConfirm(p)
               \/ StopCommit(p) \/ MarkMutationAttempted(p) \/ RecordFailure(p)
               \/ ExtendCommit(p) \/ ReconcileCommit(p)

LEMMA OpsFrozen ==
  ASSUME TypeOK, [Next]_vars, \A p \in Proc : ~OpWrites(p) PROVE ops' = ops
<1>1. ASSUME NEW p \in Proc, StartSteps(p) \/ StopSteps(p) PROVE ops' = ops
  BY <1>1 DEF StartSteps, StartRefused, StartInspect, StopSteps, StopRefused,
              StopFind, StopRequest, OpWrites
<1>2. ASSUME NEW p \in Proc, CallSteps(p) PROVE ops' = ops
  BY <1>2 DEF CallSteps, Send, CallFails, OpWrites
<1>3. ASSUME NEW p \in Proc, WatchdogSteps(p) PROVE ops' = ops
  BY <1>3 DEF WatchdogSteps, DrainClaim, DrainCancel, DrainMark, DrainDone,
              DrainRead, SyncRead, SyncCommit, SyncDecide,
              WatchdogStop, store
<1>4. ASSUME NEW p \in Proc, Request(p) \/ JobQueue(p) \/ ReleaseLease(p) \/ Crash(p)
      PROVE  ops' = ops
  BY <1>4 DEF Request, StartCall, StopCall, ExtendCall, ReconcileRead, WatchdogRead,
              ObserveCall, JobAdmit, JobQueue, ReleaseLease, Crash, store
<1>5. CASE Cloud BY <1>5 DEF Cloud, CloudApply, CloudAccept, CloudDrop, store
<1>6. CASE (\E q \in Pod : PodBoots(q) \/ PodFails(q)) \/ JobEnds \/ Tick \/ UNCHANGED vars
  BY <1>6 DEF PodBoots, PodFails, JobEnds, Tick, vars, store
<1> QED BY <1>1, <1>2, <1>3, <1>4, <1>5, <1>6 DEF Next, Progress, OpWrites

\* The trace of a start stays until that start is confirmed.
LEMMA UnsettledKept ==
  ASSUME PodInv, [Next]_vars, NEW k, Unsettled(k),
         \A p \in Proc : StartCommit(p) => loc[p].key # k
  PROVE  Unsettled(k)'
<1> TypeOK /\ \A p \in Proc : Standing(p) /\ Keyed(p) BY DEF PodInv, CreateInv, IInv
<1> \A i \in DOMAIN ops : ops[i] \in Op BY DEF TypeOK
<1>1. CASE ops' = ops BY <1>1 DEF Unsettled
<1>2. ASSUME NEW p \in Proc, StartPlan(p) PROVE Unsettled(k)'
  BY <1>2 DEF StartPlan, Upsert, Standing, AttemptRecorded, Unsettled
<1>3. ASSUME NEW p \in Proc, StopPending(p) PROVE Unsettled(k)'
  BY <1>3 DEF StopPending, Upsert, Standing, Refused, Unsettled
<1>4. ASSUME NEW p \in Proc, ExtendCommit(p) PROVE Unsettled(k)'
  BY <1>4 DEF ExtendCommit, Upsert, Standing, Refused, Unsettled
<1>5. ASSUME NEW p \in Proc, MarkMutationAttempted(p) PROVE Unsettled(k)'
  BY <1>5 DEF MarkMutationAttempted, Op, Unsettled
<1>6. ASSUME NEW p \in Proc, StartCommit(p) PROVE Unsettled(k)'
  BY <1>6 DEF StartCommit, Op, Unsettled
<1>7. ASSUME NEW p \in Proc, StopConfirm(p) \/ StopCommit(p) PROVE Unsettled(k)'
  <2>1. loc[p].key # k
    BY <1>7 DEF StopConfirm, StopCommit, Keyed, KeyedPoints, Unsettled
  <2> QED BY <1>7, <2>1 DEF StopConfirm, StopCommit, Op, Unsettled
<1>8. ASSUME NEW p \in Proc, RecordFailure(p) PROVE Unsettled(k)'
  BY <1>8 DEF RecordFailure, Op, Unsettled
<1>9. ASSUME NEW p \in Proc, ReconcileCommit(p) PROVE Unsettled(k)'
  BY <1>9 DEF ReconcileCommit, Op, Unsettled
<1> QED BY <1>1, <1>2, <1>3, <1>4, <1>5, <1>6, <1>7, <1>8, <1>9, OpsFrozen DEF OpWrites

\* With one Pod at most, a lookup by the session or by the name finds it if it is up.
LEMMA FoundIsUp ==
  ASSUME OnePod, NEW id, NEW q \in Pod, Alive(q)
  PROVE  /\ The(Managed) = q /\ The(Candidates(id)) = q /\ StatusOf(q) \in {"STARTING", "RUNNING"}
<1>1. Managed = {q} BY DEF OnePod, Ambiguous, Managed, Alive
<1>2. Candidates(id) = {q} BY <1>1 DEF Candidates
<1> QED BY <1>1, <1>2, PodAssumption DEF The, StatusOf, Alive

\* Operations at work write what they do in steps of their own.
LEMMA OneWriter ==
  ASSUME PodInv, NEW p \in Proc, InLease(p), [Next]_vars, Stays(p),
         \A q \in Proc : pc[q] # "reconcile_commit"
  PROVE  ops' = ops
<1> TypeOK /\ LeaseHeld /\ Unexpired BY DEF PodInv, CreateInv, IInv
<1> SUFFICES ASSUME NEW q \in Proc, OpWrites(q) PROVE FALSE
  BY OpsFrozen
<1>1. InLease(q) /\ pc'[q] # pc[q]
  BY DEF OpWrites, StartPlan, StartCommit, StopPending, StopConfirm, StopCommit,
         MarkMutationAttempted, RecordFailure, ExtendCommit, ReconcileCommit, InLease, Leased,
         Goto, TypeOK
<1>2. q = p BY <1>1, OneInside
<1> QED BY <1>1, <1>2 DEF Stays

\* The Pod an answer speaks of is the one that is up, if any.
LEMMA AnswerSees ==
  ASSUME TrackInv, [Next]_vars, NEW p \in Proc, NEW c \in calls, AwaitsReply(p, c), Answers(c),
         ~UNCHANGED <<pc, loc>>
  PROVE  Tracked(p)'
<1> TypeOK /\ Keyed(p) /\ CallsKnown /\ OnePod BY DEF TrackInv, PodInv, CreateInv, IInv
<1> loc[p] \in Local /\ pc \in [Proc -> Leased \cup Unleased] /\ c \in Call BY DEF TypeOK
<1> DEFINE r(q, s) == [loc[p] EXCEPT !.pod = q, !.seen = s]
<1>1. c.proc = p /\ pc[p] = "wait" BY DEF AwaitsReply
<1>2. ASSUME NEW q, NEW s, Reply(p, q, s)
      PROVE  /\ loc'[p].pod = q /\ loc'[p].seen = s /\ loc'[p].kind = loc[p].kind
             /\ pc'[p] = AfterReply(p)
  <2>1. r(q, s).pod = q /\ r(q, s).seen = s /\ r(q, s).kind = loc[p].kind BY DEF Local
  <2>2. Remember(p, r(q, s)) /\ pc'[p] = AfterReply(p) BY <1>2 DEF Reply, Goto
  <2> HIDE DEF r
  <2>3. loc'[p] = r(q, s) BY <2>2 DEF Remember, TypeOK
  <2> QED BY <2>1, <2>2, <2>3
<1>3. CASE CloudAccept(c)
  <2>1. c.verb = "stop" /\ StatusOf(c.pod) # "ABSENT" /\ Reply(p, c.pod, StatusOf(c.pod)) /\ pods' = pods
    BY <1>1, <1>3 DEF CloudAccept, cloud
  <2>2. loc[p].kind # "start" BY <2>1, AwaitedVerb DEF Exchanges
  <2>3. pc'[p] = "stop_commit" /\ loc'[p].seen = StatusOf(c.pod)
    BY <1>2, <2>1, <2>2 DEF AfterReply
  <2>4. c.pod \in Managed BY <2>1 DEF StatusOf, Managed, Call
  <2>5. ASSUME IsStopped(StatusOf(c.pod)), NEW q \in Pod, Alive(q) PROVE FALSE
    <3>1. q = c.pod BY <2>4, <2>5 DEF OnePod, Ambiguous, Managed, Alive
    <3> QED BY <2>5, <3>1, FoundIsUp DEF IsStopped
  <2>6. IsStopped(loc'[p].seen) => Down' BY <2>1, <2>3, <2>5 DEF Down, Alive
  <2> QED BY <2>3, <2>6 DEF Tracked
<1>4. CASE CloudApply(c)
  <2>1. PICK q \in Pod :
          /\ CASE c.verb = "create" ->
                    pods[q] = "ABSENT" /\ pods' = [pods EXCEPT ![q] = "STARTING"]
               [] c.verb = "resume" ->
                    q = c.pod /\ pods' = [pods EXCEPT ![q] =
                      IF @ = "EXITED" THEN "STARTING" ELSE @]
               [] c.verb = "stop" ->
                    q = c.pod /\ pods' = [pods EXCEPT ![q] =
                      IF @ \in {"STARTING", "RUNNING"} THEN "EXITED" ELSE @]
          /\ pods'[q] # "ABSENT" /\ Reply(p, q, pods'[q])
    BY <1>1, <1>4 DEF CloudApply
  <2>2. \A o \in Pod \ {q} : pods'[o] = pods[o]
    BY <2>1 DEF Call, TypeOK
  <2>3. loc'[p].pod = q /\ loc'[p].seen = pods'[q] /\ pc'[p] = AfterReply(p) BY <1>2, <2>1
  <2>4. CASE c \in Exchanges
    <3>1. pc'[p] = "start_commit" BY <2>3, <2>4, AwaitedVerb DEF AfterReply
    <3>2. Down BY <2>4 DEF TrackInv, ExchangeTraced
    <3>3. OnlySeen(p)' BY <2>2, <2>3, <3>2 DEF OnlySeen, Down, Alive
    <3> QED BY <3>1, <3>3 DEF Tracked
  <2>5. CASE c \notin Exchanges
    <3>1. c.verb = "stop" /\ loc[p].kind # "start" BY <2>5, AwaitedVerb DEF Exchanges
    <3>2. pc'[p] = "stop_commit" BY <2>3, <3>1 DEF AfterReply
    <3>3. pods[q] # "ABSENT" /\ \A o \in Pod : Alive(o)' => Alive(o)
      BY <2>1, <2>2, <3>1 DEF Alive, TypeOK
    <3>4. ASSUME IsStopped(pods'[q]), NEW o \in Pod, Alive(o)' PROVE FALSE
      <4>1. o # q BY <3>4 DEF Alive, IsStopped
      <4>2. o \in Managed /\ q \in Managed BY <3>3, <3>4 DEF Managed, Alive
      <4> QED BY <4>1, <4>2 DEF OnePod, Ambiguous
    <3>5. IsStopped(loc'[p].seen) => Down' BY <2>3, <3>4 DEF Down
    <3> QED BY <3>2, <3>5 DEF Tracked
  <2> QED BY <2>4, <2>5
<1> QED BY <1>3, <1>4 DEF Answers

\* Nobody is about to commit a reconciliation when nobody reconciles.
LEMMA NoReconciliation ==
  ASSUME TypeOK, NoReconcile, [Next]_vars, NEW p \in Proc, pc[p] # "reconcile_commit"
  PROVE  pc'[p] # "reconcile_commit"
<1>1. ASSUME NEW l, Goto(p, l), l # "reconcile_commit" PROVE pc'[p] # "reconcile_commit"
  BY <1>1 DEF Goto, TypeOK
<1>2. CASE Stays(p) BY <1>2 DEF Stays
<1>3. CASE Enters(p)
  BY <1>1, <1>3 DEF Enters, StartCall, StopCall, ExtendCall, WatchdogStop, Enter, Return
<1>4. CASE Steps(p)
  <2>1. CASE StartSteps(p)
    BY <1>1, <2>1 DEF StartSteps, StartRefused, StartInspect, StartPlan, StartCommit
  <2>2. CASE StopSteps(p)
    BY <1>1, <2>2 DEF StopSteps, StopPending, StopRefused, StopFind, StopConfirm,
                      StopRequest, StopCommit
  <2>3. CASE CallSteps(p)
    BY <1>1, <2>3 DEF CallSteps, MarkMutationAttempted, Send, CallFails, RecordFailure
  <2>4. CASE ExtendCommit(p) BY <1>1, <2>4 DEF ExtendCommit
  <2> QED BY <1>4, <2>1, <2>2, <2>3, <2>4 DEF Steps
<1>5. CASE Answered(p)
  BY <1>1, <1>5 DEF Answered, Answers, CloudApply, CloudAccept, AwaitsReply, Reply, AfterReply
<1>6. CASE Aside(p)
  <2>1. ~ReconcileRead(p) BY DEF ReconcileRead, Issues, NoReconcile
  <2> QED BY <1>3, <1>6, <2>1, AsideGoes DEF Enters
<1> QED BY <1>2, <1>3, <1>4, <1>5, <1>6, Mover

\* What an operation saw of the Pod stays true until it writes it down.
LEMMA TrackedStep ==
  ASSUME NoReconcile, TrackInv, [Next]_vars, NEW p \in Proc PROVE Tracked(p)'
<1> /\ TypeOK /\ PodInv /\ CreateInv /\ Standing(p) /\ Keyed(p) /\ OnePod /\ Tracked(p)
    /\ \A q \in Proc : pc[q] # "reconcile_commit"
  BY DEF TrackInv, PodInv, CreateInv, IInv, Tracked
<1> loc[p] \in Local /\ pc \in [Proc -> Leased \cup Unleased] BY DEF TypeOK
<1> DEFINE Notes == {"start_plan", "start_commit", "mark", "send", "stop_confirm", "stop_commit"}
<1>1. pc'[p] # "reconcile_commit" BY NoReconciliation
<1>2. CASE pc'[p] \notin Notes BY <1>1, <1>2 DEF Tracked
<1>3. CASE Stays(p) /\ pc'[p] \in Notes
  <2>1. InLease(p) /\ pc[p] # "wait" BY <1>3 DEF Stays, InLease, Leased
  <2>2. \A q \in Pod : Alive(q)' => Alive(q) BY <2>1, AliveKept
  <2>3. ops' = ops BY <1>3, <2>1, OneWriter
  <2> QED BY <1>1, <1>3, <2>2, <2>3 DEF Stays, Tracked, Down, OnlySeen, Unsettled
<1>4. CASE Enters(p)
  <2>1. pc'[p] \in {"start_inspect", "stop_pending", "extend_commit", "release", "idle"}
    BY <1>4 DEF Enters, StartCall, StopCall, ExtendCall, WatchdogStop, Enter, Return, Goto
  <2> QED BY <1>2, <2>1
<1>5. CASE StartSteps(p)
  <2>1. CASE StartRefused(p) \/ StartCommit(p)
    BY <1>2, <2>1 DEF StartRefused, StartCommit, Goto
  <2>2. CASE StartInspect(p)
    <3> DEFINE r == [loc[p] EXCEPT !.pod = The(Managed), !.seen = StatusOf(The(Managed))]
    <3>1. r.pod = The(Managed) /\ r.seen = StatusOf(The(Managed)) BY DEF Local
    <3>2. Remember(p, r) /\ pods' = pods /\ pc'[p] = "start_plan"
      BY <2>2 DEF StartInspect, Goto, cloud
    <3> HIDE DEF r
    <3>3. loc'[p] = r BY <3>2 DEF Remember, TypeOK
    <3>4. \A q \in Pod : Alive(q) => q = The(Managed) /\ StatusOf(q) \in {"STARTING", "RUNNING"}
      BY FoundIsUp
    <3>5. OnlySeen(p)' BY <3>1, <3>2, <3>3, <3>4 DEF OnlySeen, Alive
    <3> QED BY <3>2, <3>5 DEF Tracked
  <2>3. CASE StartPlan(p)
    <3>1. /\ pc[p] = "start_plan" /\ loc' = loc /\ pods' = pods
          /\ pc'[p] = IF loc[p].seen \in {"ABSENT", "EXITED"} THEN "mark" ELSE "start_commit"
      BY <2>3 DEF StartPlan, Goto, cloud
    <3>2. ops'[loc[p].key].status = "pending" BY <2>3 DEF StartPlan, Upsert
    <3>3. OnlySeen(p) /\ OnlySeen(p)' BY <3>1 DEF Tracked, OnlySeen, Alive
    <3>4. loc[p].seen \in {"ABSENT", "EXITED"} => Down' BY <3>1, <3>3 DEF OnlySeen, Down, Alive
    <3> QED BY <3>1, <3>2, <3>3, <3>4 DEF Tracked
  <2> QED BY <1>5, <2>1, <2>2, <2>3 DEF StartSteps
<1>6. CASE StopSteps(p)
  <2>1. CASE StopPending(p) BY <1>2, <2>1 DEF StopPending, Goto
  <2>2. CASE StopRefused(p) BY <1>2, <2>2 DEF StopRefused, Goto
  <2>3. CASE StopConfirm(p) \/ StopCommit(p)
    BY <1>2, <2>3 DEF StopConfirm, StopCommit, Goto
  <2>4. CASE StopFind(p)
    <3> DEFINE found == Candidates(session.podId)
    <3>1. pods' = pods /\ pc'[p] = IF found = {} \/ IsStopped(StatusOf(The(found)))
                                   THEN "stop_confirm" ELSE "stop_request"
      BY <2>4 DEF StopFind, Goto, cloud
    <3>2. ASSUME NEW q \in Pod, Alive(q) PROVE found # {} /\ ~IsStopped(StatusOf(The(found)))
      <4>1. The(found) = q /\ StatusOf(q) \in {"STARTING", "RUNNING"} BY <3>2, FoundIsUp
      <4> QED BY <4>1, PodAssumption DEF IsStopped, The
    <3>3. pc'[p] = "stop_confirm" => Down' BY <3>1, <3>2 DEF Down, Alive
    <3>4. pc'[p] \in {"stop_confirm", "stop_request"} BY <3>1
    <3> QED BY <3>3, <3>4 DEF Tracked
  <2>5. CASE StopRequest(p)
    BY <2>5 DEF StopRequest, Goto, Standing, Tracked
  <2> QED BY <1>6, <2>1, <2>2, <2>3, <2>4, <2>5 DEF StopSteps
<1>7. CASE CallSteps(p)
  <2>1. CASE MarkMutationAttempted(p)
    <3>1. /\ pc[p] = "mark" /\ pc'[p] = "send" /\ loc' = loc /\ pods' = pods
          /\ ops' = [ops EXCEPT ![loc[p].key].attempted = TRUE]
      BY <2>1 DEF MarkMutationAttempted, Goto, cloud
    <3>2. loc[p].key \in DOMAIN ops /\ ops[loc[p].key].kind = loc[p].kind
      BY <3>1 DEF Keyed, KeyedPoints
    <3>3. /\ loc[p].key \in DOMAIN ops' /\ ops'[loc[p].key].attempted
          /\ ops'[loc[p].key].kind = loc[p].kind
          /\ ops'[loc[p].key].status = ops[loc[p].key].status
      BY <3>1, <3>2 DEF TypeOK, Op
    <3>4. loc[p].kind = "start" => Down' /\ ops[loc[p].key].status # "succeeded"
      BY <3>1 DEF Tracked, Down, Alive
    <3> QED BY <3>1, <3>3, <3>4 DEF Tracked, Unsettled
  <2>2. CASE Send(p) \/ CallFails(p) \/ RecordFailure(p)
    BY <1>2, <2>2 DEF Send, CallFails, RecordFailure, Goto
  <2> QED BY <1>7, <2>1, <2>2 DEF CallSteps
<1>8. CASE ExtendCommit(p) BY <1>2, <1>8 DEF ExtendCommit, Goto
<1>9. CASE Answered(p)
  <2>1. CASE UNCHANGED <<pc, loc>> BY <1>2, <1>3, <2>1 DEF Stays
  <2>2. CASE ~UNCHANGED <<pc, loc>> BY <1>9, <2>2, AnswerSees DEF Answered
  <2> QED BY <2>1, <2>2
<1>10. CASE pc'[p] \notin Leased BY <1>2, <1>10 DEF Leased
<1> QED BY <1>2, <1>3, <1>4, <1>5, <1>6, <1>7, <1>8, <1>9, <1>10, Actor DEF Steps

\* A Pod comes up only through a request that is on record, at every step.
LEMMA TracedStep ==
  ASSUME ~Fault("late"), TrackInv, [Next]_vars PROVE ExchangeTraced'
<1> /\ TypeOK /\ PodInv /\ LeaseHeld /\ Unexpired /\ ExchangeHeld /\ ExchangeTraced
    /\ \A p \in Proc : Tracked(p)
  BY DEF TrackInv, PodInv, CreateInv, IInv
<1>1. ASSUME NEW c \in Exchanges, c \in Exchanges' PROVE Down' /\ Unsettled(c.key)'
  <2>1. \A d \in Exchanges : ~CloudApply(d) BY <1>1, ExchangeKept
  <2>2. Down' BY <2>1, AliveStep DEF Down, ExchangeTraced
  <2>3. \A p \in Proc : ~StartCommit(p)
    BY NoExchange DEF StartCommit, InLease, Leased
  <2>4. Unsettled(c.key)' BY <2>3, UnsettledKept DEF ExchangeTraced
  <2> QED BY <2>2, <2>4
<1>2. CASE Exchanges' \subseteq Exchanges BY <1>1, <1>2 DEF ExchangeTraced
<1>3. ASSUME NEW p \in Proc, Send(p), loc[p].kind = "start",
             \A c \in Exchanges' \ Exchanges :
               c.proc = p /\ c.key = loc[p].key /\ c.verb = Verb(p)
      PROVE  ExchangeTraced'
  <2>1. Down /\ Unsettled(loc[p].key) BY <1>3 DEF Send, Tracked
  <2>2. UNCHANGED <<pods, ops>> BY <1>3 DEF Send
  <2> QED BY <1>1, <1>3, <2>1, <2>2 DEF ExchangeTraced, Down, Alive, Unsettled
<1> QED BY <1>2, <1>3, ExchangesStep

\* A Pod that is up stays watched or traced.
LEMMA CoveredStep ==
  ASSUME ~Fault("late"), TrackInv, [Next]_vars PROVE Covered'
<1> /\ TypeOK /\ PodInv /\ OnePod /\ ExchangeTraced /\ Covered
    /\ \A p \in Proc : Tracked(p) /\ Keyed(p)
  BY DEF TrackInv, PodInv, CreateInv, IInv
<1> session \in Session /\ \A p \in Proc : loc[p] \in Local BY DEF TypeOK
<1> SUFFICES ASSUME NEW q \in Pod, Alive(q)'
             PROVE  (Watched /\ session.podId = q)' \/ \E k \in DOMAIN ops' : Unsettled(k)'
  BY DEF Covered
<1> DEFINE Fine == (Watched /\ session.podId = q)' \/ \E k \in DOMAIN ops' : Unsettled(k)'
<1>1. ASSUME NEW c \in Exchanges, CloudApply(c) PROVE Fine
  <2>1. \A p \in Proc : ~StartCommit(p)
    BY <1>1 DEF CloudApply, StartCommit, AwaitsReply, Reply, Goto, store, TypeOK, Exchanges,
                Call, Session
  <2>2. Unsettled(c.key)' BY <2>1, UnsettledKept DEF ExchangeTraced
  <2> QED BY <2>2 DEF Unsettled
<1>2. ASSUME \A c \in Exchanges : ~CloudApply(c) PROVE Alive(q) BY <1>2, AliveStep
<1>3. ASSUME NEW p \in Proc, StartPlan(p) \/ StartCommit(p) PROVE Fine
  <2>1. pods' = pods /\ pc[p] \in {"start_plan", "start_commit"}
    BY <1>3 DEF StartPlan, StartCommit, cloud
  <2>2. q = loc[p].pod /\ loc[p].seen \in {"STARTING", "RUNNING"}
    BY <2>1 DEF Tracked, OnlySeen, Alive
  <2>3. loc[p].pod # Nil BY <2>2, PodAssumption
  <2>4. session'.podId = q /\ session'.phase = InfrastructurePhase(loc[p].seen)
    BY <1>3, <2>2, <2>3 DEF StartPlan, StartCommit, EmptySession, Session
  <2>5. session'.phase \in {"starting", "loading_model"}
    BY <2>2, <2>4 DEF InfrastructurePhase
  <2> QED BY <2>2, <2>3, <2>4, <2>5 DEF Watched
<1>4. ASSUME NEW p \in Proc, StopConfirm(p) \/ (StopCommit(p) /\ IsStopped(loc[p].seen))
      PROVE  FALSE
  BY <1>4 DEF StopConfirm, StopCommit, cloud, Tracked, Down, Alive
<1>5. ASSUME NEW k \in DOMAIN ops, Unsettled(k), \A p \in Proc : ~StartCommit(p) PROVE Fine
  BY <1>5, UnsettledKept DEF Unsettled
<1>6. ASSUME Watched, session.podId = q, session'.podId = q,
             session'.phase \in {session.phase, "stopping", "error"}
      PROVE  Fine
  BY <1>6 DEF Watched
<1>7. ASSUME NEW p \in Proc,
             StopRequest(p) \/ RecordFailure(p) \/ (StopCommit(p) /\ ~IsStopped(loc[p].seen))
      PROVE  session'.podId = session.podId /\ session'.phase \in {"stopping", "error"}
  BY <1>7 DEF StopRequest, RecordFailure, StopCommit, ScheduleRetry, Session
<1>8. ASSUME NEW p \in Proc, ReconcileCommit(p) PROVE FALSE
  BY <1>8 DEF ReconcileCommit, Tracked
<1>9. \/ \E p \in Proc : StartPlan(p) \/ StartCommit(p)
      \/ /\ session'.podId = session.podId
         /\ session'.phase \in {session.phase, "stopping", "error"}
         /\ \A p \in Proc : ~StartCommit(p)
  BY <1>4, <1>7, <1>8, SessionKept DEF SessionWrites
<1> HIDE DEF Fine
<1>10. ASSUME \A c \in Exchanges : ~CloudApply(c) PROVE Fine
  <2>1. (Watched /\ session.podId = q) \/ \E k \in DOMAIN ops : Unsettled(k)
    BY <1>2, <1>10 DEF Covered
  <2>2. CASE \E p \in Proc : StartPlan(p) \/ StartCommit(p) BY <1>3, <2>2
  <2>3. CASE /\ session'.podId = session.podId
             /\ session'.phase \in {session.phase, "stopping", "error"}
             /\ \A p \in Proc : ~StartCommit(p)
    BY <1>5, <1>6, <2>1, <2>3
  <2> QED BY <1>9, <2>2, <2>3
<1> QED BY <1>1, <1>10 DEF Fine

\* Every step keeps the Pods that are up watched or traced.
LEMMA TrackStep ==
  ASSUME ~Fault("overrun"), ~Fault("late"), NoReconcile, TrackInv, [Next]_vars
  PROVE  TrackInv'
<1>1. PodInv' BY PodStep DEF TrackInv
<1> QED BY <1>1, CoveredStep, TracedStep, TrackedStep DEF TrackInv

LEMMA TrackInit == Init => TrackInv
<1> SUFFICES ASSUME Init PROVE TrackInv
  OBVIOUS
<1>1. Down BY DEF Init, Down, Alive
<1>2. Covered /\ ExchangeTraced BY <1>1 DEF Init, Down, Covered, ExchangeTraced, Exchanges
<1>3. \A p \in Proc : Tracked(p) BY DEF Init, Tracked
<1> QED BY <1>2, <1>3, PodInit DEF TrackInv

\* A Pod that is up while the watchdog ignores the session leaves the record of an
\* attempted and unconfirmed start, after any crash, refusal, lost reply or failing
\* Pod, provided no caller reconciles meanwhile (reconcile writes what it read
\* before without the lease), RunPod applies no request late and no operation
\* outlives its lease.
THEOREM UnwatchedLeavesTrace ==
  ASSUME ~Fault("overrun"), ~Fault("late"), NoReconcile
  PROVE  Spec => []UnwatchedPodIsRecorded
<1>1. TrackInv /\ [Next]_vars => TrackInv' BY TrackStep
<1>2. TrackInv => UnwatchedPodIsRecorded
  BY DEF TrackInv, Covered, UnwatchedPodIsRecorded, Unsettled
<1> QED BY <1>1, <1>2, TrackInit, PTL DEF Spec
------------------------------------------------------------------------------
(* The retries.  A stop is decided outside the lease and sent inside it; in   *)
(* between a caller may close the session (no retry left: nothing is up) or   *)
(* start the next one (no failure counted), but not count a failure.          *)

OneWatchdog == \A p, q \in Proc : "watchdog" \in Roles[p] \cap Roles[q] => p = q

\* The request is the watchdog's, or the stop it came to.
Guarding(p) == loc[p].kind \in {"watchdog", "watchdog-stop"}

Drains == {"drain_claim", "drain_cancel", "drain_mark", "drain_done", "drain_read",
           "sync_decide"}

Patient(p) ==
  /\ Guarding(p) => "watchdog" \in Roles[p]
  /\ pc[p] \in Drains \cup {"watchdog_stop"} => loc[p].kind = "watchdog"
  /\ Guarding(p) /\ pc[p] # "release" => session.retryCount < MaxFailures
  /\ Guarding(p) /\ pc[p] \in Drains \cup {"sync_read", "sync_commit"} =>
       session.retryCount = 0
  /\ Guarding(p) /\ pc[p] \in {"watchdog_stop", "stop_pending", "stop_find"} =>
       session.retryCount = 0 \/ session.nextRetryAt <= now
  /\ Guarding(p) /\ pc[p] \in {"stop_request", "mark", "send"} =>
       session.retryCount = 0 \/ Passed(session.nextRetryAt, now)

Starting(p) == pc[p] \in {"mark", "send", "wait"} /\ loc[p].kind = "start"

\* Nothing is up, and nothing is about to come up.
Settled == Down /\ Exchanges = {} /\ \A p \in Proc : ~Starting(p)

\* A failure is counted without a retry to come only when there is nothing to stop.
RetryScheduled ==
  0 < session.retryCount /\ session.retryCount < MaxFailures /\ session.nextRetryAt = Never
    => Settled

\* No Pod fails.
SoundPods == \A q \in Pod : pods[q] \in {"ABSENT", "STARTING", "RUNNING", "EXITED"}

RetryInv == /\ TrackInv /\ SoundPods /\ RetryScheduled /\ session.retryCount <= MaxFailures
            /\ \A p \in Proc : Patient(p)

\* The watchdog's failure is counted: its retry is scheduled, or was the last.
Counted(p) ==
  /\ pc[p] \in {"fail", "stop_commit"} /\ pc'[p] = "release" /\ loc[p].kind = "watchdog-stop"
  /\ session'.retryCount = session.retryCount + 1
  /\ session'.nextRetryAt = RetryAt(session.retryCount + 1, now)
------------------------------------------------------------------------------
\* What a step may do to the failures counted and the retry scheduled.
LEMMA RetryChange ==
  ASSUME TypeOK, [Next]_vars, \A p \in Proc : pc[p] # "reconcile_commit"
  PROVE  \/ UNCHANGED <<session.retryCount, session.nextRetryAt>>
         \/ session'.retryCount = 0
         \/ /\ session'.retryCount = session.retryCount /\ session'.nextRetryAt = Never
            /\ \E p \in Proc : StopConfirm(p)
         \/ \E p \in Proc : Counted(p)
<1> session \in Session /\ \A p \in Proc : loc[p] \in Local BY DEF TypeOK
<1>1. ASSUME NEW p \in Proc, StartPlan(p) PROVE session'.retryCount = 0
  BY <1>1 DEF StartPlan, EmptySession
<1>2. ASSUME NEW p \in Proc, StartCommit(p) \/ StopRequest(p)
      PROVE  UNCHANGED <<session.retryCount, session.nextRetryAt>>
  BY <1>2 DEF StartCommit, StopRequest, Session
<1>3. ASSUME NEW p \in Proc, StopConfirm(p)
      PROVE  session'.retryCount = session.retryCount /\ session'.nextRetryAt = Never
  BY <1>3 DEF StopConfirm, Session
<1>4. ASSUME NEW s \in Session
      PROVE  /\ ScheduleRetry(s).retryCount = s.retryCount + 1
             /\ ScheduleRetry(s).nextRetryAt = RetryAt(s.retryCount + 1, now)
  BY DEF ScheduleRetry, Session
<1>5. ASSUME NEW p \in Proc, StopCommit(p)
      PROVE  \/ UNCHANGED <<session.retryCount, session.nextRetryAt>>
             \/ session'.retryCount = 0 \/ Counted(p)
  <2> DEFINE confirmed == IsStopped(loc[p].seen)
             answered == [session EXCEPT !.phase = IF confirmed THEN "stopped" ELSE "stopping",
                                         !.stopConfirmed = confirmed]
  <2>1. confirmed \in BOOLEAN BY DEF IsStopped
  <2>2. /\ answered \in Session /\ answered.retryCount = session.retryCount
        /\ answered.nextRetryAt = session.nextRetryAt
    BY <2>1 DEF Session, Phases
  <2>3. /\ pc[p] = "stop_commit" /\ pc'[p] = "release"
        /\ session' = IF confirmed
                      THEN [answered EXCEPT !.retryCount = 0, !.nextRetryAt = Never]
                      ELSE IF loc[p].kind = "watchdog-stop" THEN ScheduleRetry(answered)
                      ELSE answered
    BY <1>5 DEF StopCommit, Goto, TypeOK
  <2> HIDE DEF answered, confirmed
  <2>4. CASE confirmed BY <2>2, <2>3, <2>4 DEF Session
  <2>5. CASE ~confirmed /\ loc[p].kind = "watchdog-stop"
    BY <1>4, <2>2, <2>3, <2>5 DEF Counted
  <2>6. CASE ~confirmed /\ loc[p].kind # "watchdog-stop" BY <2>2, <2>3, <2>6
  <2> QED BY <2>4, <2>5, <2>6
<1>6. ASSUME NEW p \in Proc, RecordFailure(p)
      PROVE  UNCHANGED <<session.retryCount, session.nextRetryAt>> \/ Counted(p)
  <2> DEFINE failed == [session EXCEPT !.phase = "error"]
  <2>1. /\ failed \in Session /\ failed.retryCount = session.retryCount
        /\ failed.nextRetryAt = session.nextRetryAt
    BY DEF Session, Phases
  <2>2. /\ pc[p] = "fail" /\ pc'[p] = "release"
        /\ session' = IF loc[p].kind = "watchdog-stop" THEN ScheduleRetry(failed) ELSE failed
    BY <1>6 DEF RecordFailure, Goto, TypeOK
  <2> HIDE DEF failed
  <2> QED BY <1>4, <2>1, <2>2 DEF Counted
<1>7. ASSUME NEW p \in Proc, ReconcileCommit(p) PROVE FALSE BY <1>7 DEF ReconcileCommit
<1> QED BY <1>1, <1>2, <1>3, <1>5, <1>6, <1>7, SessionKept DEF SessionWrites

\* A retry scheduled is a time.
LEMMA ScheduledAt ==
  ASSUME NEW n \in Nat, n + 1 < MaxFailures, now \in Nat
  PROVE  RetryAt(n + 1, now) # Never
<1>1. n \in 0..MaxFailures /\ MaxFailures \in Nat BY TimeAssumption
<1>2. 2^n \in Nat BY <1>1, BackoffAssumption
<1>3. Backoff * 2^n \in Nat BY <1>2, TimeAssumption
<1>4. (n + 1) - 1 = n OBVIOUS
<1>5. RetryAt(n + 1, now) = now + Backoff * 2^n BY <1>1, <1>4, TimeAssumption DEF RetryAt
<1> QED BY <1>3, <1>5 DEF Never

\* Without failing Pods, their statuses are the four of a healthy life.
LEMMA SoundStep ==
  ASSUME ~Fault("pod"), TypeOK, SoundPods, [Next]_vars PROVE SoundPods'
<1>1. CASE UNCHANGED pods BY <1>1 DEF SoundPods
<1>2. ASSUME NEW q \in Pod, PodBoots(q) \/ PodFails(q) PROVE SoundPods'
  BY <1>2 DEF PodBoots, PodFails, SoundPods, TypeOK
<1>3. ASSUME NEW c \in calls, CloudApply(c) PROVE SoundPods'
  <2>1. c.verb \in {"create", "resume", "stop"} BY DEF TypeOK, Call
  <2> QED BY <1>3, <2>1 DEF CloudApply, SoundPods, TypeOK
<1> QED BY <1>1, <1>2, <1>3, CloudStep DEF Send, CloudDrop

\* What is settled stays so until the next start is planned.
LEMMA SettledKept ==
  ASSUME TrackInv, [Next]_vars, Settled, \A p \in Proc : ~StartPlan(p) PROVE Settled'
<1> TypeOK /\ PodInv BY DEF TrackInv, PodInv, CreateInv, IInv
<1>1. Down' BY AliveStep DEF Settled, Down
<1>2. Exchanges' = {} BY ExchangesStep DEF Settled, Starting, Send
<1>3. ASSUME NEW p \in Proc PROVE ~Starting(p)'
  <2> Keyed(p) /\ Standing(p) /\ ~Starting(p) BY DEF PodInv, CreateInv, Settled
  <2>1. CASE Stays(p) BY <2>1 DEF Stays, Starting
  <2>2. CASE Enters(p)
    <3>1. pc'[p] \in {"start_inspect", "stop_pending", "extend_commit", "release", "idle"}
      BY <2>2 DEF Enters, StartCall, StopCall, ExtendCall, WatchdogStop, Enter, Return, Goto, TypeOK
    <3> QED BY <3>1 DEF Starting
  <2>3. CASE StartSteps(p)
    BY <2>3 DEF StartSteps, StartRefused, StartInspect, StartCommit, Goto, TypeOK, Starting
  <2>4. CASE StopSteps(p)
    BY <2>4 DEF StopSteps, StopPending, StopRefused, StopFind, StopConfirm, StopRequest,
                StopCommit, Goto, TypeOK, Starting, Standing
  <2>5. CASE CallSteps(p)
    BY <2>5 DEF CallSteps, MarkMutationAttempted, Send, CallFails, RecordFailure, Goto,
                TypeOK, Starting
  <2>6. CASE ExtendCommit(p) BY <2>6 DEF ExtendCommit, Goto, TypeOK, Starting
  <2>7. CASE Answered(p)
    BY <2>1, <2>7 DEF Answered, Answers, CloudApply, CloudAccept, AwaitsReply, Reply, AfterReply,
                Goto, TypeOK, Starting, Stays
  <2>8. CASE pc'[p] \notin Leased BY <2>8 DEF Starting, Leased
  <2> QED BY <2>1, <2>2, <2>3, <2>4, <2>5, <2>6, <2>7, <2>8, Actor DEF Steps
<1> QED BY <1>1, <1>2, <1>3 DEF Settled

\* While the watchdog stays where it is, nobody else counts a failure, and nobody
\* closes the session under a stop it is sending.
LEMMA PatientStays ==
  ASSUME OneWatchdog, RetryInv, [Next]_vars, NEW p \in Proc, Stays(p) PROVE Patient(p)'
<1> /\ TypeOK /\ LeaseHeld /\ Unexpired /\ \A q \in Proc : Patient(q)
    /\ \A q \in Proc : pc[q] # "reconcile_commit"
  BY DEF RetryInv, TrackInv, PodInv, CreateInv, IInv, Tracked
<1> now \in Nat /\ session \in Session /\ session.retryCount \in Nat /\ session.nextRetryAt \in Int
  BY DEF TypeOK, Session, Time
<1>1. now' \in Nat /\ now' >= now
  <2>1. CASE Tick BY <2>1 DEF Tick
  <2> QED BY <2>1, StepShape DEF Moves
<1>2. Patient(p) BY DEF RetryInv
<1> DEFINE Rest == /\ Guarding(p) => "watchdog" \in Roles[p]
                   /\ pc[p] \in Drains \cup {"watchdog_stop"} => loc[p].kind = "watchdog"
<1>3. pc'[p] = pc[p] /\ loc'[p].kind = loc[p].kind /\ (Guarding(p)' <=> Guarding(p)) /\ Rest
  BY <1>2 DEF Stays, Guarding, Patient
<1>4. CASE UNCHANGED <<session.retryCount, session.nextRetryAt>>
  <2>1. session.nextRetryAt <= now => session'.nextRetryAt <= now' BY <1>1, <1>4
  <2>2. Passed(session.nextRetryAt, now) => Passed(session'.nextRetryAt, now')
    BY <1>4, <2>1 DEF Passed
  <2> HIDE DEF Rest
  <2> QED BY <1>2, <1>3, <1>4, <2>1, <2>2 DEF Patient, Rest
<1>5. CASE session'.retryCount = 0
  BY <1>3, <1>5, TimeAssumption DEF Patient, Guarding
<1>6. ASSUME NEW q \in Proc, StopConfirm(q), session'.retryCount = session.retryCount,
             session'.nextRetryAt = Never
      PROVE  Patient(p)'
  <2>1. InLease(q) /\ q # p BY <1>6 DEF StopConfirm, InLease, Leased, Stays, Goto, TypeOK
  <2>2. pc[p] \notin {"stop_request", "mark", "send"}
    BY <2>1, OneInside DEF InLease, Leased
  <2>3. session'.nextRetryAt <= now' BY <1>1, <1>6 DEF Never
  <2> QED BY <1>2, <1>3, <1>6, <2>2, <2>3 DEF Patient
<1>7. ASSUME NEW q \in Proc, Counted(q) PROVE Patient(p)'
  <2>1. q # p BY <1>7 DEF Counted, Stays
  <2>2. "watchdog" \in Roles[q] BY <1>7 DEF Counted, Patient, Guarding
  <2>3. ~Guarding(p) BY <1>2, <2>1, <2>2 DEF Patient, OneWatchdog
  <2> QED BY <1>3, <2>3 DEF Patient
<1> QED BY <1>4, <1>5, <1>6, <1>7, RetryChange

\* The watchdog's own steps: it decides on a retry that is due, and sends what it decided.
LEMMA PatientMoves ==
  ASSUME RetryInv, [Next]_vars, NEW p \in Proc, ~Stays(p) PROVE Patient(p)'
<1> /\ TypeOK /\ PodInv /\ OnePod /\ Standing(p) /\ Keyed(p) /\ Patient(p)
    /\ \A q \in Proc : pc[q] # "reconcile_commit"
  BY DEF RetryInv, TrackInv, PodInv, CreateInv, IInv, Tracked
<1> /\ loc[p] \in Local /\ pc \in [Proc -> Leased \cup Unleased] /\ now \in Nat
    /\ session \in Session /\ session.retryCount \in Nat /\ session.nextRetryAt \in Int
  BY DEF TypeOK, Session, Time
<1> DEFINE Same == /\ session'.retryCount = session.retryCount
                   /\ session'.nextRetryAt = session.nextRetryAt /\ now' = now
           Outcome == Patient(p)'
<1> SUFFICES Outcome
  OBVIOUS
<1>1. ASSUME loc'[p].kind \notin {"watchdog", "watchdog-stop"}, pc'[p] \notin Drains \cup {"watchdog_stop"}
      PROVE  Outcome
  BY <1>1 DEF Patient, Guarding
<1>2. ASSUME Return(p) PROVE Outcome
  <2>1. loc'[p] = EmptyLoc /\ pc'[p] = "idle" BY <1>2, ReturnType DEF Return, Remember, TypeOK
  <2> QED BY <1>1, <2>1 DEF EmptyLoc, Drains
<1>3. CASE Enters(p)
  <2>1. ASSUME NEW f, NEW key, NEW label, Enter(p, key, label, f), f \in Local
        PROVE  loc'[p].kind = f.kind /\ pc'[p] \in {label, "release"}
    <3> DEFINE r == [f EXCEPT !.key = key, !.expires = now + Lease,
                              !.attempted = AttemptRecorded(key)]
    <3>1. r.kind = f.kind BY <2>1 DEF Local
    <3>2. Remember(p, r) BY <2>1 DEF Enter
    <3> HIDE DEF r
    <3>3. loc'[p] = r BY <3>2 DEF Remember, TypeOK
    <3> QED BY <2>1, <3>1, <3>3 DEF Enter, Goto
  <2>2. ASSUME NEW k \in StartKey, StartCall(p, k) PROVE Outcome
    <3> DEFINE f == [EmptyLoc EXCEPT !.kind = "start"]
    <3>1. f \in Local /\ f.kind = "start" BY EmptyLocType DEF Local, Kinds
    <3>2. Enter(p, k, "start_inspect", f) BY <2>2 DEF StartCall
    <3> HIDE DEF f
    <3> QED BY <1>1, <2>1, <3>1, <3>2 DEF Drains
  <2>3. ASSUME NEW k \in StopKey, StopCall(p, k) PROVE Outcome
    <3> DEFINE f == [EmptyLoc EXCEPT !.kind = "stop", !.reason = "manual"]
    <3>1. f \in Local /\ f.kind = "stop" BY EmptyLocType DEF Local, Kinds, Reasons
    <3>2. Enter(p, k, "stop_pending", f) BY <2>3 DEF StopCall
    <3> HIDE DEF f
    <3> QED BY <1>1, <2>1, <3>1, <3>2 DEF Drains
  <2>4. ASSUME NEW k \in ExtendKey, ExtendCall(p, k) PROVE Outcome
    <3> DEFINE deadline == session.hardDeadline + Extension
               label == IF Extendable(deadline) THEN "extend_commit" ELSE "release"
               f == [EmptyLoc EXCEPT !.kind = "extend", !.time = deadline]
    <3>1. deadline \in Time BY TimeAssumption DEF Session, Time
    <3>2. label \notin Drains \cup {"watchdog_stop"} BY DEF Drains
    <3>3. Enter(p, k, label, f) BY <2>4 DEF ExtendCall
    <3> HIDE DEF deadline
    <3>4. f \in Local /\ f.kind = "extend" BY <3>1, EmptyLocType DEF Local, Kinds
    <3> HIDE DEF f, label
    <3> QED BY <1>1, <2>1, <3>2, <3>3, <3>4 DEF Drains
  <2>5. CASE WatchdogStop(p)
    <3> DEFINE f == [EmptyLoc EXCEPT !.kind = "watchdog-stop", !.reason = loc[p].reason,
                                     !.at = loc[p].at, !.time = loc[p].time]
    <3>1. f \in Local /\ f.kind = "watchdog-stop" BY EmptyLocType DEF TypeOK, Local, Kinds
    <3>2. Same /\ pc[p] = "watchdog_stop" BY <2>5 DEF WatchdogStop
    <3>3. CASE Return(p) BY <1>2, <3>3
    <3>4. CASE Enter(p, loc[p].key, "stop_pending", f)
      <4> HIDE DEF f
      <4>1. loc'[p].kind = "watchdog-stop" /\ pc'[p] \in {"stop_pending", "release"}
        BY <2>1, <3>1, <3>4
      <4> QED BY <3>2, <4>1 DEF Patient, Guarding, Drains
    <3> QED BY <2>5, <3>3, <3>4 DEF WatchdogStop
  <2> QED BY <1>3, <2>2, <2>3, <2>4, <2>5 DEF Enters
<1>4. ASSUME loc'[p].kind = loc[p].kind, pc'[p] = "release" PROVE Outcome
  BY <1>4 DEF Patient, Guarding, Drains
<1>5. CASE StartSteps(p)
  <2>1. loc'[p].kind = loc[p].kind /\ pc'[p] \notin Drains \cup {"watchdog_stop"}
    <3> DEFINE r == [loc[p] EXCEPT !.pod = The(Managed), !.seen = StatusOf(The(Managed))]
    <3>1. r.kind = loc[p].kind BY DEF Local
    <3>2. loc' = loc \/ Remember(p, r)
      BY <1>5 DEF StartSteps, StartRefused, StartInspect, StartPlan, StartCommit
    <3> HIDE DEF r
    <3>3. loc'[p].kind = loc[p].kind BY <3>1, <3>2 DEF Remember, TypeOK
    <3>4. pc'[p] \notin Drains \cup {"watchdog_stop"}
      BY <1>5 DEF StartSteps, StartRefused, StartInspect, StartPlan, StartCommit, Goto, Drains
    <3> QED BY <3>3, <3>4
  <2>2. loc[p].kind = "start"
    BY <1>5 DEF StartSteps, StartRefused, StartInspect, StartPlan, StartCommit, Standing, Keyed
  <2> QED BY <1>1, <2>1, <2>2
<1>6. CASE StopSteps(p)
  <2>1. CASE StopPending(p)
    <3>1. Same /\ pc[p] = "stop_pending" /\ pc'[p] = "stop_find" /\ loc' = loc
      BY <2>1 DEF StopPending, Goto
    <3> QED BY <3>1 DEF Patient, Guarding, Drains
  <2>2. CASE StopRefused(p)
    <3>1. Same /\ pc[p] = "stop_find" /\ pc'[p] = "fail" /\ loc' = loc
      BY <2>2 DEF StopRefused, Goto
    <3> QED BY <3>1 DEF Patient, Guarding, Drains
  <2>3. CASE StopFind(p)
    <3> DEFINE found == Candidates(session.podId)
               r == [loc[p] EXCEPT !.pod = The(found), !.seen = StatusOf(The(found))]
    <3>1. r.kind = loc[p].kind BY DEF Local
    <3>2. /\ Remember(p, r) /\ Same /\ pc[p] = "stop_find"
          /\ pc'[p] = IF found = {} \/ IsStopped(StatusOf(The(found)))
                      THEN "stop_confirm" ELSE "stop_request"
      BY <2>3 DEF StopFind, Goto
    <3> HIDE DEF r
    <3>3. loc'[p].kind = loc[p].kind BY <3>1, <3>2 DEF Remember, TypeOK
    <3>4. ASSUME Settled PROVE pc'[p] = "stop_confirm"
      <4>1. \A q \in Managed : pods[q] = "EXITED"
        BY <3>4 DEF RetryInv, SoundPods, Settled, Down, Alive, Managed
      <4>2. found \subseteq Managed BY DEF Candidates
      <4>3. found # {} => The(found) \in found BY DEF The
      <4>4. ASSUME found # {} PROVE IsStopped(StatusOf(The(found)))
        <5>1. The(found) \in Managed BY <4>2, <4>3, <4>4
        <5>2. The(found) \in Pod /\ The(found) # Nil BY <5>1, PodAssumption DEF Managed
        <5> QED BY <4>1, <5>1, <5>2 DEF StatusOf, IsStopped
      <4> QED BY <3>2, <4>4
    <3>5. Guarding(p) /\ pc'[p] = "stop_request" =>
            session.retryCount = 0 \/ Passed(session.nextRetryAt, now)
      <4> SUFFICES ASSUME Guarding(p), pc'[p] = "stop_request", session.retryCount # 0
                   PROVE  Passed(session.nextRetryAt, now)
        OBVIOUS
      <4>1. session.retryCount < MaxFailures /\ session.nextRetryAt <= now
        BY <3>2 DEF Patient
      <4>2. session.nextRetryAt # Never BY <3>4, <4>1 DEF RetryInv, RetryScheduled
      <4> QED BY <4>1, <4>2 DEF Passed
    <3>6. pc'[p] \in {"stop_confirm", "stop_request"} BY <3>2
    <3> QED BY <3>2, <3>3, <3>5, <3>6 DEF Patient, Guarding, Drains
  <2>4. CASE StopConfirm(p) \/ StopCommit(p)
    <3>1. pc'[p] = "release" /\ loc' = loc BY <2>4 DEF StopConfirm, StopCommit, Goto
    <3> QED BY <1>4, <3>1
  <2>5. CASE StopRequest(p)
    <3>1. Same BY <2>5 DEF StopRequest, Session
    <3>2. pc[p] = "stop_request" /\ pc'[p] = "mark" /\ loc' = loc
      BY <2>5 DEF StopRequest, Goto
    <3> QED BY <3>1, <3>2 DEF Patient, Guarding, Drains
  <2> QED BY <1>6, <2>1, <2>2, <2>3, <2>4, <2>5 DEF StopSteps
<1>7. CASE CallSteps(p)
  <2>1. CASE MarkMutationAttempted(p) \/ Send(p) \/ CallFails(p)
    <3>1. Same /\ loc' = loc
      BY <2>1 DEF MarkMutationAttempted, Send, CallFails
    <3>2. \/ pc[p] = "mark" /\ pc'[p] = "send"
          \/ pc[p] = "send" /\ pc'[p] = "wait"
          \/ pc[p] = "wait" /\ pc'[p] = "fail"
      BY <2>1 DEF MarkMutationAttempted, Send, CallFails, Goto
    <3> QED BY <3>1, <3>2 DEF Patient, Guarding, Drains
  <2>2. CASE RecordFailure(p)
    <3>1. pc'[p] = "release" /\ loc' = loc BY <2>2 DEF RecordFailure, Goto
    <3> QED BY <1>4, <3>1
  <2> QED BY <1>7, <2>1, <2>2 DEF CallSteps
<1>8. CASE ExtendCommit(p)
  <2>1. pc'[p] = "release" /\ loc' = loc BY <1>8 DEF ExtendCommit, Goto
  <2> QED BY <1>4, <2>1
<1>9. CASE Answered(p)
  <2>1. PICK c \in calls : AwaitsReply(p, c) /\ Answers(c) BY <1>9 DEF Answered
  <2>2. c.proc = p /\ pc[p] = "wait" BY <2>1 DEF AwaitsReply
  <2>3. Same BY <2>1 DEF Answers, CloudApply, CloudAccept, store
  <2>4. PICK q, s : Reply(p, q, s)
    BY <2>1, <2>2 DEF Answers, CloudApply, CloudAccept, Stays
  <2> DEFINE r == [loc[p] EXCEPT !.pod = q, !.seen = s]
  <2>5. r.kind = loc[p].kind BY DEF Local
  <2>6. Remember(p, r) /\ pc'[p] \in {"start_commit", "stop_commit"}
    BY <2>4 DEF Reply, AfterReply, Goto
  <2> HIDE DEF r
  <2>7. loc'[p].kind = loc[p].kind BY <2>5, <2>6 DEF Remember, TypeOK
  <2> QED BY <2>2, <2>3, <2>6, <2>7 DEF Patient, Guarding, Drains
<1>10. CASE WatchdogRead(p)
  <2> DEFINE key == IF WatchdogDecision = "watchdog_stop"
                    THEN StopKeyFor(session, WatchdogReason) ELSE Nil
             r == [EmptyLoc EXCEPT !.kind = "watchdog", !.reason = WatchdogReason,
                                   !.at = now, !.key = key]
  <2>1. r.kind = "watchdog" BY DEF EmptyLoc
  <2>2. /\ Same /\ Remember(p, r) /\ pc'[p] = WatchdogDecision /\ "watchdog" \in Roles[p]
        /\ WatchdogDecision # "idle"
    BY <1>10 DEF WatchdogRead, Goto, Issues, store
  <2> HIDE DEF r
  <2>3. loc'[p].kind = "watchdog" BY <2>1, <2>2 DEF Remember, TypeOK
  <2>4. /\ session.retryCount < MaxFailures
        /\ \/ WatchdogDecision = "watchdog_stop" /\ session.nextRetryAt <= now
           \/ WatchdogDecision \in {"drain_claim", "sync_read"} /\ session.retryCount = 0
    BY <2>2, TimeAssumption DEF WatchdogDecision, Retrying, RetryDue, Passed
  <2> QED BY <2>2, <2>3, <2>4 DEF Patient, Guarding, Drains
<1>11. CASE WatchdogSteps(p) /\ ~WatchdogStop(p)
  <2>1. session'.retryCount = session.retryCount /\ session'.nextRetryAt = session.nextRetryAt
    BY <1>11 DEF WatchdogSteps, DrainClaim, DrainCancel, DrainMark, DrainDone,
              DrainRead, SyncRead, SyncCommit, SyncDecide,
                 Synced, Session, store
  <2>2. Same
    BY <1>11, <2>1 DEF WatchdogSteps, DrainClaim, DrainCancel, DrainMark, DrainDone,
                             DrainRead, SyncRead, SyncCommit, SyncDecide
  <2>3. ASSUME pc[p] \in Drains \cup {"sync_read", "sync_commit", "sync_decide"},
               pc'[p] \in Drains \cup {"sync_read", "sync_commit", "sync_decide",
                                      "watchdog_stop"},
               loc'[p].kind = loc[p].kind,
               pc'[p] \in Drains \cup {"watchdog_stop"} => loc[p].kind = "watchdog"
        PROVE  Outcome
    BY <2>2, <2>3 DEF Patient, Guarding, Drains
  <2>4. CASE DrainRead(p)
    <3> DEFINE r == [loc[p] EXCEPT !.key = StopKeyFor(session, "hard_deadline")]
    <3>1. r.kind = loc[p].kind BY DEF Local
    <3>2. CASE Return(p) BY <1>2, <3>2
    <3>3. CASE Goto(p, "watchdog_stop") /\ Remember(p, r)
      <4> HIDE DEF r
      <4>1. pc'[p] = "watchdog_stop" /\ loc'[p].kind = loc[p].kind
        BY <3>1, <3>3 DEF Goto, Remember, TypeOK
      <4>2. pc[p] \in Drains BY <2>4 DEF DrainRead, Drains
      <4>3. loc[p].kind = "watchdog" BY <4>2 DEF Patient
      <4> QED BY <2>3, <4>1, <4>2, <4>3
    <3> QED BY <2>4, <3>2, <3>3 DEF DrainRead
  <2>5. CASE DrainClaim(p) \/ DrainDone(p)
    BY <2>3, <2>5 DEF DrainClaim, DrainDone, Goto, Drains, Patient
  <2>6. CASE DrainCancel(p)
    BY <2>3, <2>6 DEF DrainCancel, Goto, Drains, Patient
  <2>7. CASE DrainMark(p)
    BY <2>3, <2>7 DEF DrainMark, Goto, Drains, Patient
  <2>8. CASE SyncRead(p)
    <3> DEFINE r == [loc[p] EXCEPT !.flag = job.active, !.time = job.last]
    <3>1. r.kind = loc[p].kind BY DEF Local
    <3>2. pc[p] = "sync_read" /\ pc'[p] = "sync_commit" /\ Remember(p, r)
      BY <2>8 DEF SyncRead, Goto
    <3> HIDE DEF r
    <3>3. loc'[p].kind = loc[p].kind BY <3>1, <3>2 DEF Remember, TypeOK
    <3> QED BY <2>3, <3>2, <3>3 DEF Drains
  <2>9. CASE SyncCommit(p)
    <3> DEFINE r == [loc[p] EXCEPT !.flag = FALSE, !.time = session'.idleDeadline]
    <3>1. r.kind = loc[p].kind BY DEF Local
    <3>2. CASE Return(p) BY <1>2, <3>2
    <3>3. CASE loc[p].kind = "watchdog" /\ Goto(p, "sync_decide") /\ Remember(p, r)
      <4> HIDE DEF r
      <4>1. pc'[p] = "sync_decide" /\ loc'[p].kind = loc[p].kind
        BY <3>1, <3>3 DEF Goto, Remember, TypeOK
      <4> QED BY <2>3, <2>9, <3>3, <4>1 DEF SyncCommit
    <3> QED BY <2>9, <3>2, <3>3 DEF SyncCommit
  <2>10. CASE SyncDecide(p)
    <3> DEFINE r == [loc[p] EXCEPT !.reason = "idle_deadline",
                                   !.key = StopKeyFor(session, "idle_deadline")]
    <3>1. r.kind = loc[p].kind BY DEF Local
    <3>2. CASE Return(p) BY <1>2, <3>2
    <3>3. CASE Goto(p, "watchdog_stop") /\ Remember(p, r)
      <4> HIDE DEF r
      <4>1. pc'[p] = "watchdog_stop" /\ loc'[p].kind = loc[p].kind
        BY <3>1, <3>3 DEF Goto, Remember, TypeOK
      <4>2. pc[p] = "sync_decide" /\ loc[p].kind = "watchdog"
        BY <2>10 DEF SyncDecide, Patient, Drains
      <4> QED BY <2>3, <4>1, <4>2
    <3> QED BY <2>10, <3>2, <3>3 DEF SyncDecide
  <2> QED BY <1>11, <2>4, <2>5, <2>6, <2>7, <2>8, <2>9, <2>10 DEF WatchdogSteps
<1>12. CASE ReconcileRead(p) \/ ObserveCall(p)
  <2>1. ASSUME NEW r, Remember(p, r), r.kind \in {"reconcile", "observe"},
               pc'[p] \in {"reconcile_commit", "sync_read"}
        PROVE  Outcome
    <3>1. loc'[p] = r BY <2>1 DEF Remember, TypeOK
    <3> QED BY <1>1, <2>1, <3>1 DEF Drains
  <2>2. CASE ObserveCall(p)
    <3>1. [EmptyLoc EXCEPT !.kind = "observe"].kind = "observe" BY DEF EmptyLoc
    <3> QED BY <2>1, <2>2, <3>1 DEF ObserveCall, Goto
  <2>3. CASE ReconcileRead(p)
    <3> DEFINE found == Candidates(session.podId)
               r(ready) == [EmptyLoc EXCEPT !.kind = "reconcile", !.pod = The(found),
                                            !.seen = StatusOf(The(found)), !.flag = ready]
    <3>1. \A ready : r(ready).kind = "reconcile" BY DEF EmptyLoc
    <3>2. (\E ready : Remember(p, r(ready))) /\ pc'[p] = "reconcile_commit"
      BY <2>3 DEF ReconcileRead, Goto
    <3> HIDE DEF r
    <3> QED BY <2>1, <3>1, <3>2
  <2> QED BY <1>12, <2>2, <2>3
<1>13. CASE JobAdmit(p) \/ JobQueue(p)
  <2>1. /\ Same /\ loc' = loc /\ pc[p] \in {"idle", "job_queue"} /\ pc'[p] \in {"idle", "job_queue"}
    BY <1>13 DEF JobAdmit, JobQueue, Issues, Goto, store
  <2> QED BY <2>1 DEF Patient, Guarding, Drains
<1>14. CASE ReconcileCommit(p) \/ ReleaseLease(p) \/ Crash(p)
  BY <1>2, <1>14 DEF ReconcileCommit, ReleaseLease, Crash
<1> QED BY <1>3, <1>5, <1>6, <1>7, <1>8, <1>9, <1>10, <1>11, <1>12, <1>13, <1>14, Mover
        DEF Steps, Aside, Enters

\* A failure is counted with a retry to come, or with nothing to stop.
LEMMA ScheduledStep ==
  ASSUME RetryInv, [Next]_vars PROVE RetryScheduled' /\ session'.retryCount <= MaxFailures
<1> /\ TypeOK /\ TrackInv /\ PodInv /\ LeaseHeld /\ Unexpired /\ ExchangeHeld
    /\ \A p \in Proc : Tracked(p) /\ pc[p] # "reconcile_commit"
  BY DEF RetryInv, TrackInv, PodInv, CreateInv, IInv, Tracked
<1> session.retryCount \in Nat /\ now \in Nat BY DEF TypeOK, Session
<1>1. ASSUME NEW p \in Proc, StopConfirm(p) PROVE Settled
  <2>1. pc[p] = "stop_confirm" /\ InLease(p) BY <1>1 DEF StopConfirm, InLease, Leased
  <2>2. Down BY <2>1 DEF Tracked
  <2>3. Exchanges = {} BY <2>1, NoExchange
  <2>4. ASSUME NEW q \in Proc, Starting(q) PROVE FALSE
    <3>1. InLease(q) /\ q # p BY <2>1, <2>4 DEF Starting, InLease, Leased
    <3> QED BY <2>1, <3>1, OneInside
  <2> QED BY <2>2, <2>3, <2>4 DEF Settled
<1>2. ASSUME NEW p \in Proc, Counted(p) PROVE session.retryCount < MaxFailures
  BY <1>2 DEF Counted, RetryInv, Patient, Guarding
<1>3. session'.retryCount <= MaxFailures
  BY <1>2, RetryChange, TimeAssumption DEF RetryInv, Counted
<1>4. ASSUME 0 < session'.retryCount, session'.retryCount < MaxFailures,
             session'.nextRetryAt = Never
      PROVE  Settled'
  <2>1. \A p \in Proc : ~StartPlan(p)
    <3>1. \A p \in Proc : StartPlan(p) => session'.retryCount = 0 BY DEF StartPlan, EmptySession
    <3> QED BY <1>4, <3>1
  <2>2. CASE UNCHANGED <<session.retryCount, session.nextRetryAt>>
    BY <1>4, <2>1, <2>2, SettledKept DEF RetryInv, RetryScheduled
  <2>3. CASE \E p \in Proc : StopConfirm(p) BY <1>1, <2>1, <2>3, SettledKept
  <2>4. ASSUME NEW p \in Proc, Counted(p) PROVE FALSE
    <3>1. session.retryCount + 1 < MaxFailures BY <1>4, <2>4 DEF Counted
    <3>2. RetryAt(session.retryCount + 1, now) # Never BY <3>1, ScheduledAt
    <3> QED BY <1>4, <2>4, <3>2 DEF Counted
  <2> QED BY <1>4, <2>2, <2>3, <2>4, RetryChange
<1> QED BY <1>3, <1>4 DEF RetryScheduled

\* Every step keeps the retries in order.
LEMMA RetryStep ==
  ASSUME ~Fault("overrun"), ~Fault("late"), ~Fault("pod"), NoReconcile, OneWatchdog,
         RetryInv, [Next]_vars
  PROVE  RetryInv'
<1> TypeOK BY DEF RetryInv, TrackInv, PodInv, CreateInv, IInv
<1>1. TrackInv' BY TrackStep DEF RetryInv
<1>2. SoundPods' BY SoundStep DEF RetryInv
<1>3. \A p \in Proc : Patient(p)' BY PatientStays, PatientMoves
<1> QED BY <1>1, <1>2, <1>3, ScheduledStep DEF RetryInv

LEMMA RetryInit == Init => RetryInv
<1> SUFFICES ASSUME Init PROVE RetryInv
  OBVIOUS
<1>1. SoundPods BY DEF Init, SoundPods
<1>2. session.retryCount = 0 BY DEF Init, EmptySession
<1>3. \A p \in Proc : Patient(p) BY DEF Init, Patient, Guarding, Drains, EmptyLoc
<1> QED BY <1>1, <1>2, <1>3, TrackInit, TimeAssumption DEF RetryInv, RetryScheduled

\* A stop the watchdog sends is the first one or its retry is due, and it counts
\* MAX_STOP_FAILURES at most, whatever callers start and stop between its decision
\* and its request, provided one watchdog runs, no caller reconciles (reconcile
\* clears the retry without the lease), no Pod fails by itself, RunPod applies no
\* request late and no operation outlives its lease.
THEOREM RetriesAreDue ==
  ASSUME ~Fault("overrun"), ~Fault("late"), ~Fault("pod"), NoReconcile, OneWatchdog
  PROVE  Spec => []RetryDiscipline
<1>1. RetryInv /\ [Next]_vars => RetryInv' BY RetryStep
<1>2. RetryInv => RetryDiscipline
  <2> SUFFICES ASSUME RetryInv PROVE RetryDiscipline
    OBVIOUS
  <2> QED BY DEF RetryInv, Patient, Guarding, RetryDiscipline
<1> QED BY <1>1, <1>2, RetryInit, PTL DEF Spec
------------------------------------------------------------------------------
(* Idleness.  The decision is taken from a snapshot of the workload, written  *)
(* by a later transaction, and carried out under a lease taken later still.   *)

\* Since the decision was due at loc[p].at, a job was queued or ended; or none was
\* active then, and the last activity was old enough.
Quiet(p) ==
  \/ job.last >= loc[p].at
  \/ ~job.active /\ job.last + IdleTicks <= loc[p].at

\* The snapshot is still the workload, unless a job was queued or ended since.
Snapshot(p) ==
  \/ job.last >= loc[p].at
  \/ loc[p].flag
  \/ ~job.active /\ job.last = loc[p].time

\* The idle deadline a run wrote is due only if it was quiet.
Judged(p) == Passed(loc[p].time, loc[p].at) => Quiet(p)

IdleStop(p) ==
  /\ pc[p] = "watchdog_stop" \/ loc[p].kind = "watchdog-stop"
  /\ loc[p].reason = "idle_deadline" /\ loc[p].key.retry = 0

Idling(p) ==
  /\ loc[p].at <= now
  /\ pc[p] = "sync_read" => loc[p].kind # "watchdog-stop"
  /\ pc[p] = "sync_commit" /\ loc[p].kind = "watchdog" => Snapshot(p)
  /\ pc[p] = "sync_decide" => Judged(p)
  /\ IdleStop(p) /\ loc[p].key.deadline = loc[p].time => Quiet(p)

IdleInv == TypeOK /\ Memory /\ job.last <= now /\ \A p \in Proc : Idling(p)

\* Time does not run back, and the workload changes by a job queued or ended now.
LEMMA JobStep ==
  ASSUME TypeOK, [Next]_vars
  PROVE  /\ now' \in Nat /\ now <= now'
         /\ UNCHANGED <<job.active, job.last>> \/ (job'.last = now /\ now' = now)
<1> now \in Nat /\ job \in [active : BOOLEAN, last : Time, drains : SUBSET Proc] BY DEF TypeOK
<1>1. now' \in Nat /\ now <= now'
  <2>1. CASE Tick BY <2>1 DEF Tick
  <2> QED BY <2>1, StepShape DEF Moves
<1> DEFINE Fine == UNCHANGED <<job.active, job.last>> \/ (job'.last = now /\ now' = now)
<1> SUFFICES Fine
  BY <1>1
<1>2. CASE job' = job BY <1>2
<1>3. ASSUME NEW p \in Proc, DrainCancel(p) \/ DrainMark(p) \/ JobQueue(p) PROVE Fine
  <2>1. now' = now BY <1>3 DEF DrainCancel, DrainMark, JobQueue
  <2>2. CASE DrainCancel(p)
    <3>1. CASE job' = job BY <3>1
    <3>2. ASSUME NEW d, job' = [job EXCEPT !.drains = d] PROVE Fine BY <3>2
    <3> QED BY <2>2, <3>1, <3>2 DEF DrainCancel
  <2>3. CASE DrainMark(p)
    <3>1. job' = job \/ job' = NoJob(now) BY <2>3 DEF DrainMark
    <3> QED BY <2>1, <3>1 DEF NoJob
  <2>4. CASE JobQueue(p) BY <2>1, <2>4 DEF JobQueue
  <2> QED BY <1>3, <2>2, <2>3, <2>4
<1>4. CASE JobEnds BY <1>4 DEF JobEnds, NoJob
<1>5. ASSUME NEW p \in Proc, Request(p) \/ ReleaseLease(p) \/ Crash(p) \/ ReconcileCommit(p)
      PROVE  job' = job
  BY <1>5 DEF Request, StartCall, StopCall, ExtendCall, ReconcileRead, WatchdogRead, ObserveCall,
              JobAdmit, ReleaseLease, Crash, ReconcileCommit
<1>6. ASSUME NEW p \in Proc, Steps(p) PROVE job' = job
  BY <1>6 DEF Steps, StartSteps, StartRefused, StartInspect, StartPlan, StartCommit, StopSteps,
              StopPending, StopRefused, StopFind, StopConfirm, StopRequest, StopCommit,
              CallSteps, MarkMutationAttempted, Send, CallFails, RecordFailure, ExtendCommit
<1>7. ASSUME NEW p \in Proc, WatchdogSteps(p), ~DrainCancel(p), ~DrainMark(p)
      PROVE  job' = job
  BY <1>7 DEF WatchdogSteps, DrainClaim, DrainDone, DrainRead, SyncRead, SyncCommit,
              SyncDecide, WatchdogStop
<1>8. ASSUME Cloud PROVE job' = job BY <1>8 DEF Cloud, CloudApply, CloudAccept, CloudDrop
<1>9. ASSUME (\E q \in Pod : PodBoots(q) \/ PodFails(q)) \/ Tick \/ UNCHANGED vars
      PROVE  job' = job
  BY <1>9 DEF PodBoots, PodFails, Tick, vars
<1> HIDE DEF Fine
<1> QED
  BY <1>2, <1>3, <1>4, <1>5, <1>6, <1>7, <1>8, <1>9 DEF Next, Progress, Steps

\* An operation keeps what it came with.
LEMMA PurposeKept ==
  ASSUME TypeOK, NEW p \in Proc, Steps(p) \/ (Answered(p) /\ ~Stays(p))
  PROVE  /\ loc'[p].kind = loc[p].kind /\ loc'[p].key = loc[p].key
         /\ loc'[p].reason = loc[p].reason /\ loc'[p].at = loc[p].at
         /\ loc'[p].time = loc[p].time /\ pc'[p] \in Leased
<1> loc[p] \in Local BY DEF TypeOK
<1> DEFINE Fine == /\ loc'[p].kind = loc[p].kind /\ loc'[p].key = loc[p].key
                   /\ loc'[p].reason = loc[p].reason /\ loc'[p].at = loc[p].at
                   /\ loc'[p].time = loc[p].time /\ pc'[p] \in Leased
<1>1. ASSUME NEW l \in Leased, Goto(p, l), loc' = loc PROVE Fine
  BY <1>1 DEF Goto, TypeOK
<1>2. ASSUME NEW l \in Leased, Goto(p, l), NEW q, NEW s,
             Remember(p, [loc[p] EXCEPT !.pod = q, !.seen = s])
      PROVE  Fine
  <2> DEFINE r == [loc[p] EXCEPT !.pod = q, !.seen = s]
  <2>1. /\ r.kind = loc[p].kind /\ r.key = loc[p].key /\ r.reason = loc[p].reason
        /\ r.at = loc[p].at /\ r.time = loc[p].time
    BY DEF Local
  <2>2. Remember(p, r) BY <1>2
  <2> HIDE DEF r
  <2> QED BY <1>2, <2>1, <2>2 DEF Remember, Goto, TypeOK
<1> SUFFICES Fine
  OBVIOUS
<1> HIDE DEF Fine
<1>3. CASE StartSteps(p)
  BY <1>1, <1>2, <1>3 DEF StartSteps, StartRefused, StartInspect, StartPlan, StartCommit, Leased
<1>4. CASE StopSteps(p)
  BY <1>1, <1>2, <1>4 DEF StopSteps, StopPending, StopRefused, StopFind, StopConfirm,
                          StopRequest, StopCommit, Leased
<1>5. CASE CallSteps(p) \/ ExtendCommit(p)
  BY <1>1, <1>5 DEF CallSteps, MarkMutationAttempted, Send, CallFails, RecordFailure,
                    ExtendCommit, Leased
<1>6. CASE Answered(p) /\ ~Stays(p)
  <2>1. PICK c \in calls : AwaitsReply(p, c) /\ Answers(c) BY <1>6 DEF Answered
  <2>2. c.proc = p BY <2>1 DEF AwaitsReply
  <2>3. PICK q, s : Reply(p, q, s)
    BY <1>6, <2>1, <2>2 DEF Answers, CloudApply, CloudAccept, Stays
  <2> QED BY <1>2, <2>3 DEF Reply, AfterReply, Leased
<1> QED BY <1>3, <1>4, <1>5, <1>6 DEF Steps

\* What was quiet stays so, or a job was queued or ended since.
LEMMA IdlingKept ==
  ASSUME IdleInv, [Next]_vars, NEW p \in Proc,
         loc'[p].kind = loc[p].kind, loc'[p].key = loc[p].key, loc'[p].at = loc[p].at,
         loc'[p].reason = loc[p].reason, loc'[p].time = loc[p].time,
         Stays(p) \/ pc'[p] \notin {"sync_read", "sync_commit", "sync_decide", "watchdog_stop"}
  PROVE  Idling(p)'
<1> TypeOK /\ Idling(p) /\ job.last <= now BY DEF IdleInv
<1> now \in Nat /\ loc[p].at \in Int /\ job.last \in Int BY DEF TypeOK, Local, Time
<1>1. loc'[p].at <= now' BY JobStep DEF Idling
<1>2. CASE job'.last = now /\ now' = now
  <2>1. Quiet(p)' BY <1>1, <1>2 DEF Quiet
  <2>2. Snapshot(p)' BY <1>1, <1>2 DEF Snapshot
  <2>3. Judged(p)' BY <2>1 DEF Judged
  <2> QED BY <1>1, <2>1, <2>2, <2>3 DEF Idling, Stays
<1>3. CASE UNCHANGED <<job.active, job.last>>
  <2>1. Quiet(p) => Quiet(p)' BY <1>3 DEF Quiet
  <2>2. Stays(p) /\ Snapshot(p) => Snapshot(p)' BY <1>3 DEF Stays, Snapshot
  <2>3. IdleStop(p)' => IdleStop(p) BY DEF IdleStop, Stays
  <2>4. Judged(p) => Judged(p)' BY <2>1 DEF Judged
  <2> QED BY <1>1, <2>1, <2>2, <2>3, <2>4 DEF Idling, Stays
<1> QED BY <1>2, <1>3, JobStep

\* A request just begun, or one that has returned, has decided nothing.
LEMMA IdlingAnew ==
  ASSUME IdleInv, [Next]_vars, NEW p \in Proc,
         loc'[p].kind # "watchdog-stop", loc'[p].at = Never \/ loc'[p].at = now,
         pc'[p] \notin {"watchdog_stop", "sync_decide"},
         pc'[p] = "sync_commit" => loc'[p].kind # "watchdog"
  PROVE  Idling(p)'
<1> TypeOK BY DEF IdleInv
<1>1. loc'[p].at <= now' BY JobStep DEF TypeOK, Never
<1> QED BY <1>1 DEF Idling, IdleStop

\* A request begins, or takes the lease for the stop it decided on.
LEMMA IdlingEnters ==
  ASSUME IdleInv, [Next]_vars, NEW p \in Proc, Enters(p) PROVE Idling(p)'
<1> TypeOK /\ Idling(p) BY DEF IdleInv
<1> loc[p] \in Local /\ session \in Session /\ pc \in [Proc -> Leased \cup Unleased]
  BY DEF TypeOK
<1>1. ASSUME NEW f \in Local, NEW key, NEW label, Enter(p, key, label, f)
      PROVE  /\ loc'[p].kind = f.kind /\ loc'[p].at = f.at /\ loc'[p].reason = f.reason
             /\ loc'[p].time = f.time /\ loc'[p].key = key /\ pc'[p] \in {label, "release"}
  <2> DEFINE r == [f EXCEPT !.key = key, !.expires = now + Lease,
                            !.attempted = AttemptRecorded(key)]
  <2>1. r.kind = f.kind /\ r.at = f.at /\ r.reason = f.reason /\ r.time = f.time /\ r.key = key
    BY DEF Local
  <2>2. Remember(p, r) BY <1>1 DEF Enter
  <2> HIDE DEF r
  <2>3. loc'[p] = r BY <2>2 DEF Remember, TypeOK
  <2> QED BY <1>1, <2>1, <2>3 DEF Enter, Goto
<1>2. ASSUME NEW f \in Local, NEW key, NEW label, Enter(p, key, label, f),
             f.kind # "watchdog-stop", f.at = Never, label \notin {"sync_read", "sync_commit", "sync_decide", "watchdog_stop"}
      PROVE  Idling(p)'
  <2>1. pc'[p] \notin {"sync_read", "sync_commit", "sync_decide", "watchdog_stop"} BY <1>1, <1>2
  <2>2. loc'[p].kind # "watchdog-stop" /\ loc'[p].at = Never BY <1>1, <1>2
  <2> QED BY <2>1, <2>2, IdlingAnew
<1>3. ASSUME NEW k \in StartKey, StartCall(p, k) PROVE Idling(p)'
  <2> DEFINE f == [EmptyLoc EXCEPT !.kind = "start"]
  <2>1. f \in Local /\ f.kind = "start" /\ f.at = Never BY EmptyLocType DEF Local, Kinds, EmptyLoc
  <2>2. Enter(p, k, "start_inspect", f) BY <1>3 DEF StartCall
  <2> HIDE DEF f
  <2> QED BY <1>2, <2>1, <2>2
<1>4. ASSUME NEW k \in StopKey, StopCall(p, k) PROVE Idling(p)'
  <2> DEFINE f == [EmptyLoc EXCEPT !.kind = "stop", !.reason = "manual"]
  <2>1. f \in Local /\ f.kind = "stop" /\ f.at = Never
    BY EmptyLocType DEF Local, Kinds, Reasons, EmptyLoc
  <2>2. Enter(p, k, "stop_pending", f) BY <1>4 DEF StopCall
  <2> HIDE DEF f
  <2> QED BY <1>2, <2>1, <2>2
<1>5. ASSUME NEW k \in ExtendKey, ExtendCall(p, k) PROVE Idling(p)'
  <2> DEFINE deadline == session.hardDeadline + Extension
             label == IF Extendable(deadline) THEN "extend_commit" ELSE "release"
             f == [EmptyLoc EXCEPT !.kind = "extend", !.time = deadline]
  <2>1. deadline \in Time BY TimeAssumption DEF Session, Time
  <2>2. label \notin {"sync_read", "sync_commit", "sync_decide", "watchdog_stop"} OBVIOUS
  <2>3. Enter(p, k, label, f) BY <1>5 DEF ExtendCall
  <2> HIDE DEF deadline
  <2>4. f \in Local /\ f.kind = "extend" /\ f.at = Never
    BY <2>1, EmptyLocType DEF Local, Kinds, EmptyLoc
  <2> HIDE DEF f, label
  <2> QED BY <1>2, <2>2, <2>3, <2>4
<1>6. CASE WatchdogStop(p)
  <2> DEFINE f == [EmptyLoc EXCEPT !.kind = "watchdog-stop", !.reason = loc[p].reason,
                                   !.at = loc[p].at, !.time = loc[p].time]
  <2>1. /\ f \in Local /\ f.kind = "watchdog-stop" /\ f.reason = loc[p].reason
        /\ f.at = loc[p].at /\ f.time = loc[p].time
    BY EmptyLocType DEF Local, Kinds, EmptyLoc
  <2>2. CASE Return(p)
    <3>1. loc'[p] = EmptyLoc /\ pc'[p] = "idle" BY <2>2, ReturnType DEF Return, Remember, TypeOK
    <3> QED BY <3>1, IdlingAnew DEF EmptyLoc
  <2>3. CASE Enter(p, loc[p].key, "stop_pending", f)
    <3>1. pc[p] = "watchdog_stop" /\ now' = now /\ job' = job BY <1>6 DEF WatchdogStop
    <3> HIDE DEF f
    <3>2. /\ loc'[p].at = loc[p].at /\ loc'[p].reason = loc[p].reason /\ loc'[p].key = loc[p].key
          /\ loc'[p].time = loc[p].time /\ pc'[p] \in {"stop_pending", "release"}
      BY <1>1, <2>1, <2>3
    <3> QED BY <3>1, <3>2 DEF Idling, IdleStop, Quiet
  <2> QED BY <1>6, <2>2, <2>3 DEF WatchdogStop
<1> QED BY <1>3, <1>4, <1>5, <1>6 DEF Enters

\* The snapshot is taken and judged.
LEMMA IdlingSyncs ==
  ASSUME IdleInv, [Next]_vars, NEW p \in Proc, SyncRead(p) \/ SyncCommit(p) \/ SyncDecide(p)
  PROVE  Idling(p)'
<1> TypeOK /\ Idling(p) /\ job.last <= now BY DEF IdleInv
<1> /\ loc[p] \in Local /\ session \in Session /\ now \in Nat
    /\ job.active \in BOOLEAN /\ job.last \in Int
  BY DEF TypeOK, Time
<1> loc[p].at \in Int /\ loc[p].time \in Int /\ loc[p].flag \in BOOLEAN BY DEF Local, Time
<1>1. CASE SyncRead(p)
  <2> DEFINE r == [loc[p] EXCEPT !.flag = job.active, !.time = job.last]
  <2>1. /\ r.flag = job.active /\ r.time = job.last /\ r.kind = loc[p].kind /\ r.at = loc[p].at
        /\ r.reason = loc[p].reason /\ r.key = loc[p].key
    BY DEF Local
  <2>2. /\ Remember(p, r) /\ pc'[p] = "sync_commit" /\ now' = now /\ job' = job
        /\ loc[p].kind # "watchdog-stop"
    BY <1>1 DEF SyncRead, Goto, TypeOK, Idling
  <2> HIDE DEF r
  <2>3. loc'[p] = r BY <2>2 DEF Remember, TypeOK
  <2>4. Snapshot(p)' BY <2>1, <2>2, <2>3 DEF Snapshot
  <2> QED BY <2>1, <2>2, <2>3, <2>4 DEF Idling, IdleStop, Quiet
<1>2. CASE SyncCommit(p)
  <2>1. pc[p] = "sync_commit" /\ now' = now /\ job' = job
        /\ session' = Synced(loc[p].flag, loc[p].time)
    BY <1>2 DEF SyncCommit
  <2>2. CASE Return(p)
    <3>1. loc'[p] = EmptyLoc /\ pc'[p] = "idle" BY <2>2, ReturnType DEF Return, Remember, TypeOK
    <3> QED BY <3>1, IdlingAnew DEF EmptyLoc
  <2> DEFINE r == [loc[p] EXCEPT !.flag = FALSE, !.time = session'.idleDeadline]
  <2>3. CASE loc[p].kind = "watchdog" /\ Goto(p, "sync_decide") /\ Remember(p, r)
    <3>1. /\ r.at = loc[p].at /\ r.kind = "watchdog" /\ r.time = session'.idleDeadline
      BY <2>3 DEF Local
    <3> HIDE DEF r
    <3>2. loc'[p] = r /\ pc'[p] = "sync_decide" BY <2>3 DEF Remember, Goto, TypeOK
    <3>3. session'.idleDeadline = IF session.phase # "ready" \/ loc[p].flag THEN Never
                                  ELSE Baseline(loc[p].time) + IdleTicks
      BY <2>1 DEF Synced, Session
    <3>4. ASSUME Passed(session'.idleDeadline, loc[p].at) PROVE Quiet(p)
      <4>1. ~loc[p].flag /\ Baseline(loc[p].time) + IdleTicks <= loc[p].at
        BY <3>3, <3>4 DEF Passed
      <4>2. Snapshot(p) BY <2>1, <2>3 DEF Idling
      <4>3. job.last = loc[p].time => job.last <= Baseline(loc[p].time)
        BY DEF Baseline, Later, Earlier, Session, Time, Never
      <4>4. Baseline(loc[p].time) \in Int
        BY DEF Baseline, Later, Earlier, Session, Time, Never
      <4> QED BY <4>1, <4>2, <4>3, <4>4, TimeAssumption DEF Snapshot, Quiet
    <3>5. Judged(p)' BY <2>1, <3>1, <3>2, <3>4 DEF Judged, Quiet
    <3> QED BY <2>1, <3>1, <3>2, <3>5 DEF Idling, IdleStop
  <2> QED BY <1>2, <2>2, <2>3 DEF SyncCommit
<1>3. CASE SyncDecide(p)
  <2>1. pc[p] = "sync_decide" /\ now' = now /\ job' = job /\ Judged(p)
    BY <1>3 DEF SyncDecide, Idling
  <2>2. CASE Return(p)
    <3>1. loc'[p] = EmptyLoc /\ pc'[p] = "idle" BY <2>2, ReturnType DEF Return, Remember, TypeOK
    <3> QED BY <3>1, IdlingAnew DEF EmptyLoc
  <2> DEFINE r == [loc[p] EXCEPT !.reason = "idle_deadline",
                                 !.key = StopKeyFor(session, "idle_deadline")]
  <2>3. CASE /\ Passed(session.idleDeadline, loc[p].at) /\ Goto(p, "watchdog_stop")
             /\ Remember(p, r)
    <3>1. /\ r.at = loc[p].at /\ r.time = loc[p].time
          /\ r.key.deadline = session.idleDeadline
      BY DEF Local, StopKeyFor
    <3> HIDE DEF r
    <3>2. loc'[p] = r /\ pc'[p] = "watchdog_stop" BY <2>3 DEF Remember, Goto, TypeOK
    <3>3. session.idleDeadline = loc[p].time => Quiet(p) BY <2>1, <2>3 DEF Judged
    <3> QED BY <2>1, <3>1, <3>2, <3>3 DEF Idling, Quiet
  <2> QED BY <1>3, <2>2, <2>3 DEF SyncDecide
<1> QED BY <1>1, <1>2, <1>3

\* Every step keeps what an idle stop was decided from, or the workload changed since.
LEMMA IdlingStep ==
  ASSUME IdleInv, [Next]_vars, NEW p \in Proc PROVE Idling(p)'
<1> TypeOK BY DEF IdleInv
<1> loc[p] \in Local /\ session.retryCount \in Nat /\ pc \in [Proc -> Leased \cup Unleased]
  BY DEF TypeOK, Session
<1>1. ASSUME Return(p) PROVE Idling(p)'
  <2>1. loc'[p] = EmptyLoc /\ pc'[p] = "idle" BY <1>1, ReturnType DEF Return, Remember, TypeOK
  <2> QED BY <2>1, IdlingAnew DEF EmptyLoc
<1>2. CASE Stays(p) BY <1>2, IdlingKept DEF Stays
<1>3. CASE Steps(p) \/ Answered(p)
  <2>1. CASE Stays(p) BY <1>2, <2>1
  <2>2. CASE ~Stays(p)
    <3>1. pc'[p] \notin {"sync_read", "sync_commit", "sync_decide", "watchdog_stop"} BY <1>3, <2>2, PurposeKept DEF Leased
    <3> QED BY <1>3, <2>2, <3>1, PurposeKept, IdlingKept
  <2> QED BY <2>1, <2>2
<1>4. ASSUME loc'[p] = loc[p], pc'[p] \notin {"sync_read", "sync_commit", "sync_decide", "watchdog_stop"} PROVE Idling(p)'
  BY <1>4, IdlingKept
<1>5. CASE JobAdmit(p) \/ JobQueue(p)
  BY <1>4, <1>5 DEF JobAdmit, JobQueue, Goto
<1>6. CASE ReconcileCommit(p) \/ ReleaseLease(p) \/ Crash(p)
  BY <1>1, <1>6 DEF ReconcileCommit, ReleaseLease, Crash
<1>7. CASE ObserveCall(p)
  <2> DEFINE r == [EmptyLoc EXCEPT !.kind = "observe"]
  <2>1. r.kind = "observe" /\ r.at = Never BY DEF EmptyLoc
  <2>2. Remember(p, r) /\ pc'[p] = "sync_read" BY <1>7 DEF ObserveCall, Goto
  <2> HIDE DEF r
  <2>3. loc'[p] = r BY <2>2 DEF Remember, TypeOK
  <2> QED BY <2>1, <2>2, <2>3, IdlingAnew
<1>8. CASE ReconcileRead(p)
  <2> DEFINE found == Candidates(session.podId)
             r(ready) == [EmptyLoc EXCEPT !.kind = "reconcile", !.pod = The(found),
                                          !.seen = StatusOf(The(found)), !.flag = ready]
  <2>1. \A ready : r(ready).kind = "reconcile" /\ r(ready).at = Never BY DEF EmptyLoc
  <2>2. (\E ready : Remember(p, r(ready))) /\ pc'[p] = "reconcile_commit"
    BY <1>8 DEF ReconcileRead, Goto
  <2> HIDE DEF r
  <2>3. \E ready : loc'[p] = r(ready) BY <2>2 DEF Remember, TypeOK
  <2>4. loc'[p].kind = "reconcile" /\ loc'[p].at = Never BY <2>1, <2>3
  <2> QED BY <2>2, <2>4, IdlingAnew
<1>9. CASE WatchdogRead(p)
  <2> DEFINE key == IF WatchdogDecision = "watchdog_stop"
                    THEN StopKeyFor(session, WatchdogReason) ELSE Nil
             r == [EmptyLoc EXCEPT !.kind = "watchdog", !.reason = WatchdogReason,
                                   !.at = now, !.key = key]
  <2>1. r.kind = "watchdog" /\ r.at = now /\ r.key = key BY DEF EmptyLoc
  <2>2. Remember(p, r) /\ pc'[p] = WatchdogDecision BY <1>9 DEF WatchdogRead, Goto
  <2> HIDE DEF r
  <2>3. loc'[p] = r BY <2>2 DEF Remember, TypeOK
  <2>4. CASE WatchdogDecision = "watchdog_stop"
    <3>1. loc'[p].key.retry = session.retryCount BY <2>1, <2>3, <2>4 DEF StopKeyFor
    <3>2. session.retryCount > 0 BY <2>4 DEF WatchdogDecision, Retrying
    <3>3. ~IdleStop(p)' BY <3>1, <3>2 DEF IdleStop
    <3>4. loc'[p].at <= now' BY <2>1, <2>3, JobStep
    <3> QED BY <2>2, <2>4, <3>3, <3>4 DEF Idling
  <2>5. CASE WatchdogDecision # "watchdog_stop"
    <3>1. pc'[p] \notin {"sync_commit", "sync_decide", "watchdog_stop"}
      BY <2>2, <2>5 DEF WatchdogDecision
    <3>2. loc'[p].kind # "watchdog-stop" /\ loc'[p].at = now BY <2>1, <2>3
    <3> QED BY <3>1, <3>2, IdlingAnew
  <2> QED BY <2>4, <2>5
<1>10. CASE DrainRead(p)
  <2> DEFINE r == [loc[p] EXCEPT !.key = StopKeyFor(session, "hard_deadline")]
  <2>1. r.kind = loc[p].kind /\ r.at = loc[p].at /\ r.reason = loc[p].reason BY DEF Local
  <2>2. CASE Return(p) BY <1>1, <2>2
  <2>3. CASE loc[p].reason = "hard_deadline" /\ Goto(p, "watchdog_stop") /\ Remember(p, r)
    <3> HIDE DEF r
    <3>1. loc'[p] = r /\ pc'[p] = "watchdog_stop" BY <2>3 DEF Remember, Goto, TypeOK
    <3>2. ~IdleStop(p)' BY <2>1, <2>3, <3>1 DEF IdleStop
    <3>3. now \in Nat /\ loc[p].at \in Int /\ loc[p].at <= now
      BY DEF TypeOK, Local, Time, IdleInv, Idling
    <3>4. loc'[p].at <= now' BY <2>1, <3>1, <3>3, JobStep
    <3> QED BY <3>1, <3>2, <3>4 DEF Idling
  <2> QED BY <1>10, <2>2, <2>3 DEF DrainRead
<1>11. CASE DrainClaim(p) \/ DrainCancel(p) \/ DrainMark(p) \/ DrainDone(p)
  <2>1. CASE DrainClaim(p) \/ DrainDone(p) BY <1>4, <2>1 DEF DrainClaim, DrainDone, Goto
  <2>2. CASE DrainCancel(p) BY <1>4, <2>2 DEF DrainCancel, Goto
  <2>3. CASE DrainMark(p) BY <1>4, <2>3 DEF DrainMark, Goto
  <2> QED BY <1>11, <2>1, <2>2, <2>3
<1>12. CASE Enters(p) BY <1>12, IdlingEnters
<1>13. CASE SyncRead(p) \/ SyncCommit(p) \/ SyncDecide(p) BY <1>13, IdlingSyncs
<1> QED BY <1>2, <1>3, <1>5, <1>6, <1>7, <1>8, <1>9, <1>10, <1>11, <1>12, <1>13, Mover
        DEF Aside, WatchdogSteps, Enters

\* A run's first stop for the idle deadline it wrote itself is sent only when the
\* minutes had passed without a job at its snapshot, or a job was queued or ended
\* since: for any number of processes, any failures, whatever observations of other
\* processes are written in between, and with no assumption on the leases.
THEOREM IdleStopsAreQuiet == Spec => []IdleStopAfterQuiet
<1>1. Init => IdleInv
  <2> SUFFICES ASSUME Init PROVE IdleInv
    OBVIOUS
  <2>1. ASSUME NEW p \in Proc PROVE Idling(p)
    <3>1. /\ pc[p] = "idle" /\ loc[p] = EmptyLoc /\ now = 0
          /\ EmptyLoc.kind = "none" /\ EmptyLoc.at = Never
      BY DEF Init, EmptyLoc
    <3> QED BY <3>1 DEF Idling, IdleStop, Never
  <2> QED BY <2>1, TypeInit DEF Init, IdleInv, NoJob, Never
<1>2. IdleInv /\ [Next]_vars => IdleInv'
  <2> SUFFICES ASSUME IdleInv, [Next]_vars PROVE IdleInv'
    OBVIOUS
  <2>1. TypeOK' /\ Memory' BY TypeStep DEF IdleInv
  <2>2. now \in Nat /\ job.last \in Int BY DEF IdleInv, TypeOK, Time
  <2>3. (job.last <= now)' BY <2>2, JobStep DEF IdleInv
  <2> QED BY <2>1, <2>3, IdlingStep DEF IdleInv
<1>3. IdleInv => IdleStopAfterQuiet
  BY DEF IdleInv, Idling, IdleStop, Quiet, SendsIdleStop, IdleStopAfterQuiet
<1> QED BY <1>1, <1>2, <1>3, PTL DEF Spec
==============================================================================
