------------------------------ MODULE ApiStudio ------------------------------
(* The browser's other adapter (lib/api-service.ts): what the page shows of   *)
(* the server's session and jobs, the calls it has in flight, the poll that   *)
(* keeps it up to date, and the sign-in around it (studio-provider.tsx).  An  *)
(* async method runs from one await to the next, so a click, the arrival of   *)
(* its request and that of its answer are three steps.  The server is here    *)
(* what its routes answer (StudioServer has their steps), and what it shows   *)
(* can change under the page.  Settings, voices and the draft are left out,   *)
(* and of a job's status only whether it is pending (queued or running).      *)
EXTENDS Naturals

CONSTANTS ServerJob,  \* job identifiers of the server
          Call,       \* calls a page has in flight at once, numbered
          MaxClicks,  \* bound on the calls made
          MaxLost     \* bound on the requests lost, and on the cookie's expiries

ASSUME ApiAssumption == Call \subseteq Nat /\ MaxClicks \in Nat /\ MaxLost \in Nat

VARIABLES site,      \* the server's session
          records,   \* the server's job list
          shown,     \* snapshot.session and snapshot.jobs
          acting,    \* actionBusy
          call,      \* each call in flight: its method, where it is, its answer
          look,      \* refresh (guarded by pollPromise) and hydrate, in flight
          auth,      \* authState
          signedIn,  \* whether the page's cookie is valid
          clicks, lost

server == <<site, records>>
page == <<shown, acting, auth>>
bounds == <<clicks, lost>>
apiVars == <<server, page, call, look, signedIn, bounds>>

SiteStatus == {"off", "loading", "ready", "stopping", "error"}
RecordStatus == {"none", "pending", "ended"}
Guarded == {"start", "stop", "generate", "retry"}  \* the methods that take actionBusy
Looks == {"poll", "hydrate"}
NoCall == [at |-> "idle", kind |-> "none", job |-> "none", answer |-> "off"]
NoRecords == [j \in ServerJob |-> "none"]
NoLook == [on |-> FALSE, left |-> {}, session |-> "off", jobs |-> NoRecords]
NewLook == [NoLook EXCEPT !.on = TRUE, !.left = {"session", "jobs"}]

Pending(jobs) == {j \in ServerJob : jobs[j] = "pending"}
CancelPending(jobs) == [j \in ServerJob |-> IF jobs[j] = "pending" THEN "ended" ELSE jobs[j]]

\* A server in any of the states its routes leave, and a page just opened.
ApiInit ==
  /\ site \in {"off", "ready"}
  /\ records \in [ServerJob -> {"none", "ended"}]
  /\ shown = [session |-> "off", jobs |-> NoRecords]
  /\ acting = FALSE
  /\ call = [c \in Call |-> NoCall]
  /\ look = [l \in Looks |-> NoLook]
  /\ auth = "checking"
  /\ signedIn \in BOOLEAN
  /\ clicks = 0 /\ lost = 0

------------------------------------------------------------------------------
(* What the user asks for.                                                    *)

Send(c, kind, j) ==
  /\ auth = "ready"
  /\ call[c].at = "idle" /\ \A d \in Call : call[d].at = "idle" => c <= d
  /\ call' = [call EXCEPT ![c] = [NoCall EXCEPT !.at = "sent", !.kind = kind, !.job = j]]
  /\ clicks < MaxClicks /\ clicks' = clicks + 1
  /\ UNCHANGED <<server, look, auth, signedIn, lost>>

ClickStart(c) ==
  /\ ~ acting /\ shown.session \in {"off", "error"}
  /\ acting' = TRUE
  /\ shown' = [shown EXCEPT !.session = "provisioning"]
  /\ Send(c, "start", "none")

ClickStop(c) ==
  /\ ~ acting /\ shown.session # "off"
  /\ acting' = TRUE
  /\ shown' = [shown EXCEPT !.session = "stopping"]
  /\ Send(c, "stop", "none")

ClickGenerate(c) ==
  /\ ~ acting /\ Pending(shown.jobs) = {} /\ shown.session = "ready"
  /\ acting' = TRUE
  /\ Send(c, "generate", "none")
  /\ UNCHANGED shown

ClickRetry(c, j) ==
  /\ ~ acting /\ shown.jobs[j] # "none"
  /\ acting' = TRUE
  /\ Send(c, "retry", j)
  /\ UNCHANGED shown

\* Extend, cancel and reset neither look at actionBusy nor take it.
ClickFreely(c) ==
  /\ \/ Send(c, "extend", "none")
     \/ Send(c, "reset", "none")
     \/ \E j \in ServerJob : shown.jobs[j] # "none" /\ Send(c, "cancel", j)
  /\ UNCHANGED <<shown, acting>>

Click(c) ==
  \/ ClickStart(c) \/ ClickStop(c) \/ ClickGenerate(c) \/ ClickFreely(c)
  \/ \E j \in ServerJob : ClickRetry(c, j)

------------------------------------------------------------------------------
(* The server.                                                                *)

Reaches(c, kind) == call[c].at = "sent" /\ signedIn /\ call[c].kind = kind
Answers(c, answer) == call' = [call EXCEPT ![c].at = "answered", ![c].answer = answer]
Fails(c) == call' = [call EXCEPT ![c].at = "failed"]
Works(c) == call' = [call EXCEPT ![c].at = "working"]

ServeStart(c) ==
  /\ Reaches(c, "start")
  /\ IF site \in {"loading", "ready"}
     THEN Answers(c, site) /\ UNCHANGED site
     ELSE Works(c) /\ site' = "loading"
  /\ UNCHANGED records

ServeStop(c) ==
  /\ Reaches(c, "stop") \/ Reaches(c, "reset")
  /\ Works(c)
  /\ site' = "stopping"
  /\ UNCHANGED records

ServeExtend(c) ==
  /\ Reaches(c, "extend")
  /\ site = "ready" /\ Answers(c, site)
  /\ UNCHANGED server

ServeGenerate(c) ==
  /\ Reaches(c, "generate")
  /\ site = "ready" /\ Pending(records) = {}
  /\ \E j \in ServerJob :
       /\ records[j] = "none"
       /\ records' = [records EXCEPT ![j] = "pending"]
       /\ call' = [call EXCEPT ![c].at = "working", ![c].job = j]
  /\ UNCHANGED site

\* The worker cancels the job, or has ended it.
ServeCancel(c) ==
  LET j == call[c].job
  IN /\ Reaches(c, "cancel")
     /\ records[j] # "none"
     /\ records' = [records EXCEPT ![j] = "ended"] /\ Answers(c, "ended")
     /\ UNCHANGED site

ServeRetry(c) ==
  LET j == call[c].job
  IN /\ Reaches(c, "retry")
     /\ records[j] = "ended" /\ Pending(records) = {}
     /\ records' = [records EXCEPT ![j] = "pending"] /\ Answers(c, "pending")
     /\ UNCHANGED site

\* The worker has answered: its readiness, the submission, the cancellations.
Completes(c) ==
  LET j == call[c].job
  IN /\ call[c].at = "working"
     /\ CASE call[c].kind = "start" ->
               /\ \/ site' = "ready" /\ Answers(c, "ready")
                  \/ /\ site' = IF site = "loading" THEN "error" ELSE site
                     /\ Fails(c)
               /\ UNCHANGED records
          [] call[c].kind = "stop" ->
               site' = "off" /\ records' = CancelPending(records) /\ Answers(c, "off")
          [] call[c].kind = "reset" ->
               site' = "off" /\ records' = NoRecords /\ Answers(c, "off")
          [] OTHER ->
               /\ \/ records[j] # "none" /\ Answers(c, "pending")
                     /\ records' = [records EXCEPT ![j] = "pending"]
                  \/ /\ records' = [records EXCEPT ![j] = IF @ = "none" THEN @ ELSE "ended"]
                     /\ Fails(c)
               /\ UNCHANGED site

\* requireStudioAccess, at the head of every route.
Denied(c) ==
  /\ call[c].at = "sent" /\ ~ signedIn
  /\ call' = [call EXCEPT ![c].at = "denied"]
  /\ UNCHANGED server

Serve(c) ==
  /\ \/ ServeStart(c) \/ ServeStop(c) \/ ServeExtend(c) \/ ServeGenerate(c)
     \/ ServeCancel(c) \/ ServeRetry(c) \/ Completes(c) \/ Denied(c)
  /\ UNCHANGED <<page, look, signedIn, bounds>>

Lost == lost < MaxLost /\ lost' = lost + 1

\* The deadline of the session.  One page is open, so that a job ends only in
\* what this page asks for; ReadDetail asks for it.
Deadline ==
  /\ site = "ready"
  /\ site' = "off" /\ records' = CancelPending(records)
  /\ UNCHANGED <<page, call, look, signedIn, bounds>>

------------------------------------------------------------------------------
(* The answer reaches the page.                                               *)

ShowAnswer(c) ==
  LET kind == call[c].kind
      answer == call[c].answer
      j == call[c].job
  IN shown' = CASE kind \in {"start", "extend"} -> [shown EXCEPT !.session = answer]
                [] kind = "stop" -> [session |-> answer, jobs |-> CancelPending(shown.jobs)]
                [] kind = "reset" -> [session |-> "off", jobs |-> NoRecords]
                [] kind = "generate" -> [shown EXCEPT !.jobs[j] = answer]
                [] OTHER -> [shown EXCEPT !.jobs[j] = IF @ = "none" THEN @ ELSE answer]

\* A call the server refused, for its own reasons, has changed nothing.
Arrives(c, result) ==
  \/ call[c].at = result /\ UNCHANGED lost
  \/ /\ result = "failed" /\ call[c].at = "sent" /\ signedIn
     /\ call[c].kind \notin {"start", "stop", "reset"}
     /\ UNCHANGED lost
  \/ result = "failed" /\ call[c].at \in {"sent", "answered"} /\ Lost

\* Mutants of Receive: a start that fails is shown with the status of a job; a
\* stop that fails leaves actionBusy set.
ReceiveAsFailed(c, result) ==
  /\ Arrives(c, result)
  /\ IF result = "answered" THEN ShowAnswer(c)
     ELSE shown' = IF call[c].kind = "start" THEN [shown EXCEPT !.session = "failed"] ELSE shown
  /\ auth' = IF result = "denied" THEN "login" ELSE auth
  /\ acting' = IF call[c].kind \in Guarded THEN FALSE ELSE acting
  /\ call' = [call EXCEPT ![c] = NoCall]
  /\ UNCHANGED <<server, look, signedIn, clicks>>
ReceiveKeepingBusy(c, result) ==
  /\ Arrives(c, result)
  /\ IF result = "answered" THEN ShowAnswer(c)
     ELSE shown' = IF call[c].kind = "start" THEN [shown EXCEPT !.session = "error"] ELSE shown
  /\ auth' = IF result = "denied" THEN "login" ELSE auth
  /\ acting' = IF call[c].kind \in Guarded /\ result = "answered" THEN FALSE ELSE acting
  /\ call' = [call EXCEPT ![c] = NoCall]
  /\ UNCHANGED <<server, look, signedIn, clicks>>

\* A start that fails shows an error; a stop that fails leaves the page as it
\* is; a denied call asks for the password again.
Receive(c, result) ==
  /\ Arrives(c, result)
  /\ IF result = "answered" THEN ShowAnswer(c)
     ELSE shown' = IF call[c].kind = "start" THEN [shown EXCEPT !.session = "error"] ELSE shown
  /\ auth' = IF result = "denied" THEN "login" ELSE auth
  /\ acting' = IF call[c].kind \in Guarded THEN FALSE ELSE acting
  /\ call' = [call EXCEPT ![c] = NoCall]
  /\ UNCHANGED <<server, look, signedIn, clicks>>

Returns(c) == \E result \in {"answered", "failed", "denied"} : Receive(c, result)

------------------------------------------------------------------------------
(* Refresh and hydrate: two requests at once, and refresh then one for every  *)
(* active job; their answers are shown together.                              *)

LookKeeps == UNCHANGED <<acting, call, signedIn, clicks>>

\* tick, once a second, whatever the page is asking the user.
ApiTick ==
  /\ shown.session # "off" \/ Pending(shown.jobs) # {}
  /\ ~ look["poll"].on
  /\ look' = [look EXCEPT !["poll"] = NewLook]
  /\ LookKeeps /\ UNCHANGED <<server, shown, auth, lost>>

ReadSession ==
  /\ "session" \in look["poll"].left /\ signedIn
  /\ look' = [look EXCEPT !["poll"].session = site, !["poll"].left = @ \ {"session"}]
  /\ LookKeeps /\ UNCHANGED <<server, shown, auth, lost>>

ReadRecords ==
  /\ "jobs" \in look["poll"].left /\ signedIn
  /\ look' = [look EXCEPT !["poll"].jobs = records,
                          !["poll"].left = (@ \ {"jobs"}) \cup Pending(records)]
  /\ LookKeeps /\ UNCHANGED <<server, shown, auth, lost>>

\* The route of a job asks the worker first, and answers what it then writes.
ReadDetail(j) ==
  /\ j \in look["poll"].left /\ signedIn
  /\ {"session", "jobs"} \cap look["poll"].left = {}
  /\ \/ records[j] = "pending" /\ records' \in {records, [records EXCEPT ![j] = "ended"]}
     \/ records[j] = "ended" /\ UNCHANGED records
  /\ look' = [look EXCEPT !["poll"].jobs[j] = records'[j], !["poll"].left = @ \ {j}]
  /\ LookKeeps /\ UNCHANGED <<site, shown, auth, lost>>

\* The requests of hydrate are answered at one moment here, and shown at another.
ReadAll ==
  /\ look["hydrate"].left # {} /\ signedIn
  /\ look' = [look EXCEPT !["hydrate"] = [on |-> TRUE, left |-> {}, session |-> site, jobs |-> records]]
  /\ LookKeeps /\ UNCHANGED <<server, shown, auth, lost>>

\* Mutant of Publish: the poll shows the jobs and keeps the session shown.
PublishJobsOnly(l) ==
  /\ look[l].on /\ look[l].left = {}
  /\ shown' = [shown EXCEPT !.jobs = look[l].jobs]
  /\ auth' = IF l = "hydrate" THEN "ready" ELSE auth
  /\ look' = [look EXCEPT ![l] = NoLook]
  /\ LookKeeps /\ UNCHANGED <<server, lost>>

Publish(l) ==
  /\ look[l].on /\ look[l].left = {}
  /\ shown' = [session |-> look[l].session, jobs |-> look[l].jobs]
  /\ auth' = IF l = "hydrate" THEN "ready" ELSE auth
  /\ look' = [look EXCEPT ![l] = NoLook]
  /\ LookKeeps /\ UNCHANGED <<server, lost>>

\* One request of several fails, or is denied, and the whole look with it.
LookFails(l) ==
  /\ look[l].left # {}
  /\ look' = [look EXCEPT ![l] = NoLook]
  /\ \/ Lost /\ auth' = IF l = "hydrate" THEN "login" ELSE auth
     \/ \E j \in look[l].left \cap ServerJob : records[j] = "none" /\ UNCHANGED <<auth, lost>>
     \/ ~ signedIn /\ auth' = "login" /\ UNCHANGED lost
  /\ LookKeeps /\ UNCHANGED <<server, shown>>

LookOn(l) ==
  \/ Publish(l) \/ LookFails(l)
  \/ l = "poll" /\ (ReadSession \/ ReadRecords \/ \E j \in ServerJob : ReadDetail(j))
  \/ l = "hydrate" /\ ReadAll

------------------------------------------------------------------------------
(* Signing in.                                                                *)

Hydrate == look' = [look EXCEPT !["hydrate"] = NewLook]

\* The page is opened: /api/v1/auth/session is asked first.
Check ==
  /\ auth = "checking" /\ ~ look["hydrate"].on
  /\ \/ auth' = "configuration-error" /\ UNCHANGED look
     \/ ~ signedIn /\ auth' = "login" /\ UNCHANGED look
     \/ signedIn /\ Hydrate /\ UNCHANGED auth
  /\ UNCHANGED <<server, shown, acting, call, signedIn, bounds>>

\* The right password; the model has one hydrate in flight.
Login ==
  /\ auth = "login" /\ ~ look["hydrate"].on
  /\ signedIn' = TRUE
  /\ auth' = "checking"
  /\ Hydrate
  /\ UNCHANGED <<server, shown, acting, call, bounds>>

\* The cookie expires, or another tab signs out.
Expire ==
  /\ signedIn /\ signedIn' = FALSE /\ Lost
  /\ UNCHANGED <<server, page, call, look, clicks>>

ApiNext ==
  \/ \E c \in Call : Click(c) \/ Serve(c) \/ Returns(c)
  \/ Deadline
  \/ ApiTick \/ \E l \in Looks : LookOn(l)
  \/ Check \/ Login \/ Expire

\* The interval calls tick, and a request is answered or lost.
ApiFairness ==
  /\ WF_apiVars(ApiTick)
  /\ \A l \in Looks : WF_apiVars(LookOn(l))
  /\ \A c \in Call : WF_apiVars(Serve(c)) /\ WF_apiVars(Returns(c))

------------------------------------------------------------------------------
(* Properties.                                                                *)

\* What the page shows has the types of the snapshot, whatever mapSession and
\* mapJob took from an answer.
ApiTypeOK ==
  /\ site \in SiteStatus
  /\ records \in [ServerJob -> RecordStatus]
  /\ shown \in [session : SiteStatus \cup {"provisioning"}, jobs : [ServerJob -> RecordStatus]]
  /\ acting \in BOOLEAN /\ signedIn \in BOOLEAN
  /\ auth \in {"checking", "login", "ready", "configuration-error"}
  /\ clicks \in 0 .. MaxClicks /\ lost \in 0 .. MaxLost

\* actionBusy is set exactly while one start, stop, generate or retry is in
\* flight: there are never two, and no failure, refusal or sign-out in between
\* leaves the page unable to act (the finally blocks of api-service.ts).
GuardedCalls == {c \in Call : call[c].at # "idle" /\ call[c].kind \in Guarded}
OneAction ==
  /\ \A c, d \in GuardedCalls : c = d
  /\ acting <=> GuardedCalls # {}

\* While the page is open to a signed-in user, what it shows as going on does
\* not outlive what goes on: it learns of a session that ended and of a job
\* that was settled, and neither "provisioning" nor "stopping" stays on it,
\* whatever calls and polls failed, or were overtaken, on the way.
PageCatchesUp ==
  /\ []<>(shown.session = "off" \/ site # "off" \/ auth # "ready")
  /\ []<>(shown.session \notin {"provisioning", "stopping"} \/ auth # "ready")
  /\ \A j \in ServerJob :
       []<>(j \notin Pending(shown.jobs) \/ j \in Pending(records) \/ auth # "ready")
==============================================================================
