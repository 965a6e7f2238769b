-------------------------- MODULE StudioServerProofs -------------------------
(* StudioServer, for any number of handlers, keys, voices and jobs, any       *)
(* interleaving, and any worker calls lost: one idempotency key makes one     *)
(* job, a session keeps to its four hours, the library has its files, a job   *)
(* shown as succeeded is one the worker made, and the audio offered is there. *)
EXTENDS StudioServer, WellFoundedInduction, TLAPS

------------------------------------------------------------------------------
(* Idempotency keys.                                                          *)

KeyInv == DOMAIN job = Id /\ DOMAIN key = Id /\ CreateOnce

\* Most steps leave the records alone, or take jobs from them.
LEMMA FewerJobs ==
  ASSUME KeyInv, DOMAIN job' = Id, UNCHANGED key,
         \A i \in Id : job[i] = "none" => job'[i] = "none"
  PROVE KeyInv'
BY DEF KeyInv, CreateOnce

LEMMA UpdateKeepsKeys ==
  ASSUME KeyInv, NEW i, NEW status, NEW hasAudio, UpdateJob(i, status, hasAudio)
  PROVE KeyInv'
<1>1. DOMAIN job = Id /\ DOMAIN job' = Id /\ UNCHANGED key
  BY DEF KeyInv, UpdateJob, records
<1>2. \A j \in Id : job[j] = "none" => job'[j] = "none"
  BY <1>1 DEF UpdateJob, records
<1> QED BY <1>1, <1>2, FewerJobs

\* The transaction of POST /api/v1/jobs looks for the key itself.
LEMMA InsertKeepsKeys ==
  ASSUME KeyInv, NEW h \in Handler, InsertJob(h) PROVE KeyInv'
<1>1. CASE UNCHANGED records
  BY <1>1 DEF KeyInv, CreateOnce, records
<1>2. CASE /\ ~ KeyUsed(req[h].key)
           /\ LET i == Least(Fresh)
              IN /\ job' = [job EXCEPT ![i] = "queued"]
                 /\ key' = [key EXCEPT ![i] = req[h].key]
  <2> DEFINE i == Least(Fresh)
  <2>1. \A j \in Id : j # i => job'[j] = job[j] /\ key'[j] = key[j]
    BY <1>2 DEF KeyInv
  <2>2. \A j \in Id : j # i /\ job'[j] # "none" => key'[j] # req[h].key
    BY <1>2, <2>1 DEF KeyUsed
  <2>3. i \in Id => key'[i] = req[h].key
    BY <1>2 DEF KeyInv
  <2>4. DOMAIN job' = Id /\ DOMAIN key' = Id
    BY <1>2 DEF KeyInv
  <2>5. CreateOnce'
    <3> SUFFICES ASSUME NEW j \in Id, NEW k \in Id, job'[j] # "none", job'[k] # "none",
                        key'[j] = key'[k]
                 PROVE j = k
      BY DEF CreateOnce
    <3>1. CASE j # i /\ k # i
      BY <2>1, <3>1 DEF KeyInv, CreateOnce
    <3>2. CASE j = i
      BY <2>2, <2>3, <3>2
    <3>3. CASE k = i
      BY <2>2, <2>3, <3>3
    <3> QED BY <3>1, <3>2, <3>3
  <2> QED BY <2>4, <2>5 DEF KeyInv
<1> QED BY <1>1, <1>2 DEF InsertJob

LEMMA StepKeepsKeys ==
  ASSUME KeyInv, NEW h \in Handler, Step(h) PROVE KeyInv'
<1>1. CASE UNCHANGED <<job, key>>
  BY <1>1 DEF KeyInv, CreateOnce
<1>2. CASE CloseSession(h) \/ ResetState(h)
  <2>1. DOMAIN job' = Id /\ \A i \in Id : job[i] = "none" => job'[i] = "none"
    BY <1>2 DEF CloseSession, ResetState
  <2>2. CASE CloseSession(h)
    BY <2>1, <2>2, FewerJobs DEF CloseSession
  <2>3. CASE ResetState(h)
    BY <2>3 DEF ResetState, KeyInv, CreateOnce
  <2> QED BY <1>2, <2>2, <2>3
<1>3. CASE InsertJob(h)
  BY <1>3, InsertKeepsKeys
<1>4. CASE Submitted(h) \/ ApplyPoll(h) \/ ApplyCancel(h) \/ ApplyRetry(h)
  BY <1>4, UpdateKeepsKeys DEF Submitted, ApplyPoll, ApplyCancel, ApplyRetry
<1>5. CASE \/ Deadline(h) \/ Stop(h) \/ Stopping(h) \/ CancelEach(h) \/ Reread(h)
           \/ StartSession(h) \/ WorkerReady(h) \/ SessionReady(h) \/ StartFails(h)
           \/ SessionError(h) \/ Extend(h) \/ Admit(h) \/ Submit(h) \/ ReadJob(h)
  <2>1. UNCHANGED records
    BY <1>5 DEF Deadline, Stop, Stopping, CancelEach, Reread, StartSession, WorkerReady,
                SessionReady, StartFails, SessionError, Extend, Admit, Submit, ReadJob, StoreKept
  <2> QED BY <1>1, <2>1 DEF records
<1>6. CASE \/ AskWorker(h) \/ Download(h) \/ RemoveOutput(h) \/ SaveOutput(h) \/ CancelJob(h) \/ CancelCall(h)
           \/ RetrySegment(h) \/ RetryCall(h) \/ SaveReference(h) \/ AddVoice(h)
           \/ RemoveVoice(h) \/ RemoveReference(h) \/ ReadVoices(h) \/ WipeReferences(h)
           \/ ClearOutputs(h)
  <2>1. UNCHANGED records
    BY <1>6 DEF AskWorker, Download, RemoveOutput, SaveOutput, CancelJob, CancelCall, RetrySegment, RetryCall,
                SaveReference, AddVoice, RemoveVoice, RemoveReference, ReadVoices, WipeReferences,
                ClearOutputs, StoreKept
  <2> QED BY <1>1, <2>1 DEF records
<1> QED BY <1>2, <1>3, <1>4, <1>5, <1>6 DEF Step

\* One idempotency key makes one job (POST /api/v1/jobs), whatever requests
\* carry it at once and wherever the process dies.
THEOREM KeyMakesOneJob == Spec => []CreateOnce
<1>1. Init => KeyInv
  BY DEF Init, KeyInv, CreateOnce
<1>2. KeyInv /\ [Next]_vars => KeyInv'
  <2> SUFFICES ASSUME KeyInv, [Next]_vars PROVE KeyInv'
    OBVIOUS
  <2>1. ASSUME NEW h \in Handler, Step(h) PROVE KeyInv'
    BY <2>1, StepKeepsKeys
  <2>2. CASE UNCHANGED records
    BY <2>2 DEF records, KeyInv, CreateOnce
  <2>3. ASSUME NEW h \in Handler, Ask(h) PROVE UNCHANGED records
    BY <2>3 DEF Ask, Arrive, StoreKept
  <2>4. ASSUME NEW h \in Handler, PollSession(h) \/ \E i \in Id : PollJob(h, i)
        PROVE UNCHANGED records
    BY <2>4 DEF PollSession, PollJob, Arrive, StoreKept
  <2>5. CASE Crash \/ Tick \/ \E i \in Id : WorkerRuns(i)
    BY <2>2, <2>5 DEF Crash, Tick, WorkerRuns, StoreKept
  <2>6. CASE UNCHANGED vars
    BY <2>2, <2>6 DEF vars
  <2> QED BY <2>1, <2>2, <2>3, <2>4, <2>5, <2>6 DEF Next
<1>3. KeyInv => CreateOnce
  BY DEF KeyInv
<1> QED BY <1>1, <1>2, <1>3, PTL DEF Spec

------------------------------------------------------------------------------
(* Requests: what a handler carries from one step to the next.                *)

Fields == DOMAIN NoReq
Thens == {"idle", "admit", "poll", "start", "extend", "wipe"}
Requesting == DOMAIN req = Handler /\ \A h \in Handler : DOMAIN req[h] = Fields /\ req[h].then \in Thens

LEMMA FieldNames ==
  Fields = {"at", "then", "id", "key", "voice", "units", "saw", "act", "left", "answer"}
BY DEF Fields, NoReq

LEMMA StepsEffect ==
  ASSUME Requesting, NEW h \in Handler, NEW r, Steps(h, r)
  PROVE /\ DOMAIN req' = Handler
        /\ req'[h] = r
        /\ \A g \in Handler : g # h => req'[g] = req[g]
BY DEF Requesting, Steps

LEMMA GotoEffect ==
  ASSUME Requesting, NEW h \in Handler, NEW label, Goto(h, label)
  PROVE /\ DOMAIN req' = Handler
        /\ \A g \in Handler : g # h => req'[g] = req[g]
        /\ DOMAIN req'[h] = Fields
        /\ req'[h].at = label
        /\ \/ req'[h] = NoReq
           \/ /\ req'[h].then = req[h].then /\ req'[h].saw = req[h].saw
              /\ req'[h].units = req[h].units /\ req'[h].voice = req[h].voice
              /\ req'[h].left = req[h].left /\ req'[h].id = req[h].id
              /\ req'[h].answer = req[h].answer
<1>1. CASE label = "idle"
  BY <1>1, StepsEffect DEF Goto, NoReq, Fields
<1>2. CASE label # "idle"
  <2>1. Steps(h, [req[h] EXCEPT !.at = label])
    BY <1>2 DEF Goto
  <2> QED BY <2>1, StepsEffect, FieldNames DEF Requesting
<1> QED BY <1>1, <1>2

------------------------------------------------------------------------------
(* Sessions.                                                                  *)

Statuses == {"off", "loading", "ready", "stopping", "error"}
SessionType == [status : Statuses, started : Int, expires : Int]
Kept(s) ==
  /\ s \in SessionType
  /\ s.status = "ready" => s.expires > s.started /\ s.expires <= s.started + Longest

\* A copy of the session that a handler holds is as good as the session, and a
\* handler on its way to a start carries a duration that is allowed.
Starting == {"start", "check", "ready"}
RequestKept(r) ==
  /\ DOMAIN r = Fields /\ r.then \in Thens
  /\ Kept(r.saw)
  /\ r.at \in Starting \/ r.then = "start" => r.units \in Durations

SessionInv ==
  /\ clock \in Int
  /\ Kept(session)
  /\ DOMAIN req = Handler /\ \A h \in Handler : RequestKept(req[h])

LEMMA OffKept == Kept(Off) /\ RequestKept(NoReq)
<1>1. Kept(Off)
  BY DEF Kept, Off, SessionType, Statuses
<1> QED BY <1>1 DEF RequestKept, NoReq, Fields, Thens, Starting

LEMMA SessionInvRequesting == SessionInv => Requesting
BY DEF SessionInv, Requesting, RequestKept

LEMMA StepsKept ==
  ASSUME SessionInv, NEW h \in Handler, NEW r, Steps(h, r), RequestKept(r),
         Kept(session'), clock' = clock
  PROVE SessionInv'
<1>1. /\ DOMAIN req' = Handler /\ req'[h] = r
      /\ \A g \in Handler : g # h => req'[g] = req[g]
  BY SessionInvRequesting, StepsEffect
<1> QED BY <1>1 DEF SessionInv

LEMMA GotoKept ==
  ASSUME SessionInv, NEW h \in Handler, NEW label, Goto(h, label),
         label \in Starting => req[h].units \in Durations,
         Kept(session'), clock' = clock
  PROVE SessionInv'
<1>1. RequestKept(req[h])
  BY DEF SessionInv
<1>2. CASE label = "idle"
  BY <1>2, OffKept, StepsKept DEF Goto
<1>3. CASE label # "idle"
  <2>1. RequestKept([req[h] EXCEPT !.at = label])
    BY <1>1, <1>3, FieldNames DEF RequestKept
  <2> QED BY <1>3, <2>1, StepsKept DEF Goto
<1> QED BY <1>2, <1>3

\* Steps that leave the session alone and go on at a label that starts nothing.
LEMMA PlainStepKeepsSession ==
  ASSUME SessionInv, NEW h \in Handler,
         \/ SaveReference(h) \/ AddVoice(h) \/ RemoveVoice(h) \/ RemoveReference(h)
         \/ RemoveOutput(h) \/ ClearOutputs(h) \/ ApplyRetry(h) \/ RetrySegment(h)
         \/ ApplyCancel(h) \/ CancelJob(h) \/ ApplyPoll(h) \/ SaveOutput(h)
         \/ Download(h) \/ ReadJob(h) \/ Submitted(h) \/ Admit(h)
  PROVE SessionInv'
<1>1. PICK label \in {"idle", "add voice", "unlink", "wipe records", "retry call",
                     "cancel call", "apply", "replace", "save", "ask", "insert"} : Goto(h, label)
  BY DEF SaveReference, AddVoice, RemoveVoice, RemoveReference, RemoveOutput, ClearOutputs,
         ApplyRetry, RetrySegment, ApplyCancel, CancelJob, ApplyPoll, SaveOutput, Download, ReadJob,
         Submitted, Admit, Done
<1>2. session' = session /\ clock' = clock
  BY DEF SaveReference, AddVoice, RemoveVoice, RemoveReference, RemoveOutput, ClearOutputs,
         ApplyRetry, RetrySegment, ApplyCancel, CancelJob, ApplyPoll, SaveOutput, Download, ReadJob,
         Submitted, Admit, StoreKept, Bounds, Clocks
<1>3. label \notin Starting
  BY <1>1 DEF Starting
<1>4. Kept(session')
  BY <1>2 DEF SessionInv
<1> QED BY <1>1, <1>2, <1>3, <1>4, GotoKept

\* A request rewritten with a copy of the session that is at hand.
LEMMA RewriteKept ==
  ASSUME SessionInv, NEW h \in Handler, NEW r, Steps(h, r), DOMAIN r = Fields,
         r.then \in {req[h].then, "idle"}, r.saw \in {req[h].saw, session, Off},
         r.at \in Starting \/ r.then = "start" =>
           r.units = req[h].units /\ (req[h].at \in Starting \/ req[h].then = "start"),
         Kept(session'), clock' = clock
  PROVE SessionInv'
<1>1. RequestKept(req[h]) /\ Kept(session)
  BY DEF SessionInv
<1>2. RequestKept(r)
  BY <1>1, OffKept DEF RequestKept, Thens
<1> QED BY <1>2, StepsKept

LEMMA ContinueKept ==
  ASSUME SessionInv, NEW h \in Handler, Continue(h), session' = session, clock' = clock
  PROVE SessionInv'
<1>1. RequestKept(req[h]) /\ Kept(session)
  BY DEF SessionInv
<1>2. CASE req[h].then = "idle"
  BY <1>1, <1>2, OffKept, StepsKept DEF Continue
<1>3. CASE req[h].then # "idle"
  <2> DEFINE r == [req[h] EXCEPT !.at = req[h].then, !.act = {},
                     !.saw = IF req[h].then \in {"start", "extend"} THEN session ELSE Off]
  <2>1. Steps(h, r)
    BY <1>3 DEF Continue
  <2>2. r.saw \in {session, Off}
    BY <1>1, FieldNames DEF RequestKept
  <2>3. /\ DOMAIN r = Fields /\ r.then = req[h].then /\ r.at = req[h].then
        /\ r.units = req[h].units
    BY <1>1, FieldNames DEF RequestKept
  <2>4. r.at \in Starting => r.then = "start"
    BY <1>1, <2>3 DEF RequestKept, Thens, Starting
  <2> HIDE DEF r
  <2> QED BY <1>1, <2>1, <2>2, <2>3, <2>4, RewriteKept
<1> QED BY <1>2, <1>3

\* Steps that leave the session alone and rewrite the request in another way.
LEMMA ReadingStepKeepsSession ==
  ASSUME SessionInv, NEW h \in Handler,
         \/ Deadline(h) \/ Reread(h) \/ Stop(h) \/ CancelEach(h) \/ Submit(h) \/ AskWorker(h)
         \/ CancelCall(h) \/ RetryCall(h) \/ ReadVoices(h) \/ WipeReferences(h)
  PROVE SessionInv'
<1>1. RequestKept(req[h]) /\ Kept(session)
  BY DEF SessionInv
<1>2. session' = session /\ clock' = clock
  BY DEF Deadline, Reread, Stop, CancelEach, Submit, AskWorker, CancelCall, RetryCall, ReadVoices,
         WipeReferences, StoreKept, Bounds, Clocks
<1>3. CASE Done(h)
  BY <1>1, <1>2, <1>3, GotoKept DEF Done, Starting
<1>4. CASE Continue(h)
  BY <1>2, <1>4, ContinueKept
<1>5. ASSUME NEW r, Steps(h, r), DOMAIN r = Fields,
             r.then \in {req[h].then, "idle"}, r.saw \in {req[h].saw, session, Off},
             r.at \in Starting \/ r.then = "start" =>
               r.units = req[h].units /\ (req[h].at \in Starting \/ req[h].then = "start")
      PROVE SessionInv'
  BY <1>1, <1>2, <1>5, RewriteKept
<1>6. CASE Deadline(h) \/ Reread(h)
  <2>1. CASE Steps(h, [req[h] EXCEPT !.at = "expire", !.act = ActiveIds, !.left = ActiveIds])
    BY <1>1, <1>5, <2>1, FieldNames DEF RequestKept, Starting
  <2> QED BY <1>4, <1>6, <2>1 DEF Deadline, Reread
<1>7. CASE Stop(h)
  BY <1>1, <1>5, <1>7, FieldNames DEF Stop, RequestKept, Starting
<1>8. CASE CancelEach(h)
  <2>1. PICK i \in req[h].left : Steps(h, [req[h] EXCEPT !.left = @ \ {i}])
    BY <1>8 DEF CancelEach
  <2> QED BY <1>1, <1>5, <2>1, FieldNames DEF RequestKept
<1>9. CASE Submit(h)
  <2>1. PICK status \in {"queued", "failed"} :
          Steps(h, [NoReq EXCEPT !.at = "submitted", !.id = req[h].id, !.answer = status])
    BY <1>9 DEF Submit
  <2> QED BY <1>5, <2>1 DEF NoReq, Fields, Starting
<1>10. CASE AskWorker(h) \/ CancelCall(h) \/ RetryCall(h)
  <2>1. \/ Done(h)
        \/ \E at \in {"download", "apply", "cancelled", "retried"} : \E answer :
             \/ Steps(h, [req[h] EXCEPT !.at = at, !.answer = answer])
             \/ Steps(h, [req[h] EXCEPT !.answer = answer, !.at = at])
    BY <1>10 DEF AskWorker, CancelCall, RetryCall
  <2> QED BY <1>1, <1>3, <1>5, <2>1, FieldNames DEF RequestKept, Starting
<1>11. CASE ReadVoices(h)
  BY <1>1, <1>5, <1>11, FieldNames DEF ReadVoices, RequestKept, Starting
<1>12. CASE WipeReferences(h)
  <2>1. CASE Goto(h, "wipe outputs")
    BY <1>1, <1>2, <2>1, GotoKept DEF Starting
  <2>2. CASE \E v : Steps(h, [req[h] EXCEPT !.left = @ \ {v}])
    <3>1. PICK v : Steps(h, [req[h] EXCEPT !.left = @ \ {v}])
      BY <2>2
    <3> QED BY <1>1, <1>5, <3>1, FieldNames DEF RequestKept
  <2> QED BY <1>12, <2>1, <2>2 DEF WipeReferences
<1> QED BY <1>6, <1>7, <1>8, <1>9, <1>10, <1>11, <1>12

\* start, and the way a session ends.
LEMMA SessionStepKeepsSession ==
  ASSUME SessionInv, NEW h \in Handler,
         \/ Stopping(h) \/ CloseSession(h) \/ StartSession(h) \/ WorkerReady(h)
         \/ SessionReady(h) \/ StartFails(h) \/ SessionError(h) \/ ResetState(h)
  PROVE SessionInv'
<1>1. RequestKept(req[h]) /\ Kept(session) /\ clock \in Int
  BY DEF SessionInv
<1>2. clock' = clock
  BY DEF Stopping, CloseSession, StartSession, WorkerReady, SessionReady, StartFails, SessionError,
         ResetState, Bounds, Clocks, StoreKept
<1>3. ASSUME Kept(session'), Done(h) PROVE SessionInv'
  BY <1>2, <1>3, GotoKept DEF Done, Starting
<1>4. CASE Stopping(h)
  <2>1. Kept(session')
    BY <1>1, <1>4 DEF Stopping, RequestKept, Kept, SessionType, Statuses
  <2> QED BY <1>1, <1>2, <1>4, <2>1, OffKept, FieldNames, RewriteKept
        DEF Stopping, RequestKept, Starting
<1>5. CASE CloseSession(h)
  <2>1. Kept(session')
    <3>1. session \in SessionType /\ session' = [session EXCEPT !.status = "off", !.expires = 0]
      BY <1>1, <1>5 DEF CloseSession, Kept
    <3>2. session' = [status |-> "off", started |-> session.started, expires |-> 0]
      BY <3>1 DEF SessionType
    <3>3. session.started \in Int
      BY <3>1 DEF SessionType
    <3> QED BY <3>2, <3>3 DEF Kept, SessionType, Statuses
  <2>2. CASE Goto(h, "reread")
    BY <1>2, <2>1, <2>2, GotoKept DEF Starting
  <2>3. CASE Goto(h, req[h].then)
    <3>1. req[h].then \in Starting => req[h].units \in Durations
      BY <1>1 DEF RequestKept, Thens, Starting
    <3> QED BY <1>2, <2>1, <2>3, <3>1, GotoKept
  <2> QED BY <1>5, <2>2, <2>3 DEF CloseSession
<1>6. CASE StartSession(h)
  <2>1. req[h].units \in Durations
    BY <1>1, <1>6 DEF StartSession, At, RequestKept, Starting
  <2>2. CASE Done(h) /\ UNCHANGED session
    BY <1>1, <1>3, <2>2
  <2>3. CASE /\ session' = [status |-> "loading", started |-> clock, expires |-> 0]
             /\ Steps(h, [NoReq EXCEPT !.at = "check", !.units = req[h].units])
    <3>1. Kept(session')
      BY <1>1, <2>3 DEF Kept, SessionType, Statuses
    <3>2. RequestKept([NoReq EXCEPT !.at = "check", !.units = req[h].units])
      BY <2>1, OffKept DEF RequestKept, NoReq, Fields, Starting, Thens
    <3> QED BY <1>2, <2>3, <3>1, <3>2, StepsKept
  <2> QED BY <1>6, <2>2, <2>3 DEF StartSession
<1>7. CASE WorkerReady(h)
  <2>1. req[h].units \in Durations
    BY <1>1, <1>7 DEF WorkerReady, At, RequestKept, Starting
  <2>2. Kept(session')
    BY <1>1, <1>7 DEF WorkerReady, StoreKept
  <2> QED BY <1>2, <1>7, <2>1, <2>2, GotoKept DEF WorkerReady
<1>8. CASE SessionReady(h)
  <2>1. req[h].units \in Durations
    BY <1>1, <1>8 DEF SessionReady, At, RequestKept, Starting
  <2> DEFINE u == req[h].units
  <2>2. u \in Int /\ u >= 1 /\ u <= Longest /\ Longest \in Int
    <3>1. u \in 1 .. Longest /\ Longest \in Nat
      BY <2>1, ServerAssumption
    <3> HIDE DEF u
    <3> QED BY <3>1
  <2>3. Kept(session')
    <3>1. session' = [status |-> "ready", started |-> clock, expires |-> clock + req[h].units]
      BY <1>8 DEF SessionReady
    <3>2. session' \in SessionType
      BY <1>1, <2>2, <3>1 DEF SessionType, Statuses
    <3>3. session'.expires > session'.started /\ session'.expires <= session'.started + Longest
      BY <1>1, <2>2, <3>1
    <3> QED BY <3>2, <3>3 DEF Kept
  <2> QED BY <1>3, <1>8, <2>3 DEF SessionReady
<1>9. CASE StartFails(h)
  <2>1. Kept(session')
    BY <1>1, <1>9 DEF StartFails, StoreKept
  <2>2. CASE Steps(h, [req[h] EXCEPT !.at = "error", !.saw = session])
    BY <1>1, <1>2, <2>1, <2>2, FieldNames, RewriteKept DEF RequestKept, Starting
  <2> QED BY <1>3, <1>9, <2>1, <2>2 DEF StartFails
<1>10. CASE SessionError(h)
  <2>1. Kept(session')
    BY <1>1, <1>10 DEF SessionError, RequestKept, Kept, SessionType, Statuses
  <2> QED BY <1>3, <1>10, <2>1 DEF SessionError
<1>11. CASE ResetState(h)
  BY <1>3, <1>11, OffKept DEF ResetState
<1> QED BY <1>4, <1>5, <1>6, <1>7, <1>8, <1>9, <1>10, <1>11

\* The extension writes a session that was read earlier, and looks at its start.
LEMMA ExtendKeepsSession ==
  ASSUME SessionInv, NEW h \in Handler, Extend(h) PROVE SessionInv'
<1> DEFINE old == req[h].saw
           next == IF old.expires + 1 <= old.started + Longest
                   THEN old.expires + 1 ELSE old.started + Longest
<1>1. Kept(old) /\ Kept(session)
  BY DEF SessionInv, RequestKept
<1>2. clock' = clock /\ Done(h)
  BY DEF Extend, Bounds, Clocks
<1>3. CASE UNCHANGED session
  BY <1>1, <1>2, <1>3, GotoKept DEF Done, Starting
<1>4. CASE old.status = "ready" /\ next > old.expires /\ session' = [old EXCEPT !.expires = next]
  <2>1. Longest \in Int /\ old.started \in Int /\ old.expires \in Int
    BY <1>1, ServerAssumption DEF Kept, SessionType
  <2>2. next \in Int /\ next <= old.started + Longest
    BY <2>1
  <2>3. old.expires > old.started
    BY <1>1, <1>4 DEF Kept
  <2>4. Kept(session')
    BY <1>1, <1>4, <2>1, <2>2, <2>3 DEF Kept, SessionType
  <2> QED BY <1>2, <2>4, GotoKept DEF Done, Starting
<1> QED BY <1>3, <1>4 DEF Extend

LEMMA InsertKeepsSession ==
  ASSUME SessionInv, NEW h \in Handler, InsertJob(h) PROVE SessionInv'
<1>1. session' = session /\ clock' = clock /\ Kept(session')
  BY DEF InsertJob, Bounds, Clocks, SessionInv
<1>2. CASE Done(h)
  BY <1>1, <1>2, GotoKept DEF Done, Starting
<1>3. CASE \E i : Steps(h, [NoReq EXCEPT !.at = "submit", !.id = i, !.voice = req[h].voice])
  <2>1. PICK i : Steps(h, [NoReq EXCEPT !.at = "submit", !.id = i, !.voice = req[h].voice])
    BY <1>3
  <2>2. RequestKept([NoReq EXCEPT !.at = "submit", !.id = i, !.voice = req[h].voice])
    BY OffKept DEF RequestKept, NoReq, Fields, Starting, Thens
  <2> QED BY <1>1, <2>1, <2>2, StepsKept
<1> QED BY <1>2, <1>3 DEF InsertJob

LEMMA StepKeepsSession ==
  ASSUME SessionInv, NEW h \in Handler, Step(h) PROVE SessionInv'
BY PlainStepKeepsSession, ReadingStepKeepsSession, SessionStepKeepsSession, ExtendKeepsSession,
   InsertKeepsSession DEF Step

\* A request that arrives holds no copy of the session, and a start an allowed
\* duration.
LEMMA ArrivalKept ==
  ASSUME SessionInv, NEW h \in Handler, NEW kind, NEW r, Arrive(h, kind, r),
         DOMAIN r = Fields, r.then \in Thens, r.saw = Off, r.at \notin Starting,
         r.then = "start" => r.units \in Durations
  PROVE SessionInv'
<1>1. session' = session /\ clock' = clock /\ Steps(h, r)
  BY DEF Arrive, StoreKept
<1>2. RequestKept(r) /\ Kept(session')
  BY <1>1, OffKept DEF RequestKept, SessionInv
<1> QED BY <1>1, <1>2, StepsKept

LEMMA ArrivalKeepsSession ==
  ASSUME SessionInv, NEW h \in Handler,
         Ask(h) \/ PollSession(h) \/ \E i \in Id : PollJob(h, i)
  PROVE SessionInv'
<1> USE DEF NoReq, Fields, Thens, Starting
<1>1. CASE PollSession(h)
  BY <1>1, ArrivalKept DEF PollSession
<1>2. CASE \E i \in Id : PollJob(h, i)
  BY <1>2, ArrivalKept DEF PollJob
<1>3. CASE Ask(h)
  <2>1. ASSUME NEW k, NEW v,
               Arrive(h, "post", [NoReq EXCEPT !.at = "deadline", !.then = "admit", !.key = k, !.voice = v])
        PROVE SessionInv'
    BY <2>1, ArrivalKept
  <2>2. ASSUME NEW i, \/ Arrive(h, "cancel", [NoReq EXCEPT !.at = "cancel", !.id = i])
                      \/ Arrive(h, "retry", [NoReq EXCEPT !.at = "retry", !.id = i])
        PROVE SessionInv'
    BY <2>2, ArrivalKept
  <2>3. ASSUME NEW d \in Durations,
               Arrive(h, "start", [NoReq EXCEPT !.at = "deadline", !.then = "start", !.units = d])
        PROVE SessionInv'
    BY <2>3, ArrivalKept
  <2>4. ASSUME \/ Arrive(h, "extend", [NoReq EXCEPT !.at = "deadline", !.then = "extend"])
               \/ Arrive(h, "stop", [NoReq EXCEPT !.at = "stop"])
               \/ Arrive(h, "start", [NoReq EXCEPT !.at = "unready"])
               \/ Arrive(h, "reset", [NoReq EXCEPT !.at = "stop", !.then = "wipe"])
        PROVE SessionInv'
    BY <2>4, ArrivalKept
  <2>5. ASSUME NEW v, \/ Arrive(h, "upload", [NoReq EXCEPT !.at = "upload", !.voice = v])
                      \/ Arrive(h, "remove", [NoReq EXCEPT !.at = "remove", !.voice = v])
        PROVE SessionInv'
    BY <2>5, ArrivalKept
  <2> QED BY <1>3, <2>1, <2>2, <2>3, <2>4, <2>5 DEF Ask
<1> QED BY <1>1, <1>2, <1>3

\* The inductive invariant behind the two theorems below.
LEMMA SessionInvariant == Spec => []SessionInv
<1>1. Init => SessionInv
  <2> SUFFICES ASSUME Init PROVE SessionInv
    OBVIOUS
  <2>1. DOMAIN req = Handler /\ \A h \in Handler : RequestKept(req[h])
    BY OffKept DEF Init
  <2>2. ASSUME NEW d \in Durations,
               session = [status |-> "ready", started |-> 1, expires |-> 1 + d]
        PROVE Kept(session)
    <3>1. d \in 1 .. Longest /\ Longest \in Nat
      BY ServerAssumption
    <3>2. session \in SessionType
      BY <2>2, <3>1 DEF SessionType, Statuses
    <3> QED BY <2>2, <3>1, <3>2 DEF Kept
  <2>3. Kept(session)
    BY <2>2, OffKept DEF Init
  <2> QED BY <2>1, <2>3 DEF Init, SessionInv
<1>2. SessionInv /\ [Next]_vars => SessionInv'
  <2> SUFFICES ASSUME SessionInv, [Next]_vars PROVE SessionInv'
    OBVIOUS
  <2>1. CASE \E h \in Handler : Step(h)
    BY <2>1, StepKeepsSession
  <2>2. CASE \E h \in Handler : Ask(h) \/ PollSession(h) \/ \E i \in Id : PollJob(h, i)
    BY <2>2, ArrivalKeepsSession
  <2>3. CASE Crash
    BY <2>3, OffKept DEF Crash, StoreKept, SessionInv
  <2>4. CASE Tick
    BY <2>4 DEF Tick, SessionInv
  <2>5. CASE UNCHANGED vars \/ \E i \in Id : WorkerRuns(i)
    BY <2>5 DEF vars, WorkerRuns, SessionInv
  <2> QED BY <2>1, <2>2, <2>3, <2>4, <2>5 DEF Next
<1> QED BY <1>1, <1>2, PTL DEF Spec

\* A session that is ready ends within four hours of its start (startSession,
\* extendSession), whatever stale copies of it are written back, for any allowed
\* durations and any number of requests.
THEOREM SessionKeepsItsHours == Spec => []SessionBounded
<1>1. SessionInv => SessionBounded
  BY DEF SessionInv, Kept, SessionBounded
<1> QED BY <1>1, SessionInvariant, PTL

------------------------------------------------------------------------------
(* Voices.                                                                    *)

\* A voice that is being uploaded is not in the library yet, and nothing that
\* could remove its file knows of it; a voice whose file is about to go has
\* left the library.
Uploading == {"upload", "add voice"}
Naming == {"upload", "add voice", "remove", "unlink"}
Handling == Naming \cup {"wipe references"}
Unknown(h) ==
  /\ req[h].voice \notin voices
  /\ \A g \in Handler :
       /\ g # h /\ req[g].at \in Naming => req[g].voice # req[h].voice
       /\ At(g, "wipe references") => req[h].voice \notin req[g].left

VoiceInv ==
  /\ VoiceFilesExist
  /\ \A h \in Handler :
       /\ req[h].at \in Uploading => Unknown(h)
       /\ At(h, "add voice") => req[h].voice \in references
       /\ At(h, "unlink") => req[h].voice \notin voices

\* A step that has nothing to do with voices.
LEMMA QuietKept ==
  ASSUME SessionInv, VoiceInv, NEW h \in Handler, NEW r, Steps(h, r), r.at \notin Handling,
         ~ Resetting(h), UNCHANGED <<voices, references, crash>>
  PROVE VoiceInv'
<1>1. req'[h] = r /\ \A g \in Handler : g # h => req'[g] = req[g]
  BY SessionInvRequesting, StepsEffect
<1>2. VoiceFilesExist'
  BY <1>1 DEF VoiceInv, VoiceFilesExist, Resetting
<1>3. ASSUME NEW g \in Handler, req'[g].at \in Uploading PROVE Unknown(g)'
  BY <1>1, <1>3 DEF VoiceInv, Unknown, Uploading, Naming, Handling, At
<1> QED BY <1>1, <1>2, <1>3 DEF VoiceInv, Naming, Handling, At

LEMMA GotoSteps ==
  ASSUME SessionInv, NEW h \in Handler, NEW label, Goto(h, label)
  PROVE \E r : Steps(h, r) /\ r.at = label
<1>1. CASE label = "idle"
  BY <1>1 DEF Goto, NoReq
<1>2. CASE label # "idle"
  BY <1>2, FieldNames DEF Goto, SessionInv, RequestKept
<1> QED BY <1>1, <1>2

\* The steps of sessions and jobs.
LEMMA OtherStepKeepsVoices ==
  ASSUME SessionInv, VoiceInv, NEW h \in Handler,
         \/ Deadline(h) \/ Stop(h) \/ Stopping(h) \/ CancelEach(h) \/ CloseSession(h) \/ Reread(h)
         \/ StartSession(h) \/ WorkerReady(h) \/ SessionReady(h) \/ StartFails(h) \/ SessionError(h)
         \/ Extend(h) \/ Admit(h) \/ InsertJob(h) \/ Submit(h) \/ Submitted(h)
         \/ ReadJob(h) \/ AskWorker(h) \/ Download(h) \/ RemoveOutput(h) \/ SaveOutput(h) \/ ApplyPoll(h)
         \/ CancelJob(h) \/ CancelCall(h) \/ ApplyCancel(h)
         \/ RetrySegment(h) \/ RetryCall(h) \/ ApplyRetry(h)
  PROVE VoiceInv'
<1>1. UNCHANGED <<voices, references, crash>>
  BY DEF Deadline, Stop, Stopping, CancelEach, CloseSession, Reread, StartSession, WorkerReady,
         SessionReady, StartFails, SessionError, Extend, Admit, InsertJob, Submit, Submitted, ReadJob,
         AskWorker, Download, RemoveOutput, SaveOutput, ApplyPoll, CancelJob, CancelCall, ApplyCancel, RetrySegment,
         RetryCall, ApplyRetry, StoreKept, Bounds, Clocks, disk
<1>2. ~ Resetting(h)
  BY DEF Deadline, Stop, Stopping, CancelEach, CloseSession, Reread, StartSession, WorkerReady,
         SessionReady, StartFails, SessionError, Extend, Admit, InsertJob, Submit, Submitted, ReadJob,
         AskWorker, Download, RemoveOutput, SaveOutput, ApplyPoll, CancelJob, CancelCall, ApplyCancel, RetrySegment,
         RetryCall, ApplyRetry, At, Resetting
<1>3. DOMAIN req[h] = Fields /\ req[h].then \in Thens
  BY DEF SessionInv, RequestKept
<1>4. ASSUME NEW r, Steps(h, r), r.at \notin Handling PROVE VoiceInv'
  BY <1>1, <1>2, <1>4, QuietKept
<1>5. ASSUME NEW label, Goto(h, label), label \notin Handling PROVE VoiceInv'
  BY <1>4, <1>5, GotoSteps
<1>6. ASSUME Done(h) PROVE VoiceInv'
  BY <1>5, <1>6 DEF Done, Naming, Handling
<1>7. ASSUME Continue(h) PROVE VoiceInv'
  <2>1. CASE req[h].then = "idle"
    BY <1>4, <1>7, <2>1 DEF Continue, NoReq, Naming, Handling
  <2>2. CASE req[h].then # "idle"
    <3>1. PICK saw : Steps(h, [req[h] EXCEPT !.at = req[h].then, !.act = {}, !.saw = saw])
      BY <1>7, <2>2 DEF Continue
    <3> QED BY <1>3, <1>4, <3>1, FieldNames DEF Thens, Naming, Handling
  <2> QED BY <2>1, <2>2
<1>8. CASE Deadline(h) \/ Reread(h)
  <2>1. CASE Steps(h, [req[h] EXCEPT !.at = "expire", !.act = ActiveIds, !.left = ActiveIds])
    BY <1>3, <1>4, <2>1, FieldNames DEF Naming, Handling
  <2> QED BY <1>7, <1>8, <2>1 DEF Deadline, Reread
<1>9. CASE Stop(h) \/ Stopping(h)
  BY <1>3, <1>4, <1>9, FieldNames DEF Stop, Stopping, Naming, Handling
<1>10. CASE CancelEach(h)
  <2>1. PICK i \in req[h].left : Steps(h, [req[h] EXCEPT !.left = @ \ {i}])
    BY <1>10 DEF CancelEach
  <2>2. req[h].at \in {"expire", "stopped"}
    BY <1>10 DEF CancelEach
  <2> QED BY <1>3, <1>4, <2>1, <2>2, FieldNames DEF Naming, Handling
<1>11. CASE CloseSession(h)
  BY <1>3, <1>5, <1>11 DEF CloseSession, Naming, Handling, Thens
<1>12. CASE StartSession(h) \/ StartFails(h)
  BY <1>3, <1>4, <1>6, <1>12, FieldNames DEF StartSession, StartFails, Naming, Handling, NoReq, Fields
<1>13. CASE InsertJob(h)
  <2>1. \/ Done(h)
        \/ \E i : Steps(h, [NoReq EXCEPT !.at = "submit", !.id = i, !.voice = req[h].voice])
    BY <1>13 DEF InsertJob
  <2> QED BY <1>4, <1>6, <2>1 DEF NoReq, Naming, Handling
<1>14. CASE Submit(h)
  <2>1. PICK status \in {"queued", "failed"} :
          Steps(h, [NoReq EXCEPT !.at = "submitted", !.id = req[h].id, !.answer = status])
    BY <1>14 DEF Submit
  <2> QED BY <1>4, <2>1 DEF NoReq, Naming, Handling
<1>15. CASE AskWorker(h) \/ CancelCall(h) \/ RetryCall(h)
  <2>1. \/ Done(h)
        \/ \E at \in {"download", "apply", "cancelled", "retried"} : \E answer :
             \/ Steps(h, [req[h] EXCEPT !.at = at, !.answer = answer])
             \/ Steps(h, [req[h] EXCEPT !.answer = answer, !.at = at])
    BY <1>15 DEF AskWorker, CancelCall, RetryCall
  <2> QED BY <1>3, <1>4, <1>6, <2>1, FieldNames DEF Naming, Handling
<1>16. CASE \/ WorkerReady(h) \/ SessionReady(h) \/ SessionError(h) \/ Extend(h) \/ Admit(h)
            \/ Submitted(h) \/ ReadJob(h) \/ Download(h) \/ RemoveOutput(h) \/ SaveOutput(h) \/ ApplyPoll(h)
            \/ CancelJob(h) \/ ApplyCancel(h) \/ RetrySegment(h) \/ ApplyRetry(h)
  <2>1. PICK label \in {"idle", "ready", "unready", "insert", "ask", "replace", "save", "apply", "cancel call",
                        "retry call"} : Goto(h, label)
    BY <1>16 DEF WorkerReady, SessionReady, SessionError, Extend, Admit, Submitted, ReadJob,
                 Download, RemoveOutput, SaveOutput, ApplyPoll, CancelJob, ApplyCancel, RetrySegment, ApplyRetry, Done
  <2> QED BY <1>5, <2>1 DEF Naming, Handling
<1> QED BY <1>8, <1>9, <1>10, <1>11, <1>12, <1>13, <1>14, <1>15, <1>16

LEMMA VoiceStepKeepsVoices ==
  ASSUME SessionInv, VoiceInv, NEW h \in Handler,
         \/ SaveReference(h) \/ AddVoice(h) \/ RemoveVoice(h) \/ RemoveReference(h)
         \/ ReadVoices(h) \/ WipeReferences(h) \/ ClearOutputs(h) \/ ResetState(h)
  PROVE VoiceInv'
<1> USE DEF At, Uploading, Naming
<1>1. ASSUME NEW label, Goto(h, label)
      PROVE /\ \A g \in Handler : g # h => req'[g] = req[g]
            /\ req'[h].at = label
            /\ label # "idle" => req'[h].voice = req[h].voice
  BY <1>1, SessionInvRequesting, GotoEffect DEF NoReq
<1>2. CASE SaveReference(h)
  <2>1. /\ \A g \in Handler : g # h => req'[g] = req[g]
        /\ req[h].at = "upload" /\ req'[h].at = "add voice" /\ req'[h].voice = req[h].voice
        /\ references' = references \cup {req[h].voice} /\ UNCHANGED <<voices, crash>>
    <3>1. Goto(h, "add voice") /\ UNCHANGED <<voices, crash>>
      BY <1>2 DEF SaveReference, StoreKept, Bounds, Clocks
    <3>2. "add voice" # "idle"
      OBVIOUS
    <3>3. /\ \A g \in Handler : g # h => req'[g] = req[g]
          /\ req'[h].at = "add voice" /\ req'[h].voice = req[h].voice
      BY <1>1, <3>1, <3>2
    <3>4. req[h].at = "upload" /\ references' = references \cup {req[h].voice}
      BY <1>2 DEF SaveReference
    <3> QED BY <3>1, <3>3, <3>4
  <2>2. VoiceFilesExist'
    BY <2>1 DEF VoiceInv, VoiceFilesExist, Resetting
  <2>3. ASSUME NEW g \in Handler, req'[g].at \in Uploading PROVE Unknown(g)'
    BY <2>1, <2>3 DEF VoiceInv, Unknown
  <2> QED BY <2>1, <2>2, <2>3 DEF VoiceInv
<1>3. CASE AddVoice(h)
  <2>1. /\ \A g \in Handler : g # h => req'[g] = req[g]
        /\ req[h].at = "add voice" /\ req'[h].at = "idle"
        /\ voices' = voices \cup {req[h].voice} /\ UNCHANGED <<references, crash>>
    BY <1>1, <1>3 DEF AddVoice, Bounds, Clocks, Done, disk
  <2>2. VoiceFilesExist'
    BY <2>1 DEF VoiceInv, VoiceFilesExist, Resetting
  <2>3. ASSUME NEW g \in Handler, req'[g].at \in Uploading PROVE Unknown(g)'
    BY <2>1, <2>3 DEF VoiceInv, Unknown
  <2>4. ASSUME NEW g \in Handler, req'[g].at = "unlink" PROVE req'[g].voice \notin voices'
    BY <2>1, <2>4 DEF VoiceInv, Unknown
  <2> QED BY <2>1, <2>2, <2>3, <2>4 DEF VoiceInv
<1>4. CASE RemoveVoice(h)
  <2>1. /\ \A g \in Handler : g # h => req'[g] = req[g]
        /\ req[h].at = "remove" /\ req'[h].at \in {"unlink", "idle"}
        /\ req'[h].at = "unlink" => req'[h].voice = req[h].voice
        /\ voices' = voices \ {req[h].voice} /\ UNCHANGED <<references, crash>>
    BY <1>1, <1>4 DEF RemoveVoice, Bounds, Clocks, disk
  <2>2. VoiceFilesExist'
    BY <2>1 DEF VoiceInv, VoiceFilesExist, Resetting
  <2>3. ASSUME NEW g \in Handler, req'[g].at \in Uploading PROVE Unknown(g)'
    <3>1. g # h /\ req'[g] = req[g] /\ Unknown(g)
      BY <2>1, <2>3 DEF VoiceInv
    <3>2. req[h].voice # req[g].voice
      BY <2>1, <3>1 DEF Unknown
    <3> QED BY <2>1, <3>1, <3>2 DEF Unknown
  <2> QED BY <2>1, <2>2, <2>3 DEF VoiceInv
<1>5. CASE RemoveReference(h)
  <2>1. /\ \A g \in Handler : g # h => req'[g] = req[g]
        /\ req[h].at = "unlink" /\ req'[h].at = "idle"
        /\ references' = references \ {req[h].voice} /\ UNCHANGED <<voices, crash>>
    BY <1>1, <1>5 DEF RemoveReference, StoreKept, Bounds, Clocks, Done
  <2>2. VoiceFilesExist'
    BY <2>1 DEF VoiceInv, VoiceFilesExist, Resetting
  <2>3. ASSUME NEW g \in Handler, req'[g].at \in Uploading PROVE Unknown(g)'
    BY <2>1, <2>3 DEF VoiceInv, Unknown
  <2>4. ASSUME NEW g \in Handler, req'[g].at = "add voice" PROVE req'[g].voice \in references'
    BY <2>1, <2>4 DEF VoiceInv, Unknown
  <2> QED BY <2>1, <2>2, <2>3, <2>4 DEF VoiceInv
<1>6. CASE ReadVoices(h)
  <2>1. Steps(h, [req[h] EXCEPT !.at = "wipe references", !.left = voices])
    BY <1>6 DEF ReadVoices
  <2>2. DOMAIN req[h] = Fields
    BY DEF SessionInv, RequestKept
  <2>3. /\ \A g \in Handler : g # h => req'[g] = req[g]
        /\ req[h].at = "wipe" /\ req'[h].at = "wipe references" /\ req'[h].left = voices
        /\ UNCHANGED <<voices, references, crash>>
    <3>1. UNCHANGED <<voices, references, crash>> /\ req[h].at = "wipe"
      BY <1>6 DEF ReadVoices, StoreKept, Bounds, Clocks, disk
    <3>2. /\ \A g \in Handler : g # h => req'[g] = req[g]
          /\ req'[h] = [req[h] EXCEPT !.at = "wipe references", !.left = voices]
      BY <2>1, SessionInvRequesting, StepsEffect
    <3> QED BY <2>2, <3>1, <3>2, FieldNames
  <2>4. VoiceFilesExist'
    BY <2>3 DEF VoiceInv, VoiceFilesExist, Resetting
  <2>5. ASSUME NEW g \in Handler, req'[g].at \in Uploading PROVE Unknown(g)'
    BY <2>3, <2>5 DEF VoiceInv, Unknown
  <2> QED BY <2>3, <2>4, <2>5 DEF VoiceInv
<1>7. CASE WipeReferences(h)
  <2>0. UNCHANGED voices /\ req[h].at = "wipe references" /\ DOMAIN req[h] = Fields
    BY <1>7 DEF WipeReferences, StoreKept, SessionInv, RequestKept
  <2>1. /\ \A g \in Handler : g # h => req'[g] = req[g]
        /\ req'[h].at \in {"wipe references", "wipe outputs"}
        /\ req'[h].at = "wipe references" => req'[h].left \subseteq req[h].left
        /\ \A v \in references : v \notin req[h].left => v \in references'
    <3>1. CASE UNCHANGED references /\ Goto(h, "wipe outputs")
      <4>1. (\A g \in Handler : g # h => req'[g] = req[g]) /\ req'[h].at = "wipe outputs"
        BY <1>1, <3>1
      <4> QED BY <3>1, <4>1
    <3>2. CASE \E v \in req[h].left : /\ references' = references \ {v}
                                     /\ Steps(h, [req[h] EXCEPT !.left = @ \ {v}])
      <4>1. PICK v \in req[h].left : /\ references' = references \ {v}
                                    /\ Steps(h, [req[h] EXCEPT !.left = @ \ {v}])
        BY <3>2
      <4>2. /\ \A g \in Handler : g # h => req'[g] = req[g]
            /\ req'[h] = [req[h] EXCEPT !.left = @ \ {v}]
        BY <4>1, SessionInvRequesting, StepsEffect
      <4>3. req'[h].at = req[h].at /\ req'[h].left = req[h].left \ {v}
        BY <2>0, <4>2, FieldNames
      <4> QED BY <2>0, <4>1, <4>2, <4>3
    <3> QED BY <1>7, <3>1, <3>2 DEF WipeReferences
  <2>2. VoiceFilesExist'
    BY <2>1 DEF VoiceFilesExist, Resetting
  <2>3. ASSUME NEW g \in Handler, req'[g].at \in Uploading PROVE Unknown(g)'
    BY <2>0, <2>1, <2>3 DEF VoiceInv, Unknown
  <2>4. ASSUME NEW g \in Handler, req'[g].at = "add voice" PROVE req'[g].voice \in references'
    BY <2>0, <2>1, <2>4 DEF VoiceInv, Unknown
  <2> QED BY <2>0, <2>1, <2>2, <2>3, <2>4 DEF VoiceInv
<1>8. CASE ClearOutputs(h)
  <2>1. /\ \A g \in Handler : g # h => req'[g] = req[g]
        /\ req[h].at = "wipe outputs" /\ req'[h].at = "wipe records"
        /\ UNCHANGED <<voices, references>>
    BY <1>1, <1>8 DEF ClearOutputs, StoreKept
  <2>2. VoiceFilesExist'
    BY <2>1 DEF VoiceFilesExist, Resetting
  <2>3. ASSUME NEW g \in Handler, req'[g].at \in Uploading PROVE Unknown(g)'
    BY <2>1, <2>3 DEF VoiceInv, Unknown
  <2> QED BY <2>1, <2>2, <2>3 DEF VoiceInv
<1>9. CASE ResetState(h)
  <2>1. /\ \A g \in Handler : g # h => req'[g] = req[g]
        /\ req'[h].at = "idle" /\ voices' = {} /\ UNCHANGED references
    BY <1>1, <1>9 DEF ResetState, Done, disk
  <2>2. VoiceFilesExist'
    BY <2>1 DEF VoiceFilesExist
  <2>3. ASSUME NEW g \in Handler, req'[g].at \in Uploading PROVE Unknown(g)'
    BY <2>1, <2>3 DEF VoiceInv, Unknown
  <2> QED BY <2>1, <2>2, <2>3 DEF VoiceInv
<1> QED BY <1>2, <1>3, <1>4, <1>5, <1>6, <1>7, <1>8, <1>9

LEMMA ArrivalKeepsVoices ==
  ASSUME SessionInv, VoiceInv, NEW h \in Handler,
         Ask(h) \/ PollSession(h) \/ \E i \in Id : PollJob(h, i)
  PROVE VoiceInv'
<1> USE DEF At, Uploading, Naming
<1>1. ASSUME NEW kind, NEW r, Arrive(h, kind, r)
      PROVE /\ req[h].at = "idle" /\ req'[h] = r /\ Steps(h, r)
            /\ \A g \in Handler : g # h => req'[g] = req[g]
            /\ UNCHANGED <<voices, references, crash>>
  BY <1>1, SessionInvRequesting, StepsEffect DEF Arrive, StoreKept, disk
<1>2. ASSUME NEW kind, NEW r, Arrive(h, kind, r), r.at \in {"deadline", "cancel", "retry", "stop", "unready"}
      PROVE VoiceInv'
  <2>1. r.at \notin Handling /\ ~ Resetting(h)
    BY <1>1, <1>2 DEF Handling, Resetting
  <2> QED BY <1>1, <1>2, <2>1, QuietKept
<1>3. CASE PollSession(h) \/ \E i \in Id : PollJob(h, i)
  BY <1>2, <1>3 DEF PollSession, PollJob, NoReq
<1>4. CASE \E v \in Voice : FreshVoice(v) /\ Arrive(h, "upload", [NoReq EXCEPT !.at = "upload", !.voice = v])
  <2>1. PICK v \in Voice : FreshVoice(v) /\ Arrive(h, "upload", [NoReq EXCEPT !.at = "upload", !.voice = v])
    BY <1>4
  <2>2. /\ req[h].at = "idle" /\ req'[h].at = "upload" /\ req'[h].voice = v
        /\ \A g \in Handler : g # h => req'[g] = req[g]
        /\ UNCHANGED <<voices, references, crash>>
    <3>1. [NoReq EXCEPT !.at = "upload", !.voice = v].at = "upload"
          /\ [NoReq EXCEPT !.at = "upload", !.voice = v].voice = v
      BY DEF NoReq
    <3> QED BY <1>1, <2>1, <3>1
  <2>3. VoiceFilesExist'
    BY <2>2 DEF VoiceInv, VoiceFilesExist, Resetting
  <2>4. ASSUME NEW g \in Handler, req'[g].at \in Uploading PROVE Unknown(g)'
    <3>1. CASE g = h
      BY <2>1, <2>2, <3>1 DEF Unknown, FreshVoice
    <3>2. CASE g # h
      <4>1. req'[g] = req[g] /\ Unknown(g)
        BY <2>2, <2>4, <3>2 DEF VoiceInv
      <4>2. req[g].voice # v
        BY <2>1 DEF FreshVoice
      <4> QED BY <2>2, <4>1, <4>2 DEF Unknown
    <3> QED BY <3>1, <3>2
  <2> QED BY <2>2, <2>3, <2>4 DEF VoiceInv
<1>5. CASE \E v \in voices : Arrive(h, "remove", [NoReq EXCEPT !.at = "remove", !.voice = v])
  <2>1. PICK v \in voices : Arrive(h, "remove", [NoReq EXCEPT !.at = "remove", !.voice = v])
    BY <1>5
  <2>2. /\ req[h].at = "idle" /\ req'[h].at = "remove" /\ req'[h].voice = v
        /\ \A g \in Handler : g # h => req'[g] = req[g]
        /\ UNCHANGED <<voices, references, crash>>
    <3>1. [NoReq EXCEPT !.at = "remove", !.voice = v].at = "remove"
          /\ [NoReq EXCEPT !.at = "remove", !.voice = v].voice = v
      BY DEF NoReq
    <3> QED BY <1>1, <2>1, <3>1
  <2>3. VoiceFilesExist'
    BY <2>2 DEF VoiceInv, VoiceFilesExist, Resetting
  <2>4. ASSUME NEW g \in Handler, req'[g].at \in Uploading PROVE Unknown(g)'
    <3>1. req'[g] = req[g] /\ Unknown(g)
      BY <2>2, <2>4 DEF VoiceInv
    <3> QED BY <2>1, <2>2, <3>1 DEF Unknown
  <2> QED BY <2>2, <2>3, <2>4 DEF VoiceInv
<1>6. CASE Ask(h)
  <2>1. CASE \E k, v : Arrive(h, "post", [NoReq EXCEPT !.at = "deadline", !.then = "admit", !.key = k, !.voice = v])
    BY <1>2, <2>1 DEF NoReq
  <2>2. CASE \E i : \/ Arrive(h, "cancel", [NoReq EXCEPT !.at = "cancel", !.id = i])
                    \/ Arrive(h, "retry", [NoReq EXCEPT !.at = "retry", !.id = i])
    BY <1>2, <2>2 DEF NoReq
  <2>3. CASE \E d : Arrive(h, "start", [NoReq EXCEPT !.at = "deadline", !.then = "start", !.units = d])
    BY <1>2, <2>3 DEF NoReq
  <2>4. CASE \/ Arrive(h, "extend", [NoReq EXCEPT !.at = "deadline", !.then = "extend"])
             \/ Arrive(h, "stop", [NoReq EXCEPT !.at = "stop"])
             \/ Arrive(h, "start", [NoReq EXCEPT !.at = "unready"])
             \/ Arrive(h, "reset", [NoReq EXCEPT !.at = "stop", !.then = "wipe"])
    BY <1>2, <2>4 DEF NoReq
  <2> QED BY <1>4, <1>5, <1>6, <2>1, <2>2, <2>3, <2>4 DEF Ask
<1> QED BY <1>3, <1>6

\* Every voice in the library has its file (POST /api/v1/voices, DELETE
\* /api/v1/voices and the data reset), for any number of voices and handlers and
\* wherever the process dies, but for a reset that is under way or was cut short.
THEOREM LibraryHasItsFiles == Spec => []VoiceFilesExist
<1>1. Init => VoiceInv
  <2> SUFFICES ASSUME Init PROVE VoiceInv
    OBVIOUS
  <2>1. \A h \in Handler : req[h].at = "idle"
    BY DEF Init, NoReq
  <2>2. VoiceFilesExist
    BY DEF Init, VoiceFilesExist
  <2> QED BY <2>1, <2>2 DEF VoiceInv, Uploading, At
<1>2. SessionInv /\ VoiceInv /\ [Next]_vars => VoiceInv'
  <2> SUFFICES ASSUME SessionInv, VoiceInv, [Next]_vars PROVE VoiceInv'
    OBVIOUS
  <2>1. CASE \E h \in Handler : Step(h)
    BY <2>1, OtherStepKeepsVoices, VoiceStepKeepsVoices DEF Step
  <2>2. CASE \E h \in Handler : Ask(h) \/ PollSession(h) \/ \E i \in Id : PollJob(h, i)
    BY <2>2, ArrivalKeepsVoices
  <2>3. CASE Crash
    <3>1. VoiceFilesExist'
      <4>1. CASE \E h \in Handler : Resetting(h)
        BY <2>3, <4>1 DEF Crash, VoiceFilesExist
      <4>2. CASE \A h \in Handler : ~ Resetting(h)
        BY <2>3, <4>2 DEF Crash, VoiceInv, VoiceFilesExist, StoreKept, disk
      <4> QED BY <4>1, <4>2
    <3>2. \A h \in Handler : req'[h].at = "idle"
      BY <2>3 DEF Crash, NoReq
    <3> QED BY <3>1, <3>2 DEF VoiceInv, Uploading, At
  <2>4. CASE UNCHANGED <<voices, references, crash, req>>
    BY <2>4 DEF VoiceInv, VoiceFilesExist, Resetting, Unknown, At
  <2>5. CASE Tick \/ UNCHANGED vars \/ \E i \in Id : WorkerRuns(i)
    BY <2>4, <2>5 DEF Tick, vars, WorkerRuns, disk
  <2> QED BY <2>1, <2>2, <2>3, <2>5 DEF Next
<1>3. VoiceInv => VoiceFilesExist
  BY DEF VoiceInv
<1> QED BY <1>1, <1>2, <1>3, SessionInvariant, PTL DEF Spec

------------------------------------------------------------------------------
(* Answers of the worker.                                                     *)

\* The worker has made the job's audio, or has been asked for another take.
Real(i) == worker[i] = "succeeded" \/ takes[i] > 1

RemoteInv ==
  /\ DOMAIN worker = Id /\ takes \in [Id -> Nat]
  /\ \A i \in Id : worker[i] = "none" <=> takes[i] = 0

AnswerInv ==
  /\ RemoteInv
  /\ DOMAIN job = Id
  /\ \A i \in Id : job[i] = "succeeded" => Real(i)
  /\ \A h \in Handler : req[h].answer = "succeeded" /\ req[h].id \in Id => Real(req[h].id)

\* What the worker's own steps and the calls do to it: what was real stays real.
Stays == RemoteInv' /\ \A i \in Id : Real(i) => Real(i)'

LEMMA RemoteKept == ASSUME RemoteInv, UNCHANGED remote PROVE Stays
BY DEF RemoteInv, Stays, Real, remote

LEMMA CancelStays ==
  ASSUME RemoteInv, NEW i, Worker!Cancel(i), UNCHANGED takes PROVE Stays
BY DEF RemoteInv, Stays, Real, Worker!Cancel, Worker!Active, Worker!Becomes

LEMMA SubmitStays ==
  ASSUME RemoteInv, NEW i, Worker!Submit(i), takes' = [takes EXCEPT ![i] = 1] PROVE Stays
<1>1. worker' = [worker EXCEPT ![i] = "queued"] /\ worker[i] = "none"
  BY DEF Worker!Submit, Worker!Becomes
<1>2. /\ DOMAIN worker' = Id /\ takes' \in [Id -> Nat]
      /\ \A j \in Id : /\ takes'[j] = IF j = i THEN 1 ELSE takes[j]
                       /\ worker'[j] = IF j = i THEN "queued" ELSE worker[j]
  BY <1>1 DEF RemoteInv
<1> QED BY <1>1, <1>2 DEF RemoteInv, Stays, Real

LEMMA RetryStays ==
  ASSUME RemoteInv, NEW i, Worker!Retry(i), takes' = [takes EXCEPT ![i] = @ + 1] PROVE Stays
<1>0. worker' = [worker EXCEPT ![i] = "queued"] /\ worker[i] \in {"succeeded", "failed"}
  BY DEF Worker!Retry, Worker!Becomes
<1>1. \A j \in Id : /\ takes[j] \in Nat /\ (worker[j] = "none" <=> takes[j] = 0)
                    /\ takes'[j] = IF j = i THEN takes[j] + 1 ELSE takes[j]
                    /\ worker'[j] = IF j = i THEN "queued" ELSE worker[j]
  BY <1>0 DEF RemoteInv
<1>2. i \in Id => worker[i] # "none"
  BY <1>0
<1>3. DOMAIN worker' = Id /\ takes' \in [Id -> Nat]
  <2>1. CASE i \in Id
    BY <1>0, <1>1, <2>1 DEF RemoteInv
  <2>2. CASE i \notin Id
    BY <1>0, <1>1, <2>2 DEF RemoteInv
  <2> QED BY <2>1, <2>2
<1> QED BY <1>1, <1>2, <1>3 DEF RemoteInv, Stays, Real

LEMMA RunStays == ASSUME RemoteInv, NEW i \in Id, WorkerRuns(i) PROVE Stays
BY DEF RemoteInv, Stays, Real, WorkerRuns, Worker!Begin, Worker!Succeed, Worker!Fail,
       Worker!Active, Worker!Becomes

LEMMA StepStays == ASSUME RemoteInv, NEW h \in Handler, Step(h) PROVE Stays
<1>1. CASE UNCHANGED remote
  BY <1>1, RemoteKept
<1>2. CASE CancelEach(h)
  <2>1. UNCHANGED takes /\ (UNCHANGED worker \/ \E i : Worker!Cancel(i))
    BY <1>2 DEF CancelEach
  <2> QED BY <2>1, CancelStays, RemoteKept DEF remote
<1>3. CASE CancelCall(h)
  <2>1. UNCHANGED takes /\ (UNCHANGED worker \/ \E i : Worker!Cancel(i))
    BY <1>3 DEF CancelCall
  <2> QED BY <2>1, CancelStays, RemoteKept DEF remote
<1>4. CASE Submit(h)
  <2>1. \/ UNCHANGED remote
        \/ \E i : Worker!Submit(i) /\ takes' = [takes EXCEPT ![i] = 1]
    BY <1>4 DEF Submit
  <2> QED BY <2>1, SubmitStays, RemoteKept
<1>5. CASE RetryCall(h)
  <2>1. \/ UNCHANGED remote
        \/ \E i : Worker!Retry(i) /\ takes' = [takes EXCEPT ![i] = @ + 1]
    BY <1>5 DEF RetryCall
  <2> QED BY <2>1, RetryStays, RemoteKept
<1>6. CASE \/ Deadline(h) \/ Stop(h) \/ Stopping(h) \/ CloseSession(h) \/ Reread(h)
           \/ StartSession(h) \/ WorkerReady(h) \/ SessionReady(h) \/ StartFails(h) \/ SessionError(h)
           \/ Extend(h) \/ Admit(h) \/ InsertJob(h) \/ Submitted(h) \/ ReadJob(h) \/ AskWorker(h)
           \/ Download(h) \/ RemoveOutput(h) \/ SaveOutput(h) \/ ApplyPoll(h) \/ CancelJob(h)
  BY <1>1, <1>6 DEF Deadline, Stop, Stopping, CloseSession, Reread, StartSession, WorkerReady,
     SessionReady, StartFails, SessionError, Extend, Admit, InsertJob, Submitted, ReadJob, AskWorker,
     Download, RemoveOutput, SaveOutput, ApplyPoll, CancelJob
<1>7. CASE \/ ApplyCancel(h) \/ RetrySegment(h) \/ ApplyRetry(h)
           \/ SaveReference(h) \/ AddVoice(h) \/ RemoveVoice(h) \/ RemoveReference(h)
           \/ ReadVoices(h) \/ WipeReferences(h) \/ ClearOutputs(h) \/ ResetState(h)
  BY <1>1, <1>7 DEF ApplyCancel, RetrySegment, ApplyRetry, SaveReference, AddVoice, RemoveVoice,
     RemoveReference, ReadVoices, WipeReferences, ClearOutputs, ResetState
<1> QED BY <1>2, <1>3, <1>4, <1>5, <1>6, <1>7 DEF Step

\* A handler carries the answer it has, or takes the worker's.
Carries(h) ==
  \/ req'[h].answer # "succeeded"
  \/ req'[h].id = req[h].id /\ req'[h].answer \in {req[h].answer, worker'[req[h].id]}

LEMMA AnswersCarried ==
  ASSUME Requesting, NEW h \in Handler, Step(h)
  PROVE /\ \A g \in Handler : g # h => req'[g] = req[g]
        /\ Carries(h)
<1>0. DOMAIN req[h] = Fields
  BY DEF Requesting
<1>1. ASSUME NEW r, Steps(h, r),
             \/ r.answer # "succeeded"
             \/ r.id = req[h].id /\ r.answer \in {req[h].answer, worker'[req[h].id]}
      PROVE (\A g \in Handler : g # h => req'[g] = req[g]) /\ Carries(h)
  BY <1>1, StepsEffect DEF Carries
<1>2. ASSUME NEW label, Goto(h, label)
      PROVE (\A g \in Handler : g # h => req'[g] = req[g]) /\ Carries(h)
  BY <1>2, GotoEffect DEF Carries, NoReq
<1>3. CASE Done(h)
  BY <1>2, <1>3 DEF Done
<1>4. CASE Continue(h)
  <2>1. CASE req[h].then = "idle"
    BY <1>1, <1>4, <2>1 DEF Continue, NoReq
  <2>2. CASE req[h].then # "idle"
    <3>1. PICK saw : Steps(h, [req[h] EXCEPT !.at = req[h].then, !.act = {}, !.saw = saw])
      BY <1>4, <2>2 DEF Continue
    <3> QED BY <1>0, <1>1, <3>1, FieldNames
  <2> QED BY <2>1, <2>2
<1>5. CASE Deadline(h) \/ Reread(h)
  <2>1. CASE Steps(h, [req[h] EXCEPT !.at = "expire", !.act = ActiveIds, !.left = ActiveIds])
    BY <1>0, <1>1, <2>1, FieldNames
  <2> QED BY <1>4, <1>5, <2>1 DEF Deadline, Reread
<1>6. CASE Stop(h) \/ Stopping(h) \/ StartFails(h) \/ ReadVoices(h)
  <2>1. \/ Done(h)
        \/ \E at, saw, act, left :
             \/ Steps(h, [req[h] EXCEPT !.at = at, !.act = act, !.left = left, !.saw = saw])
             \/ Steps(h, [req[h] EXCEPT !.at = at, !.saw = saw])
             \/ Steps(h, [req[h] EXCEPT !.at = at, !.left = left])
    BY <1>6, Zenon DEF Stop, Stopping, StartFails, ReadVoices
  <2> QED BY <1>0, <1>1, <1>3, <2>1, FieldNames
<1>7. CASE CancelEach(h) \/ WipeReferences(h)
  <2>1. Goto(h, "wipe outputs") \/ \E i : Steps(h, [req[h] EXCEPT !.left = @ \ {i}])
    BY <1>7 DEF CancelEach, WipeReferences
  <2>2. CASE \E i : Steps(h, [req[h] EXCEPT !.left = @ \ {i}])
    <3>1. PICK i : Steps(h, [req[h] EXCEPT !.left = @ \ {i}])
      BY <2>2
    <3> QED BY <1>0, <1>1, <3>1, FieldNames
  <2> QED BY <1>2, <2>1, <2>2
<1>8. CASE StartSession(h) \/ InsertJob(h)
  <2>1. \/ Done(h)
        \/ Steps(h, [NoReq EXCEPT !.at = "check", !.units = req[h].units])
        \/ \E i : Steps(h, [NoReq EXCEPT !.at = "submit", !.id = i, !.voice = req[h].voice])
    BY <1>8 DEF StartSession, InsertJob
  <2> QED BY <1>1, <1>3, <2>1 DEF NoReq
<1>9. CASE Submit(h)
  <2>1. PICK status \in {"queued", "failed"} :
          Steps(h, [NoReq EXCEPT !.at = "submitted", !.id = req[h].id, !.answer = status])
    BY <1>9 DEF Submit
  <2> QED BY <1>1, <2>1 DEF NoReq
<1>10. CASE AskWorker(h)
  <2>1. \/ Done(h)
        \/ \E at : /\ UNCHANGED worker
                   /\ Steps(h, [req[h] EXCEPT !.answer = worker[req[h].id], !.at = at])
    BY <1>10 DEF AskWorker, remote
  <2> QED BY <1>0, <1>1, <1>3, <2>1, FieldNames
<1>11. CASE CancelCall(h)
  <2>1. \/ Done(h)
        \/ Steps(h, [req[h] EXCEPT !.at = "cancelled", !.answer = worker'[req[h].id]])
    BY <1>11 DEF CancelCall
  <2> QED BY <1>0, <1>1, <1>3, <2>1, FieldNames
<1>12. CASE RetryCall(h)
  <2>1. Done(h) \/ Steps(h, [req[h] EXCEPT !.at = "retried", !.answer = "queued"])
    BY <1>12 DEF RetryCall
  <2> QED BY <1>0, <1>1, <1>3, <2>1, FieldNames
<1>13. CASE \/ CloseSession(h) \/ WorkerReady(h) \/ SessionReady(h) \/ SessionError(h) \/ Extend(h)
            \/ Admit(h) \/ Submitted(h) \/ ReadJob(h) \/ Download(h) \/ RemoveOutput(h) \/ SaveOutput(h) \/ ApplyPoll(h)
            \/ CancelJob(h) \/ ApplyCancel(h) \/ RetrySegment(h) \/ ApplyRetry(h)
            \/ SaveReference(h) \/ AddVoice(h) \/ RemoveVoice(h) \/ RemoveReference(h)
            \/ ClearOutputs(h) \/ ResetState(h)
  <2>1. \E label : Goto(h, label)
    BY <1>13 DEF CloseSession, WorkerReady, SessionReady, SessionError, Extend, Admit, Submitted,
       ReadJob, Download, RemoveOutput, SaveOutput, ApplyPoll, CancelJob, ApplyCancel, RetrySegment, ApplyRetry,
       SaveReference, AddVoice, RemoveVoice, RemoveReference, ClearOutputs, ResetState,
       Done
  <2> QED BY <1>2, <2>1
<1> QED
  BY <1>5, <1>6, <1>7, <1>8, <1>9, <1>10, <1>11, <1>12, <1>13 DEF Step

\* A job is said to have succeeded only where a handler's answer says so.
LEMMA StepNamesJobs ==
  ASSUME AnswerInv, NEW h \in Handler, Step(h)
  PROVE /\ DOMAIN job' = Id
        /\ \A i \in Id : job'[i] = "succeeded" =>
             job[i] = "succeeded" \/ (i = req[h].id /\ req[h].answer = "succeeded")
<1>0. DOMAIN job = Id
  BY DEF AnswerInv
<1>1. CASE UNCHANGED records
  BY <1>0, <1>1 DEF records
<1>2. ASSUME NEW status \in {req[h].answer}, NEW hasAudio, UpdateJob(req[h].id, status, hasAudio)
      PROVE /\ DOMAIN job' = Id
            /\ \A i \in Id : job'[i] = "succeeded" =>
                 job[i] = "succeeded" \/ (i = req[h].id /\ req[h].answer = "succeeded")
  <2>1. CASE job[req[h].id] = "none"
    BY <1>1, <1>2, <2>1 DEF UpdateJob
  <2>2. CASE job[req[h].id] # "none"
    BY <1>0, <1>2, <2>2 DEF UpdateJob
  <2> QED BY <2>1, <2>2
<1>3. CASE Submitted(h) \/ ApplyPoll(h) \/ ApplyCancel(h) \/ ApplyRetry(h)
  BY <1>2, <1>3 DEF Submitted, ApplyPoll, ApplyCancel, ApplyRetry
<1>4. CASE CloseSession(h) \/ ResetState(h)
  BY <1>0, <1>4 DEF CloseSession, ResetState
<1>5. CASE InsertJob(h)
  <2>1. UNCHANGED records \/ \E i : job' = [job EXCEPT ![i] = "queued"]
    BY <1>5 DEF InsertJob
  <2> QED BY <1>0, <1>1, <2>1
<1>6. CASE \/ Deadline(h) \/ Stop(h) \/ Stopping(h) \/ CancelEach(h) \/ Reread(h)
           \/ StartSession(h) \/ WorkerReady(h) \/ SessionReady(h) \/ StartFails(h)
           \/ SessionError(h) \/ Extend(h) \/ Admit(h) \/ Submit(h) \/ ReadJob(h)
  BY <1>1, <1>6 DEF Deadline, Stop, Stopping, CancelEach, Reread, StartSession, WorkerReady,
     SessionReady, StartFails, SessionError, Extend, Admit, Submit, ReadJob, StoreKept
<1>7. CASE \/ AskWorker(h) \/ Download(h) \/ RemoveOutput(h) \/ SaveOutput(h) \/ CancelJob(h) \/ CancelCall(h)
           \/ RetrySegment(h) \/ RetryCall(h) \/ SaveReference(h) \/ AddVoice(h)
           \/ RemoveVoice(h) \/ RemoveReference(h) \/ ReadVoices(h) \/ WipeReferences(h)
           \/ ClearOutputs(h)
  BY <1>1, <1>7 DEF AskWorker, Download, RemoveOutput, SaveOutput, CancelJob, CancelCall, RetrySegment, RetryCall,
     SaveReference, AddVoice, RemoveVoice, RemoveReference, ReadVoices, WipeReferences,
     ClearOutputs, StoreKept
<1> QED BY <1>3, <1>4, <1>5, <1>6, <1>7 DEF Step

LEMMA StepKeepsAnswers ==
  ASSUME Requesting, AnswerInv, NEW h \in Handler, Step(h) PROVE AnswerInv'
<1>1. Stays
  BY StepStays DEF AnswerInv
<1>2. /\ DOMAIN job' = Id
      /\ \A i \in Id : job'[i] = "succeeded" =>
           job[i] = "succeeded" \/ (i = req[h].id /\ req[h].answer = "succeeded")
  BY StepNamesJobs
<1>3. (\A g \in Handler : g # h => req'[g] = req[g]) /\ Carries(h)
  BY AnswersCarried
<1>4. \A i \in Id : job'[i] = "succeeded" => Real(i)'
  BY <1>1, <1>2 DEF AnswerInv, Stays
<1>5. ASSUME NEW g \in Handler, req'[g].answer = "succeeded", req'[g].id \in Id
      PROVE Real(req[g].id)' /\ req'[g].id = req[g].id
  <2>1. CASE g # h
    BY <1>1, <1>3, <1>5, <2>1 DEF AnswerInv, Stays
  <2>2. CASE g = h
    <3>1. req'[h].id = req[h].id /\ req'[h].answer \in {req[h].answer, worker'[req[h].id]}
      BY <1>3, <1>5, <2>2 DEF Carries
    <3>2. CASE req[h].answer = "succeeded"
      BY <1>1, <1>5, <2>2, <3>1, <3>2 DEF AnswerInv, Stays
    <3>3. CASE worker'[req[h].id] = "succeeded"
      BY <2>2, <3>1, <3>3 DEF Real
    <3> QED BY <1>5, <2>2, <3>1, <3>2, <3>3
  <2> QED BY <2>1, <2>2
<1>6. RemoteInv'
  BY <1>1 DEF Stays
<1>7. \A g \in Handler : req'[g].answer = "succeeded" /\ req'[g].id \in Id => Real(req[g].id)'
  BY <1>5
<1>8. (\A g \in Handler : req[g].answer = "succeeded" /\ req[g].id \in Id => Real(req[g].id))'
  BY <1>5 DEF Real
<1> QED BY <1>2, <1>4, <1>6, <1>8 DEF AnswerInv

\* A request that arrives brings no answer.
LEMMA AskArrives ==
  ASSUME NEW h \in Handler, Ask(h)
  PROVE \E kind, r : /\ Arrive(h, kind, r) /\ r.answer = "none"
                     /\ r.at \in {"deadline", "cancel", "retry", "stop", "unready", "upload", "remove"}
<1>0. ASSUME NEW kind, NEW r, Arrive(h, kind, r), r.answer = "none",
             r.at \in {"deadline", "cancel", "retry", "stop", "unready", "upload", "remove"}
      PROVE \E k, q : /\ Arrive(h, k, q) /\ q.answer = "none"
                      /\ q.at \in {"deadline", "cancel", "retry", "stop", "unready", "upload", "remove"}
  BY <1>0, Zenon
<1> USE DEF NoReq
<1>1. CASE \E k, v : Arrive(h, "post", [NoReq EXCEPT !.at = "deadline", !.then = "admit", !.key = k, !.voice = v])
  BY <1>0, <1>1
<1>2. CASE \E i : \/ Arrive(h, "cancel", [NoReq EXCEPT !.at = "cancel", !.id = i])
                  \/ Arrive(h, "retry", [NoReq EXCEPT !.at = "retry", !.id = i])
  BY <1>0, <1>2
<1>3. CASE \E d : Arrive(h, "start", [NoReq EXCEPT !.at = "deadline", !.then = "start", !.units = d])
  BY <1>0, <1>3
<1>4. CASE Arrive(h, "extend", [NoReq EXCEPT !.at = "deadline", !.then = "extend"])
  BY <1>0, <1>4
<1>5. CASE \/ Arrive(h, "stop", [NoReq EXCEPT !.at = "stop"])
           \/ Arrive(h, "start", [NoReq EXCEPT !.at = "unready"])
  BY <1>0, <1>5
<1>6. CASE Arrive(h, "reset", [NoReq EXCEPT !.at = "stop", !.then = "wipe"])
  BY <1>0, <1>6
<1>7. CASE \E v : \/ Arrive(h, "upload", [NoReq EXCEPT !.at = "upload", !.voice = v])
                  \/ Arrive(h, "remove", [NoReq EXCEPT !.at = "remove", !.voice = v])
  BY <1>0, <1>7
<1> QED BY <1>1, <1>2, <1>3, <1>4, <1>5, <1>6, <1>7 DEF Ask

LEMMA NextAnswers == ASSUME Requesting, AnswerInv, [Next]_vars PROVE AnswerInv'
<1>1. ASSUME NEW h \in Handler, Step(h) PROVE AnswerInv'
  BY <1>1, StepKeepsAnswers
<1>2. ASSUME NEW h \in Handler, NEW kind, NEW r, Arrive(h, kind, r), r.answer = "none"
      PROVE AnswerInv'
  <2>1. /\ UNCHANGED <<job, worker, takes>> /\ req'[h] = r
        /\ \A g \in Handler : g # h => req'[g] = req[g]
    BY <1>2, StepsEffect DEF Arrive, StoreKept, records, remote
  <2> QED BY <1>2, <2>1 DEF AnswerInv, RemoteInv, Real
<1>3. ASSUME NEW h \in Handler, Ask(h) PROVE AnswerInv'
  BY <1>2, <1>3, AskArrives
<1>4. ASSUME NEW h \in Handler, PollSession(h) \/ \E i \in Id : PollJob(h, i) PROVE AnswerInv'
  BY <1>2, <1>4 DEF PollSession, PollJob, NoReq
<1>5. ASSUME NEW i \in Id, WorkerRuns(i) PROVE AnswerInv'
  <2>1. Stays /\ UNCHANGED <<job, req>>
    BY <1>5, RunStays DEF AnswerInv, WorkerRuns, records
  <2> QED BY <2>1 DEF AnswerInv, Stays, Real
<1>6. CASE Crash
  BY <1>6 DEF Crash, StoreKept, records, remote, AnswerInv, RemoteInv, Real, NoReq
<1>7. CASE Tick \/ UNCHANGED vars
  BY <1>7 DEF Tick, vars, records, remote, AnswerInv, RemoteInv, Real
<1> QED BY <1>1, <1>3, <1>4, <1>5, <1>6, <1>7 DEF Next

\* A job is shown as succeeded only if the worker made its audio, whichever of the
\* late answers, cancellations and retries is merged last (AppStore.updateJob), and
\* wherever the process dies.
THEOREM SuccessHasItsAudio == Spec => []SuccessIsReal
<1>1. Init => AnswerInv
  <2> SUFFICES ASSUME Init PROVE AnswerInv
    OBVIOUS
  <2>1. RemoteInv
    BY DEF Init, RemoteInv
  <2> QED BY <2>1 DEF Init, AnswerInv, NoReq
<1>2. SessionInv /\ AnswerInv /\ [Next]_vars => AnswerInv'
  BY SessionInvRequesting, NextAnswers
<1>3. AnswerInv => SuccessIsReal
  BY DEF AnswerInv, SuccessIsReal, Real
<1> QED BY <1>1, <1>2, <1>3, SessionInvariant, PTL DEF Spec

------------------------------------------------------------------------------
(* Audio files.                                                               *)

\* The job's file is there, is being replaced or wiped, or a crash cut that short.
OnDisk(i) ==
  \/ i \in outputs \/ crash \in {"in a save", "in a reset"}
  \/ \E h \in Handler : At(h, "wipe records") \/ (At(h, "save") /\ req[h].id = i)

\* A record that says it has audio has its file, and so has a handler about to say
\* so, unless the record was wiped meanwhile.  A reset that has taken a temporary
\* file from a save is about to wipe the record, or has.
FilesInv ==
  /\ DOMAIN job = Id /\ audio \in [Id -> BOOLEAN]
  /\ \A i \in Id : audio[i] => OnDisk(i)
  /\ \A h \in Handler : At(h, "apply") /\ req[h].answer = "succeeded" /\ req[h].id \in Id =>
       OnDisk(req[h].id) \/ job[req[h].id] = "none"
  /\ \A h \in Handler : At(h, "save") /\ h \notin temps /\ req[h].id \in Id =>
       \/ job[req[h].id] = "none" /\ ~ audio[req[h].id]
       \/ \E g \in Handler : At(g, "wipe records")

\* A job's identifier is drawn afresh: the least of those nobody carries.
Before == {ss \in Nat \X Nat : ss[1] < ss[2]}
LEMMA BeforeIsWellFounded == IsWellFoundedOn(Before, Nat)
<1>1. OpToRel(<, Nat) = Before
  BY Zenon DEF OpToRel, Before
<1> QED BY <1>1, NatLessThanWellFounded, Zenon

LEMMA FreshIsFresh == Fresh # {} => Least(Fresh) \in Fresh
<1> SUFFICES ASSUME Fresh # {} PROVE Least(Fresh) \in Fresh
  OBVIOUS
<1>0. Fresh \subseteq Nat
  BY ServerAssumption DEF Fresh
<1>1. PICK n \in Fresh : \A x \in Fresh : ~ (<<x, n>> \in Before)
  BY <1>0, BeforeIsWellFounded, WFMin, Zenon
<1>2. ASSUME NEW x \in Fresh PROVE n <= x
  <2>1. x \in Nat /\ n \in Nat /\ ~ (<<x, n>> \in Before)
    BY <1>0, <1>1
  <2> QED BY <2>1 DEF Before
<1> QED BY <1>2 DEF Least

LEMMA OthersKeepReq ==
  ASSUME Requesting, NEW h \in Handler, Step(h)
  PROVE \A g \in Handler : g # h => req'[g] = req[g]
BY AnswersCarried

\* Only a reset that ends takes a file from the records, and a save whose
\* temporary file a reset has removed.
LEMMA StepKeepsFiles ==
  ASSUME Requesting, FilesInv, NEW h \in Handler, Step(h), ~ ResetState(h),
         NEW i \in Id, OnDisk(i)
  PROVE OnDisk(i)' \/ (job[i] = "none" /\ ~ audio[i])
<1>0. \A g \in Handler : g # h => req'[g] = req[g]
  BY OthersKeepReq
<1>1. CASE /\ UNCHANGED <<outputs, crash>>
           /\ req[h].at \notin {"save", "wipe records"}
  BY <1>0, <1>1 DEF OnDisk, At
<1>2. CASE RemoveOutput(h)
  <2>1. outputs' = outputs \ {req[h].id} /\ Goto(h, "save")
    BY <1>2 DEF RemoveOutput
  <2>2. /\ req'[h].at = "save" /\ req'[h].id = req[h].id
        /\ UNCHANGED crash /\ req[h].at \notin {"save", "wipe records"}
    BY <1>2, <2>1, GotoEffect DEF RemoveOutput, Bounds, Clocks, At, NoReq
  <2> QED BY <1>0, <2>1, <2>2 DEF OnDisk, At
<1>3. CASE SaveOutput(h)
  <2>1. UNCHANGED crash /\ req[h].at = "save"
    BY <1>3 DEF SaveOutput, Bounds, Clocks, At
  <2>2. CASE h \in temps
    <3>1. outputs' = outputs \cup {req[h].id}
      BY <1>3, <2>2 DEF SaveOutput
    <3> QED BY <1>0, <2>1, <3>1 DEF OnDisk, At
  <2>3. CASE h \notin temps
    <3>1. UNCHANGED outputs
      BY <1>3, <2>3 DEF SaveOutput
    <3>2. CASE req[h].id = i
      <4>1. \/ job[i] = "none" /\ ~ audio[i]
            \/ \E g \in Handler : At(g, "wipe records")
        BY <2>1, <2>3, <3>2 DEF FilesInv, At
      <4> QED BY <1>0, <2>1, <4>1 DEF OnDisk, At
    <3>3. CASE req[h].id # i
      BY <1>0, <2>1, <3>1, <3>3 DEF OnDisk, At
    <3> QED BY <3>2, <3>3
  <2> QED BY <2>2, <2>3
<1>4. CASE ClearOutputs(h)
  <2>1. req'[h].at = "wipe records"
    BY <1>4, GotoEffect DEF ClearOutputs
  <2> QED BY <2>1 DEF OnDisk, At
<1>5. CASE \/ Deadline(h) \/ Stop(h) \/ Stopping(h) \/ CancelEach(h) \/ CloseSession(h) \/ Reread(h)
           \/ StartSession(h) \/ WorkerReady(h) \/ SessionReady(h) \/ StartFails(h) \/ SessionError(h)
           \/ Extend(h) \/ Admit(h) \/ InsertJob(h) \/ Submit(h) \/ Submitted(h)
           \/ ReadJob(h) \/ AskWorker(h) \/ Download(h) \/ ApplyPoll(h)
  <2>1. /\ UNCHANGED <<outputs, crash>> /\ req[h].at \notin {"save", "wipe records"}
    BY <1>5 DEF Deadline, Stop, Stopping, CancelEach, CloseSession, Reread, StartSession, WorkerReady,
         SessionReady, StartFails, SessionError, Extend, Admit, InsertJob, Submit, Submitted, ReadJob,
         AskWorker, Download, ApplyPoll, StoreKept, Bounds, Clocks, disk, At
  <2> QED BY <1>1, <2>1
<1>6. CASE \/ CancelJob(h) \/ CancelCall(h) \/ ApplyCancel(h)
           \/ RetrySegment(h) \/ RetryCall(h) \/ ApplyRetry(h)
           \/ SaveReference(h) \/ AddVoice(h) \/ RemoveVoice(h) \/ RemoveReference(h)
           \/ ReadVoices(h) \/ WipeReferences(h)
  <2>1. /\ UNCHANGED <<outputs, crash>> /\ req[h].at \notin {"save", "wipe records"}
    BY <1>6 DEF CancelJob, CancelCall, ApplyCancel, RetrySegment, RetryCall, ApplyRetry,
         SaveReference, AddVoice, RemoveVoice, RemoveReference, ReadVoices, WipeReferences,
         StoreKept, Bounds, Clocks, disk, At
  <2> QED BY <1>1, <2>1
<1> QED BY <1>2, <1>3, <1>4, <1>5, <1>6 DEF Step

\* The temporary files go with the end of their save, or with all the outputs.
LEMMA StepKeepsTemps ==
  ASSUME Requesting, NEW h \in Handler, Step(h), ~ ResetState(h)
  PROVE  /\ req[h].at # "wipe records"
         /\ (\A g \in Handler : g # h /\ g \in temps => g \in temps') \/ At(h, "wipe records")'
<1>1. CASE UNCHANGED temps /\ req[h].at # "wipe records"
  BY <1>1
<1>2. CASE ClearOutputs(h)
  <2>1. req'[h].at = "wipe records" /\ req[h].at # "wipe records"
    BY <1>2, GotoEffect DEF ClearOutputs, At
  <2> QED BY <2>1 DEF At
<1>3. CASE RemoveOutput(h) \/ SaveOutput(h)
  BY <1>3 DEF RemoveOutput, SaveOutput, At
<1>4. CASE \/ Deadline(h) \/ Stop(h) \/ Stopping(h) \/ CancelEach(h) \/ CloseSession(h) \/ Reread(h)
           \/ StartSession(h) \/ WorkerReady(h) \/ SessionReady(h) \/ StartFails(h) \/ SessionError(h)
           \/ Extend(h) \/ Admit(h) \/ InsertJob(h) \/ Submit(h) \/ Submitted(h)
           \/ ReadJob(h) \/ AskWorker(h) \/ Download(h) \/ ApplyPoll(h)
  <2>1. UNCHANGED temps /\ req[h].at # "wipe records"
    BY <1>4 DEF Deadline, Stop, Stopping, CancelEach, CloseSession, Reread, StartSession, WorkerReady,
         SessionReady, StartFails, SessionError, Extend, Admit, InsertJob, Submit, Submitted, ReadJob,
         AskWorker, Download, ApplyPoll, disk, At
  <2> QED BY <1>1, <2>1
<1>5. CASE \/ CancelJob(h) \/ CancelCall(h) \/ ApplyCancel(h)
           \/ RetrySegment(h) \/ RetryCall(h) \/ ApplyRetry(h)
           \/ SaveReference(h) \/ AddVoice(h) \/ RemoveVoice(h) \/ RemoveReference(h)
           \/ ReadVoices(h) \/ WipeReferences(h)
  <2>1. UNCHANGED temps /\ req[h].at # "wipe records"
    BY <1>5 DEF CancelJob, CancelCall, ApplyCancel, RetrySegment, RetryCall, ApplyRetry,
         SaveReference, AddVoice, RemoveVoice, RemoveReference, ReadVoices, WipeReferences, disk, At
  <2> QED BY <1>1, <2>1
<1> QED BY <1>2, <1>3, <1>4, <1>5 DEF Step

\* A poll says that a job has succeeded only after it has put the audio in place,
\* for which it has written a temporary file.
LEMMA SuccessIsSavedFirst ==
  ASSUME Requesting, NEW h \in Handler, Step(h),
         req'[h].at = "save" \/ (req'[h].at = "apply" /\ req'[h].answer = "succeeded")
  PROVE \/ req'[h].at = "save" /\ h \in temps'
        \/ req'[h].at = "apply" /\ req'[h].id = req[h].id /\ req[h].id \in outputs'
<1>0. DOMAIN req[h] = Fields /\ req[h].then \in Thens
  BY DEF Requesting
<1>1. ASSUME NEW r, Steps(h, r), r.at # "save", r.at # "apply" \/ r.answer # "succeeded" PROVE FALSE
  BY <1>1, StepsEffect
<1>2. ASSUME NEW label, Goto(h, label), label \notin {"apply", "save"} PROVE FALSE
  BY <1>2, GotoEffect
<1>3. ~ Done(h)
  BY <1>2 DEF Done
<1>4. ~ Continue(h)
  <2>1. CASE req[h].then = "idle"
    BY <1>1, <2>1 DEF Continue, NoReq
  <2>2. CASE req[h].then # "idle"
    <3>1. SUFFICES ASSUME NEW saw, Steps(h, [req[h] EXCEPT !.at = req[h].then, !.act = {}, !.saw = saw])
                   PROVE FALSE
      BY <2>2 DEF Continue
    <3> QED BY <1>0, <1>1, <3>1, FieldNames DEF Thens
  <2> QED BY <2>1, <2>2
<1>5. ~ (Deadline(h) \/ Reread(h))
  <2>1. CASE Steps(h, [req[h] EXCEPT !.at = "expire", !.act = ActiveIds, !.left = ActiveIds])
    BY <1>0, <1>1, <2>1, FieldNames
  <2> QED BY <1>4, <2>1 DEF Deadline, Reread
<1>6. ~ (Stop(h) \/ Stopping(h) \/ StartFails(h) \/ ReadVoices(h))
  BY <1>0, <1>1, <1>3, FieldNames DEF Stop, Stopping, StartFails, ReadVoices
<1>7. ~ (CancelEach(h) \/ WipeReferences(h))
  <2>1. SUFFICES ASSUME CancelEach(h) \/ WipeReferences(h) PROVE FALSE
    OBVIOUS
  <2>2. Goto(h, "wipe outputs") \/ \E i : Steps(h, [req[h] EXCEPT !.left = @ \ {i}])
    BY <2>1 DEF CancelEach, WipeReferences
  <2>3. PICK i : Steps(h, [req[h] EXCEPT !.left = @ \ {i}])
    BY <1>2, <2>2
  <2>4. req[h].at \notin {"apply", "save"}
    BY <2>1 DEF CancelEach, WipeReferences, At
  <2> QED BY <1>0, <1>1, <2>3, <2>4, FieldNames
<1>8. ~ (StartSession(h) \/ InsertJob(h))
  <2>1. SUFFICES ASSUME StartSession(h) \/ InsertJob(h) PROVE FALSE
    OBVIOUS
  <2>2. \/ Steps(h, [NoReq EXCEPT !.at = "check", !.units = req[h].units])
        \/ \E i : Steps(h, [NoReq EXCEPT !.at = "submit", !.id = i, !.voice = req[h].voice])
    BY <1>3, <2>1 DEF StartSession, InsertJob
  <2> QED BY <1>1, <2>2 DEF NoReq
<1>9. ~ Submit(h)
  <2>1. SUFFICES ASSUME Submit(h) PROVE FALSE
    OBVIOUS
  <2>2. PICK status \in {"queued", "failed"} :
          Steps(h, [NoReq EXCEPT !.at = "submitted", !.id = req[h].id, !.answer = status])
    BY <2>1 DEF Submit
  <2> QED BY <1>1, <2>2 DEF NoReq
<1>10. ~ AskWorker(h)
  <2>1. SUFFICES ASSUME AskWorker(h) PROVE FALSE
    OBVIOUS
  <2>2. Steps(h, [req[h] EXCEPT !.answer = worker[req[h].id],
                    !.at = IF worker[req[h].id] = "succeeded" THEN "download" ELSE "apply"])
    BY <1>3, <2>1 DEF AskWorker
  <2> QED BY <1>0, <1>1, <2>2, FieldNames
<1>11. ~ CancelCall(h)
  <2>1. SUFFICES ASSUME Steps(h, [req[h] EXCEPT !.at = "cancelled", !.answer = worker'[req[h].id]])
                 PROVE FALSE
    BY <1>3 DEF CancelCall
  <2> QED BY <1>0, <1>1, <2>1, FieldNames
<1>12. ~ RetryCall(h)
  <2>1. SUFFICES ASSUME Steps(h, [req[h] EXCEPT !.at = "retried", !.answer = "queued"])
                 PROVE FALSE
    BY <1>3 DEF RetryCall
  <2> QED BY <1>0, <1>1, <2>1, FieldNames
<1>13. ~ (\/ CloseSession(h) \/ WorkerReady(h) \/ SessionReady(h) \/ SessionError(h) \/ Extend(h)
          \/ Admit(h) \/ Submitted(h) \/ ReadJob(h) \/ Download(h) \/ ApplyPoll(h)
          \/ CancelJob(h) \/ ApplyCancel(h) \/ RetrySegment(h) \/ ApplyRetry(h)
          \/ SaveReference(h) \/ AddVoice(h) \/ RemoveVoice(h) \/ RemoveReference(h)
          \/ ClearOutputs(h) \/ ResetState(h))
  BY <1>0, <1>2, <1>3
     DEF CloseSession, WorkerReady, SessionReady, SessionError, Extend, Admit, Submitted,
       ReadJob, Download, ApplyPoll, CancelJob, ApplyCancel, RetrySegment, ApplyRetry,
       SaveReference, AddVoice, RemoveVoice, RemoveReference, ClearOutputs, ResetState,
       Thens
<1>14. CASE RemoveOutput(h)
  <2>1. Goto(h, "save") /\ h \in temps'
    BY <1>14 DEF RemoveOutput
  <2> QED BY <2>1, GotoEffect
<1>15. CASE SaveOutput(h)
  <2>1. Goto(h, "apply") /\ req[h].id \in outputs'
    BY <1>3, <1>15 DEF SaveOutput
  <2>2. req'[h] # NoReq
    BY DEF NoReq
  <2> QED BY <2>1, <2>2, GotoEffect
<1> QED
  BY <1>5, <1>6, <1>7, <1>8, <1>9, <1>10, <1>11, <1>12, <1>13, <1>14, <1>15 DEF Step

\* What a step does to the records: only a poll adds audio, and an identifier that
\* somebody carries is not given to a new job.
LEMMA StepKeepsRecords ==
  ASSUME FilesInv, NEW h \in Handler, Step(h)
  PROVE /\ DOMAIN job' = Id /\ audio' \in [Id -> BOOLEAN]
        /\ \A i \in Id : audio'[i] =>
             \/ audio[i]
             \/ At(h, "apply") /\ i = req[h].id /\ req[h].answer = "succeeded" /\ job[i] # "none"
        /\ \A i \in Id : job[i] = "none" /\ job'[i] # "none" => \A g \in Handler : req[g].id # i
<1> DEFINE Typed == DOMAIN job' = Id /\ audio' \in [Id -> BOOLEAN]
           FewerAudio == \A i \in Id : audio'[i] =>
             \/ audio[i]
             \/ At(h, "apply") /\ i = req[h].id /\ req[h].answer = "succeeded" /\ job[i] # "none"
           FreshOnly == \A i \in Id : job[i] = "none" /\ job'[i] # "none" => \A g \in Handler : req[g].id # i
<1>0. DOMAIN job = Id /\ audio \in [Id -> BOOLEAN]
  BY DEF FilesInv
<1>1. ASSUME UNCHANGED records PROVE Typed /\ FewerAudio /\ FreshOnly
  BY <1>0, <1>1 DEF records
<1>2. ASSUME NEW status, NEW hasAudio \in BOOLEAN, UpdateJob(req[h].id, status, hasAudio),
             \/ hasAudio = FALSE \/ (req[h].id \in Id => hasAudio = audio[req[h].id])
             \/ At(h, "apply") /\ req[h].answer = "succeeded"
      PROVE Typed /\ FewerAudio /\ FreshOnly
  <2>1. CASE job[req[h].id] = "none"
    BY <1>1, <1>2, <2>1 DEF UpdateJob
  <2>2. CASE job[req[h].id] # "none"
    <3>1. /\ job' = [job EXCEPT ![req[h].id] = status]
          /\ audio' = [audio EXCEPT ![req[h].id] = hasAudio]
      BY <1>2, <2>2 DEF UpdateJob
    <3> QED BY <1>0, <1>2, <2>2, <3>1
  <2> QED BY <2>1, <2>2
<1>3. CASE Submitted(h) \/ ApplyCancel(h)
  <2>1. UpdateJob(req[h].id, req[h].answer, audio[req[h].id])
    BY <1>3 DEF Submitted, ApplyCancel
  <2>2. CASE req[h].id \in Id
    BY <1>0, <1>2, <2>1, <2>2
  <2>3. CASE req[h].id \notin Id
    <3>1. \/ UNCHANGED records
          \/ /\ job' = [job EXCEPT ![req[h].id] = req[h].answer]
             /\ audio' = [audio EXCEPT ![req[h].id] = audio[req[h].id]]
      BY <2>1 DEF UpdateJob
    <3> QED BY <1>0, <1>1, <2>3, <3>1
  <2> QED BY <2>2, <2>3
<1>4. CASE ApplyPoll(h)
  <2>1. At(h, "apply") /\ UpdateJob(req[h].id, req[h].answer, req[h].answer = "succeeded")
    BY <1>4 DEF ApplyPoll
  <2>2. CASE req[h].answer = "succeeded"
    BY <1>2, <2>1, <2>2
  <2>3. CASE req[h].answer # "succeeded"
    BY <1>2, <2>1, <2>3
  <2> QED BY <2>2, <2>3
<1>5. CASE ApplyRetry(h)
  BY <1>2, <1>5 DEF ApplyRetry
<1>6. CASE CloseSession(h)
  BY <1>0, <1>6 DEF CloseSession
<1>7. CASE ResetState(h)
  BY <1>7 DEF ResetState
<1>8. CASE InsertJob(h)
  <2>1. CASE UNCHANGED records
    BY <1>1, <2>1
  <2>2. CASE ~ UNCHANGED records
    <3>1. /\ Fresh # {} /\ job' = [job EXCEPT ![Least(Fresh)] = "queued"]
          /\ audio' = [audio EXCEPT ![Least(Fresh)] = FALSE]
      BY <1>8, <2>2 DEF InsertJob
    <3>2. Least(Fresh) \in Fresh
      BY <3>1, FreshIsFresh
    <3>3. \A g \in Handler : req[g].id # Least(Fresh)
      BY <3>2 DEF Fresh
    <3> QED BY <1>0, <3>1, <3>3
  <2> QED BY <2>1, <2>2
<1>9. CASE \/ Deadline(h) \/ Stop(h) \/ Stopping(h) \/ CancelEach(h) \/ Reread(h)
           \/ StartSession(h) \/ WorkerReady(h) \/ SessionReady(h) \/ StartFails(h)
           \/ SessionError(h) \/ Extend(h) \/ Admit(h) \/ Submit(h) \/ ReadJob(h)
  <2>1. UNCHANGED records
    BY <1>9 DEF Deadline, Stop, Stopping, CancelEach, Reread, StartSession, WorkerReady,
       SessionReady, StartFails, SessionError, Extend, Admit, Submit, ReadJob, StoreKept
  <2> QED BY <1>1, <2>1
<1>10. CASE \/ AskWorker(h) \/ Download(h) \/ RemoveOutput(h) \/ SaveOutput(h) \/ CancelJob(h) \/ CancelCall(h)
           \/ RetrySegment(h) \/ RetryCall(h) \/ SaveReference(h) \/ AddVoice(h)
           \/ RemoveVoice(h) \/ RemoveReference(h) \/ ReadVoices(h) \/ WipeReferences(h)
           \/ ClearOutputs(h)
  <2>1. UNCHANGED records
    BY <1>10 DEF AskWorker, Download, RemoveOutput, SaveOutput, CancelJob, CancelCall, RetrySegment, RetryCall,
     SaveReference, AddVoice, RemoveVoice, RemoveReference, ReadVoices, WipeReferences,
     ClearOutputs, StoreKept
  <2> QED BY <1>1, <2>1
<1> QED BY <1>3, <1>4, <1>5, <1>6, <1>7, <1>8, <1>9, <1>10 DEF Step

LEMMA StepKeepsFilesInv ==
  ASSUME Requesting, FilesInv, NEW h \in Handler, Step(h) PROVE FilesInv'
<1>0. \A g \in Handler : g # h => req'[g] = req[g]
  BY OthersKeepReq
<1>1. CASE ResetState(h)
  <2>1. /\ job' = [i \in Id |-> "none"] /\ audio' = [i \in Id |-> FALSE] /\ req'[h].at = "idle"
    BY <1>1, GotoEffect DEF ResetState, Done
  <2> QED BY <2>1 DEF FilesInv
<1>2. CASE ~ ResetState(h)
  <2>1. \A i \in Id : OnDisk(i) => OnDisk(i)' \/ (job[i] = "none" /\ ~ audio[i])
    BY <1>2, StepKeepsFiles
  <2>2. /\ DOMAIN job' = Id /\ audio' \in [Id -> BOOLEAN]
        /\ \A i \in Id : audio'[i] =>
             \/ audio[i]
             \/ At(h, "apply") /\ i = req[h].id /\ req[h].answer = "succeeded" /\ job[i] # "none"
        /\ \A i \in Id : job[i] = "none" /\ job'[i] # "none" => \A g \in Handler : req[g].id # i
    BY StepKeepsRecords
  <2>3. ASSUME NEW i \in Id, audio'[i] PROVE OnDisk(i)'
    BY <2>1, <2>2, <2>3 DEF FilesInv
  <2>4. ASSUME NEW g \in Handler, req'[g].at = "apply", req'[g].answer = "succeeded", req'[g].id \in Id
        PROVE \/ OnDisk(req[g].id)' /\ req'[g].id = req[g].id
              \/ job'[req'[g].id] = "none"
    <3>1. CASE g = h
      <4>1. req'[h].id = req[h].id /\ req[h].id \in outputs'
        BY <2>4, <3>1, SuccessIsSavedFirst
      <4> QED BY <3>1, <4>1 DEF OnDisk
    <3>2. CASE g # h
      <4>1. req'[g] = req[g] /\ At(g, "apply") /\ req[g].answer = "succeeded" /\ req[g].id \in Id
        BY <1>0, <2>4, <3>2 DEF At
      <4>2. OnDisk(req[g].id) \/ job[req[g].id] = "none"
        BY <4>1 DEF FilesInv
      <4> QED BY <2>1, <2>2, <4>1, <4>2
    <3> QED BY <3>1, <3>2
  <2>5. (\A g \in Handler : At(g, "apply") /\ req[g].answer = "succeeded" /\ req[g].id \in Id =>
           OnDisk(req[g].id) \/ job[req[g].id] = "none")'
    BY <2>4 DEF At, OnDisk
  <2>6. ASSUME NEW g \in Handler, req'[g].at = "save", g \notin temps', req'[g].id \in Id
        PROVE \/ job'[req'[g].id] = "none" /\ ~ audio'[req'[g].id]
              \/ \E f \in Handler : req'[f].at = "wipe records"
    <3>1. g # h /\ req'[g] = req[g]
      BY <1>0, <2>6, SuccessIsSavedFirst
    <3>2. /\ req[h].at # "wipe records"
          /\ g \notin temps \/ req'[h].at = "wipe records"
      BY <1>2, <2>6, <3>1, StepKeepsTemps DEF At
    <3>3. CASE g \notin temps
      <4>1. \/ job[req[g].id] = "none" /\ ~ audio[req[g].id]
            \/ \E f \in Handler : req[f].at = "wipe records"
        BY <2>6, <3>1, <3>3 DEF FilesInv, At
      <4>2. CASE job[req[g].id] = "none" /\ ~ audio[req[g].id]
        BY <2>2, <2>6, <3>1, <4>2
      <4>3. CASE \E f \in Handler : req[f].at = "wipe records"
        BY <1>0, <3>2, <4>3
      <4> QED BY <4>1, <4>2, <4>3
    <3> QED BY <3>2, <3>3
  <2>7. (\A g \in Handler : At(g, "save") /\ g \notin temps /\ req[g].id \in Id =>
           \/ job[req[g].id] = "none" /\ ~ audio[req[g].id]
           \/ \E f \in Handler : At(f, "wipe records"))'
    BY <2>6 DEF At
  <2> QED BY <2>2, <2>3, <2>5, <2>7 DEF FilesInv
<1> QED BY <1>1, <1>2

LEMMA NextFiles == ASSUME Requesting, FilesInv, [Next]_vars PROVE FilesInv'
<1>1. ASSUME NEW h \in Handler, Step(h) PROVE FilesInv'
  BY <1>1, StepKeepsFilesInv
<1>2. ASSUME NEW h \in Handler, NEW kind, NEW r, Arrive(h, kind, r),
             r.at \in {"deadline", "cancel", "retry", "stop", "unready", "upload", "remove"}
      PROVE FilesInv'
  <2>1. /\ UNCHANGED <<job, audio, outputs, temps, crash>> /\ req'[h] = r /\ At(h, "idle")
        /\ \A g \in Handler : g # h => req'[g] = req[g]
    BY <1>2, StepsEffect DEF Arrive, StoreKept, records, disk
  <2>2. \A i \in Id : OnDisk(i) => OnDisk(i)'
    BY <2>1 DEF OnDisk, At
  <2>3. ASSUME NEW g \in Handler, req'[g].at = "apply" PROVE req'[g] = req[g]
    BY <1>2, <2>1, <2>3
  <2>4. ASSUME NEW g \in Handler, req'[g].at = "apply", req'[g].answer = "succeeded", req'[g].id \in Id
        PROVE OnDisk(req[g].id)' \/ job'[req[g].id] = "none"
    BY <2>1, <2>2, <2>3, <2>4 DEF FilesInv, At
  <2>5. (\A g \in Handler : At(g, "apply") /\ req[g].answer = "succeeded" /\ req[g].id \in Id =>
           OnDisk(req[g].id) \/ job[req[g].id] = "none")'
    BY <2>3, <2>4 DEF At, OnDisk
  <2>6. (\A g \in Handler : At(g, "save") /\ g \notin temps /\ req[g].id \in Id =>
           \/ job[req[g].id] = "none" /\ ~ audio[req[g].id]
           \/ \E f \in Handler : At(f, "wipe records"))'
    BY <1>2, <2>1 DEF FilesInv, At
  <2> QED BY <2>1, <2>2, <2>5, <2>6 DEF FilesInv
<1>3. ASSUME NEW h \in Handler, Ask(h) PROVE FilesInv'
  BY <1>2, <1>3, AskArrives
<1>4. ASSUME NEW h \in Handler, PollSession(h) \/ \E i \in Id : PollJob(h, i) PROVE FilesInv'
  BY <1>2, <1>4 DEF PollSession, PollJob, NoReq
<1>5. CASE Crash
  <2>1. /\ UNCHANGED <<job, audio, outputs>> /\ crash = "none"
        /\ \A h \in Handler : req'[h].at = "idle"
        /\ (\E h \in Handler : req[h].at \in {"save", "wipe records"}) => crash' \in {"in a save", "in a reset"}
    BY <1>5 DEF Crash, StoreKept, records, disk, NoReq, Resetting, At
  <2> QED BY <2>1 DEF FilesInv, OnDisk, At
<1>6. CASE Tick \/ UNCHANGED vars \/ \E i \in Id : WorkerRuns(i)
  <2>1. UNCHANGED <<job, audio, outputs, temps, crash, req>>
    BY <1>6 DEF Tick, vars, WorkerRuns, records, disk
  <2> QED BY <2>1 DEF FilesInv, OnDisk, At
<1> QED BY <1>1, <1>3, <1>4, <1>5, <1>6 DEF Next

\* The audio a record offers is on disk (saveOutput, readOutput), but while it is
\* replaced or a reset wipes it, and after a crash in one of these: whichever
\* handlers poll, retry, cancel and reset at once.
THEOREM OfferedAudioExists == Spec => []OutputsExist
<1>1. Init => FilesInv
  BY DEF Init, FilesInv, NoReq, At
<1>2. SessionInv /\ FilesInv /\ [Next]_vars => FilesInv'
  BY SessionInvRequesting, NextFiles
<1>3. FilesInv => OutputsExist
  BY DEF FilesInv, OutputsExist, OnDisk
<1> QED BY <1>1, <1>2, <1>3, SessionInvariant, PTL DEF Spec
------------------------------------------------------------------------------
(* Types.                                                                     *)

\* A handler that names a job, or uploads a voice, names one there is room for;
\* what it holds of the session, the key and the worker's answer has its type.
JobLabels == {"submit", "submitted", "poll", "ask", "download", "replace", "save", "apply",
              "cancel", "cancel call", "cancelled", "retry", "retry call", "retried"}
RequestTyped(r) ==
  /\ r.saw \in Sessions /\ r.answer \in JobStatus /\ r.key \in Key \cup {NoKey}
  /\ r.at \in Uploading => r.voice \in Voice
  /\ r.at \in JobLabels \/ r.then = "poll" => r.id \in Id

TypeInv == TypeOK /\ \A h \in Handler : RequestTyped(req[h])

LEMMA NothingTyped == Off \in Sessions /\ RequestTyped(NoReq)
<1>1. Off \in Sessions BY ServerAssumption DEF Off, Sessions
<1> QED BY <1>1 DEF RequestTyped, NoReq, JobStatus, Uploading, JobLabels

\* A request rewritten: what keeps its fields keeps their types.
LEMMA RewriteTyped ==
  ASSUME SessionInv, TypeInv, NEW h \in Handler, NEW r, Steps(h, r), r.saw \in Sessions,
         r.answer \in JobStatus, r.key \in {req[h].key, NoKey},
         r.at \notin Uploading, r.then \in {req[h].then, "idle"},
         r.at \in JobLabels => r.id \in Id,
         r.then = "poll" => r.id = req[h].id
  PROVE  RequestTyped(req'[h])
<1>1. req'[h] = r BY SessionInvRequesting, StepsEffect
<1> QED BY <1>1 DEF TypeInv, RequestTyped

LEMMA GotoTyped ==
  ASSUME SessionInv, TypeInv, NEW h \in Handler, NEW label, Goto(h, label),
         label \in Uploading => req[h].at \in Uploading,
         label \in JobLabels => req[h].at \in JobLabels \/ req[h].then = "poll"
  PROVE  RequestTyped(req'[h])
<1>1. RequestTyped(req[h]) /\ DOMAIN req[h] = Fields
  BY DEF TypeInv, SessionInv, RequestKept
<1>2. CASE label = "idle"
  <2>1. req'[h] = NoReq BY <1>2, SessionInvRequesting, StepsEffect DEF Goto
  <2> QED BY <2>1, NothingTyped
<1>3. CASE label # "idle"
  <2>1. req'[h] = [req[h] EXCEPT !.at = label]
    BY <1>3, SessionInvRequesting, StepsEffect DEF Goto
  <2> QED BY <1>1, <2>1, FieldNames DEF RequestTyped
<1> QED BY <1>2, <1>3

LEMMA ContinueTyped ==
  ASSUME SessionInv, TypeInv, NEW h \in Handler, Continue(h) PROVE RequestTyped(req'[h])
<1>1. RequestTyped(req[h]) /\ DOMAIN req[h] = Fields /\ req[h].then \in Thens
  BY DEF TypeInv, SessionInv, RequestKept
<1>2. CASE req[h].then = "idle"
  <2>1. req'[h] = NoReq BY <1>2, SessionInvRequesting, StepsEffect DEF Continue
  <2> QED BY <2>1, NothingTyped
<1>3. CASE req[h].then # "idle"
  <2>1. PICK saw \in {session, Off} :
          req'[h] = [req[h] EXCEPT !.at = req[h].then, !.act = {}, !.saw = saw]
    BY <1>3, SessionInvRequesting, StepsEffect DEF Continue
  <2>2. saw \in Sessions BY NothingTyped DEF TypeInv, TypeOK
  <2> QED BY <1>1, <2>1, <2>2, FieldNames DEF RequestTyped, Thens, Uploading, JobLabels
<1> QED BY <1>2, <1>3

LEMMA StepTypesRequest ==
  ASSUME SessionInv, TypeInv, NEW h \in Handler, Step(h) PROVE RequestTyped(req'[h])
<1>0. /\ RequestTyped(req[h]) /\ DOMAIN req[h] = Fields /\ req[h].then \in Thens
      /\ session \in Sessions /\ worker \in [Id -> JobStatus] /\ Off \in Sessions
  BY NothingTyped DEF TypeInv, TypeOK, SessionInv, RequestKept
<1>1. CASE Done(h) BY <1>1, GotoTyped DEF Done, Uploading, JobLabels
<1>2. CASE Continue(h) BY <1>2, ContinueTyped
<1>3. ASSUME NEW r, Steps(h, r), r.at \notin Uploading \cup JobLabels,
             r.saw \in {req[h].saw, session, Off}, r.then = req[h].then, r.id = req[h].id,
             r.key = req[h].key, r.answer = req[h].answer
      PROVE  RequestTyped(req'[h])
  BY <1>0, <1>3, RewriteTyped DEF RequestTyped
<1>4. ASSUME NEW r, Steps(h, r), r.at \in JobLabels, r.answer \in JobStatus, req[h].id \in Id,
             r.saw = req[h].saw, r.then = req[h].then, r.id = req[h].id, r.key = req[h].key
      PROVE  RequestTyped(req'[h])
  <2>1. r.at \notin Uploading BY <1>4 DEF JobLabels, Uploading
  <2> QED BY <1>0, <1>4, <2>1, RewriteTyped DEF RequestTyped
<1>5. CASE Deadline(h) \/ Reread(h)
  <2>1. CASE Steps(h, [req[h] EXCEPT !.at = "expire", !.act = ActiveIds, !.left = ActiveIds])
    BY <1>0, <1>3, <2>1, FieldNames DEF Uploading, JobLabels
  <2> QED BY <1>2, <1>5, <2>1 DEF Deadline, Reread
<1>6. CASE Stop(h) \/ Stopping(h) \/ StartFails(h) \/ ReadVoices(h)
  <2>1. CASE Stop(h) BY <1>0, <1>3, <2>1, FieldNames DEF Stop, Uploading, JobLabels
  <2>2. CASE Stopping(h) BY <1>0, <1>3, <2>2, FieldNames DEF Stopping, Uploading, JobLabels
  <2>3. CASE StartFails(h) BY <1>0, <1>1, <1>3, <2>3, FieldNames DEF StartFails, Uploading, JobLabels
  <2>4. CASE ReadVoices(h) BY <1>0, <1>3, <2>4, FieldNames DEF ReadVoices, Uploading, JobLabels
  <2> QED BY <1>6, <2>1, <2>2, <2>3, <2>4
<1>7. CASE CancelEach(h) \/ WipeReferences(h)
  <2>1. Goto(h, "wipe outputs") \/ \E i : Steps(h, [req[h] EXCEPT !.left = @ \ {i}])
    BY <1>7 DEF CancelEach, WipeReferences
  <2>2. CASE \E i : Steps(h, [req[h] EXCEPT !.left = @ \ {i}])
    <3>1. PICK i : req'[h] = [req[h] EXCEPT !.left = @ \ {i}]
      BY <2>2, SessionInvRequesting, StepsEffect
    <3> QED BY <1>0, <3>1, FieldNames DEF RequestTyped
  <2>3. CASE Goto(h, "wipe outputs") BY <2>3, GotoTyped DEF Uploading, JobLabels
  <2> QED BY <2>1, <2>2, <2>3
<1>8. CASE StartSession(h)
  <2>1. CASE Steps(h, [NoReq EXCEPT !.at = "check", !.units = req[h].units])
    <3>1. req'[h] = [NoReq EXCEPT !.at = "check", !.units = req[h].units]
      BY <2>1, SessionInvRequesting, StepsEffect
    <3> QED BY <3>1, NothingTyped DEF RequestTyped, NoReq, Uploading, JobLabels
  <2> QED BY <1>1, <1>8, <2>1 DEF StartSession
<1>9. CASE InsertJob(h)
  <2>1. CASE Fresh # {} /\ Steps(h, [NoReq EXCEPT !.at = "submit", !.id = Least(Fresh), !.voice = req[h].voice])
    <3>1. req'[h] = [NoReq EXCEPT !.at = "submit", !.id = Least(Fresh), !.voice = req[h].voice]
      BY <2>1, SessionInvRequesting, StepsEffect
    <3>2. Least(Fresh) \in Id BY <2>1, FreshIsFresh DEF Fresh
    <3> QED BY <3>1, <3>2, NothingTyped DEF RequestTyped, NoReq, Uploading
  <2> QED BY <1>1, <1>9, <2>1 DEF InsertJob
<1>10. CASE Submit(h)
  <2>1. PICK status \in {"queued", "failed"} :
          Steps(h, [NoReq EXCEPT !.at = "submitted", !.id = req[h].id, !.answer = status])
    BY <1>10 DEF Submit
  <2>2. req'[h] = [NoReq EXCEPT !.at = "submitted", !.id = req[h].id, !.answer = status]
    BY <2>1, SessionInvRequesting, StepsEffect
  <2>3. req[h].id \in Id BY <1>0, <1>10 DEF Submit, At, RequestTyped, JobLabels
  <2> QED BY <2>2, <2>3, NothingTyped DEF RequestTyped, NoReq, Uploading, JobStatus
<1>11. CASE AskWorker(h) \/ CancelCall(h) \/ RetryCall(h)
  <2>1. req[h].id \in Id
    BY <1>0, <1>11 DEF AskWorker, CancelCall, RetryCall, At, RequestTyped, JobLabels
  <2>2. CASE AskWorker(h)
    <3>1. worker[req[h].id] \in JobStatus BY <1>0, <2>1
    <3> QED BY <1>0, <1>1, <1>4, <2>1, <2>2, <3>1, FieldNames DEF AskWorker, JobLabels
  <2>3. CASE CancelCall(h)
    <3>1. ASSUME Steps(h, [req[h] EXCEPT !.at = "cancelled", !.answer = worker'[req[h].id]]),
                 Worker!Cancel(req[h].id) \/ UNCHANGED worker
          PROVE  RequestTyped(req'[h])
      <4>1. worker'[req[h].id] \in JobStatus
        BY <1>0, <2>1, <3>1 DEF Worker!Cancel, Worker!Becomes, JobStatus
      <4> QED BY <1>0, <1>4, <2>1, <3>1, <4>1, FieldNames DEF JobLabels
    <3> QED BY <1>1, <2>3, <3>1 DEF CancelCall
  <2>4. CASE RetryCall(h)
    BY <1>0, <1>1, <1>4, <2>1, <2>4, FieldNames DEF RetryCall, JobLabels, JobStatus
  <2> QED BY <1>11, <2>2, <2>3, <2>4
<1>12. CASE CloseSession(h)
  <2>1. Goto(h, "reread") \/ Goto(h, req[h].then) BY <1>12 DEF CloseSession
  <2> QED BY <1>0, <2>1, GotoTyped DEF Thens, Uploading, JobLabels
<1>13. ASSUME NEW label, Goto(h, label), label \in Uploading => req[h].at \in Uploading,
              label \in JobLabels => req[h].at \in JobLabels
       PROVE  RequestTyped(req'[h])
  BY <1>13, GotoTyped
<1>14. CASE \/ WorkerReady(h) \/ SessionReady(h) \/ SessionError(h) \/ Extend(h) \/ Admit(h)
            \/ Submitted(h) \/ ReadJob(h) \/ Download(h) \/ RemoveOutput(h) \/ SaveOutput(h) \/ ApplyPoll(h)
  BY <1>1, <1>13, <1>14 DEF WorkerReady, SessionReady, SessionError, Extend, Admit, Submitted, ReadJob,
     Download, RemoveOutput, SaveOutput, ApplyPoll, At, Uploading, JobLabels
<1>15. CASE \/ CancelJob(h) \/ ApplyCancel(h) \/ RetrySegment(h) \/ ApplyRetry(h)
            \/ SaveReference(h) \/ AddVoice(h) \/ RemoveVoice(h) \/ RemoveReference(h)
            \/ ClearOutputs(h) \/ ResetState(h)
  BY <1>1, <1>13, <1>15 DEF CancelJob, ApplyCancel, RetrySegment, ApplyRetry, SaveReference,
     AddVoice, RemoveVoice, RemoveReference, ClearOutputs, ResetState, Done, At,
     Uploading, JobLabels
<1> QED BY <1>5, <1>6, <1>7, <1>8, <1>9, <1>10, <1>11, <1>12, <1>14, <1>15 DEF Step

LEMMA LostTyped == TypeInv /\ (UNCHANGED lost \/ CallFails) => lost' \in 0 .. MaxLost
<1> SUFFICES ASSUME TypeInv, UNCHANGED lost \/ CallFails PROVE lost' \in 0 .. MaxLost OBVIOUS
<1>1. lost \in 0 .. MaxLost /\ MaxLost \in Nat BY ServerAssumption DEF TypeInv, TypeOK
<1>2. CASE UNCHANGED lost BY <1>1, <1>2
<1>3. CASE CallFails BY <1>1, <1>3 DEF CallFails
<1> QED BY <1>2, <1>3

LEMMA StepTypesSession ==
  ASSUME SessionInv, TypeInv, NEW h \in Handler, Step(h) PROVE session' \in Sessions
<1>0. /\ session \in Sessions /\ req[h].saw \in Sessions /\ Off \in Sessions
      /\ clock \in 1 .. MaxClock /\ MaxClock \in Nat /\ Longest \in Nat
      /\ Durations \subseteq 1 .. Longest
  BY NothingTyped, ServerAssumption DEF TypeInv, TypeOK, RequestTyped
<1>1. CASE UNCHANGED session BY <1>0, <1>1
<1>2. CASE Stopping(h) \/ SessionError(h)
  BY <1>0, <1>2 DEF Stopping, SessionError, Sessions
<1>3. CASE CloseSession(h)
  <2>1. session' = [session EXCEPT !.status = "off", !.expires = 0] BY <1>3 DEF CloseSession
  <2>2. session' = [status |-> "off", started |-> session.started, expires |-> 0]
    BY <1>0, <2>1 DEF Sessions
  <2>3. session.started \in 0 .. MaxClock /\ 0 \in 0 .. MaxClock + Longest BY <1>0 DEF Sessions
  <2> QED BY <2>2, <2>3 DEF Sessions
<1>4. CASE StartSession(h)
  <2>1. UNCHANGED session \/ session' = [status |-> "loading", started |-> clock, expires |-> 0]
    BY <1>4 DEF StartSession
  <2>2. clock \in 0 .. MaxClock /\ 0 \in 0 .. MaxClock + Longest BY <1>0
  <2> QED BY <1>0, <2>1, <2>2 DEF Sessions
<1>5. CASE SessionReady(h)
  <2> DEFINE u == req[h].units
  <2>1. u \in 1 .. Longest
    BY <1>0, <1>5 DEF SessionReady, At, SessionInv, RequestKept, Starting
  <2>2. session' = [status |-> "ready", started |-> clock, expires |-> clock + u]
    BY <1>5 DEF SessionReady
  <2> HIDE DEF u
  <2>3. clock \in 0 .. MaxClock /\ clock + u \in 0 .. MaxClock + Longest BY <1>0, <2>1
  <2> QED BY <2>2, <2>3 DEF Sessions
<1>6. CASE Extend(h)
  <2> DEFINE old == req[h].saw
             next == IF old.expires + 1 <= old.started + Longest
                     THEN old.expires + 1 ELSE old.started + Longest
  <2>1. UNCHANGED session \/ session' = [old EXCEPT !.expires = next]
    BY <1>6 DEF Extend
  <2>2. old \in Sessions /\ old.started \in 0 .. MaxClock /\ old.expires \in 0 .. MaxClock + Longest
    BY <1>0 DEF Sessions
  <2>3. next \in 0 .. MaxClock + Longest BY <1>0, <2>2
  <2> HIDE DEF next, old
  <2> QED BY <1>0, <2>1, <2>2, <2>3 DEF Sessions
<1>7. CASE ResetState(h) BY <1>0, <1>7 DEF ResetState
<1>8. CASE \/ Deadline(h) \/ Stop(h) \/ CancelEach(h) \/ Reread(h) \/ WorkerReady(h) \/ StartFails(h)
           \/ Admit(h) \/ InsertJob(h) \/ Submit(h) \/ Submitted(h)
           \/ ReadJob(h) \/ AskWorker(h) \/ Download(h) \/ RemoveOutput(h) \/ SaveOutput(h) \/ ApplyPoll(h)
  BY <1>1, <1>8 DEF Deadline, Stop, CancelEach, Reread, WorkerReady, StartFails, Admit, InsertJob,
     Submit, Submitted, ReadJob, AskWorker, Download, RemoveOutput, SaveOutput, ApplyPoll, StoreKept
<1>9. CASE \/ CancelJob(h) \/ CancelCall(h) \/ ApplyCancel(h)
           \/ RetrySegment(h) \/ RetryCall(h) \/ ApplyRetry(h)
           \/ SaveReference(h) \/ AddVoice(h) \/ RemoveVoice(h) \/ RemoveReference(h)
           \/ ReadVoices(h) \/ WipeReferences(h) \/ ClearOutputs(h)
  BY <1>1, <1>9 DEF CancelJob, CancelCall, ApplyCancel, RetrySegment, RetryCall, ApplyRetry,
     SaveReference, AddVoice, RemoveVoice, RemoveReference, ReadVoices, WipeReferences,
     ClearOutputs, StoreKept
<1> QED BY <1>2, <1>3, <1>4, <1>5, <1>6, <1>7, <1>8, <1>9 DEF Step

RecordsTyped ==
  job \in [Id -> JobStatus] /\ key \in [Id -> Key \cup {NoKey}] /\ audio \in [Id -> BOOLEAN]

LEMMA StepTypesRecords ==
  ASSUME SessionInv, TypeInv, NEW h \in Handler, Step(h) PROVE RecordsTyped'
<1>0. RecordsTyped /\ RequestTyped(req[h]) BY DEF TypeInv, TypeOK, RecordsTyped
<1>1. CASE UNCHANGED records BY <1>0, <1>1 DEF RecordsTyped, records
<1>2. ASSUME NEW hasAudio \in BOOLEAN, NEW new \in JobStatus, UpdateJob(req[h].id, new, hasAudio)
      PROVE  RecordsTyped'
  BY <1>0, <1>1, <1>2 DEF UpdateJob, RecordsTyped
<1>3. CASE Submitted(h) \/ ApplyPoll(h) \/ ApplyCancel(h) \/ ApplyRetry(h)
  <2>1. req[h].id \in Id /\ req[h].answer \in JobStatus
    BY <1>0, <1>3 DEF Submitted, ApplyPoll, ApplyCancel, ApplyRetry, At, RequestTyped, JobLabels
  <2>2. \E hasAudio \in BOOLEAN : UpdateJob(req[h].id, req[h].answer, hasAudio)
    BY <1>0, <1>3, <2>1 DEF Submitted, ApplyPoll, ApplyCancel, ApplyRetry, RecordsTyped
  <2> QED BY <1>2, <2>1, <2>2
<1>4. CASE CloseSession(h)
  BY <1>0, <1>4 DEF CloseSession, RecordsTyped, JobStatus
<1>5. CASE ResetState(h) BY <1>5 DEF ResetState, RecordsTyped, JobStatus
<1>6. CASE InsertJob(h)
  <2>1. \/ UNCHANGED records
        \/ /\ job' = [job EXCEPT ![Least(Fresh)] = "queued"]
           /\ key' = [key EXCEPT ![Least(Fresh)] = req[h].key]
           /\ audio' = [audio EXCEPT ![Least(Fresh)] = FALSE]
    BY <1>6 DEF InsertJob
  <2>2. req[h].key \in Key \cup {NoKey} BY <1>0 DEF RequestTyped
  <2> QED BY <1>0, <1>1, <2>1, <2>2 DEF RecordsTyped, JobStatus
<1>9. CASE \/ Deadline(h) \/ Stop(h) \/ Stopping(h) \/ CancelEach(h) \/ Reread(h)
           \/ StartSession(h) \/ WorkerReady(h) \/ SessionReady(h) \/ StartFails(h)
           \/ SessionError(h) \/ Extend(h) \/ Admit(h) \/ Submit(h) \/ ReadJob(h)
  BY <1>1, <1>9 DEF Deadline, Stop, Stopping, CancelEach, Reread, StartSession, WorkerReady,
       SessionReady, StartFails, SessionError, Extend, Admit, Submit, ReadJob, StoreKept
<1>10. CASE \/ AskWorker(h) \/ Download(h) \/ RemoveOutput(h) \/ SaveOutput(h) \/ CancelJob(h) \/ CancelCall(h)
           \/ RetrySegment(h) \/ RetryCall(h) \/ SaveReference(h) \/ AddVoice(h)
           \/ RemoveVoice(h) \/ RemoveReference(h) \/ ReadVoices(h) \/ WipeReferences(h)
           \/ ClearOutputs(h)
  BY <1>1, <1>10 DEF AskWorker, Download, RemoveOutput, SaveOutput, CancelJob, CancelCall, RetrySegment, RetryCall,
     SaveReference, AddVoice, RemoveVoice, RemoveReference, ReadVoices, WipeReferences,
     ClearOutputs, StoreKept
<1> QED BY <1>3, <1>4, <1>5, <1>6, <1>9, <1>10 DEF Step

RemoteTyped == worker \in [Id -> JobStatus] /\ takes \in [Id -> 0 .. MaxTakes]

LEMMA StepTypesRemote ==
  ASSUME SessionInv, TypeInv, NEW h \in Handler, Step(h) PROVE RemoteTyped' /\ lost' \in 0 .. MaxLost
<1>0. RemoteTyped /\ MaxTakes \in Nat \ {0} BY ServerAssumption DEF TypeInv, TypeOK, RemoteTyped
<1>1. CASE UNCHANGED remote /\ (UNCHANGED lost \/ CallFails)
  BY <1>0, <1>1, LostTyped DEF RemoteTyped, remote
<1>2. CASE CancelEach(h) \/ CancelCall(h)
  <2>1. /\ UNCHANGED takes /\ (UNCHANGED lost \/ CallFails)
        /\ UNCHANGED worker \/ \E i : Worker!Cancel(i)
    BY <1>2 DEF CancelEach, CancelCall
  <2>2. worker' \in [Id -> JobStatus]
    BY <1>0, <2>1 DEF RemoteTyped, Worker!Cancel, Worker!Becomes, JobStatus
  <2> QED BY <1>0, <2>1, <2>2, LostTyped DEF RemoteTyped
<1>3. CASE Submit(h)
  <2>1. /\ UNCHANGED lost \/ CallFails
        /\ UNCHANGED remote \/ (Worker!Submit(req[h].id) /\ takes' = [takes EXCEPT ![req[h].id] = 1])
    BY <1>3 DEF Submit
  <2>2. 1 \in 0 .. MaxTakes BY <1>0
  <2> QED BY <1>0, <1>1, <2>1, <2>2, LostTyped
        DEF RemoteTyped, Worker!Submit, Worker!Becomes, JobStatus
<1>4. CASE RetryCall(h)
  <2>1. /\ UNCHANGED lost \/ CallFails
        /\ \/ UNCHANGED remote
           \/ /\ Worker!Retry(req[h].id) /\ takes[req[h].id] < MaxTakes
              /\ takes' = [takes EXCEPT ![req[h].id] = @ + 1]
    BY <1>4 DEF RetryCall
  <2>2. takes[req[h].id] < MaxTakes /\ req[h].id \in Id => takes[req[h].id] + 1 \in 0 .. MaxTakes
    <3>1. req[h].id \in Id => takes[req[h].id] \in 0 .. MaxTakes BY <1>0 DEF RemoteTyped
    <3> QED BY <1>0, <3>1
  <2> QED BY <1>0, <1>1, <2>1, <2>2, LostTyped
        DEF RemoteTyped, Worker!Retry, Worker!Becomes, JobStatus
<1>5. CASE \/ Deadline(h) \/ Stop(h) \/ Stopping(h) \/ CloseSession(h) \/ Reread(h)
           \/ StartSession(h) \/ WorkerReady(h) \/ SessionReady(h) \/ StartFails(h) \/ SessionError(h)
           \/ Extend(h) \/ Admit(h) \/ InsertJob(h) \/ Submitted(h)
           \/ ReadJob(h) \/ AskWorker(h) \/ Download(h) \/ RemoveOutput(h) \/ SaveOutput(h) \/ ApplyPoll(h)
  BY <1>1, <1>5 DEF Deadline, Stop, Stopping, CloseSession, Reread, StartSession, WorkerReady,
     SessionReady, StartFails, SessionError, Extend, Admit, InsertJob, Submitted, ReadJob, AskWorker,
     Download, RemoveOutput, SaveOutput, ApplyPoll
<1>6. CASE \/ CancelJob(h) \/ ApplyCancel(h) \/ RetrySegment(h) \/ ApplyRetry(h)
           \/ SaveReference(h) \/ AddVoice(h) \/ RemoveVoice(h) \/ RemoveReference(h)
           \/ ReadVoices(h) \/ WipeReferences(h) \/ ClearOutputs(h) \/ ResetState(h)
  BY <1>1, <1>6 DEF CancelJob, ApplyCancel, RetrySegment, ApplyRetry, SaveReference, AddVoice,
     RemoveVoice, RemoveReference, ReadVoices, WipeReferences, ClearOutputs, ResetState
<1> QED BY <1>2, <1>3, <1>4, <1>5, <1>6 DEF Step

DiskTyped ==
  voices \subseteq Voice /\ references \subseteq Voice /\ outputs \subseteq Id /\ temps \subseteq Handler

LEMMA StepTypesDisk ==
  ASSUME SessionInv, TypeInv, NEW h \in Handler, Step(h) PROVE DiskTyped' /\ Clocks
<1>0. DiskTyped /\ RequestTyped(req[h]) BY DEF TypeInv, TypeOK, DiskTyped
<1>1. CASE UNCHANGED <<voices, disk>> /\ Clocks BY <1>0, <1>1 DEF DiskTyped, disk
<1>2. CASE RemoveOutput(h) \/ SaveOutput(h) \/ ClearOutputs(h)
  <2>1. UNCHANGED <<voices, references>> /\ Clocks
        /\ (outputs' \subseteq outputs \/ (outputs' = outputs \cup {req[h].id} /\ At(h, "save")))
        /\ temps' \subseteq temps \cup {h}
    <3>1. UNCHANGED <<voices, references>> /\ Clocks
      BY <1>2 DEF RemoveOutput, SaveOutput, ClearOutputs, StoreKept, Bounds
    <3>2. /\ outputs' \subseteq outputs \/ (outputs' = outputs \cup {req[h].id} /\ At(h, "save"))
          /\ temps' \subseteq temps \cup {h}
      BY <1>2 DEF RemoveOutput, SaveOutput, ClearOutputs
    <3> QED BY <3>1, <3>2
  <2> QED BY <1>0, <2>1 DEF DiskTyped, RequestTyped, JobLabels, At
<1>3. CASE SaveReference(h) \/ RemoveReference(h) \/ WipeReferences(h)
  <2>1. UNCHANGED <<voices, outputs, temps>> /\ Clocks
        /\ (references' \subseteq references \/ (references' = references \cup {req[h].voice} /\ At(h, "upload")))
    <3>1. UNCHANGED <<voices, outputs, temps>> /\ Clocks
      BY <1>3 DEF SaveReference, RemoveReference, WipeReferences, StoreKept, Bounds
    <3>2. references' \subseteq references \/ (references' = references \cup {req[h].voice} /\ At(h, "upload"))
      BY <1>3 DEF SaveReference, RemoveReference, WipeReferences
    <3> QED BY <3>1, <3>2
  <2> QED BY <1>0, <2>1 DEF DiskTyped, RequestTyped, Uploading, At
<1>4. CASE AddVoice(h) \/ RemoveVoice(h) \/ ResetState(h)
  <2>1. UNCHANGED <<references, outputs, temps>> /\ Clocks
        /\ (voices' \subseteq voices \/ (voices' = voices \cup {req[h].voice} /\ At(h, "add voice")))
    <3>1. UNCHANGED <<references, outputs, temps>> /\ Clocks
      BY <1>4 DEF AddVoice, RemoveVoice, ResetState, disk, Bounds
    <3>2. voices' \subseteq voices \/ (voices' = voices \cup {req[h].voice} /\ At(h, "add voice"))
      BY <1>4 DEF AddVoice, RemoveVoice, ResetState
    <3> QED BY <3>1, <3>2
  <2> QED BY <1>0, <2>1 DEF DiskTyped, RequestTyped, Uploading, At
<1>5. CASE \/ Deadline(h) \/ Stop(h) \/ Stopping(h) \/ CancelEach(h) \/ CloseSession(h) \/ Reread(h)
           \/ StartSession(h) \/ WorkerReady(h) \/ SessionReady(h) \/ StartFails(h) \/ SessionError(h)
           \/ Extend(h) \/ Admit(h) \/ InsertJob(h) \/ Submit(h) \/ Submitted(h)
           \/ ReadJob(h) \/ AskWorker(h) \/ Download(h) \/ ApplyPoll(h)
  BY <1>1, <1>5 DEF Deadline, Stop, Stopping, CancelEach, CloseSession, Reread, StartSession,
     WorkerReady, SessionReady, StartFails, SessionError, Extend, Admit, InsertJob, Submit, Submitted,
     ReadJob, AskWorker, Download, ApplyPoll, StoreKept, Bounds
<1>6. CASE \/ CancelJob(h) \/ CancelCall(h) \/ ApplyCancel(h)
           \/ RetrySegment(h) \/ RetryCall(h) \/ ApplyRetry(h) \/ ReadVoices(h)
  BY <1>1, <1>6 DEF CancelJob, CancelCall, ApplyCancel, RetrySegment, RetryCall, ApplyRetry,
     ReadVoices, StoreKept, Bounds
<1> QED BY <1>2, <1>3, <1>4, <1>5, <1>6 DEF Step

LEMMA StepTypesPage ==
  ASSUME TypeInv, NEW h \in Handler, Step(h) PROVE page' \in BOOLEAN
<1>0. page \in BOOLEAN BY DEF TypeInv, TypeOK
<1>1. CASE UNCHANGED page BY <1>0, <1>1
<1>2. ASSUME NEW alive \in BOOLEAN, Shows(alive) PROVE page' \in BOOLEAN BY <1>0, <1>2 DEF Shows
<1>3. ASSUME Continue(h) PROVE page' \in BOOLEAN BY <1>1, <1>2, <1>3 DEF Continue
<1>4. CASE Deadline(h) \/ Reread(h) BY <1>1, <1>3, <1>4 DEF Deadline, Reread
<1>5. CASE \/ CloseSession(h) \/ Extend(h) \/ Submitted(h) \/ ApplyRetry(h) \/ ResetState(h)
  BY <1>1, <1>2, <1>5 DEF CloseSession, Extend, Submitted, ApplyRetry, ResetState
<1>6. CASE \/ Stop(h) \/ Stopping(h) \/ CancelEach(h) \/ StartSession(h) \/ WorkerReady(h)
           \/ SessionReady(h) \/ StartFails(h) \/ SessionError(h) \/ Admit(h) \/ InsertJob(h)
           \/ Submit(h) \/ ReadJob(h) \/ AskWorker(h) \/ Download(h) \/ RemoveOutput(h)
           \/ SaveOutput(h) \/ ApplyPoll(h)
  BY <1>1, <1>6 DEF Stop, Stopping, CancelEach, StartSession, WorkerReady, SessionReady, StartFails,
     SessionError, Admit, InsertJob, Submit, ReadJob, AskWorker, Download, RemoveOutput, SaveOutput,
     ApplyPoll, Bounds
<1>7. CASE \/ CancelJob(h) \/ CancelCall(h) \/ ApplyCancel(h) \/ RetrySegment(h) \/ RetryCall(h)
           \/ SaveReference(h) \/ AddVoice(h) \/ RemoveVoice(h) \/ RemoveReference(h)
           \/ ReadVoices(h) \/ WipeReferences(h) \/ ClearOutputs(h)
  BY <1>1, <1>7 DEF CancelJob, CancelCall, ApplyCancel, RetrySegment, RetryCall, SaveReference,
     AddVoice, RemoveVoice, RemoveReference, ReadVoices, WipeReferences, ClearOutputs, Bounds
<1> QED BY <1>4, <1>5, <1>6, <1>7 DEF Step

LEMMA StepKeepsTypes ==
  ASSUME SessionInv, TypeInv, NEW h \in Handler, Step(h) PROVE TypeInv'
<1>1. \A g \in Handler : RequestTyped(req'[g])
  BY StepTypesRequest, SessionInvRequesting, OthersKeepReq DEF TypeInv
<1>2. Clocks /\ DiskTyped' /\ page' \in BOOLEAN BY StepTypesDisk, StepTypesPage
<1>3. RecordsTyped' BY StepTypesRecords
<1>4. RemoteTyped' /\ lost' \in 0 .. MaxLost BY StepTypesRemote
<1>5. session' \in Sessions BY StepTypesSession
<1>6. TypeOK'
  BY <1>1, <1>2, <1>3, <1>4, <1>5
     DEF TypeInv, TypeOK, Clocks, DiskTyped, RecordsTyped, RemoteTyped, RequestTyped
<1> QED BY <1>1, <1>6 DEF TypeInv, RequestTyped

LEMMA ArrivalKeepsTypes ==
  ASSUME SessionInv, TypeInv, NEW h \in Handler,
         Ask(h) \/ PollSession(h) \/ \E i \in Id : PollJob(h, i)
  PROVE  TypeInv'
<1>1. ASSUME NEW kind, NEW r, Arrive(h, kind, r), RequestTyped(r), issued' \in 0 .. MaxRequests,
             page' \in BOOLEAN
      PROVE  TypeInv'
  <2>1. req'[h] = r /\ \A g \in Handler : g # h => req'[g] = req[g]
    BY <1>1, SessionInvRequesting, StepsEffect DEF Arrive
  <2>2. \A g \in Handler : RequestTyped(req'[g]) BY <1>1, <2>1 DEF TypeInv
  <2>3. TypeOK'
    BY <1>1, <2>2 DEF TypeInv, TypeOK, Arrive, StoreKept, records, disk, remote, RequestTyped
  <2> QED BY <2>2, <2>3 DEF TypeInv, RequestTyped
<1>2. issued \in 0 .. MaxRequests /\ page \in BOOLEAN BY DEF TypeInv, TypeOK
<1>3. CASE PollSession(h)
  BY <1>1, <1>2, <1>3, NothingTyped DEF PollSession, RequestTyped, NoReq, Uploading, JobLabels
<1>4. CASE \E i \in Id : PollJob(h, i)
  BY <1>1, <1>2, <1>4, NothingTyped DEF PollJob, RequestTyped, NoReq, Uploading, JobLabels
<1>5. CASE Ask(h)
  <2> USE NothingTyped DEF RequestTyped, NoReq, Uploading, JobLabels
  <2>0. issued' \in 0 .. MaxRequests /\ page' \in BOOLEAN
    <3>1. Counted /\ (UNCHANGED page \/ Shows(TRUE)) BY <1>5 DEF Ask
    <3>2. issued' \in 0 .. MaxRequests BY <1>2, <3>1, ServerAssumption DEF Counted
    <3> QED BY <1>2, <3>1, <3>2 DEF Shows
  <2>1. ASSUME NEW k \in Key, NEW v \in Voice \cup {NoVoice},
               Arrive(h, "post", [NoReq EXCEPT !.at = "deadline", !.then = "admit", !.key = k, !.voice = v])
        PROVE TypeInv'
    BY <1>1, <2>0, <2>1
  <2>2. ASSUME NEW i \in Id, \/ Arrive(h, "cancel", [NoReq EXCEPT !.at = "cancel", !.id = i])
                             \/ Arrive(h, "retry", [NoReq EXCEPT !.at = "retry", !.id = i])
        PROVE TypeInv'
    BY <1>1, <2>0, <2>2
  <2>3. ASSUME NEW d \in Durations,
               Arrive(h, "start", [NoReq EXCEPT !.at = "deadline", !.then = "start", !.units = d])
        PROVE TypeInv'
    BY <1>1, <2>0, <2>3
  <2>4. ASSUME \/ Arrive(h, "extend", [NoReq EXCEPT !.at = "deadline", !.then = "extend"])
               \/ Arrive(h, "stop", [NoReq EXCEPT !.at = "stop"])
               \/ Arrive(h, "start", [NoReq EXCEPT !.at = "unready"])
               \/ Arrive(h, "reset", [NoReq EXCEPT !.at = "stop", !.then = "wipe"])
        PROVE TypeInv'
    BY <1>1, <2>0, <2>4
  <2>5. ASSUME NEW v \in Voice, \/ Arrive(h, "upload", [NoReq EXCEPT !.at = "upload", !.voice = v])
                                \/ Arrive(h, "remove", [NoReq EXCEPT !.at = "remove", !.voice = v])
        PROVE TypeInv'
    BY <1>1, <2>0, <2>5
  <2>6. voices \subseteq Voice BY DEF TypeInv, TypeOK
  <2> QED BY <1>5, <2>1, <2>2, <2>3, <2>4, <2>5, <2>6 DEF Ask
<1> QED BY <1>3, <1>4, <1>5

LEMMA RunKeepsTypes == ASSUME TypeInv, NEW i \in Id, WorkerRuns(i) PROVE TypeInv'
<1>1. UNCHANGED <<session, job, key, audio, voices, references, outputs, temps, page, req, takes, clock, issued, lost, crash>>
  BY DEF WorkerRuns, records, disk
<1>2. worker' \in [Id -> JobStatus]
  BY DEF TypeInv, TypeOK, WorkerRuns, Worker!Begin, Worker!Succeed, Worker!Fail, Worker!Becomes, JobStatus
<1>3. TypeOK' BY <1>1, <1>2 DEF TypeInv, TypeOK
<1> QED BY <1>1, <1>3 DEF TypeInv, RequestTyped

LEMMA CrashKeepsTypes == ASSUME TypeInv, Crash PROVE TypeInv'
<1>1. /\ UNCHANGED <<session, job, key, audio, voices, references, outputs, page, worker, takes, clock, issued>>
      /\ CallFails /\ req' = [h \in Handler |-> NoReq] /\ temps' = {}
      /\ crash' \in {"elsewhere", "in a save", "in a reset"}
  BY DEF Crash, StoreKept, records, disk, remote, CallFails
<1>2. \A h \in Handler : RequestTyped(req'[h]) BY <1>1, NothingTyped
<1>3. TypeOK' BY <1>1, <1>2, LostTyped DEF TypeInv, TypeOK, RequestTyped
<1> QED BY <1>2, <1>3 DEF TypeInv, RequestTyped

LEMMA InitTypes == Init => TypeInv
<1> SUFFICES ASSUME Init PROVE TypeInv OBVIOUS
<1>1. MaxClock \in Nat \ {0} /\ Longest \in Nat /\ Durations \subseteq 1 .. Longest
      /\ MaxTakes \in Nat /\ MaxRequests \in Nat /\ MaxLost \in Nat
  BY ServerAssumption
<1>2. ASSUME NEW d \in Durations PROVE [status |-> "ready", started |-> 1, expires |-> 1 + d] \in Sessions
  <2>1. 1 \in 0 .. MaxClock /\ 1 + d \in 0 .. MaxClock + Longest BY <1>1
  <2> QED BY <2>1 DEF Sessions
<1>3. session \in Sessions BY <1>2, NothingTyped DEF Init
<1>4. \A h \in Handler : RequestTyped(req[h]) BY NothingTyped DEF Init
<1>5. TypeOK BY <1>1, <1>3, <1>4 DEF Init, TypeOK, JobStatus, RequestTyped
<1> QED BY <1>4, <1>5 DEF TypeInv

\* The store, the files and what every handler holds keep their types (the
\* shape PersistedAppState has in server/store.ts), whatever the handlers write
\* back of what they read before, for any number of requests, jobs and failures.
THEOREM ServerTypes == Spec => []TypeOK
<1>1. SessionInv /\ TypeInv /\ [Next]_vars => TypeInv'
  <2> SUFFICES ASSUME SessionInv, TypeInv, [Next]_vars PROVE TypeInv' OBVIOUS
  <2>1. CASE \E h \in Handler : Step(h) BY <2>1, StepKeepsTypes
  <2>2. CASE \E h \in Handler : Ask(h) \/ PollSession(h) \/ \E i \in Id : PollJob(h, i)
    BY <2>2, ArrivalKeepsTypes
  <2>3. CASE \E i \in Id : WorkerRuns(i) BY <2>3, RunKeepsTypes
  <2>4. CASE Crash BY <2>4, CrashKeepsTypes
  <2>5. CASE Tick \/ UNCHANGED vars
    <3>1. UNCHANGED <<session, job, key, audio, voices, references, outputs, temps, page, req, worker, takes, issued, lost, crash>>
      BY <2>5 DEF Tick, vars, records, disk, remote
    <3>2. clock' \in 1 .. MaxClock
      <4>1. clock \in 1 .. MaxClock /\ MaxClock \in Nat BY ServerAssumption DEF TypeInv, TypeOK
      <4>2. CASE Tick BY <4>1, <4>2 DEF Tick
      <4>3. CASE UNCHANGED vars BY <4>1, <4>3 DEF vars
      <4> QED BY <2>5, <4>2, <4>3
    <3>3. TypeOK' BY <3>1, <3>2 DEF TypeInv, TypeOK
    <3> QED BY <3>1, <3>3 DEF TypeInv, RequestTyped
  <2> QED BY <2>1, <2>2, <2>3, <2>4, <2>5 DEF Next
<1>2. TypeInv => TypeOK BY DEF TypeInv
<1> QED BY <1>1, <1>2, InitTypes, SessionInvariant, PTL DEF Spec
==============================================================================
