---------------------------- MODULE StudioServer -----------------------------
(* The application server: the request handlers of app/api/v1 for sessions,   *)
(* jobs, voices and the data reset (with server/services.ts), over the store  *)
(* of server/store.ts.  A handler runs from one await to the next: each of    *)
(* its reads of the store, transactions, file operations and worker calls is  *)
(* a step, and other handlers run in between with what they read earlier.     *)
(* The worker on the other side of the calls is its contract, JobContract,    *)
(* which WorkerJobs implements.                                               *)
EXTENDS Integers, FiniteSets

CONSTANTS Handler,      \* requests in flight at once
          Key,          \* idempotency keys
          Voice,        \* reference voices
          Id,           \* job identifiers, numbered in the order they are drawn
          Requests,     \* the kinds of request that arrive
          Durations,    \* durations a session may be started with, in half hours
          Longest,      \* four hours, in half hours
          MaxClock,     \* bound on the time explored
          MaxRequests,  \* bound on the requests other than polls
          MaxLost,      \* bound on the worker calls that fail or lose their answer, and
                        \* on crashes
          MaxTakes      \* bound on the worker's runs of one job

ASSUME ServerAssumption ==
  /\ Id \subseteq Nat
  /\ Durations \subseteq 1 .. Longest
  /\ Longest \in Nat /\ MaxClock \in Nat \ {0}
  /\ MaxRequests \in Nat /\ MaxLost \in Nat /\ MaxTakes \in Nat \ {0}

VARIABLES session,   \* state.session
          job, key, audio,  \* per job record: status, idempotencyKey, outputFile # null
          voices,    \* state.voices
          references, outputs,  \* the files of the two directories
          temps,     \* the handlers whose saveOutput has its temporary file in place
          page,      \* whether the open page polls: it shows a session or an active job
          req,       \* what each handler in flight is about to do, and has read
          worker, takes,    \* the worker's job statuses, and its runs of each job
          clock, issued, lost,
          crash      \* whether the process has crashed, and in which file operation

records == <<job, key, audio>>
disk == <<references, outputs, temps>>
remote == <<worker, takes>>
vars == <<session, records, voices, disk, page, req, remote, clock, issued, lost, crash>>

Worker == INSTANCE JobContract WITH status <- worker, Job <- Id,
            Retryable <- {"succeeded", "failed"}, Retried <- "queued", Resettable <- FALSE

NoKey == "no key"
NoVoice == "no voice"
Off == [status |-> "off", started |-> 0, expires |-> 0]
NoReq == [at |-> "idle", then |-> "idle", id |-> 0, key |-> NoKey, voice |-> NoVoice,
          units |-> 0, saw |-> Off, act |-> {}, left |-> {}, answer |-> "none"]

Active(i) == job[i] \in {"queued", "running"}
ActiveIds == {i \in Id : Active(i)}
Fresh == {i \in Id : worker[i] = "none" /\ job[i] = "none" /\ \A h \in Handler : req[h].id # i}
Least(S) == CHOOSE i \in S : \A x \in S : i <= x

\* Either a new store, or one whose session has just become ready and whose
\* library may hold voices.
Init ==
  /\ session \in {Off} \cup {[status |-> "ready", started |-> 1, expires |-> 1 + d] : d \in Durations}
  /\ job = [i \in Id |-> "none"]
  /\ key = [i \in Id |-> NoKey]
  /\ audio = [i \in Id |-> FALSE]
  /\ voices \in (IF session = Off THEN {{}} ELSE SUBSET Voice)
  /\ references = voices /\ outputs = {} /\ temps = {}
  /\ page = (session.status # "off")
  /\ req = [h \in Handler |-> NoReq]
  /\ worker = [i \in Id |-> "none"]
  /\ takes = [i \in Id |-> 0]
  /\ clock = 1 /\ issued = 0 /\ lost = 0 /\ crash = "none"

------------------------------------------------------------------------------
(* How a handler goes on.                                                     *)

Steps(h, r) == req' = [req EXCEPT ![h] = r]
\* The page takes up an answer, which shows something alive or nothing; or the
\* answer is lost or overtaken, or another client's.
Shows(alive) == page' \in {page, alive}
\* After the deadline check, which a poll of the session ends with; only start and
\* extend use the session it returns.
Continue(h) ==
  LET then == req[h].then
  IN IF then = "idle"
     THEN Steps(h, NoReq) /\ Shows(session.status # "off" \/ ActiveIds # {})
     ELSE /\ Steps(h, [req[h] EXCEPT !.at = then, !.act = {},
                                     !.saw = IF then \in {"start", "extend"} THEN session ELSE Off])
          /\ UNCHANGED page
At(h, label) == req[h].at = label
Goto(h, label) == Steps(h, IF label = "idle" THEN NoReq ELSE [req[h] EXCEPT !.at = label])
Done(h) == Goto(h, "idle")
StoreKept == UNCHANGED <<session, records, voices>>
Clocks == UNCHANGED <<clock, issued, crash>>
Bounds == Clocks /\ UNCHANGED page

\* AppStore.updateJob merges a patch whatever the job has become since, and
\* does nothing when the job is gone.
UpdateJob(i, status, hasAudio) ==
  IF job[i] = "none"
  THEN UNCHANGED records
  ELSE /\ job' = [job EXCEPT ![i] = status]
       /\ audio' = [audio EXCEPT ![i] = hasAudio]
       /\ UNCHANGED key

\* The worker call did not go through, or its answer was lost (workerFetch).
CallFails == lost < MaxLost /\ lost' = lost + 1

------------------------------------------------------------------------------
(* Requests.                                                                  *)

Counted == issued < MaxRequests /\ issued' = issued + 1

Arrive(h, kind, r) ==
  /\ kind \in Requests
  /\ At(h, "idle")
  /\ Steps(h, r)
  /\ StoreKept /\ UNCHANGED <<disk, remote, clock, lost, crash>>

\* An open page polls the session and the jobs shown as active, one request at a
\* time (api-service.ts keeps a single pollPromise); one page is modelled, which
\* may also be reloaded at any time.
Polls(h) == \/ req[h].at \in {"poll", "ask", "download", "replace", "save", "apply"}
            \/ req[h].at \in {"deadline", "expire", "reread"} /\ req[h].then \in {"poll", "idle"}
NoPoll == \A h \in Handler : ~ Polls(h)

PollJob(h, i) ==
  /\ Active(i) /\ NoPoll
  /\ Arrive(h, "poll", [NoReq EXCEPT !.at = "deadline", !.then = "poll", !.id = i])
  /\ UNCHANGED <<issued, page>>
PollSession(h) ==
  /\ NoPoll
  /\ Arrive(h, "look", [NoReq EXCEPT !.at = "deadline"])
  /\ UNCHANGED <<issued, page>>

\* A voice and its file are named by random UUIDs: they are nowhere yet.
FreshVoice(v) ==
  /\ v \notin voices \cup references
  /\ \A g \in Handler : req[g].voice # v /\ v \notin req[g].left

\* The page shows a session loading or stopping once it has asked for that.  A
\* start may be refused before it does anything, and goes to its error handler.
Ask(h) ==
  /\ Counted
  /\ \/ /\ UNCHANGED page
        /\ \/ \E k \in Key, v \in Voice \cup {NoVoice} :
                Arrive(h, "post", [NoReq EXCEPT !.at = "deadline", !.then = "admit", !.key = k, !.voice = v])
           \/ \E i \in Id : job[i] # "none" /\
                \/ Arrive(h, "cancel", [NoReq EXCEPT !.at = "cancel", !.id = i])
                \/ Arrive(h, "retry", [NoReq EXCEPT !.at = "retry", !.id = i])
           \/ Arrive(h, "extend", [NoReq EXCEPT !.at = "deadline", !.then = "extend"])
           \/ Arrive(h, "reset", [NoReq EXCEPT !.at = "stop", !.then = "wipe"])
           \/ \E v \in Voice :
                /\ FreshVoice(v)
                /\ Arrive(h, "upload", [NoReq EXCEPT !.at = "upload", !.voice = v])
           \/ \E v \in voices : Arrive(h, "remove", [NoReq EXCEPT !.at = "remove", !.voice = v])
     \/ /\ Shows(TRUE)
        /\ \/ \E d \in Durations :
                Arrive(h, "start", [NoReq EXCEPT !.at = "deadline", !.then = "start", !.units = d])
           \/ Arrive(h, "start", [NoReq EXCEPT !.at = "unready"])
           \/ Arrive(h, "stop", [NoReq EXCEPT !.at = "stop"])

------------------------------------------------------------------------------
(* enforceSessionDeadline, at the head of most handlers, and stopSession.     *)

\* Mutant of Deadline: the deadline waits for the job that is active.
DeadlineIfIdle(h) ==
  /\ At(h, "deadline")
  /\ IF /\ session.status \in {"loading", "ready"} /\ session.expires > 0
        /\ clock >= session.expires /\ ActiveIds = {}
     THEN /\ Steps(h, [req[h] EXCEPT !.at = "expire", !.act = ActiveIds, !.left = ActiveIds])
          /\ UNCHANGED page
     ELSE Continue(h)
  /\ StoreKept /\ Clocks /\ UNCHANGED <<disk, remote, lost>>

Deadline(h) ==
  /\ At(h, "deadline")
  /\ IF session.status \in {"loading", "ready"} /\ session.expires > 0 /\ clock >= session.expires
     THEN /\ Steps(h, [req[h] EXCEPT !.at = "expire", !.act = ActiveIds, !.left = ActiveIds])
          /\ UNCHANGED page
     ELSE Continue(h)
  /\ StoreKept /\ Clocks /\ UNCHANGED <<disk, remote, lost>>

\* stopSession reads, then marks the session it read as stopping.
Stop(h) ==
  /\ At(h, "stop")
  /\ Steps(h, [req[h] EXCEPT !.at = "stopping", !.act = ActiveIds, !.left = ActiveIds, !.saw = session])
  /\ StoreKept /\ Bounds /\ UNCHANGED <<disk, remote, lost>>

Stopping(h) ==
  /\ At(h, "stopping")
  /\ session' = [req[h].saw EXCEPT !.status = "stopping"]
  /\ Steps(h, [req[h] EXCEPT !.at = "stopped", !.saw = Off])
  /\ Bounds /\ UNCHANGED <<records, voices, disk, remote, lost>>

\* The cancellations sent by both, in any order; their failures are ignored.
CancelEach(h) ==
  /\ req[h].at \in {"expire", "stopped"}
  /\ \E i \in req[h].left :
       /\ Steps(h, [req[h] EXCEPT !.left = @ \ {i}])
       /\ \/ Worker!Cancel(i) /\ UNCHANGED lost
          \/ ~ Worker!Active(i) /\ UNCHANGED <<worker, lost>>
          \/ CallFails /\ UNCHANGED worker
  /\ StoreKept /\ Bounds /\ UNCHANGED <<disk, takes>>

\* Mutants of CloseSession: a Pod's status is used for the session's; the session
\* is left stopping.
CloseAsStopped(h) ==
  /\ req[h].at \in {"expire", "stopped"} /\ req[h].left = {}
  /\ job' = [i \in Id |-> IF i \in req[h].act /\ job[i] # "none" THEN "cancelled" ELSE job[i]]
  /\ session' = [session EXCEPT !.status = "stopped", !.expires = 0]
  /\ Goto(h, IF At(h, "expire") THEN "reread" ELSE req[h].then)
  /\ IF At(h, "stopped") /\ req[h].then = "idle" THEN Shows(FALSE) ELSE UNCHANGED page
  /\ Clocks /\ UNCHANGED <<key, audio, voices, disk, remote, lost>>
CloseJobsOnly(h) ==
  /\ req[h].at \in {"expire", "stopped"} /\ req[h].left = {}
  /\ job' = [i \in Id |-> IF i \in req[h].act /\ job[i] # "none" THEN "cancelled" ELSE job[i]]
  /\ session' = [session EXCEPT !.expires = 0]
  /\ Goto(h, IF At(h, "expire") THEN "reread" ELSE req[h].then)
  /\ IF At(h, "stopped") /\ req[h].then = "idle" THEN Shows(FALSE) ELSE UNCHANGED page
  /\ Clocks /\ UNCHANGED <<key, audio, voices, disk, remote, lost>>

\* The final transaction of both: what was active when they began is marked
\* cancelled, whatever it is now.
CloseSession(h) ==
  /\ req[h].at \in {"expire", "stopped"} /\ req[h].left = {}
  /\ job' = [i \in Id |-> IF i \in req[h].act /\ job[i] # "none" THEN "cancelled" ELSE job[i]]
  /\ session' = [session EXCEPT !.status = "off", !.expires = 0]
  /\ Goto(h, IF At(h, "expire") THEN "reread" ELSE req[h].then)
  /\ IF At(h, "stopped") /\ req[h].then = "idle" THEN Shows(FALSE) ELSE UNCHANGED page
  /\ Clocks /\ UNCHANGED <<key, audio, voices, disk, remote, lost>>

Reread(h) ==
  /\ At(h, "reread")
  /\ Continue(h)
  /\ StoreKept /\ Clocks /\ UNCHANGED <<disk, remote, lost>>

------------------------------------------------------------------------------
(* Sessions.                                                                  *)

StartSession(h) ==
  /\ At(h, "start")
  /\ IF req[h].saw.status \in {"loading", "ready"}
     THEN Done(h) /\ UNCHANGED session
     ELSE /\ session' = [status |-> "loading", started |-> clock, expires |-> 0]
          /\ Steps(h, [NoReq EXCEPT !.at = "check", !.units = req[h].units])
  /\ Bounds /\ UNCHANGED <<records, voices, disk, remote, lost>>

\* workerReady, then the session becomes ready; or the call fails.
WorkerReady(h) ==
  /\ At(h, "check")
  /\ \/ Goto(h, "ready") /\ UNCHANGED lost
     \/ Goto(h, "unready") /\ CallFails
  /\ StoreKept /\ Bounds /\ UNCHANGED <<disk, remote>>

SessionReady(h) ==
  /\ At(h, "ready")
  /\ session' = [status |-> "ready", started |-> clock, expires |-> clock + req[h].units]
  /\ Done(h)
  /\ Bounds /\ UNCHANGED <<records, voices, disk, remote, lost>>

\* The error handler of the start route, which any failure of it comes to: it
\* looks whether a session is loading, whoever started it.
StartFails(h) ==
  /\ At(h, "unready")
  /\ IF session.status = "loading"
     THEN Steps(h, [req[h] EXCEPT !.at = "error", !.saw = session])
     ELSE Done(h)
  /\ StoreKept /\ Bounds /\ UNCHANGED <<disk, remote, lost>>

SessionError(h) ==
  /\ At(h, "error")
  /\ session' = [req[h].saw EXCEPT !.status = "error"]
  /\ Done(h)
  /\ Bounds /\ UNCHANGED <<records, voices, disk, remote, lost>>

\* Mutant of Extend: the four hours are not looked at.
ExtendFreely(h) ==
  LET old == req[h].saw
  IN /\ At(h, "extend")
     /\ IF old.status = "ready"
        THEN session' = [old EXCEPT !.expires = @ + 1]
        ELSE UNCHANGED session
     /\ Done(h) /\ Shows(TRUE)
     /\ Clocks /\ UNCHANGED <<records, voices, disk, remote, lost>>

\* The extension writes back the session it read, with a later deadline.
Extend(h) ==
  LET old == req[h].saw
      next == IF old.expires + 1 <= old.started + Longest
              THEN old.expires + 1 ELSE old.started + Longest
  IN /\ At(h, "extend")
     /\ IF old.status = "ready" /\ next > old.expires
        THEN session' = [old EXCEPT !.expires = next]
        ELSE UNCHANGED session
     /\ Done(h) /\ Shows(TRUE)
     /\ Clocks /\ UNCHANGED <<records, voices, disk, remote, lost>>

------------------------------------------------------------------------------
(* Jobs.                                                                      *)

KeyUsed(k) == \E i \in Id : job[i] # "none" /\ key[i] = k

\* The first look for the key, and assertJobAdmission, which may refuse.
Admit(h) ==
  /\ At(h, "admit")
  /\ \/ Done(h)
     \/ ~ KeyUsed(req[h].key) /\ Goto(h, "insert")
  /\ StoreKept /\ Bounds /\ UNCHANGED <<disk, remote, lost>>

\* Mutant of InsertJob: the transaction does not look for the key again.
InsertUnseen(h) ==
  /\ At(h, "insert")
  /\ IF /\ session.status = "ready"
        /\ ActiveIds = {}
        /\ req[h].voice \in voices \cup {NoVoice}
     THEN /\ Fresh # {}
          /\ LET i == Least(Fresh)
             IN /\ job' = [job EXCEPT ![i] = "queued"]
                /\ key' = [key EXCEPT ![i] = req[h].key]
                /\ audio' = [audio EXCEPT ![i] = FALSE]
                /\ Steps(h, [NoReq EXCEPT !.at = "submit", !.id = i, !.voice = req[h].voice])
     ELSE Done(h) /\ UNCHANGED records
  /\ Bounds /\ UNCHANGED <<session, voices, disk, remote, lost>>

\* The transaction that creates the job.
InsertJob(h) ==
  /\ At(h, "insert")
  /\ IF /\ ~ KeyUsed(req[h].key)
        /\ session.status = "ready"
        /\ ActiveIds = {}
        /\ req[h].voice \in voices \cup {NoVoice}
     THEN /\ Fresh # {}
          /\ LET i == Least(Fresh)
             IN /\ job' = [job EXCEPT ![i] = "queued"]
                /\ key' = [key EXCEPT ![i] = req[h].key]
                /\ audio' = [audio EXCEPT ![i] = FALSE]
                /\ Steps(h, [NoReq EXCEPT !.at = "submit", !.id = i, !.voice = req[h].voice])
     ELSE Done(h) /\ UNCHANGED records
  /\ Bounds /\ UNCHANGED <<session, voices, disk, remote, lost>>

\* uploadWorkerReference and submitWorkerJob.
Submit(h) ==
  LET i == req[h].id
      Sent == Worker!Submit(i) /\ takes' = [takes EXCEPT ![i] = 1]
      Refused == ~ Worker!Idle /\ UNCHANGED remote
      Reply(label, status) == Steps(h, [NoReq EXCEPT !.at = label, !.id = i, !.answer = status])
  IN /\ At(h, "submit")
     /\ \/ /\ req[h].voice \in references \cup {NoVoice}
           /\ \/ Sent /\ Reply("submitted", "queued") /\ UNCHANGED lost
              \/ Sent /\ Reply("submitted", "failed") /\ CallFails
              \/ Refused /\ Reply("submitted", "failed") /\ UNCHANGED lost
        \/ /\ req[h].voice \notin references \cup {NoVoice}
           /\ Reply("submitted", "failed") /\ UNCHANGED <<remote, lost>>
        \/ Reply("submitted", "failed") /\ CallFails /\ UNCHANGED remote
     /\ StoreKept /\ Bounds /\ UNCHANGED disk

\* The job takes the status of the answer; a job whose submission failed fails.
Submitted(h) ==
  /\ At(h, "submitted")
  /\ UpdateJob(req[h].id, req[h].answer, audio[req[h].id])
  /\ Done(h) /\ Shows(TRUE)
  /\ Clocks /\ UNCHANGED <<session, voices, disk, remote, lost>>

ReadJob(h) ==
  /\ At(h, "poll")
  /\ IF Active(req[h].id) THEN Goto(h, "ask") ELSE Done(h)
  /\ StoreKept /\ Bounds /\ UNCHANGED <<disk, remote, lost>>

\* Mutant of AskWorker: a job that ended is taken to have succeeded.
AskWorkerEnded(h) ==
  LET status == worker[req[h].id]
  IN /\ At(h, "ask")
     /\ status # "none"
     /\ Steps(h, [req[h] EXCEPT !.answer = IF status \in {"failed", "cancelled"} THEN "succeeded" ELSE status,
                                !.at = IF status = "succeeded" THEN "download" ELSE "apply"])
     /\ StoreKept /\ Bounds /\ UNCHANGED <<disk, remote, lost>>

\* readWorkerJob.
AskWorker(h) ==
  LET status == worker[req[h].id]
  IN /\ At(h, "ask")
     /\ \/ /\ status # "none"
           /\ Steps(h, [req[h] EXCEPT !.answer = status,
                        !.at = IF status = "succeeded" THEN "download" ELSE "apply"])
           /\ UNCHANGED lost
        \/ status = "none" /\ Done(h) /\ UNCHANGED lost
        \/ Done(h) /\ CallFails
     /\ StoreKept /\ Bounds /\ UNCHANGED <<disk, remote>>

\* downloadWorkerAudio, refused unless the job has audio just then.
Download(h) ==
  /\ At(h, "download")
  /\ \/ worker[req[h].id] = "succeeded" /\ Goto(h, "replace") /\ UNCHANGED lost
     \/ worker[req[h].id] # "succeeded" /\ Done(h) /\ UNCHANGED lost
     \/ Done(h) /\ CallFails
  /\ StoreKept /\ Bounds /\ UNCHANGED <<disk, remote>>

\* Mutant of RemoveOutput: the old file is removed and the new one is not put there.
RemoveUnsaved(h) ==
  /\ At(h, "replace")
  /\ outputs' = outputs \ {req[h].id}
  /\ Goto(h, "apply")
  /\ StoreKept /\ Bounds /\ UNCHANGED <<references, temps, remote, lost>>

\* saveOutput writes a temporary file and removes the old one.
RemoveOutput(h) ==
  /\ At(h, "replace")
  /\ temps' = temps \cup {h} /\ outputs' = outputs \ {req[h].id}
  /\ Goto(h, "save")
  /\ StoreKept /\ Bounds /\ UNCHANGED <<references, remote, lost>>

\* It renames the temporary file into place, or throws if a reset has removed it.
SaveOutput(h) ==
  /\ At(h, "save")
  /\ IF h \in temps
     THEN outputs' = outputs \cup {req[h].id} /\ Goto(h, "apply")
     ELSE UNCHANGED outputs /\ Done(h)
  /\ temps' = temps \ {h}
  /\ StoreKept /\ Bounds /\ UNCHANGED <<references, remote, lost>>

ApplyPoll(h) ==
  /\ At(h, "apply")
  /\ UpdateJob(req[h].id, req[h].answer, req[h].answer = "succeeded")
  /\ Done(h)
  /\ Bounds /\ UNCHANGED <<session, voices, disk, remote, lost>>

CancelJob(h) ==
  /\ At(h, "cancel")
  /\ IF Active(req[h].id) THEN Goto(h, "cancel call") ELSE Done(h)
  /\ StoreKept /\ Bounds /\ UNCHANGED <<disk, remote, lost>>

CancelCall(h) ==
  LET i == req[h].id
  IN /\ At(h, "cancel call")
     /\ \/ /\ worker[i] # "none"
           /\ \/ Worker!Cancel(i)
              \/ ~ Worker!Active(i) /\ UNCHANGED worker
           /\ Steps(h, [req[h] EXCEPT !.at = "cancelled", !.answer = worker'[i]])
           /\ UNCHANGED lost
        \/ Worker!Cancel(i) /\ Done(h) /\ CallFails
        \/ Done(h) /\ CallFails /\ UNCHANGED worker
        \/ worker[i] = "none" /\ Done(h) /\ UNCHANGED <<worker, lost>>
     /\ StoreKept /\ Bounds /\ UNCHANGED <<disk, takes>>

ApplyCancel(h) ==
  /\ At(h, "cancelled")
  /\ UpdateJob(req[h].id, req[h].answer, audio[req[h].id])
  /\ Done(h)
  /\ Bounds /\ UNCHANGED <<session, voices, disk, remote, lost>>

\* The retry route looks for other active jobs, and for admission.
RetrySegment(h) ==
  LET i == req[h].id
  IN /\ At(h, "retry")
     /\ \/ job[i] # "none" /\ ActiveIds \subseteq {i} /\ Goto(h, "retry call")
        \/ Done(h)
     /\ StoreKept /\ Bounds /\ UNCHANGED <<disk, remote, lost>>

RetryCall(h) ==
  LET i == req[h].id
      Sent == Worker!Retry(i) /\ takes[i] < MaxTakes /\ takes' = [takes EXCEPT ![i] = @ + 1]
  IN /\ At(h, "retry call")
     /\ \/ Sent /\ Steps(h, [req[h] EXCEPT !.at = "retried", !.answer = "queued"]) /\ UNCHANGED lost
        \/ Sent /\ Done(h) /\ CallFails
        \/ ~ (worker[i] \in {"succeeded", "failed"} /\ Worker!Idle) /\ Done(h)
           /\ UNCHANGED <<remote, lost>>
        \/ Done(h) /\ CallFails /\ UNCHANGED remote
     /\ StoreKept /\ Bounds /\ UNCHANGED disk

ApplyRetry(h) ==
  /\ At(h, "retried")
  /\ UpdateJob(req[h].id, req[h].answer, FALSE)
  /\ Done(h) /\ Shows(TRUE)
  /\ Clocks /\ UNCHANGED <<session, voices, disk, remote, lost>>

------------------------------------------------------------------------------
(* Voices and the data reset.                                                 *)

SaveReference(h) ==
  /\ At(h, "upload")
  /\ references' = references \cup {req[h].voice}
  /\ Goto(h, "add voice")
  /\ StoreKept /\ Bounds /\ UNCHANGED <<outputs, temps, remote, lost>>

AddVoice(h) ==
  /\ At(h, "add voice")
  /\ voices' = voices \cup {req[h].voice}
  /\ Done(h)
  /\ Bounds /\ UNCHANGED <<session, records, disk, remote, lost>>

\* Mutant of RemoveVoice: the file goes first.
RemoveFileFirst(h) ==
  /\ At(h, "remove")
  /\ references' = references \ {req[h].voice}
  /\ Goto(h, "unlink")
  /\ StoreKept /\ Bounds /\ UNCHANGED <<outputs, temps, remote, lost>>

RemoveVoice(h) ==
  /\ At(h, "remove")
  /\ voices' = voices \ {req[h].voice}
  /\ Goto(h, IF req[h].voice \in voices THEN "unlink" ELSE "idle")
  /\ Bounds /\ UNCHANGED <<session, records, disk, remote, lost>>

RemoveReference(h) ==
  /\ At(h, "unlink")
  /\ references' = references \ {req[h].voice}
  /\ Done(h)
  /\ StoreKept /\ Bounds /\ UNCHANGED <<outputs, temps, remote, lost>>

\* DELETE /api/v1/data, after stopSession: the voices it reads now, their
\* files, the outputs, and the records, one after the other.
ReadVoices(h) ==
  /\ At(h, "wipe")
  /\ Steps(h, [req[h] EXCEPT !.at = "wipe references", !.left = voices])
  /\ StoreKept /\ Bounds /\ UNCHANGED <<disk, remote, lost>>

\* Promise.all: the removals end in any order.
WipeReferences(h) ==
  /\ At(h, "wipe references")
  /\ \/ \E v \in req[h].left :
          /\ references' = references \ {v}
          /\ Steps(h, [req[h] EXCEPT !.left = @ \ {v}])
     \/ req[h].left = {} /\ UNCHANGED references /\ Goto(h, "wipe outputs")
  /\ StoreKept /\ Bounds /\ UNCHANGED <<outputs, temps, remote, lost>>

\* The directory is removed with all that is in it.
ClearOutputs(h) ==
  /\ At(h, "wipe outputs")
  /\ outputs' = {} /\ temps' = {}
  /\ Goto(h, "wipe records")
  /\ StoreKept /\ Bounds /\ UNCHANGED <<references, remote, lost>>

ResetState(h) ==
  /\ At(h, "wipe records")
  /\ job' = [i \in Id |-> "none"]
  /\ key' = [i \in Id |-> NoKey]
  /\ audio' = [i \in Id |-> FALSE]
  /\ voices' = {}
  /\ session' = Off
  /\ Done(h) /\ Shows(FALSE)
  /\ Clocks /\ UNCHANGED <<disk, remote, lost>>

------------------------------------------------------------------------------

Step(h) ==
  \/ Deadline(h) \/ Stop(h) \/ Stopping(h) \/ CancelEach(h) \/ CloseSession(h) \/ Reread(h)
  \/ StartSession(h) \/ WorkerReady(h) \/ SessionReady(h) \/ StartFails(h) \/ SessionError(h)
  \/ Extend(h)
  \/ Admit(h) \/ InsertJob(h) \/ Submit(h) \/ Submitted(h)
  \/ ReadJob(h) \/ AskWorker(h) \/ Download(h) \/ RemoveOutput(h)
  \/ SaveOutput(h) \/ ApplyPoll(h)
  \/ CancelJob(h) \/ CancelCall(h) \/ ApplyCancel(h)
  \/ RetrySegment(h) \/ RetryCall(h) \/ ApplyRetry(h)
  \/ SaveReference(h) \/ AddVoice(h) \/ RemoveVoice(h) \/ RemoveReference(h)
  \/ ReadVoices(h) \/ WipeReferences(h) \/ ClearOutputs(h) \/ ResetState(h)

WorkerRuns(i) ==
  /\ Worker!Begin(i) \/ Worker!Succeed(i) \/ Worker!Fail(i)
  /\ UNCHANGED <<session, records, voices, disk, page, req, takes, clock, issued, lost, crash>>

\* The process dies and starts again: every request ends where it is, and the
\* new process takes the stored state and the files as it finds them.
Resetting(h) == req[h].at \in {"wipe references", "wipe outputs", "wipe records"}
Crash ==
  /\ crash = "none" /\ \E h \in Handler : ~ At(h, "idle")
  /\ lost < MaxLost /\ lost' = lost + 1
  /\ crash' = (CASE \E h \in Handler : Resetting(h) -> "in a reset"
                 [] \A h \in Handler : ~ Resetting(h) /\ ~ At(h, "save") -> "elsewhere"
                 [] OTHER -> "in a save")
  /\ req' = [h \in Handler |-> NoReq] /\ temps' = {}
  /\ StoreKept /\ UNCHANGED <<references, outputs, page, remote, clock, issued>>

Tick ==
  /\ clock < MaxClock /\ clock' = clock + 1
  /\ UNCHANGED <<session, records, voices, disk, page, req, remote, issued, lost, crash>>

Next ==
  \/ \E h \in Handler : Ask(h) \/ PollSession(h) \/ Step(h)
  \/ \E h \in Handler, i \in Id : PollJob(h, i)
  \/ \E i \in Id : WorkerRuns(i)
  \/ Crash \/ Tick

Spec == Init /\ [][Next]_vars

\* Handlers run to their end, the worker ends what it runs, time passes, and the
\* open page, as long as it shows a session or an active job, polls the session, and
\* jobs that the server has as active (its tick starts one refresh after the other,
\* and each asks for all of them; that some is polled again and again is enough).
FairSpec ==
  /\ Spec
  /\ \A h \in Handler : WF_vars(Step(h))
  /\ WF_vars(\E i \in Id : WorkerRuns(i))
  /\ SF_vars(page /\ \E h \in Handler, i \in Id : PollJob(h, i))
  /\ SF_vars(page /\ \E h \in Handler : PollSession(h))
  /\ WF_vars(Tick)

------------------------------------------------------------------------------
(* Properties.                                                                *)

JobStatus == {"none", "queued", "running", "succeeded", "failed", "cancelled"}
Sessions == [status : {"off", "loading", "ready", "stopping", "error"},
             started : 0 .. MaxClock, expires : 0 .. MaxClock + Longest]

\* The variables have the types of PersistedAppState.
TypeOK ==
  /\ session \in Sessions
  /\ job \in [Id -> JobStatus] /\ worker \in [Id -> JobStatus]
  /\ key \in [Id -> Key \cup {NoKey}]
  /\ audio \in [Id -> BOOLEAN]
  /\ takes \in [Id -> 0 .. MaxTakes]
  /\ voices \subseteq Voice /\ references \subseteq Voice /\ outputs \subseteq Id
  /\ \A h \in Handler : req[h].saw \in Sessions /\ req[h].answer \in JobStatus
  /\ temps \subseteq Handler /\ page \in BOOLEAN
  /\ clock \in 1 .. MaxClock /\ issued \in 0 .. MaxRequests /\ lost \in 0 .. MaxLost
  /\ crash \in {"none", "elsewhere", "in a save", "in a reset"}

\* One idempotency key makes one job, whatever requests carry it at once
\* (docs/backend-api.md: the same key returns the same job).
CreateOnce ==
  \A i, j \in Id : job[i] # "none" /\ job[j] # "none" /\ key[i] = key[j] => i = j

\* A job is shown as succeeded only if the worker made its audio, though late
\* answers, cancellations and retries are all merged without a look at what the
\* job is by then; the worker leaves "succeeded" only for another take.
SuccessIsReal ==
  \A i \in Id : job[i] = "succeeded" => worker[i] = "succeeded" \/ takes[i] > 1

\* A session that is ready ends within four hours of its start, whichever of
\* start, stop, extend and deadline wrote it last.
SessionBounded ==
  session.status = "ready" =>
    session.expires > session.started /\ session.expires <= session.started + Longest

\* Every voice in the library has its file, unless a reset removes them or was
\* cut short: the upload writes the file first, the removal drops the record
\* first, so that a crash in either leaves a file too many, never one too few.
VoiceFilesExist ==
  voices \subseteq references \/ crash = "in a reset" \/ \E h \in Handler : Resetting(h)

\* The audio a succeeded job offers is on disk, unless a poll is replacing it or
\* a reset is under way, or was cut short: saveOutput has no old file to fall
\* back on once it has begun to replace it.
OutputsExist ==
  \A i \in Id : job[i] = "succeeded" /\ audio[i] =>
    \/ i \in outputs \/ crash \in {"in a save", "in a reset"}
    \/ \E h \in Handler : At(h, "wipe records") \/ (At(h, "save") /\ req[h].id = i)

\* No session goes on for ever that the page shows as going on, even one that a
\* stale write brought back, if its deadline lies within the time explored.  A crash
\* may leave one loading or stopping, where it has no deadline or is not looked at;
\* and a page that shows nothing alive asks for nothing.
SessionEnds ==
  []<>\/ session.status \in {"off", "error"} \/ ~ page
      \/ session.expires > MaxClock
      \/ crash # "none" /\ session.status \in {"loading", "stopping"}

\* Every job shown as active is settled, by the polls of a page that goes on with
\* them or by the deadline.  One that a crash kept from the worker is settled by
\* the deadline of its session, if it has one.
JobsSettle ==
  \A i \in Id :
    []<>\/ ~ Active(i) \/ ~ page
        \/ crash # "none" /\ (session.status # "ready" \/ session.expires > MaxClock)
==============================================================================
