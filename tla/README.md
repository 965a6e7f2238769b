# VoxCPM Studio in TLA+

TLA+ models of VoxCPM Studio, a Next.js application that turns text into speech on a GPU worker, either a
local one or a Pod rented from RunPod by the hour. The models cover what is expensive or hard to undo when it
goes wrong: who may start and stop the Pod, when it goes down, and whether concurrent processes overwrite
each other's state; and what the jobs go through on their way from the page to the GPU and back: the page's two
adapters, the application server, the worker, the compiler of expressive scripts; and what a session costs: the ledger, and the
catalogue of prices from which a session is planned, checked and started. Paths below are relative to the repository's `src/` unless they begin with
`docs/`, `deploy/`, `scripts/` or `worker/`.

* `PROJECT.json` holds the components, runs, map from definitions to source lines, findings, hazards and theorems.
* Check a run: `tlc -config control_callers.cfg MCRunpodControl.tla`. Check a proof: `tlapm RunpodControlProofs.tla`.

## 1. The system

| Component | State | Operations | Interacts through |
|---|---|---|---|
| RunPod controller (`server/runpod-controller.ts`) | session, lease, idempotent operations, in `runpod-control.json` | start, stop, extend, reconcile, watchdog run, workload observation, job admission | control store, RunPod REST API, application store |
| RunPod control store (`server/runpod-control-store.ts`) | the JSON file, a lock file, an in-process queue | initialize, read, mutate | the file system, shared by the application and the watchdog process |
| RunPod gateway (`server/runpod-control-gateway.ts`) | none | listPods, getPod, createPod, startPod, stopPod | HTTP with a 15 s timeout |
| Watchdog runner (`server/runpod-watchdog-runner.ts`, `deploy/systemd/`) | none | one run a minute, killed after a timeout | the controller, in a process of its own |
| Application store (`server/store.ts`) | voices, jobs, settings, local session, files of references and outputs | read, mutate, updateJob, files | the file system; in-process queue only |
| Job routes (`app/api/v1/jobs/`, `server/worker-client.ts`) | jobs in the application store | submit, poll, cancel, retry a segment, audio | application store, worker HTTP, admission by the controller |
| Local session (`server/services.ts`, `app/api/v1/sessions/`) | the local session | start, stop, extend, deadline on every request | application store, worker HTTP |
| Voices, settings, reset (`app/api/v1/voices/`, `settings/`, `data/`) | references, settings | create, delete, update, reset | application store |
| GPU worker (`worker/app/`) | job files, one generation thread per run | submit, read, cancel, retry a segment, restart | HTTP; background threads |
| Page (`components/studio-provider.tsx`) | which adapter it uses, the sign-in state | hydrate, save, tick, sign in | one of the two adapters below, the browser's storage |
| Demo service (`lib/demo-service.ts`) | an in-browser session, job and timers | the API of the client, simulated | timers |
| API client service (`lib/api-service.ts`) | what the page shows, `actionBusy`, a poll in flight | start, stop, extend, generate, cancel, retry, reset, tick | the HTTP routes |
| Expression compiler (`lib/expression-script.ts`) | none (pure) | parse and compile marked-up text | job routes, UI |
| Sign-in (`app/api/v1/auth/`, `server/session.ts`) | failed attempts per address | login, logout, verify | in-memory map |
| RunPod overview (`server/runpod-client.ts`) | a cached catalogue, one request in flight | overview, plan | RunPod API; the price checks of start |
| Preflight (`server/runpod-preflight.ts`) | none | judge configuration and overview before a first start | overview, file system |
| Cost ledger (in the controller) | seconds per bucket, accrued-at | accrue at every transaction | session phase, clock |
| Configuration, validation, HTTP helpers, UI | none relevant | parsing, rendering | |

Hard behaviours, by component:

* **Controller.** Several processes and browser tabs run operations that each consist of several store
  transactions and RunPod exchanges. Anything can happen in between: another operation, the watchdog, a drain,
  a crash, a reply lost or too late. Correct means: one operation inside the lease; one Pod; at most one create
  per idempotency key; a Pod nobody watches leaves a trace; the hard deadline is bounded and takes the Pod down.
  `reconcile`, the drain and the workload observation take no lease, and race everything.
* **Control store.** Two processes exclude each other by a lock file that a crash leaves behind. Correct means:
  transactions take effect one after the other, and each settles.
* **Application store, job routes, local session.** Submission, polling, cancellation, retry, deadline, stop and reset each read,
  call the worker or the file system, and then write without a look at what the record has become. Correct
  means: one key makes one job; a job shown as succeeded has its audio; a session ends in time, even
  one a stale write brought back; records and files agree; polling settles every job. (There is no lock between processes either, although the
  watchdog writes jobs.)
* **Worker.** Threads report progress while requests cancel, retry and restart. Correct means: a late report
  never changes the outcome of a newer run, a cancellation is final, the audio of a succeeded job is made of the
  newest takes of its segments.
* **Demo service.** Timers captured a session, a job and a scenario when they were set. Correct means: none outlives them.
* **API client service.** Clicks, polls and hydrations overlap, fail, and overtake each other. Correct means: one
  guarded action at a time, and what the page shows as going on does not outlive what goes on.
* **Expression compiler.** Text and tags are split at offsets. Correct means: no text is lost or moved, every tag reaches
  its own stretch, and what one stage accepts (package import, server, worker) the next does not refuse.
* **Cost ledger.** Transactions take effect late and out of order. Correct means: each interval is charged at most once,
  to the phase that was in force.
* **Overview, preflight.** Callers share one request, and take a cached answer unless they ask for a fresh one; three places draw
  conclusions from it in code of their own. Correct means: nobody decides on something too old, or older than what was shown
  before, and the three places agree.
* **Sign-in.** An await between a check and its use.

The `hazards` of `PROJECT.json` name each of these at its line, with the property that covers it or a note.

## 2. Modules

| Module | Models |
|---|---|
| `RunpodControl` | the controller's operations, RunPod, the processes' crashes, the clock |
| `MCRunpodControl` | its process slots for model checking |
| `RunpodControlProofs` | type correctness and lease exclusion; bound of the hard deadline, one create per key |
| `RunpodControlPodProofs` | never two Pods, none up without a trace, when a stop is sent again or for idleness |
| `AtomicStore` | what `mutate` promises: transactions take effect at once or not at all |
| `ControlFileLock` | how `mutate` keeps the promise: queue, lock file, stale lock recovery |
| `MCControlFileLock` | its processes for model checking |
| `ControlFileLockProofs` | `ControlFileLock` implements `AtomicStore`, with two processes even if they crash; types |
| `JobContract` | what a job queue of the studio promises: the statuses, one active job, which status may follow which |
| `WorkerJobs` | the GPU worker: store, requests, generation threads, generation lock, restart |
| `MCWorkerJobs` | its jobs for model checking |
| `WorkerJobsProofs` | threads match jobs, cancellations are final, `WorkerJobs` implements `JobContract`, the audio is of the newest takes; types |
| `StudioServer` | the routes of the application server over its store, one step per await |
| `StudioServerProofs` | one job per key, the session's hours, the library has its files, success is real, offered audio exists; types |
| `CostLedger` | the accrual and the estimate of a session's cost |
| `RunpodCatalog` | the overview of RunPod's catalogue with its cache and request; what preflight, plan and start conclude from it |
| `RunpodCostProofs` | nothing is billed twice, punctual sessions are billed exactly; how old an overview can be, the three places agree; types |
| `ExpressionScript` | the expression compiler and what accepts a script, as functions |
| `StudioData`, `MCStudioData` | a behaviour that writes scripts, lives through a session of `CostLedger`, or asks for overviews of `RunpodCatalog` |
| `ExpressionScriptProofs` | the compiler meets its reference, and the acceptance checks fit together, for every script; which scripts are valid; `StudioData` implements the ledger and the catalogue |
| `DemoStudio` | the demo adapter: session, jobs, timers, reload |
| `ApiStudio` | the API adapter: calls, polls, sign-in, against what the routes answer |
| `StudioProvider` | the page on one of the two adapters |
| `StudioProofs` | timers belong to what the page shows, `DemoStudio` implements `JobContract`, one action at a time; types |

How they compose: `RunpodControl` takes each store transaction as atomic; `ControlFileLock` examines exactly
that, and `AtomicStore` is the interface between the two. `StudioServer` talks to a worker that is `JobContract`
(`INSTANCE`), and `WorkerJobs` is shown to implement `JobContract`. `DemoStudio` implements the same contract with other
parameters: a retry accepts any ended job and succeeds at once, and the list can be dropped. `StudioProvider`
EXTENDS `DemoStudio` and `ApiStudio`; `StudioData` EXTENDS `ExpressionScript`, `CostLedger`
and `RunpodCatalog`: each of its behaviours is about one of the three, so that one run checks them without multiplying their states.

### RunpodControl and the code

An action is what a request does between two awaits: one `store.mutate`, or one exchange with RunPod. A
`store.read` on which a later step relies is a step of its own where another request can write between the two: the look at the
workload before its transaction (`SyncRead`), the read after it that the idle stop is decided on (`SyncDecide`), and the read at the
end of a drain that gives the hard stop its identity (`DrainRead`). Inside the lease, and where the value read is only returned, it is joined to
the step next to it.

| Code | Model |
|---|---|
| `RunpodControlState.session / lease / operations` | `session`, `lease`, `ops` (null is `Never` or `Nil`) |
| Pods of the account; mutations under way | `pods`; `calls` |
| jobs of the application store | `job` (is one active, when was the last activity, which drains found it active) |
| a request's place and local variables | `pc[p]`, `loc[p]` |
| `withLease`, `acquireLease`, `matchingOperation` | `Enter`, `ReleaseLease`; a refused key goes straight to the release |
| `start` | `StartCall`, `StartRefused`, `StartInspect`, `StartPlan`, `MarkMutationAttempted`, `Send`, (reply), `StartCommit` or `CallFails`, `RecordFailure` |
| `stop` | `StopCall`, `StopPending`, `StopRefused`, `StopFind`, `StopConfirm` or `StopRequest`, `MarkMutationAttempted`, `Send`, (reply), `StopCommit` |
| `extend` | `ExtendCall` (checks), `ExtendCommit` (transaction) |
| `reconcile` (no lease) | `ReconcileRead` (look-up and probe), `ReconcileCommit` |
| `runWatchdog` | `WatchdogRead` (the decision), `DrainClaim`, `DrainCancel`, `DrainMark`, `DrainDone`, `DrainRead` or `SyncRead`, `SyncCommit`, `SyncDecide`, then `WatchdogStop` and the steps of `stop` |
| `observeWorkloadBestEffort` | `ObserveCall`, `SyncRead`, `SyncCommit` |
| `assertJobAdmission`, then `POST /jobs` | `JobAdmit`, `JobQueue` |
| RunPod | `CloudApply` (effect, with or without a reply), `CloudAccept` (a stop answered before the Pod exited), `CloudDrop`, `PodBoots`, `PodFails` |

A request that is refused without changing anything (a taken lease, an invalid input) is the absence of the
step, except where it ends a request that is under way.

Abstractions. Phase `starting` stands for `provisioning` too, as RunPod's PROVISIONING is folded into STARTING; both lead to
the same decisions. RunPod's UNKNOWN status maps to phase `error` as ERROR does; it is
not modelled apart, so a `start` that meets a Pod of unknown status is left out. All starts carry the same
input, so the Pod name, profile and rate never differ and are left out; a key used for another *kind* of
request is modelled. Messages, timestamps that nothing reads, the cost ledger, and the limit of fifty
operations are left out. `MaxSession` stands for the smaller of the maximum duration and what the cost limit
allows, both of which bound the duration asked for.

Failures (`Faults`): `crash` (a process dies between two steps), `lost` (a request or its reply), `late` (RunPod
applies a request after the 15 s timeout), `refuse` (RunPod or a look-up refuses), `overrun` (an operation
outlives its two-minute lease), `pod` (a Pod fails or is terminated in the console).

### ControlFileLock and the code

| Code | Model |
|---|---|
| `this.queue`, `previous`, `turn` | `queue[h]`, `Mutate`, `Turn`, `Leave` |
| `open(lockFile, "wx")` | `OpenLock` |
| `recoverStaleFileLock`: stat, then rename | `StatLock`, `RenameLock` (two steps, as in the code) |
| the loop with its deadline | `Retry`, `GiveUp` |
| read, operation and persist | `ReadState`, `Persist` (one rename), `WriteFails` |
| closing and removing the lock | `Release` (removes the file, whoever created it) |

A transaction adds its own identity to the set it read, so an overwritten transaction is one missing from the
state. `initialize` is taken as done, and write errors leave the file as it was, as `persist` does with its
temporary file. `Crash(h)` ends every transaction of a process and leaves the lock file.

### WorkerJobs and the code

Every operation of the store holds the store's lock and persists before it returns: one step. Every test of
`is_cancelled` is a step apart from what follows it.

| Code | Model |
|---|---|
| `WorkerStore.update / update_segment / complete` | `Update`, `UpdateSegment`, `Complete`, inside the thread's steps |
| `create_job`, `retry_segment`, `cancel` | `CreateJob`, `RetrySegment`, `CancelJob` |
| `simulate`, `synthesize` | `ThreadStart`, `CheckBefore`, `Mark`, `CheckAfter`, `Seal`, `Assemble`, `Merge`, `Verify`, `Finish`, `FailThread` |
| `VoxCPMRuntime.generate` and its lock | `AcquireLock`, `Generated`, `Written`, `Commit` |
| `VoxCPMRuntime.load` | `LoadModel` |
| the process dies; `_load` | `Restart` |

A file is represented by the run that wrote it (`part`, `output`), so a stale take is told from a new one. A simulated job with the
scenario `failure` fails in its first run; `retry_segment` starts the next with the scenario `normal`, so a retry succeeds (`DueToFail`). The
merge can fail after all segments have succeeded (`Merge`).
Progress, messages and durations are left out, and so is the upload of a reference.

### StudioServer and the code

A handler (`req[h]`) runs from one await to the next; what it read is in its record (`saw`, `act`, `left`, `answer`).

| Code | Model |
|---|---|
| `enforceSessionDeadline` | `Deadline`, `CancelEach`, `CloseSession`, `Reread` |
| `stopSession` | `Stop`, `Stopping`, `CancelEach`, `CloseSession` |
| `POST /sessions`, `/sessions/extend` | `StartSession`, `WorkerReady`, `SessionReady`, `StartFails`, `SessionError`; `Extend` |
| `POST /jobs` | `Admit`, `InsertJob`, `Submit`, `Submitted` |
| `GET /jobs/[id]` | `ReadJob`, `AskWorker`, `Download`, `RemoveOutput`, `SaveOutput`, `ApplyPoll` |
| cancel, segment retry | `CancelJob`, `CancelCall`, `ApplyCancel`; `RetrySegment`, `RetryCall`, `ApplyRetry` |
| voices, `DELETE /data` | `SaveReference`, `AddVoice`, `RemoveVoice`, `RemoveReference`; `ReadVoices`, `WipeReferences`, `ClearOutputs`, `ResetState` |

A call to the worker may fail before or after it took effect (`CallFails`). One process serves the store; `Crash` ends every request
it had in flight, and its successor takes the state file and the directories as they are (`initializeOnce`). A start of a session that is refused before it does
anything comes to the same error handler as one that fails (`StartFails`), and can put the loading session of another start into `error`. `saveOutput` is two
steps: the temporary file (`temps`) and the removal of the old audio, then the rename, which throws if a reset has removed the
temporary file; `clearOutputs` removes the directory and makes it anew in one step, and the references of a reset go one at a time. `page` says whether the open page
polls: it shows a session or an active job (`shouldPoll`), by what the last answers told it; an answer may also be lost or overtaken
(`Shows`). One page is open. A job has audio exactly if the worker says it succeeded, as in mode `voxcpm2`; in `simulation` there is none
to download. Half an hour is one unit of time.

### CostLedger, ExpressionScript and the code

`CostLedger` keeps `accrueCostLedger` and `costEstimate` as functions, in seconds; `Begin`, `Observe`, `Vanish`, `Workload`, `Stop` and `Fail` are
the transactions that call them, each with a clock reading up to `Delay` old. `spent` is the reference: what
went on in each second that passed. `ExpressionScript` follows `compileExpressionScript` match by match over a sequence of
symbols: `Reading` is a recursive function of the number of matches read, whose value is what the loop's variables then hold (`ReadTag` is the
body, `AppendText` the closure it calls), and `ReadScript` adds the text after the last match. The positions of
matches, tags and texts are put in order by rank (`Ascending`: the n-th has n of them up to itself). Its reference (`SegmentsAreStretches`) says position by position what belongs to which segment, without
a cursor. The letters of a tag name are one symbol; what takes two UTF-16 units is the symbol `astral`.

### RunpodCatalog and the code

| Code | Model |
|---|---|
| `RunpodClient.cached`, `inFlight` | `overviewCache`, `overviewRequest` |
| `overview({ fresh })`: the cache, joining, sending | `Takes`, `Waits` |
| `listPods`, `gpuCatalog` with `normalizeOffer`, `listDataCenters` | `ListPods`, `GpuCatalog`, `ListDataCenters`: three reads in any order |
| the request resolves, or a read fails or times out | `Resolve`, `Reject` |
| `runRunpodPreflight` | `PreflightReady` |
| `plan` and the plan route | `PlanBlockers`, `PlanGiven` |
| the checks of `start` before it lists Pods | `StartAccepted` = `WriteConfigured`, `InputValid`, `OfferAccepted` |

What RunPod answers is any of `RawOffers`, `Volumes` and `PodCounts`, anew at each read. Each process has a
cache of its own, and one is modelled. Money is a whole number of 0.00001 USD, and
the cost of some minutes a whole number of sixtieths of that, so that the preflight's `roundUsd` (to 0.0001 USD) is exact;
the errors of the code's floating point, and the `Number.EPSILON` it adds against them, are left out. A setting that must have some form is a Boolean. One profile and one cloud, the
configured ones, are looked at. Two of the plan's blockers are always given and left out.

### DemoStudio, ApiStudio and the code

In the demo every method and every timer callback is one action. Of `sessionTimers` and `jobTimers` at most one each can be
next, and it carries what its closure captured. `Reload` is a new page that hydrates from what was saved, if
the browser stored it. In `ApiStudio` a click, the arrival of its request at the server and of the answer at the page are three
steps, and so are the parts of a poll. The server is reduced to what its routes answer (`ServeStart` to `ServeRetry`, `Completes`,
`Deadline`). Statuses of jobs are none, pending or ended. One page is open, at most one hydrate is in flight, and its reads
are answered at one moment. `MaxLost` bounds lost messages and expiries of the cookie together. The draft, voices and
settings are left out.

## 3. What is checked

| Run | Question | Properties |
|---|---|---|
| `control_callers` | two callers that start and stop, and the watchdog, with crashes and lost requests or replies | `TypeOK`, `LeaseExclusion`, `CreateOnce`, `OnePod`, `UnwatchedPodIsRecorded`, `RetryDiscipline` |
| `control_deadline` | extensions and reconciliations race a watchdog while RunPod refuses actions and processes die, also with the lease | `DeadlineBounded`, `HardDeadlineStops` |
| `control_idle` | job submissions and observations race the watchdog, and Pods fail | `IdleStopAfterQuiet` |
| `lock_recovery` | two processes, one of which may die with the lock; writes fail | `Serialized`, `MutateSettles` |
| `worker` | requests, threads, model failures and a restart, in both modes | `ThreadsMatchJobs`, `AudioIsCurrent`, `SegmentsMatchFiles`, `CancelIsFinal`, `JobsEnd`, `JobContractSpec` |
| `server` | two handlers interleaved at every await, a worker call that fails or loses its answer, or a crash | `TypeOK`, `CreateOnce`, `SuccessIsReal`, `SessionBounded`, `VoiceFilesExist`, `OutputsExist`, `SessionEnds`, `JobsSettle` |
| `data` | every script of up to four pieces; every session of three seconds with late transactions; every use of the overview by two callers, and configurations judged by it | `TagsReachTheirText`, `NoBracketIsSpoken`, `PackageIsSubmittable`, `JobFitsWorker`, `NothingBilledTwice`, `EstimateIsExact`, `OverviewIsRecent`, `ForecastsAgree`, `OverviewsAdvance` |
| `studio` | the page on either adapter: timers against stops and reloads; calls and polls against losses, deadlines and an expired cookie | `StudioTypeOK`, `TimersBelong`, `OneAction`, `DemoSettles`, `PageCatchesUp`, `DemoContractSpec` |

What they show:

* `LeaseExclusion`: two operations are inside `withLease` together only if one has outlived its lease; an
  unexpired lease is neither given away nor released by another.
* `CreateOnce`, `OnePod`: with crashes and lost messages, but no request that takes effect after its caller
  gave up, retries and concurrent starts leave one Pod and send one create per key.
* `UnwatchedPodIsRecorded`: whenever a Pod is up that the watchdog ignores (the crash between create and
  commit), some start record has its mutation marked and not confirmed.
* `RetryDiscipline`: a watchdog stop that is sent is the first one or due, and `MAX_STOP_FAILURES` bounds them.
  Checked with one watchdog, as deployed.
* `DeadlineBounded`: no sequence of starts and extensions exceeds the maximum from the start of the session.
* `HardDeadlineStops`: a watched Pod up at its deadline goes down, unless a caller renews the session or
  the retries are exhausted, despite refusals, crashes with the lease, and failed cancellations.
* `IdleStopAfterQuiet`: a watchdog run that stops (for the first time) for the idle deadline that it wrote itself began after the idle
  minutes without activity; the one job it can hit is one queued since the run began. Stale snapshots of other requests, written before
  its own transaction, do not matter. They do matter after it: `syncWorkload` commits (`server/runpod-controller.ts:528-554`) and then
  reads the store again (555), and the run decides on that read (1178-1184). If another request, which looked at the workload before a job was queued,
  writes in between, it clears the counts and brings an old idle deadline back, and the run stops the Pod under a job that has been
  active since before the run. So the code does not keep `docs/runpod-worker-design.md:79` (stop for idleness only if nothing is queued
  or running) there. The model has this behaviour; the property excepts it, as the run then stops for a deadline that is not its own
  (`loc[p].time` remembers the one it wrote). Without the exception TLC finds the stop of the busy Pod with the bounds of `control_idle`.
* `Serialized`: `ControlFileLock` implements `AtomicStore` (refinement) with two processes, one of which may
  crash holding the lock; `MutateSettles`: every transaction ends, so the queue moves on.
* `JobContractSpec` (in `worker`): what the worker shows changes only as the contract allows, simulated retries of a failing
  job, which succeed, included.
* `ThreadsMatchJobs`: `update_segment` does not know which run reports, and need not: no thread of an
  earlier run is alive when a retry begins. `CancelIsFinal`, `AudioIsCurrent`, `SegmentsMatchFiles`: what the worker
  shows after cancellations, retries, failures and a restart is what is on its disk. `JobsEnd`: no job stays active.
* `SuccessIsReal`, `OutputsExist`: although answers are merged without a look at what the job has become, a job is shown as succeeded only
  if the worker made its audio, and the audio offered is on disk. A cancelled job *can* be shown as running
  again by the answer to its submission; `JobsSettle` says that the polls then settle it, or that the page has stopped polling. A job that a crash kept from the worker is
  settled by its session's deadline; if the session has closed, or the crash left it `loading` or `stopping`, only a user's
  next action does, and the properties except that case. A crash between `saveOutput`'s `rm` and its `rename`, or in a reset, does lose
  the file of a record: `crash` tells these cases from the others.
* `SuccessIsReal` excepts a job with several takes: the success of the take before a segment retry can be shown late, while the new one runs.
* `SessionBounded`, `SessionEnds`: a session that a late extension or a late start brought back after a stop still has
  its four hours, and ends at its deadline as long as the page shows something and so polls. A page that was told that the session is off
  asks for nothing (`api-service.ts:517-520`): the session of a stale extension then goes on until the next request, and the property excepts it.
* `VoiceFilesExist`: the order of file and record in upload, removal and reset, crashes included.
* `TagsReachTheirText` and `NoBracketIsSpoken`: the compiler against its reference, for loose brackets, line ends, unknown,
  doubled and dangling tags. `PackageIsSubmittable`, `JobFitsWorker`: the four acceptance checks on a script's way fit together, but for
  one case left out by a hypothesis: a text within three characters of the limit whose segment begins with a laugh, for which the worker's token is longer than the tag.
* `NothingBilledTwice`, `EstimateIsExact`: late transactions can bill a second to the wrong category, never twice; punctual ones bill
  exactly.
* `OverviewIsRecent`: a caller that wants a fresh overview may be given the result of a request that was under way, so a start can decide
  on a price from before its click, but not by more than one request takes; any other caller by the cache's time more.
  `OverviewsAdvance`: nobody is shown an overview from before one shown already.
* `ForecastsAgree`: a preflight that passes announces a plan without blockers and a start that is not refused, with four exceptions that
  the property names, each a difference of the code: the preflight does not look at the worker's key, at the form of the data center's
  identifier, or at the bounds that `validateStartInput` sets to the price limit, and it compares a rounded estimate, which can
  hide that the limit is exceeded when a price has more than four decimals. What start accepts, the page can plan, unless the base URL is malformed.
* `TimersBelong`, `DemoSettles`: no timer of a stopped session or cancelled job fires into a later one, and none that is needed is cleared.
* `OneAction`, `PageCatchesUp`: failures, denials and overtaking answers neither leave `actionBusy` set nor the page
  showing something as going on that is over. The converse does not hold: a late poll can show a running session as
  off, and polling then stops.

### Findings

Runs with `expect: violation` check one statement of the repository that the code does not keep:

| Run | Statement | What happens |
|---|---|---|
| `reconcile_race` | only a verified status closes a session (`docs/runpod-worker-design.md:86`) | `reconcile` looks RunPod up, `start` creates the Pod, `reconcile` writes `off`: the Pod runs under a closed session |
| `late_create` | two clicks do not create two Pods (`docs/runpod-worker-design.md:63`) | a create times out and takes effect after a start with another key saw no Pod |
| `lock_race` | a stale lock is recovered atomically (`progress.md:353`) | two processes both find it stale; the second moves away the fresh lock of the first |
| `script_emoji` | a script is refused for incomplete brackets (`lib/expression-script.ts:340`) only if it has them | the mask of code points is blanked at UTF-16 offsets: after an emoji a bracket of a well-formed tag is left over |

### Bounds, and why they are enough

* Processes, Pods and keys: two callers and a watchdog are the smallest set in which a caller races both
  another caller and the watchdog; two Pods let a second one exist; two start keys let two clicks
  differ and each be retried. `lock_recovery` has two transactions of one process and one of another, so that
  both the queue and the lock order them; three processes are needed for `lock_race` (the dead one and two that recover).
* Clock: `Lease`, `Duration`, `Cutoff`, `IdleTicks` and `Backoff` are 1 to 4 ticks. Only their order matters: a
  lease, a cut-off and an idle period all fit into a session, and each can expire during an operation.
* `Horizon` is the last tick at which callers issue start, stop and extend; the watchdog and the other
  requests go on. `MaxTime` stops the clock, but not before a scheduled retry or an orphaned lease has passed,
  so that no property holds because time stopped. `MaxFailures` is 2 or 3 (the code has 3; the first retry and
  the exhausted one both occur with 2).
* `CHECK_DEADLOCK FALSE`: behaviours end where the clock stops and the transactions have all ended, where the requests of the
  bound are used up, or where the script is as long as the bound allows.
* `control_idle`: a page that starts, reconciles and observes, a watchdog and a job route; they are the three that have to interleave for an observation to be stale.
* One watchdog runs, as deployed, and dies with the lease in `control_deadline`. `LeaseExclusion`, `DeadlineBounded` and `CreateOnce` are proved
  for any number of watchdogs.
* `worker`: a job of two segments (one can succeed and the other fail), a plain job, and one that fails in the
  simulation; two runs of each (a retry meets its first run) and one restart.
* `server`: two handlers, because a hazard here is one handler acting on what it read before another wrote; two
  requests besides the polls, one lost call or one crash, two job identifiers (a second job under the first one's key), two takes (a retry
  replaces audio), and a session that may be under way at the start, with a voice. Three times, of which a session takes one or, extended, two (`Longest` = 2): a
session extended to 3, the longest that `SessionEnds` looks at, expires within the time explored; one extended after a start at 2 does not, and is
excepted.
* `data`: four pieces, one of which is a tag with its text, hold three segments, or a tag between two texts with a loose bracket. The limits `MaxSegments`, `MaxText`, `LongEvent`
  and `LongExpression` are scaled down, so that scripts exceed each. `Delay` 1 and three seconds let two
  transactions take effect in the wrong order. Two callers (one joins the other's request), a cache of 2 ticks, a request of at most 1
  and 3 ticks in all: an overview is cached, expires, and is replaced. The offers, configurations and data centers of `MCStudioData` have each value on both
  sides of each comparison, and an offer that is missing (and so has no price), one of unknown availability, and one with a price of five decimals.
* The type invariants of the lock, the worker, the ledger and the catalogue are theorems (section 4), and not checked again by the runs.
* `studio`: two demo jobs (an old and a new one), one job of the server, two calls in flight, two clicks, one loss.
* `control_callers` uses the symmetry of callers, Pods and start keys, `data` that of callers; neither checks liveness.
* `Awaited` and the guards of `Tick` are the timing assumptions: without `overrun` an operation ends within its
  lease (two minutes, against requests of 15 s); without `late` RunPod answers, or never will, within a tick.

### Fairness

`FairSpec` assumes that a request that has been issued goes on (Node runs its continuations), that RunPod answers, that
Pods boot, that time passes, and that the watchdog is run again and again: `deploy/systemd/voxcpm-runpod-watchdog.timer`
starts it every minute, and the service is killed by systemd when it hangs. Nothing is assumed of callers: they may never issue a request.
Crashes are never fair, and bounded by the clock, as a host that crashes for ever stops nothing. For the lock: a transaction's
continuation runs and time passes.

For the worker: a started thread goes on (weak fairness of each thread's steps), so generation ends; requests need not come.
For the server: handlers go on, the worker ends what it runs, time passes, and an open page polls the session and each job it
shows as active, as long as it shows any (`page`): once it shows nothing alive, nothing is assumed. Polling is strongly fair because the page has one poll in flight at a time (`pollPromise`),
which only delays the next. That every single job is polled for ever is not assumed, only that some poll of the session, and of a job
if there are active ones, goes out again and again. For the demo: a pending timer fires, and the interval calls `tick`;
time passes. For the API adapter: the interval calls `tick`, and every request is answered or lost. Clicks,
sign-ins and settings are never fair.

## 4. What is proved

For every number of processes, Pods, keys and transactions, and every duration and failure, by TLAPS:

| Theorem | Statement | Assumptions |
|---|---|---|
| `TypeCorrect` | `Spec => []TypeOK` of `RunpodControl` | none beyond those of the constants |
| `Exclusion` | `Spec => []LeaseExclusion` | none: `overrun` and crashes included |
| `HardDeadlineBounded` | `Spec => []DeadlineBounded` | no `overrun`; `Duration <= MaxSession` (`validateStartInput` checks it) |
| `OneCreatePerKey` | `Spec => []CreateOnce` | no `overrun` |
| `NeverTwoPods` | `Spec => []OnePod` | no `overrun`, no `late` |
| `UnwatchedLeavesTrace` | `Spec => []UnwatchedPodIsRecorded` | no `overrun`, no `late`, nobody reconciles |
| `RetriesAreDue` | `Spec => []RetryDiscipline` | as before, one watchdog, and no Pod fails by itself |
| `IdleStopsAreQuiet` | `Spec => []IdleStopAfterQuiet` | none |
| `Serialization` | `Spec => Serialized` (refinement of `AtomicStore`) | no stall; if processes crash, there are two at most |
| `LockTypes` | `Spec => []TypeOK` of `ControlFileLock` | none: crashes and stalls included |
| `WorkerTypes`, `WorkerThreads` | `Spec => []TypeOK`, `[]ThreadsMatchJobs` of `WorkerJobs` | none |
| `WorkerAudioIsCurrent`, `WorkerSegmentsMatchFiles` | `Spec => []AudioIsCurrent`, `[]SegmentsMatchFiles` | none |
| `WorkerCancelIsFinal` | `Spec => CancelIsFinal` (an action property) | none |
| `WorkerImplementsContract` | `Spec => JobContractSpec` (refinement of `JobContract`) | none |
| `ServerTypes`, `KeyMakesOneJob` | `Spec => []TypeOK`, `[]CreateOnce` of `StudioServer` | none: crashes and lost calls included |
| `SuccessHasItsAudio`, `OfferedAudioExists` | `Spec => []SuccessIsReal`, `[]OutputsExist` | none |
| `SessionKeepsItsHours` | `Spec => []SessionBounded` | none beyond `Durations \subseteq 1 .. Longest` (the start route admits 0.5 to 4 hours) |
| `LibraryHasItsFiles` | `Spec => []VoiceFilesExist` | a new voice's name is fresh (`FreshVoice`: random UUIDs) |
| `CatalogTypes`, `OverviewsAreRecent` | `CatalogSpec => []CatalogTypeOK`, `[]OverviewIsRecent` of `RunpodCatalog` | none: any `Ttl` and `Span` |
| `OverviewsNeverGoBack` | `CatalogSpec => OverviewsAdvance` (an action property) | none |
| `JudgesAgree` | `CatalogSpec => []ForecastsAgree` | none: any offers and configurations of their types |
| `LedgerTyped`, `LedgerBillsOnce`, `LedgerExact` | `LedgerSpec => []LedgerTypeOK`, `[]NothingBilledTwice`, `[]EstimateIsExact` | none: any `Delay` |
| `EveryTagReachesItsText`, `TagsAlwaysReachTheirText` | `\A s \in Seq(STRING) : SegmentsAreStretches(s)`, `Spec => []TagsReachTheirText` of `StudioData` | none: any script and either dialect; for `Spec`, pieces are sequences of symbols |
| `EveryRawTagWithheld`, `NoBracketIsEverSpoken` | the same of `RawTagsWithheld`, `NoBracketIsSpoken` | the same |
| `EveryPackageSubmits`, `PackagesAlwaysSubmit` | the same of `PackagesSubmit`, `PackageIsSubmittable` | the same |
| `EveryJobFitsWorker`, `JobsAlwaysFitWorker` | the same of `SegmentsFitWorker`, `JobFitsWorker` | the same; any limits |
| `ValidScripts` | a script is valid iff `WellFormed(s) /\ ~ AstralBeforeTag(s)` | none |
| `ImplementsLedger`, `ImplementsCatalog` | `Spec => LedgerSpec`, `Spec => CatalogSpec` of `StudioData` | none |
| `DemoTimersBelong`, `PageTimersBelong` | `DemoSpec => []TimersBelong`, and the same of `StudioSpec` | none |
| `DemoImplementsContract`, `PageImplementsContract` | `DemoSpec => DemoContractSpec` (refinement of `JobContract`), and the same of `StudioSpec` | none |
| `StudioTypes`, `OneActionAtATime` | `StudioSpec => []StudioTypeOK`, `[]OneAction` | none |

The assumptions on constants are those the modules state (durations are numbers, `Nil`, `Never` and `NoJob` are none of
the values they stand beside, and the pieces of `StudioData` are sequences of symbols) and, for `RunpodControl`, `BackoffAssumption`, that powers of two are numbers, for which the provers have no theory. `StudioServer` asks that a job has room for one take (`MaxTakes` is not 0), as a job is submitted
with its first.

The arguments:

* **Types and lease.** `TypeOK` is not inductive: an operation's key must be a key where it is written.
  `Memory` says which points of a request have one. `LeaseHeld` says that a request whose lease is unexpired
  is the recorded owner. `IInv == TypeOK /\ Memory /\ LeaseHeld` is inductive; two requests inside
  with unexpired leases would both be the owner.
* **Deadline.** `Unexpired`: without overrun the clock waits for the operations, so (`OneInside`) one request is
  inside. `PendingExtension`: what an extension is about to write is within bounds of the session as it is now;
  only a start could change that, and it cannot be inside too. The drain needs no lease, so it can come in between the check of an extension and its write.
* **Creates.** `Recorded`: a key with a create sent has a start record marked as attempted. `Standing(p)`: what a
  request inside the lease still knows about its key, in particular that a create about to be sent is of a key with none yet.
  Every write of an operation and every entry is shown to preserve both. Without the assumption on overrun the
  proof fails where it should: two starts with one key could both pass the check.
* **Pods.** `PodInv` adds that a create or resume under way belongs to the holder of an unexpired lease, who waits for it or
  has died (`ExchangeHeld`), so that there is one at most; that every exchange and every operation past its first write has its
  record, of its kind (`CallsKnown`, `Keyed`); and that a start that saw no Pod is right until its create is sent (`NoPodYet`).
  `late` is excluded because a create that outlives its caller's lease is applied to an account that another start has
  looked at since: `late_create` shows that it does happen.
* **Trace.** `UnwatchedPodIsRecorded` speaks of moments when no operation is at work; `TrackInv` says why it holds then.
  `Covered` (a Pod that is up is the session's and watched, or some start is attempted and unconfirmed) is kept at every step of
  every operation, because what an operation saw of the Pod is still true when it writes it down (`Tracked`): inside the lease
  nothing brings a Pod up but its own exchange (`AliveKept`). Reconciliation is excluded because it writes what it read before,
  without the lease: `reconcile_race` is the counterexample.
* **Retries.** A watchdog decides outside the lease and stops inside it. `Patient` says for each point in between what is still
  known of the count and its time; in between a caller may close the session or start the next one, but not count a
  failure, which only a watchdog's stop does: hence one watchdog. `RetryScheduled`: a failure is counted without a time
  for the next only if nothing is up. A failed Pod is not up, yet a stop does not find it stopped and
  is sent; so `pod` is excluded, and reconciliation because it clears the time of a retry that a stop is about to use.
* **Idleness.** The decision goes through four steps: the snapshot of the workload, its transaction, the read and decision, the stop under a lease taken
  later. `Idling` carries through them that the snapshot still holds unless a job was queued or ended since (`Snapshot`), and that the
  idle deadline which the run wrote had passed when the run began only if it was quiet (`Judged`). Nothing is said of the
  session in between, which others may write. The property is about the first attempt, as a retry does not look at the workload again.
* **Store.** `LockHeld`: whoever is inside the transaction owns the lock file, which is not stale, and a lock file nobody inside owns
  is a dead process's. `Fresh`: what a transaction read is still the state when it writes. A stale lock is found in one step and moved away in another; in between somebody
  else could have replaced it. `OthersAreDead` says that the owner's process is dead by then, and stays so (`DeadStayDead`);
  with two processes nobody is left but the process that recovers, which runs one transaction at a time (`OneRunning`), so nobody is inside
  (`AloneToRename`). This is the step that fails with three processes: `lock_race` is the counterexample. Each step is then a commit or a stutter.
  For the types, with every failure: the transaction that runs is at the head of its process's queue (`InTurn`), so `Tail` is taken of a queue that
  is not empty.
* **Worker.** Every step of a thread has one of three shapes (`StepShapes`): it leaves the store alone (`Silent`), reports that it is running
  (`Reports`), or ends its job and itself (`Ends`). `IInv` adds to `ThreadsMatchJobs` that one job is active, that a thread past its
  first report has a running or cancelled job (so that success follows running), and that a thread not yet begun has a segment left
  to make. Without the last, a segmented thread with nothing left would complete a queued job.
  The audio needs to know what a thread has done so far (`Work`): what it has left is what has not succeeded, the one segment running is
  the one it is at, and the files it is past are there. Only the uncancelled thread of an active job counts (`ThreadWork`); a cancelled
  one still writes takes, which a retry's thread would find, and `WorkerThreads` says that the two are never alive together.
* **Ledger.** What a transaction accrues is the time since the last accrual or nothing (`AccrueEffect`), so the
  categories cannot grow past it. Exactness holds between two transactions because the reference and the
  projection add each second to the same category.
* **Overview.** `CatalogInv` adds what a caller cannot see: the request under way is at most `Span` old, and the cache is of an earlier
  one (`RequestYoung`); a cached overview expires within `Ttl` and `Span` of the beginning of its request, and no answer yet is newer
  (`CacheYoung`); nobody asked in the future. The agreement of the judges is arithmetic: rounding to a half step up does not
  lower a cost that is a whole number of half steps (`RoundsUp`), and with the allowed durations and a price of four decimals it is one (`HalfSteps`).
* **Compiler.** The theorems hold for scripts of any length, which takes an induction over the matches. The library's induction theorems
  cannot be instantiated with a predicate here, so the proofs take the least counterexample instead (`LeastNatural`, from the
  well-foundedness of `<`): `ReadingExists` shows in this way that the recursive function `Reading` is what its equation says, and
  `ReadingKeeps` and `StretchKeeps` that it keeps two invariants. `ReadInv` says of the variables after n matches: the cursor is
  behind the last match; every text compiled so far is of positions outside the matches (`FromFree`) and, with three units for each of its
  tags, not longer than the script; pending tags are distinct; an issue `unknown-tag` was raised exactly if a match names no known tag.
  It gives `EveryJobFitsWorker` and, as a valid reading meets no tag that only one dialect knows (`SameReading`),
  `EveryPackageSubmits`. Brackets need the mask: without a wide character before a tag the UTF-16 offsets are the positions, and masked is
  what matches cover (`MaskIsMatches`); with one, the opening bracket of the first tag behind it is left in the mask, so such a script
  is never accepted (`NoAstralBefore`). `StretchInv` relates the segments to the reference: they are the stretches
  that begin before the cursor (`Compiled`), in the one ascending order there is (`AscendingUnique`), and the
  pending tags are those that wait for a text (`StillWaiting`). Since spoken text between two matches is one stretch and no stretch spans a
  match (`GapIsStretch`, `GapSays`), each `AppendText` adds the next one.
  `ValidScripts` puts both together: no script with an incomplete or unknown tag passes, and none is refused without
  one but those of the finding `script_emoji`, whose extent it states exactly.
* **Demo.** Either no job is active and no job timer pending (`Resting`), or one job is active, in a session that
  is ready, and its status tells which timer is next (`Working`); the status of the session tells its timer (`SessionTimerFits`).
* **Server.** `CreateOnce` is nearly inductive: only the transaction of `POST /jobs` adds a record, and it looks for the key itself. A
  session is written back from copies read earlier, so `SessionInv` says the bound of the session and of every copy a handler
  holds, and that a handler on its way to a start carries an allowed duration. `VoiceInv` says what upload, removal and
  reset know of each other: nobody who could remove a file knows the voice of an upload (`Unknown`), and a file
  about to be unlinked has left the library. `AnswerInv`: what a handler holds as the worker's answer "succeeded" was true, and
  stays true of the worker (`Real`), however late it is written. `FilesInv`: a record that offers audio, and a handler about to write one that does,
  has its file on disk unless a save or a reset is under way, or a crash cut one short; a handler that
  saved the file before a reset finds that its record is gone, and so does one whose temporary file a reset has taken, unless that reset is
  about to wipe the records.
* **Page.** A call knows the job and the kind of answer it waits for (`CallTyped`), so that what reaches the page is of the type the page
  keeps; `actionBusy` is set by the one call of a guarded kind, and only its end clears it. A step of the page is a step of
  one adapter and stutters on the other (`PageRunsDemo`), so the demo's theorems hold of the page.

Every invariant and every action property that a passing run checks is a theorem, and so is every refinement. Model-checked only:
the liveness properties `HardDeadlineStops`, `MutateSettles`, `JobsEnd`, `SessionEnds`, `JobsSettle`, `DemoSettles` and
`PageCatchesUp` (fairness and ENABLED are beyond the prover). `OnePod` with reconciliation and failing Pods is proved, but
`UnwatchedPodIsRecorded` and `RetryDiscipline` with them are not, for the reasons above; nor is the store with crashes and
more than two processes, which `lock_race` refutes. The properties of the runs that expect a violation do not hold.

## 5. Plan

Done: the control plane with its store, the worker, the server, the cost ledger, the expression compiler, the catalogue with its
three judges, and the page with both adapters; and the proofs of section 4. Left, in this order:

1. `StudioServer`: a second process on the same store (the watchdog's `cancelActive`).
2. A bounded operation list in `RunpodControl`, and a property over several sessions.
3. The attempt counter of the login route.

## 6. What is not modelled

* The merge and normalisation of WAV files and the analysis of audio signals: numerical computations on one file,
  without shared state.
* Token signing, parsing of configuration and of RunPod's answers, and HTTP helpers.
* React components other than the provider, and static data.
* The login counter: small, and only planned (section 5).
* Of the modelled components: the list limits (50 operations, 100 jobs), segment statuses outside the worker, renaming a voice, the settings route, the
  worker's upload of a reference, write errors of the application store. Joined although other requests could run in between: the write of the temporary file and
  the removal of the old audio in `saveOutput`, the removal of the output directory and its making anew in `clearOutputs`. `PROJECT.json` has the list per component, and the
  hazards that no property covers have a note that says why.
