# Verification of the job coordination of mlx-nobby

mlx-nobby is a set of local services (agent, chat backend, image, video and
speech services, a supervisor for a small memory model) that share one machine
with unified memory. Its own core logic is the coordination of heavy models:
who may load weights, who has to unload, which job runs next and what becomes
of it when a process dies. On top of it stand durable jobs of many steps (shorts,
batches, automations) that users pause, cancel, retry and delete. This directory
models both in TLA+, checks them with TLC and proves the central promises with
TLAPS.

## Inventory

| Component | State | Operations | Interacts through |
|---|---|---|---|
| Runtime lease (`runtime_coordinator.runtime_lease`) | process lock, flock, nesting depth per thread, record files | acquire, nest, release, cancel, time out, snapshot and sweep | called by chat, tools, image and video jobs; records read by diagnostics and recovery |
| Model handoff (`image_runtime`, `video_runtime`, `chat_runtime`) | locals of the running context, chat server, weights of the services | release peers, stop chat, settle, admit, run, restore chat | health and unload requests to the services, the lease, `MODEL_RUNTIME_LOCK` |
| Media queue (`agent/media_queue.py`) | durable jobs, one worker | enqueue, cancel, select, dispatch, poll, forward cancel, recover, prune | POST/GET to the native services, `jobs.json`, the 4B coordination |
| Native jobs (`image_service.py`, `video_service.py`) | jobs, single-flight slot | create, run, cancel, restart | run inside the handoff; followed by the queue |
| 4B supervisor (`agent/memory_model_supervisor.py`, `memory_model_coordination.py`) | child process, state file, demand marker, inference lock | tick, start, drain, stop; note demand; infer | state files, `jobs.json` of the queue, flock |
| Shorts jobs (`agent/shorts_jobs.py`, `shorts_consistency_runtime.py`, `shorts_studio.py`) | durable jobs, a worker thread each, voiceover and result files | create, render scenes as child jobs, speak, compose, cancel, retry, delete, resume | media queue, speech service, FFmpeg |
| Automations (`agent/automations.py`, `automation_routes.py`, `automation_notifications.py`) | SQLite definitions, runs and notifications; scheduler and worker threads | create, update, delete, run now, claim due, execute, finish, notify, recover | agent runtime |
| Batches (`agent/app.py`, `batch_state.py`, `batch_processing.py`) | jobs in `jobs.json`, checkpoint files, output files, registry of threads | create, route, start, pause, resume, automatic mode, cancel, clean up, transform, analyse | chat model, input files of the user |
| Approvals (`agent/approvals.py`) | pending actions in memory, each with a time to live | add, take once, expire | tools, automations |
| Media lifecycle (`agent/media_lifecycle.py`) | trash and library records, files | trash, restore, purge | file system, library |
| Knowledge extraction (`agent/knowledge_memory.py`, `semantic_personal_memory.py`) | analysis jobs with attempts, tombstones | schedule, infer, checkpoint, defer | 4B inference lock |
| Code workspaces (`agent/code_workspaces.py`) | snapshots, patches | apply, check, roll back | file system |
| Everything else (talking photo, image variants, research pipeline, prompts, UI, providers, scripts) | none that is shared and durable | text, I/O | - |

What is hard here: several processes and threads take two locks and leave files
behind when they die; a job is cancelled at any point between two requests;
an answer is lost or arrives after the job it was for has ended; a service
restarts and forgets; decisions are taken on memory snapshots and health
answers that are old when used; jobs wait for services that wait for jobs. A job
of many steps meets all of this between any two of its steps, and its worker, the
calls of its user, the recovery and the cleanup change the same record.
`PROJECT.json` lists these hazards with their lines under `hazards`.

What makes each component correct: the lease has one holder, tells the truth
about it and leaves nothing behind; the handoff never loads on a stale sample,
never unloads under work, and settles what it stopped; the queue keeps final
states final, hands over in order, follows what it dispatched and gets every
job to an end; the supervisor never stops a model under an inference and makes
room for exclusive jobs; a short that is completed is whole, renders nothing twice
without need and consumes nothing once it has ended; an automation executes one
run at a time, claims a slot once and reports what happened; a batch has one
thread, one version of its input in its output, and asks before each chunk if it
was told to.

## Modules

### ExclusiveLease, RuntimeLease, RuntimeLeaseProofs

`ExclusiveLease` is what callers of `runtime_lease` rely on: they ask, one of
them is granted, it gives back, waiters may stop waiting, and a crash takes a
set of clients away. `RuntimeLease` is the code: `pc[t]` is the place of a
thread in `runtime_lease`, `rlock` the re-entrant `_PROCESS_LOCK`, `flock` the
lock on the shared file, `depth` the thread-local nesting, `record` and
`leftover` the state files of live and dead pids. One action stands for the
code between two points where somebody else can look: `Request` (line 741),
`TakeProcessLock`, `TakeFlock`, `GiveUp` (waiting() raises), `Publish`, `Nest`
and `Unnest`, `Retract` (depth and record), `Unlock`, `Exit` (outer finally).
`Crash` kills a process with all its threads; `Sweep` removes a dead record.

`Writes` is `_write_lease_state`, which swallows an error: for the threads in
`Unrecorded` a record may stay as it was, so that a waiter or an owner goes unreported.

Three abstractions: a time limit is a flag (`limited`) that allows giving up at
any wait, a pid is never reused, and the removal of a record succeeds.
`_clear_lease_state` swallows an error as well, and a record that it failed to remove
would report an owner that has gone until the process ends: `ReportedOwnerHoldsLease`
holds only as long as that does not happen. The history file is left out.

### ModelHandoff, ModelHandoffProofs

Jobs of the image, video and chat services go through the stages of the runtime
contexts: `GrantLease`, then `Probe`, `Unload`, `Verify` for every peer the code
visits (`AfterPeer` is that order, which depends on the kind of the job, on
relief and on exclusive mode), `Measure` (memory_before), `ChatStop`, `Settle`,
`Admit`, the work, `RestoreChat`, `ReleaseLease`. `ctx[j]` holds the locals that
later decisions look at; `stale` records whether weights were released after the
snapshot that admission uses, which no variable of the code says. A snapshot is
"ample", "tight" or "full"; each one is an arbitrary value, because other
programs use the memory as well. Role activation (`ensure_model_for_role`) and
the synchronous `/edit` are included since they load weights without the lease
(the synchronous `/generate` is not: it enters `image_runtime` like a job).
Here the lease is the abstract one: `UsesLease`, which is proved, says that the handoff
uses it as `ExclusiveLease` allows, and `ImplementsLease` that `RuntimeLease` provides it.

### MediaQueue, MediaQueueProofs

The jobs of the queue (`status`, `cancelReq`, `nativeOf`, `backoff`), its worker
(`pc`, `cur`, `reply`) and the native jobs of both services. `Select` is
`_next_job_id`; `Look`, `Dispatch`, `Prepared`, `Post...`, `Record`, `Poll` and
`Forward...` are the steps of `_dispatch_and_poll` between which users cancel
and enqueue. `Applies` is the rule of `_update` that a terminal job changes its
status no more. `AgentRestart` is a death of the agent followed by
`_ensure_loaded_locked`; `Outage` is a death of a service after which the image
service knows none of its jobs and the video service has failed the running one.
An answer to a POST, a poll or a cancel that is lost or cannot be read (`Unreadable`)
goes to the handler of `_worker`. A job's `created_at` is taken before the lock, so
that a job in `Delayed` may be stored after a younger one; `late` remembers the older
jobs that came in after the worker had made its choice. `Prepared` looks at the cancel
flag the way `_cancel_requested` does, which does not see that of a pruned job: such a
job is posted although it was cancelled.
Abstractions: which terminal job is pruned is left open; saves succeed;
`prepare_media_dispatch` is one of two outcomes (the next module has its steps);
`retry_video_scenes`, presentation and chat links are left out.

### MemorySupervisor, MemorySupervisorProofs

The supervisor of the optional 4B model (`spc` is its place in `tick`, `start`,
`stop` and `run`; `child` its process; `state` the published file), the
extractions (`locking`, `inferring`) and the media worker up to the dispatch
(`wpc`, `cur`, `noted`, `demand`). A tick is one action up to the point where it
acts on what it read: the stages "start", "drain", "disable", "expire" and "exit"
are the gaps in which others move, and `PublishStopped` is the gap after a stop.
`TakeLock`, `BeginInference`, `Defer` and `EndInference` are the steps of
`complete` inside `inference_lease`; `Pass`, `Request`, `Granted` and `TimedOut`
those of `prepare_media_dispatch`. `noted` remembers that the worker wrote the
marker for its present job. `Crash` kills the supervisor and leaves its child to
the system as an external process; `Exit` is SIGTERM.

Abstractions: a snapshot only says whether memory is tight; a healthy tick may
come at any moment; the state file gets stale only while the supervisor is down
(it publishes every few seconds and the file lives 30); the marker (45 s) never
expires in the wait that wrote it (20 s).

### ShortsJobs, ShortsJobsProofs

A short (`job[j]`: `phase`, the `cancel` flag, scenes with a `clips` video or a
`frames` keyframe, the recorded child jobs `image` and `video`, the voiceover
`track`) with its worker thread (`worker[j].pc`), the stage of a cancel call
(`caller`), a retry under way (`maker`), its two files (`voice`, `final`) and the
children in the media queue (`child`). The worker goes through `NextChild`, `Post`,
`Record`, `Poll`, `Seen`, `TakeResult` for each scene (`run_short_job` and, for
jobs in `Consistent`, `run_consistent_short_job` with `WithoutAnchor`), then
`Tts` to `Voiced` (`_run_tts`) and `Compose` to `Publish` (`_run_compose`). The
gaps between them are where the code releases its lock; `Seen`, `StopInstead`,
`Spoken`, `CheckVoice` and `CheckFinal` are its looks at the flag. `Save` is the
rule of `_update_job` that a job that has ended is not written to, and
`SaveCancelled` the one place that has another rule. `WorkerReads` to
`WorkerCommits` and `CallerReads` to `CallerCommits` are `_finish_cancelled`,
which both sides may be running at once. `Retry` to `RetryStarts` are the five
saves of a retry, whose second read of the source (`RetryLosesSource`) finds it gone
after a deletion, `Delete` the deletion of a chain of revisions, `Restart` the
agent's death followed by `resume_short_jobs`.

What a child does in the media queue is its end, some day, in any of three ways
(`ChildEnds`): `MediaQueue` says why. `Create` stores a job and starts its thread in one
step: a cancel in between is like one before the thread's first look, and the thread
of a job that was also deleted in between ends at that look. Left out: refused POSTs (the worker asks
again), assets for scene images, projects without a voiceover, drafts, revisions
with edited scenes, music and subtitles, deletion of several projects at once.

### Automations, AutomationsProofs

Definitions (`auto`: the row, `next_run_at` as a slot, `last_status`), runs in the
order of their creation (`run`), the worker thread of each run (`worker`), an
update between its read and its write (`editor`), the start of the agent (`agent`)
and a clock that counts slots. `Claim` is `claim_due`: the due automations with
the earliest slots, at most `Limit`, get a run each unless one is active, and all
of them are advanced, each past the slot that has begun one second later. `RunNow`, `StartWorker`, `StartFails`, then `Start`, `Work`,
`Finish`, `Notify` and, after an error, `Failing` and `Telling` are
`_execute_automation`; each is one transaction of the store. `Recover` and `Serve`
are `_recover_stale_runs` with its look at the newest runs only. A fault is a
failed write, a thread that cannot start, or a read that fails: `start_run` and
`finish_run` read the run again after their commit, and an error there sends the worker
to its handler although the status has been written (`AnswerFails`).

Left out: two updates of one definition at once, validation, time zones and
calendars (a slot is what `next_run_at` computes), delivery and reading of
notifications.

### BatchJobs, BatchJobsProofs

The store (`job`), the checkpoint files (`cp` by number for a chunked transform,
`ft` by plan and batch for the free-text one), the input, temporary and output
files, the registry `BATCH_WORKERS` (`reg`) and the threads (`w`, with their
place and local variables). Every region under `BATCH_LOCK` is one step. The
calls of the user are `Create`, `Route`, `Start`, `Pause`, `Resume`, `Automatic`,
`Cancel` and `Cleanup`; the worker takes `Begin` (the region that writes
"running" and copies the job), `Prepare` (input read and split, plan saved),
`Poll`, `Work` (chunk transformed and checkpointed) and `Progress` for each chunk,
then `Assemble`, `Write`, `Replace`, `Unlink` (`atomic_write_with`), `Complete` and
`Close`, with `BeginUnsaved`, `WriteFails`, `Raise` and `Fail` for what goes wrong.
`Start` is one step because `locked_batch_start` holds the re-entrant `BATCH_LOCK` over
all of `start_batch_job`. An analysis is the same worker without a
plan or an output. `Edit` changes an input file under a job, `Restart` is a death
of the agent.

`atomic_write_with` is atomic for one writer only: the name of the temporary file
depends on nothing but the output, hence on the input file. `Assemble` opens it, which
truncates it, and `Write` writes into the file that the worker has open, from its start,
wherever that file is by then. With two jobs on one input file this can happen: the
first opens the temporary file; the second opens and truncates it; the first writes its
text; the second writes a shorter one over it; the first replaces the output. The first
job is completed with the text of the second, followed by the end of its own. Or the
first replaces the output before the second writes, and the output changes after the
job is completed. The history variable `clash` marks a file for which two workers
were between opening and replacing at once.

A text is the positions of its tokens, a chunk an interval of them, and what the
model makes of it is the version with the interval: that is enough to say whether
an output is whole and of one version. `Splits` is the splitting of
`batch_processing.py` (`AddUnit` is a turn of `pack_units` or of the loops over the
items of a JSON array or object, `HardParts` the hard cut of a unit that is too large,
`AddTarget` a turn of `build_json_freetext_batches`). The versions in `Uncut` are those
whose units are never cut: JSON, where an item above the limit stays a chunk of its own
(`Oversized`), and a file of an unknown type, which is one unit.
`stale` is history: the run began while checkpoints of another plan lay where its
saved plan has chunks. `allowed` is history: the user's last consent.

Abstractions: whether a job is chunked, free text or an analysis is fixed when it
is created (the code decides from the file at each run); the blank tail that the splitting
of SQL drops is not part of the text; what a longer text leaves behind a shorter one is
its last piece; a free-text checkpoint that exists is valid, since it is written whole
under the name of its plan (the code redoes one that was damaged from outside); `Route`
creates and starts a job in one step (a cancel and a cleanup in between would leave a
thread for a job that is gone, which returns at once). Left out: halving chunks
after an out-of-memory error, assembling JSON, rules for personal data, the
reduce tree of an analysis, counters, a store that cannot be read, downloads.

## Runs

| Run | Shows | Bounds and why they are enough |
|---|---|---|
| lease | types, truthful records, refinement of `ExclusiveLease` (and with it mutual exclusion), somebody gets through | two threads of one service and one of another: both kinds of competitor; nesting to depth 2; a crash whenever no dead record is left; one thread whose record may not be written |
| handoff | types, no chat or image weights beside an exclusive job, admission on a fresh sample | one job of each service, two settling samples instead of three, one speech request |
| handoff_mixed | weights are not unloaded under work | adds the video job that may keep image weights, the direct edit and one offline service |
| handoff_live | all jobs end | SDXL, chat and role activation, one settling sample |
| handoff_forgotten (violation) | a cancel while settling leaves chat stopped | one job |
| queue | types, final states, order, following, repetition only after loss; every job ends unless a cancel came too late | three jobs of two kinds, the first one cancellable and possibly stored after the others, retention limit 2, three native jobs (two for one of them), one restart of the agent, one restart of a service or one lost or unreadable answer |
| queue_cancel (violation) | a cancel during POST orphans the native job; two run at once | two jobs |
| supervisor | types, released memory stays free, no stop under an extraction, generations get through | a generation, a job that may share, one extraction; one stop or crash of the supervisor, one death of the model or manual change: each can hit any gap |
| shorts | types, no scene rendered twice but for a restart, nothing consumed after the end, every short ends unless its cancel was cut in half | one short of two scenes in either mode: the second scene has a predecessor, the first an anchor; six children cover both kinds for both scenes, the keyframe without anchor and a repetition; one restart, one cancel call |
| shorts_retry | a completed short is whole and keeps its voiceover, no worker outlives its job | a short of one scene in consistency mode and its retry, which share files; deletion at any moment; one restart, one cancel call, four children |
| automations | types, one execution at a time, a slot claimed once, reports agree with runs, ended runs stay, runs end, due automations are served | two automations with one claim at a time: they compete for the batch; two runs, so that a recovery that looks at one overlooks the other; one update, restart or fault (that every row of a batch has its own next slot matters for larger batches only, which the theorems cover) |
| batch | types, one thread per job, whole outputs, consent, cancels stay, no chunk paid for twice, workers end | a transform by chunks or free text or an analysis, controlled or routed, with two calls of its user, and a second free-text batch on the same file; two versions: JSON with an item above the limit that stays whole, and a unit that is cut hard; one edit or one fault (the two jobs share the temporary file without either; an edit together with a fault is left to the theorems) |

Every property of a passing run has a mutant in `PROJECT.json`: a plausible bug
in one definition of the model that makes TLC find the property violated. A property
that is proved for all sizes and implied by, or close to, another one that is checked
is left to its theorem: `MutualExclusion`, `FlockUnderProcessLock` and
`NothingLeftBehind` of the lease, `UsesLease`, `CompletedByItsNative`,
`LetThroughToModel`.

### Fairness

The lease: a waiting thread polls (`WF` of `Acquire`), a holder runs a workload
that ends (`SF` of `Retract`, since it may nest and unnest in between) and
unwinds. Nobody has to ask, cancel or crash. Services in a crash loop can take
and drop the locks for ever, so `SomeWaiterGetsThrough` assumes that crashes and
cancellations end. The flock gives no order, so no single waiter is promised it.

The handoff: `WF` of each job's next step, speech requests end. Each job asks
for the lease once, so weak fairness suffices.

The queue: the worker thread runs, deadlines pass, generations end, launchd
restarts services, and `SF` of `Prepared`: a job that tries again and again
finds the 4B model drained at last.

The supervisor: its loop and the worker run, launchd restarts it, not every tick
raises (`SF` of `HealthyTick`), a stop that is retried again and again succeeds
when the lock is free often enough (`SF` of `Stop`; `run` polls every 0.3 s), and
extractions end, sometimes while a given generation waits: requests have a time
limit, and their ends are not synchronised with the retries of the queue.
`DispatchedAtLast` further assumes `WaitsSuffice`: 20 seconds are enough for a
tick (5 s) and a stop that nobody blocks. That the marker bars new extractions
between ticks is what makes it true; with the pause alone TLC finds a generation
that starves.

Shorts: the worker, a cancel call and a retry go on, and the media queue ends its
jobs; users need not call. `EndsUnlessCutShort` excepts a restart in the middle of
a cancel, after which nobody takes the job up again.

Automations: the scheduler claims, the recovery boots, threads start and execute;
clock and users are free. `RunsEnd` excepts runs that the recovery overlooks and
those whose worker met a fault.

Batches: each thread goes on. A paused job waits for its user, who need not come
back, so `WorkersEnd` promises an end up to that.

## Proofs

`RuntimeLeaseProofs` proves, for any threads, processes and nesting bound, the
type invariant, `MutualExclusion`, `ReportedOwnerHoldsLease`,
`FlockUnderProcessLock`, `NothingLeftBehind` and the refinement
`ImplementsLease`. None of these is inductive: mutual exclusion needs that the
location of a thread determines which locks it owns. `LeaseInv` says exactly
that, in parts (`DepthInv`, `FlockInv`, `ProcessLockInv`, `OwnerInv`,
`RecordInv`). Assumptions: every thread belongs to a process and `NoThread` is
none of them.

`ModelHandoffProofs` proves, for any jobs of every kind, any services that are offline
and any number of settling samples, the type invariant, `AdmissionOnFreshSample`,
`NoUnloadUnderWork`, `UsesLease` and, if no job loads weights outside the lease
(`AllCoordinated`, without which role activation breaks it, see below),
`NoWeightsBesideExclusiveJob`. `HandoffInv` says that exactly the job inside the
runtime context holds the lease (`HolderInv`), where the jobs of a kind can be
(`PlaceInv`), that a job on a service keeps its slot (`SlotInv`), that weights are
there while somebody computes with them (`WeightsInv`), and at which stages a snapshot
is fresh (`FreshInv`: once image weights have been dealt with, every release is
followed by a new one). `ExclusiveInv` adds that what was cleared stays cleared, since
others load only inside the lease. Assumptions: the kinds of jobs are disjoint
(`KindsAssumption`), `NoJob` is none of them, bounds are natural numbers.

`MediaQueueProofs` proves, for any number of jobs, native jobs, restarts and
lost answers, the type invariant, `FollowsWhatItKnows`, `HandedOverInOrder`,
`TerminalIsFinal`, `CompletedByItsNative` and `RepeatedOnlyAfterLoss`. Jobs are numbered
by `created_at`, the order of the scheduler; `HandedOverInOrder` excepts the older jobs
that were stored only after the worker had chosen (`late`). `QueueInv` adds that a job
which was not enqueued has no native job (`Enqueued`), that the worker between dispatch and record works on a job
no other in-flight job accompanies (`WorkerAlone`) and none of its kind that was stored before the choice
precedes (`WorkerInOrder`), that it knows its native job when it polls, and that
a native job belongs to the queue job that records it. The bound
`RepeatedOnlyAfterLoss` counts: `RepeatsInv` says that a job which may still be
posted (`MayPost`) has used none of its own turns yet, only those that lost answers
and restarts have given, so that the POST which uses the last one makes it followed.

That native generations never overlap is not true (run `queue_cancel`).
`OneGenerationUndisturbed` says how much of it is: as long as no answer to a POST is
lost, the agent does not restart and nobody cancels, one native job at most is
running, whatever the services refuse, forget or lose by restarting. Its invariant
`FollowInv` says that one queue job at most is in flight (`Alone`, which holds in any
case) and that undisturbed the queue follows every native job that runs, or is about
to record it (`AllFollowed`).

`MemorySupervisorProofs` proves, for any jobs, extraction threads and numbers of
crashes and changes, the type invariant, `AloneOnceReleased`,
`NoStopUnderInference` and `LetThroughToModel`. `AloneOnceReleased` is not
inductive: at the moment a generation is let through, the state file must not lie
about a start that is under way. `KeptFree` says so for the waiting job already,
`NoChild` that the stages after a stop own nothing, and `WorkerJob` that the job
on its way, which keeps the supervisor from starting, is the one of the worker.
For `LetThroughToModel` the strengthening is `Announced`: as long as nothing was
disturbed, a file without a pause speaks of a model that is there.
Assumptions: exclusive jobs are media jobs, `NoJob` is none of them, the bounds are natural numbers.

`ShortsJobsProofs` proves, for any jobs, scenes, children and numbers of restarts
and calls, the type invariant, `CompletedIsWhole`, `WorkersHaveJobs`,
`NothingConsumedAfterEnd`, `VoiceoverStays` and `RepeatedOnlyAfterRestart`. `ShortsInv` adds that a job which a retry is still
filling is untouched and has no worker (`MakerWaits`), that phases and places past
the scenes are reached with all clips only, and that what is about to be published
exists (`Whole`).

`VoiceoverStays` needs `VoiceInv`: a short that has spoken has its file, a short that
borrows the voiceover of another is linked to it by records that a deletion takes
together or not at all, and a retry on its way borrows only from a short that has
ended. For that the deletion is modelled by what the code's walk over the records
computes: `Chain(j)` is the least set that contains `j` and is closed under parents
and children (`Linked`), a form about which the provers can reason. The bound
`RepeatedOnlyAfterRestart` needs `RenderInv`, which counts ahead: `Due` is what a
short may still ask for, `Room` what is left for it, and `Loose` are the unfinished
children that neither the record nor the worker knows any more. A post takes a place
out of `Room`, the record of a finished scene gives none back, and only a restart, which
may cut a worker off from the answer to its request, gives room for one repetition.

`AutomationsProofs` proves, for any automations, runs, limits and faults, the type
invariant, `OneExecution`, `ReportsAgree`, `EndedRunsStay` and `RepeatedOnlyAfterEdit`. The runs are numbered
in the order of their creation; the strengthening says that those in use come first
(`Ordered`), that an active run is the newest of its automation (`ActiveIsNewest`),
that the place of a worker fits the status of its run (`WorkersMatch`), and that
notification and last status fit both (`Agreement`). For `RepeatedOnlyAfterEdit`,
`ClaimsInv` adds to the claims of a slot what is still to come: one if the automation
stands at the slot or before it, one if an update that has read the clock may set it
back there. The sum never exceeds one for the creation and one for each update.

`BatchJobsProofs` proves, for any files, jobs, threads, calls, edits and faults, the
type invariant, `WorkersKept`, `ControlledByUser`, `CancelStays`, `CompletedIsWhole` and
`RedoneOnlyForNewPlan`. The registry
gives a job to one thread, so that every step of a worker touches only its own
job: `Kept` says that, `InPlace` that a worker stays within its plan with the
checkpoints it has passed in place, `Consented` that the consent is still there when
a controlled job works, `Left` and `Shown` that no job is left in hand. That a
worker assembles no missing checkpoint is part of the types.

`CompletedIsWhole` and `RedoneOnlyForNewPlan` need two more arguments. The first is
about data: the theorem `SplitsTile` shows that the chunks of every kind and version adjoin, are
not empty and cover the text, whatever the units, the limit and the number of targets
in a batch. `Splits` is a recursive function; that it is defined, and that what holds
after each turn holds of the result, is proved by the least counterexample
(`EveryTurn`, `TurnsExist`), since the induction theorems of the library cannot be used.
`Packed` is what holds after each turn. `ChunksWithinLimit` says that a chunk of a
transform or an analysis has at most `Limit` tokens or is one item of a JSON text, which is
kept whole (for limits of 100 tokens and more: below that `split_chunk_hard` goes
on to 400 characters).

The second is about the files. `FilesInv`, inductive
beside `IInv`, says that the checkpoints of a job are contiguous and each of some
plan (`Checkpointed`), that a run which did not begin stale has its own plan's
checkpoints behind it, and one that resumes its own plan has none before it (`Resumed`),
that a free-text run has gathered what its batches gave (`Gathered`), and that whoever
has replaced an output or completed a job has one (`Delivered`, `Finished`).
`OutputsInv` is about the two files of an input: until a clash at most one worker
is between opening and replacing and nobody has the output open (`Apart`), so that what
that worker will write is whole or of a stale run (`Composed`), what it is about to
replace is what it wrote, and every output is whole or of a stale run (`Sound`); and a
clash takes two jobs on the file (`Shared`). A temporary file that a crash has left torn is
nobody's: the next worker truncates it before it can become an output.

`CompletedIsWhole` makes two exceptions: runs that began on checkpoints of another plan,
and a clash. `BatchWholeUnlessEdited` says where they come from: while no input file is
edited, a completed transform whose input file no other job was created for has an
output, its own and whole, whatever fails or crashes. `UneditedInv` is the argument: all
plans and checkpoints are of the first version, hence no run is stale; that a clash is
`Shared` is part of `OutputsInv`.

Assumptions: `BatchAssumption`, and `SplitsFit`, that no file has more chunks than
`MaxChunks`, a bound of the model. TLC evaluates both.

Only model-checked: liveness (fairness and `ENABLED` are outside these proofs):
`SomeWaiterGetsThrough`, `JobsEnd`, `OnlyLateCancelsBlock`, `DispatchedAtLast`,
`EndsUnlessCutShort`, `RunsEnd`, `DueIsServed` and `WorkersEnd`. Every invariant
and every action property that a passing run checks is proved.

## Differences found

Checked as violations: see `findings` in `PROJECT.json`. Seen while modelling and
described by the model without a run of their own:

- `/edit` of the image service runs models without the lease
  (`image_service.py:1288`; `/generate` takes it, at 1267), although docs/RUNTIME_LEASE_DIAGNOSTICS.md says that
  all image callers pass through it (`SubmitEdit` takes the slot and nothing else).
- an image job fails when the video service is offline (`runtime_coordinator.py:1189`),
  although docs/EXCLUSIVE_MODEL_HANDOFF.md says an unavailable model service is
  skipped (outcome "offline" of `Probe`).
- recovery of the queue requeues a dispatching job whose native job may run
  (`agent/media_queue.py:113`); with `Cancellable` empty and `MaxCrashes` 1 TLC
  finds `OneNativeAtATime` violated as well.
- the supervisor announces neither the stop of a model that does not answer
  (`agent/memory_model_supervisor.py:215`) nor the one at its exit (252): an
  extraction that waited for the lock is let through to a stopped model and its
  failure is counted, although docs/AUTOMATIC_MEMORY_SUPERVISOR.md:23 says that
  extraction defers without consuming the retry allowance.

- a role activation starts the chat model beside an exclusive job, because it gives
  the lease back before it loads (`agent/app.py:11840`), although
  docs/EXCLUSIVE_MODEL_HANDOFF.md:5 wants idle weights released before a large model
  is loaded, and no overlap (`ReleaseLease` and `ChatWork` of a job in `EnsureJobs`).
- a cancel that reaches a native job after its end is answered 409 and forwarded
  again for ever, which blocks the queue (`agent/media_queue.py:455`), although
  docs/PERFORMANCE_OBSERVATORY.md:83 lets the worker follow a job until it finishes
  (the exception in `OnlyLateCancelsBlock`).
- the supervisor may start its model, on a decision from before, beside a native
  job that began meanwhile (`agent/memory_model_supervisor.py:204`), although
  docs/AUTOMATIC_MEMORY_SUPERVISOR.md:13 rules that out; `AloneOnceReleased` is
  therefore about memory that was asked for and released.
- a cancel between the POST of a scene and the save of its child leaves the child
  running (`Record` writes nothing to a job that ended), although
  docs/SHORTS_STUDIO.md says cancellation includes active child jobs.
- an error early in the composition of a short is put down to the voiceover
  (`agent/shorts_jobs.py:740`, `VoiceStands`), so that its retry speaks again, although
  docs/SHORTS_STUDIO.md says a compose retry retains completed speech.
- the plan of a batch is saved before the checkpoints of the former plan are
  replaced (`agent/app.py:15224`): a run interrupted in between leaves checkpoints
  that the next run takes for its own, and the output mixes two versions of the input,
  although tests/test_batch_transform.py:518 has a resume ignore them
  (the exception `stale` in `CompletedIsWhole`).
- a cancel of a batch is overwritten by "paused" in controlled mode
  (`agent/app.py:15704`), by "running" when its worker starts (14633), by the
  completion of the free-text path (15127) and by that or the failure of an analysis
  (14326, 14330), although tests/test_batch_transform.py:989 says worker completion
  must not overwrite cancellation (`Progress`, `Begin`, `HeedsCancel`, `Fail`;
  `CancelStays` is stated for the rest).
- an interrupted analysis can be started again only as a transform, which it is not:
  it fails for want of an output path (`Prepare`). A paused job that is resumed after a
  restart is shown as running without a worker (`Resume`). Controlled mode is
  ignored by the free-text path (`Waits`).
- two batches on one input file share output and temporary file (`agent/batch_state.py:28`).
  One may replace or remove what the other wrote (`Replace`, `Unlink`), and since the file
  is opened and written in two steps (`agent/batch_processing.py:72`) a completed output
  may be empty or a mixture of both (`Assemble`, `Write`; the exception `clash` in
  `CompletedIsWhole`, without which TLC finds such an output).
- a transform whose first save fails (`agent/app.py:14638`) dies outside its `try`: the
  thread stays registered and the job keeps the status it had (`BeginUnsaved`).
- a queue job that is cancelled and then pruned while the 4B model is drained is posted
  (`agent/media_queue.py:308`, `Prepared`).
- `load_jobs` (`agent/batch_state.py:21`) answers a store it cannot read with an empty
  one, which the next `create_batch_job` writes back over all jobs.

## Not modelled

What remains that a model could reach: approvals (an in-memory table whose entries
are taken once under a lock), the recovery guards, media lifecycle (trash, restore
and purge against the file system), and revisions of shorts with edited scenes.

Not modelled, because a state model says little about it: the research and evidence
pipeline, prompts, knowledge extraction and the chat gateway (text heuristics over
one request; correctness is a matter of data and of what a language model answers),
image, video and speech providers (pure I/O and numeric work), code workspaces
(snapshots, patches and rollbacks of a working tree under one lock: a matter of file
contents), the proxy, the user interface, installation and maintenance scripts. These
make up most lines of the repository: `agent/app.py`, `agent/prompts.py`, the providers
and the frontend alone are more than half of them. The models therefore cover a small
share of all lines, but the larger part of those that coordinate jobs.
