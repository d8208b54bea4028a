--------------------------- MODULE ModelHandoff ---------------------------
(***************************************************************************)
(* How heavy jobs hand the unified memory to one another: image_runtime,   *)
(* video_runtime and chat_runtime of runtime_coordinator.py, run by the    *)
(* jobs of the image service, the video service and the agent.             *)
(*                                                                         *)
(* A job takes the lease (here in the abstract form that RuntimeLease      *)
(* implements), waits until the other services are idle, unloads their     *)
(* weights, stops the chat server if it has to, samples the memory until   *)
(* the load is admitted, works, restores chat and gives the lease back.    *)
(* Two kinds of job load weights without holding the lease: "ensure"       *)
(* (ensure_model_for_role outside a chat_runtime) and "edit" (the image    *)
(* service's synchronous /edit).                                           *)
(*                                                                         *)
(* A memory sample is abstracted to what the code decides from it: "ample",*)
(* "tight" (relief is needed) or "full" (the projected hard limit is       *)
(* reached).  Every sample is an arbitrary one, since other programs use   *)
(* the memory too.                                                         *)
(***************************************************************************)
EXTENDS Naturals, FiniteSets

CONSTANTS
  ImageJobs, VideoJobs, ChatJobs,    \* coordinated jobs of the three services
  EnsureJobs, EditJobs,              \* jobs that load weights without the lease
  Exclusive,                         \* jobs run with exclusive_models=True
  Sdxl,                              \* image jobs run with force_chat_unload=True
  NoJob,
  OfflineChoices,                    \* the sets of services that may be offline
  SettleAttempts,                    \* range(3) of the settling loops
  MaxSpeech                          \* bound on requests to speech and MuseTalk

Jobs == ImageJobs \cup VideoJobs \cup ChatJobs \cup EnsureJobs \cup EditJobs
MediaJobs == ImageJobs \cup VideoJobs
Optional == {"speech", "musetalk"}
Peers == Optional \cup {"image", "video"}
Samples == {"ample", "tight", "full"}

ASSUME JobsAssumption == /\ NoJob \notin Jobs
                         /\ Exclusive \subseteq Jobs
                         /\ Sdxl \subseteq ImageJobs
ASSUME KindsAssumption ==
  /\ ImageJobs \cap VideoJobs = {}
  /\ MediaJobs \cap (ChatJobs \cup EnsureJobs \cup EditJobs) = {}
  /\ ChatJobs \cap (EnsureJobs \cup EditJobs) = {}
  /\ EnsureJobs \cap EditJobs = {}
ASSUME BoundsAssumption == SettleAttempts \in Nat /\ MaxSpeech \in Nat
ASSUME OfflineAssumption == \A S \in OfflineChoices : S \subseteq Peers

VARIABLES
  pc,          \* stage of a job
  peer,        \* the service whose weights the job is releasing
  ctx,         \* the locals of the runtime context of a job
  cancelled,   \* cancel_event of a job
  restore,     \* restore_chat of a job and what became of it
  outcome,     \* how the job ended
  holder,      \* owner of the runtime lease
  slot,        \* the single-flight _lock of the image and the video service
  modelLock,   \* MODEL_RUNTIME_LOCK of the agent
  chatUp,      \* the chat server is loaded
  imageLoaded, \* the image service holds weights
  optional,    \* speech and MuseTalk: "cold", "warm" or "busy"
  speechLeft,  \* requests speech and MuseTalk may still get
  offline      \* services that do not answer

locks == <<holder, slot, modelLock>>
weights == <<chatUp, imageLoaded, optional>>
world == <<speechLeft, offline>>
vars == <<pc, peer, ctx, cancelled, restore, outcome, locks, weights, world>>

Stages == {"idle", "queued", "wait", "probe", "unload", "verify", "measure",
           "chatStop", "settle", "admit", "modelLock", "run", "restore",
           "release", "finish", "done"}
Outcomes == {"none", "ended", "stopFailed", "offline", "crashed"}

\* The locals: may image weights stay (keep), relief_needed, released_runtime,
\* the snapshot that admission will look at and whether weights were released
\* after it was taken (stale), memory_settle_attempts, suppress_chat_restore.
Contexts == [keep : BOOLEAN, relief : BOOLEAN, released : BOOLEAN,
             sample : Samples, stale : BOOLEAN, attempts : 0..SettleAttempts,
             suppress : BOOLEAN]
FreshContext(j) == [keep |-> j \in VideoJobs \ Exclusive, relief |-> FALSE,
                    released |-> FALSE, sample |-> "full", stale |-> TRUE,
                    attempts |-> 0, suppress |-> FALSE]

----------------------------------------------------------------------------
(* What the services report and decide *)

ServiceOf(j) == IF j \in VideoJobs THEN "video" ELSE "image"
OnService(j, s) == j \in MediaJobs \cup EditJobs /\ ServiceOf(j) = s

\* A queued job reports phase waiting_for_resources from the start of its
\* worker until the runtime context yields.
NeverWaiting(j) == FALSE
HandoffStages == {"probe", "unload", "verify", "measure", "chatStop", "settle", "admit"}
WaitingForResources(j) == pc[j] \in HandoffStages \cup {"wait"}

\* active_generation of a media service's /health.  The synchronous /edit is
\* not a job: the image service does not report it as active.
ActiveGeneration(s) == \E j \in MediaJobs : /\ OnService(j, s)
                                            /\ pc[j] \notin {"idle", "done"}
                                            /\ ~WaitingForResources(j)

IdleNow(s) == IF s \in Optional THEN optional[s] # "busy" ELSE ~ActiveGeneration(s)
Loaded(s) == IF s \in Optional THEN optional[s] = "warm" ELSE imageLoaded

\* The service's /unload answers 409 while it works or its slot is taken.
UnloadAlways(s) == FALSE
UnloadConflict(s) == IF s \in Optional THEN optional[s] = "busy"
                                       ELSE slot["image"] # NoJob

NeedsRelief(s) == s # "ample"
Crowded(s) == s = "full"

\* A new memory snapshot of a job, after everything it released so far.
Sampled(j, s) == [ctx[j] EXCEPT !.sample = s, !.stale = FALSE]

RestoreSuppressed(j) == ctx[j].suppress

\* Whether the job stops chat if it is loaded.
ReliefOnly(j) == ctx[j].relief
WantsChatStop(j) == ctx[j].relief \/ j \in Sdxl \cup Exclusive

SettleOnceMore(j) == ctx[j].released /\ Crowded(ctx[j].sample) /\ ctx[j].attempts <= SettleAttempts
MaySettle(j) == ctx[j].released /\ Crowded(ctx[j].sample) /\ ctx[j].attempts < SettleAttempts

----------------------------------------------------------------------------
Goto(j, stage) == pc' = [pc EXCEPT ![j] = stage]
Visit(j, s) == Goto(j, "probe") /\ peer' = [peer EXCEPT ![j] = s]
Set(j, c) == ctx' = [ctx EXCEPT ![j] = c]
Ends(j, how) == outcome' = [outcome EXCEPT ![j] = how]

\* An exception before the try block of the runtime leaves the lease at once.
Fail(j, how) == Goto(j, "release") /\ Ends(j, how) /\ UNCHANGED peer

\* Where a job goes when it is through with a peer.
AfterPeer(j, needsRelief) ==
  LET s == peer[j] IN
  CASE s \in {"image", "video"} /\ j \in MediaJobs -> Goto(j, "measure") /\ UNCHANGED peer
    [] s = "image" /\ j \notin MediaJobs /\ j \in Exclusive -> Visit(j, "speech")
    [] s = "speech" /\ (needsRelief \/ j \in Exclusive) -> Visit(j, "musetalk")
    [] j \in MediaJobs /\ s \in Optional -> Goto(j, "chatStop") /\ UNCHANGED peer
    [] j \in EnsureJobs /\ (s = "musetalk" \/ j \notin Exclusive)
         -> Goto(j, "release") /\ UNCHANGED peer
    [] OTHER -> Goto(j, "modelLock") /\ UNCHANGED peer

Init ==
  /\ pc = [j \in Jobs |-> "idle"]
  /\ peer = [j \in Jobs |-> "image"]
  /\ ctx = [j \in Jobs |-> FreshContext(j)]
  /\ cancelled = [j \in Jobs |-> FALSE]
  /\ restore = [j \in Jobs |-> "none"]
  /\ outcome = [j \in Jobs |-> "none"]
  /\ holder = NoJob
  /\ slot = [s \in {"image", "video"} |-> NoJob]
  /\ modelLock = NoJob
  /\ chatUp \in BOOLEAN
  /\ imageLoaded = FALSE
  /\ optional \in [Optional -> {"cold", "warm"}]
  /\ speechLeft = MaxSpeech
  /\ offline \in OfflineChoices

----------------------------------------------------------------------------
(* Submission and the lease *)

\* POST /jobs answers 409 while the slot is taken.
SubmitMedia(j) == /\ pc[j] = "idle"
                  /\ j \in MediaJobs
                  /\ ServiceOf(j) \notin offline
                  /\ slot[ServiceOf(j)] = NoJob
                  /\ slot' = [slot EXCEPT ![ServiceOf(j)] = j]
                  /\ Goto(j, "queued")
                  /\ UNCHANGED <<peer, ctx, cancelled, restore, outcome, holder,
                                 modelLock, weights, world>>

\* The worker thread reports waiting_for_resources and asks for the lease.
StartWorker(j) == /\ pc[j] = "queued"
                  /\ IF cancelled[j] THEN Goto(j, "finish") /\ Ends(j, "ended")
                                     ELSE Goto(j, "wait") /\ UNCHANGED outcome
                  /\ UNCHANGED <<peer, ctx, cancelled, restore, locks, weights, world>>

\* Chat and role activation ask for the lease before the model lock.
SubmitChat(j) == /\ pc[j] = "idle"
                 /\ j \in ChatJobs \cup EnsureJobs
                 /\ Goto(j, "wait")
                 /\ UNCHANGED <<peer, ctx, cancelled, restore, outcome, locks, weights, world>>

LeaseFree == holder = NoJob

GrantLease(j) == /\ pc[j] = "wait"
                 /\ LeaseFree
                 /\ ~cancelled[j]
                 /\ holder' = j
                 /\ Visit(j, IF j \in ImageJobs THEN "video" ELSE "image")
                 /\ UNCHANGED <<ctx, cancelled, restore, outcome, slot, modelLock,
                                weights, world>>

StopWaiting(j) == /\ pc[j] = "wait"
                  /\ cancelled[j]
                  /\ Goto(j, IF j \in MediaJobs THEN "finish" ELSE "done")
                  /\ Ends(j, "ended")
                  /\ UNCHANGED <<peer, ctx, cancelled, restore, locks, weights, world>>

\* The end of the lease is also the end of the runtime context.
ReleaseLease(j) == /\ pc[j] = "release"
                   /\ holder' = NoJob
                   /\ Set(j, FreshContext(j))
                   /\ Goto(j, CASE j \in MediaJobs -> "finish"
                                [] j \in EnsureJobs /\ outcome[j] = "none" -> "modelLock"
                                [] OTHER -> "done")
                   /\ UNCHANGED <<peer, cancelled, restore, outcome, slot, modelLock,
                                  weights, world>>

\* The media service records the end of the job and frees its slot.
Finish(j) == /\ pc[j] = "finish"
             /\ slot' = [slot EXCEPT ![ServiceOf(j)] = NoJob]
             /\ Goto(j, "done")
             /\ UNCHANGED <<peer, ctx, cancelled, restore, outcome, holder, modelLock,
                            weights, world>>

----------------------------------------------------------------------------
(* Releasing the weights of the other services *)

\* wait_for_idle: poll /health until the service is idle, then look whether
\* weights are loaded.  A chat shrugs off an offline image service, and every
\* job an offline speech or MuseTalk, or a MuseTalk too old to unload.  The
\* memory decides whether a video job that may keep image weights keeps them.
Probe(j) ==
  /\ pc[j] = "probe"
  /\ \/ cancelled[j] /\ Fail(j, "ended") /\ UNCHANGED ctx
     \/ /\ ~cancelled[j] /\ peer[j] \in offline
        /\ IF peer[j] \in Optional \/ j \notin MediaJobs
             THEN AfterPeer(j, ctx[j].relief) /\ UNCHANGED outcome
             ELSE Fail(j, "offline")
        /\ UNCHANGED ctx
     \/ /\ ~cancelled[j] /\ peer[j] \notin offline /\ IdleNow(peer[j])
        /\ UNCHANGED outcome
        /\ \/ /\ \/ peer[j] \in {"video", "musetalk"}
                 \/ ~Loaded(peer[j])
                 \/ peer[j] = "image" /\ ctx[j].keep
              /\ AfterPeer(j, ctx[j].relief)
              /\ Set(j, [ctx[j] EXCEPT !.keep = @ /\ Loaded(peer[j])])
           \/ /\ peer[j] # "video" /\ Loaded(peer[j])
              /\ Goto(j, "unload")
              /\ Set(j, [ctx[j] EXCEPT !.keep = FALSE])
              /\ UNCHANGED peer
  /\ UNCHANGED <<cancelled, restore, locks, weights, world>>

\* POST /unload; a request that arrived since the probe makes it a conflict.
Unload(j) ==
  /\ pc[j] = "unload"
  /\ \/ cancelled[j] /\ Fail(j, "ended") /\ UNCHANGED <<ctx, weights>>
     \/ ~cancelled[j] /\ UnloadConflict(peer[j]) /\ Fail(j, "ended") /\ UNCHANGED <<ctx, weights>>
     \/ /\ ~cancelled[j] /\ ~UnloadConflict(peer[j])
        /\ Goto(j, "verify")
        /\ Set(j, [ctx[j] EXCEPT !.stale = TRUE])
        /\ IF peer[j] \in Optional
             THEN optional' = [optional EXCEPT ![peer[j]] = "cold"] /\ UNCHANGED imageLoaded
             ELSE imageLoaded' = FALSE /\ UNCHANGED optional
        /\ UNCHANGED <<peer, outcome, chatUp>>
  /\ UNCHANGED <<cancelled, restore, locks, world>>

\* A second wait_for_idle verifies that the weights are gone; a media job then
\* takes a new snapshot, after image weights in its next step (Measure).
Verify(j) ==
  /\ pc[j] = "verify"
  /\ \/ cancelled[j] /\ Fail(j, "ended") /\ UNCHANGED ctx
     \/ /\ ~cancelled[j] /\ IdleNow(peer[j]) /\ Loaded(peer[j])
        /\ Fail(j, "ended")
        /\ UNCHANGED ctx
     \/ /\ ~cancelled[j] /\ IdleNow(peer[j]) /\ ~Loaded(peer[j])
        /\ IF j \in MediaJobs /\ peer[j] \in Optional
             THEN \E s \in Samples :
                    /\ Set(j, [Sampled(j, s) EXCEPT !.released = TRUE,
                                                    !.relief = NeedsRelief(s)])
                    /\ AfterPeer(j, NeedsRelief(s))
             ELSE /\ Set(j, [ctx[j] EXCEPT !.released = TRUE])
                  /\ AfterPeer(j, ctx[j].relief)
        /\ UNCHANGED outcome
  /\ UNCHANGED <<cancelled, restore, locks, weights, world>>

\* memory_before: a video job that kept image weights drops them after all if
\* the new snapshot is not ample, or too incomplete to tell.
Measure(j) ==
  /\ pc[j] = "measure"
  /\ \/ cancelled[j] /\ Fail(j, "ended") /\ UNCHANGED ctx
     \/ /\ ~cancelled[j]
        /\ \E s \in Samples, drop \in BOOLEAN :
             /\ drop => ctx[j].keep
             /\ ctx[j].keep /\ s # "ample" => drop
             /\ Set(j, [Sampled(j, s) EXCEPT !.relief = NeedsRelief(s),
                                             !.keep = @ /\ ~drop])
             /\ CASE drop -> Visit(j, "image")
                  [] ~drop /\ (NeedsRelief(s) \/ j \in Exclusive) -> Visit(j, "speech")
                  [] OTHER -> Goto(j, "chatStop") /\ UNCHANGED peer
        /\ UNCHANGED outcome
  /\ UNCHANGED <<cancelled, restore, locks, weights, world>>

----------------------------------------------------------------------------
(* Chat, settling and admission *)

ChatStopOldSample(j) ==
  /\ pc[j] = "chatStop"
  /\ Goto(j, "settle")
  /\ IF WantsChatStop(j) /\ chatUp
       THEN /\ restore' = [restore EXCEPT ![j] = "owed"]
            /\ Set(j, [ctx[j] EXCEPT !.stale = TRUE])
            /\ chatUp' = FALSE
       ELSE UNCHANGED <<ctx, restore, chatUp>>
  /\ UNCHANGED <<peer, cancelled, outcome, locks, imageLoaded, optional, world>>

\* chat_command("stop"), and the admission snapshot after it.  A stop that
\* fails or times out may or may not have stopped the server.
ChatStop(j) ==
  /\ pc[j] = "chatStop"
  /\ \/ /\ ~(WantsChatStop(j) /\ chatUp)
        /\ Goto(j, "settle")
        /\ UNCHANGED <<peer, ctx, restore, outcome, chatUp>>
     \/ /\ WantsChatStop(j) /\ chatUp
        /\ restore' = [restore EXCEPT ![j] = "owed"]
        /\ \/ /\ chatUp' = FALSE
              /\ \E s \in Samples : Set(j, [Sampled(j, s) EXCEPT !.released = TRUE])
              /\ Goto(j, "settle")
              /\ UNCHANGED <<peer, outcome>>
           \/ chatUp' \in BOOLEAN /\ Fail(j, "stopFailed") /\ UNCHANGED ctx
  /\ UNCHANGED <<cancelled, locks, imageLoaded, optional, world>>

\* Up to three new snapshots after a real release, each after a look at the
\* cancel event.  This loop stands before the try block that restores chat.
Settle(j) ==
  /\ pc[j] = "settle"
  /\ \/ ~MaySettle(j) /\ Goto(j, "admit") /\ UNCHANGED <<peer, ctx, outcome>>
     \/ MaySettle(j) /\ cancelled[j] /\ Fail(j, "ended") /\ UNCHANGED ctx
     \/ /\ MaySettle(j) /\ ~cancelled[j]
        /\ \E s \in Samples : Set(j, [Sampled(j, s) EXCEPT !.attempts = @ + 1])
        /\ UNCHANGED <<pc, peer, outcome>>
  /\ UNCHANGED <<cancelled, restore, locks, weights, world>>

\* The try block: cancelled, refused by ensure_model_load_allowed, or yielded.
Admit(j) ==
  /\ pc[j] = "admit"
  /\ \/ cancelled[j] /\ Goto(j, "restore") /\ Ends(j, "ended") /\ UNCHANGED imageLoaded
     \/ /\ ~cancelled[j] /\ Crowded(ctx[j].sample)
        /\ Goto(j, "restore")
        /\ Ends(j, "ended")
        /\ UNCHANGED imageLoaded
     \/ /\ ~cancelled[j] /\ ~Crowded(ctx[j].sample)
        /\ Goto(j, "run")
        /\ imageLoaded' = (imageLoaded \/ j \in ImageJobs)
        /\ UNCHANGED outcome
  /\ UNCHANGED <<peer, ctx, cancelled, restore, locks, chatUp, optional, world>>

\* The work, whatever its result.  An image provider unloads its weights when
\* it is through; a resident SDXL worker is shut down, and if that fails its
\* weights stay and suppress_chat_restore is set.
MediaWork(j) ==
  /\ pc[j] = "run" /\ j \in MediaJobs
  /\ Goto(j, "restore")
  /\ Ends(j, "ended")
  /\ \/ imageLoaded' = (imageLoaded /\ j \notin ImageJobs) /\ UNCHANGED ctx
     \/ j \in Sdxl /\ Set(j, [ctx[j] EXCEPT !.suppress = TRUE]) /\ UNCHANGED imageLoaded
  /\ UNCHANGED <<peer, cancelled, restore, locks, chatUp, optional, world>>

\* The finally of the runtime: chat is started again unless the memory is
\* unsafe or the restore is suppressed; a start that fails is reported.
RestoreChat(j) ==
  /\ pc[j] = "restore"
  /\ Goto(j, "release")
  /\ \/ restore[j] # "owed" /\ UNCHANGED <<chatUp, restore>>
     \/ /\ restore[j] = "owed"
        /\ restore' = [restore EXCEPT ![j] = "skipped"]
        /\ UNCHANGED chatUp
     \/ /\ restore[j] = "owed" /\ ~RestoreSuppressed(j)
        /\ \/ restore' = [restore EXCEPT ![j] = "started"] /\ chatUp' = TRUE
           \/ restore' = [restore EXCEPT ![j] = "startFailed"] /\ chatUp' \in BOOLEAN
  /\ UNCHANGED <<peer, ctx, cancelled, outcome, locks, imageLoaded, optional, world>>

----------------------------------------------------------------------------
(* Chat inference, role activation and direct edits *)

\* A cancelled chat gives up: before its context yields, or while it polls for
\* the model lock.
TakeModelLock(j) ==
  /\ pc[j] = "modelLock"
  /\ \/ /\ modelLock = NoJob
        /\ modelLock' = j
        /\ Goto(j, "run")
        /\ UNCHANGED <<peer, outcome>>
     \/ cancelled[j] /\ Fail(j, "ended") /\ UNCHANGED modelLock
  /\ UNCHANGED <<ctx, cancelled, restore, holder, slot, weights, world>>

\* ensure_model_for_role starts the chat model; a chat job then generates under
\* the lease, a role activation has given the lease back already.
ChatWork(j) ==
  /\ pc[j] = "run" /\ j \in ChatJobs \cup EnsureJobs
  /\ \/ ~chatUp /\ chatUp' = TRUE /\ UNCHANGED <<pc, modelLock, outcome>>
     \/ /\ modelLock' = NoJob
        /\ Ends(j, "ended")
        /\ Goto(j, IF j \in ChatJobs THEN "release" ELSE "done")
        /\ UNCHANGED chatUp
  /\ UNCHANGED <<peer, ctx, cancelled, restore, holder, slot, imageLoaded, optional, world>>

\* POST /edit takes the slot of the image service and nothing else.
SubmitEdit(j) == /\ pc[j] = "idle" /\ j \in EditJobs
                 /\ "image" \notin offline
                 /\ slot["image"] = NoJob
                 /\ slot' = [slot EXCEPT !["image"] = j]
                 /\ imageLoaded' = TRUE
                 /\ Goto(j, "run")
                 /\ UNCHANGED <<peer, ctx, cancelled, restore, outcome, holder, modelLock,
                                chatUp, optional, world>>

EditWork(j) == /\ pc[j] = "run" /\ j \in EditJobs
               /\ imageLoaded' = FALSE
               /\ Ends(j, "ended")
               /\ Goto(j, "finish")
               /\ UNCHANGED <<peer, ctx, cancelled, restore, locks, chatUp, optional, world>>

----------------------------------------------------------------------------
(* The environment *)

\* Role activation and /edit have no cancel event.
Cancel(j) == /\ pc[j] \notin {"idle", "done"}
             /\ j \in MediaJobs \cup ChatJobs
             /\ ~cancelled[j]
             /\ cancelled' = [cancelled EXCEPT ![j] = TRUE]
             /\ UNCHANGED <<pc, peer, ctx, restore, outcome, locks, weights, world>>

\* Speech and MuseTalk serve requests under their own locks, not the lease.
SpeechRequest(s) == /\ speechLeft > 0
                    /\ s \notin offline
                    /\ optional[s] # "busy"
                    /\ optional' = [optional EXCEPT ![s] = "busy"]
                    /\ speechLeft' = speechLeft - 1
                    /\ UNCHANGED <<pc, peer, ctx, cancelled, restore, outcome, locks,
                                   chatUp, imageLoaded, offline>>

SpeechAnswer(s) == /\ optional[s] = "busy"
                   /\ optional' = [optional EXCEPT ![s] = "warm"]
                   /\ UNCHANGED <<pc, peer, ctx, cancelled, restore, outcome, locks,
                                  chatUp, imageLoaded, world>>

\* A media service dies with its job: the kernel frees the lease, launchd
\* starts the service again, and what the handoff owed is forgotten.
Crash(j) == /\ j \in MediaJobs
            /\ pc[j] \notin {"idle", "done"}
            /\ Goto(j, "done")
            /\ Ends(j, "crashed")
            /\ Set(j, FreshContext(j))
            /\ holder' = IF holder = j THEN NoJob ELSE holder
            /\ slot' = [slot EXCEPT ![ServiceOf(j)] = NoJob]
            /\ imageLoaded' = (imageLoaded /\ j \notin ImageJobs)
            /\ UNCHANGED <<peer, cancelled, restore, modelLock, chatUp, optional, world>>

----------------------------------------------------------------------------
Submit(j) == SubmitMedia(j) \/ SubmitChat(j) \/ SubmitEdit(j)

Work(j) == MediaWork(j) \/ ChatWork(j) \/ EditWork(j)

Advance(j) == \/ StartWorker(j) \/ GrantLease(j) \/ StopWaiting(j)
              \/ Probe(j) \/ Unload(j) \/ Verify(j) \/ Measure(j)
              \/ ChatStop(j) \/ Settle(j) \/ Admit(j) \/ TakeModelLock(j)
              \/ Work(j) \/ RestoreChat(j) \/ ReleaseLease(j) \/ Finish(j)

AllDone == /\ \A j \in Jobs : pc[j] \in {"idle", "done"}
           /\ UNCHANGED vars

Next == \/ \E j \in Jobs : Submit(j) \/ Advance(j) \/ Cancel(j) \/ Crash(j)
        \/ \E s \in Optional : SpeechRequest(s) \/ SpeechAnswer(s)
        \/ AllDone

Safe == Init /\ [][Next]_vars

\* A thread that can go on does, work and speech requests end.  A thread that
\* polls for the lease gets it if it is free often enough (strong fairness is
\* not needed: every job asks once).
Spec == /\ Safe
        /\ \A j \in Jobs : WF_vars(Advance(j))
        /\ \A s \in Optional : WF_vars(SpeechAnswer(s))

----------------------------------------------------------------------------
(* Properties *)

StageTypes == pc \in [Jobs -> Stages] /\ peer \in [Jobs -> Peers]
ContextTypes == ctx \in [Jobs -> Contexts]
RecordTypes == /\ cancelled \in [Jobs -> BOOLEAN]
               /\ restore \in [Jobs -> {"none", "owed", "started", "skipped", "startFailed"}]
               /\ outcome \in [Jobs -> Outcomes]
LockTypes == /\ holder \in Jobs \cup {NoJob}
             /\ slot \in [{"image", "video"} -> Jobs \cup {NoJob}]
             /\ modelLock \in Jobs \cup {NoJob}
WeightTypes == /\ chatUp \in BOOLEAN /\ imageLoaded \in BOOLEAN
               /\ optional \in [Optional -> {"cold", "warm", "busy"}]

\* Every variable has its type.
TypeOK == /\ StageTypes /\ ContextTypes /\ RecordTypes /\ LockTypes /\ WeightTypes
          /\ speechLeft \in 0..MaxSpeech

\* While an exclusive media job works, the chat model is not resident, a video
\* job shares the memory with no image weights, and no other coordinated job
\* works ("prefer a cold start over overlapping allocations").
NoWeightsBesideExclusiveJob ==
  \A j \in MediaJobs \cap Exclusive : pc[j] = "run" =>
    /\ ~chatUp
    /\ j \in VideoJobs => ~imageLoaded
    /\ \A k \in Jobs \ {j} : pc[k] # "run"

\* A media job loads its model only on a snapshot that is below the limit and
\* was taken after the last release it made: none of the paths through speech,
\* MuseTalk, chat and settling carries an older snapshot to the admission.
AdmissionOnFreshSample ==
  \A j \in MediaJobs : pc[j] = "run" => ~ctx[j].stale /\ ~Crowded(ctx[j].sample)

\* The handoff unloads weights only of a service that is not using them: image
\* weights never disappear under an image job, whoever asked for the unload.
NoUnloadUnderWork ==
  [][\A j \in ImageJobs \cup EditJobs : pc[j] = "run" /\ pc'[j] = "run" => imageLoaded']_vars

\* Jobs do not wait for one another in a circle (the lease, the slots of the
\* services, the model lock and the polling for idle services): all end.
JobsEnd == \A j \in Jobs : pc[j] # "idle" ~> pc[j] = "done"

\* Doc claim (docs/EXCLUSIVE_MODEL_HANDOFF.md): after a media job chat is
\* restarted if it was running and the memory guards allow it, so a job that
\* stopped chat and ended, by success, refusal or cancellation, never just
\* forgets it.
ChatNeverForgotten ==
  \A j \in MediaJobs : pc[j] = "done" /\ outcome[j] = "ended" => restore[j] # "owed"

Lease == INSTANCE ExclusiveLease WITH
           Clients <- Jobs, Nobody <- NoJob,
           waiting <- {j \in Jobs : pc[j] = "wait"}, owner <- holder

\* The handoff uses the lease as the abstract lease allows: it neither takes it
\* from its owner nor keeps it after the job.
UsesLease == Lease!LeaseSpec
==========================================================================
