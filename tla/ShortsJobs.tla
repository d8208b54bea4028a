---------------------------- MODULE ShortsJobs ----------------------------
(***************************************************************************)
(* Shorts Studio: durable jobs that render scene after scene as jobs of    *)
(* the media queue, add a voiceover and compose the result                 *)
(* (agent/shorts_jobs.py, agent/shorts_consistency_runtime.py).  A job has *)
(* at most one worker thread; cancel calls, chat deletion, retries         *)
(* (agent/shorts_studio.py) and project deletion                           *)
(* (agent/shorts_studio_routes.py) run in threads of their own, and        *)
(* everything except the jobs file, the media files and the media queue is *)
(* lost when the agent restarts.                                           *)
(*                                                                         *)
(* status is a function of phase and is not kept beside it.  A scene's     *)
(* image (keyframe) or video is rendered by a child, a job of the media    *)
(* queue, which ends some day; what happens to it there is the subject of  *)
(* MediaQueue.  Timestamps, progress, music, subtitles and diagnosis are   *)
(* left out, and so is the refusal of a child (the worker asks again): the *)
(* media queue accepts every one of these jobs.                            *)
(***************************************************************************)
EXTENDS Naturals, FiniteSets

CONSTANTS
  Jobs,        \* short jobs
  Fresh,       \* those created from a chat or a draft; the others are retries
  Consistent,  \* jobs in consistency mode: keyframe first, then its video
  NoJob,
  NumScenes,
  MaxFresh,    \* bound on the shorts that are created
  MaxChildren, \* bound on the jobs the media queue is given
  MaxRestarts, \* bound on restarts of the agent
  MaxCalls     \* bound on cancel calls

ASSUME JobsAssumption == Fresh \subseteq Jobs /\ Consistent \subseteq Jobs /\ NoJob \notin Jobs
ASSUME NumbersAssumption == /\ NumScenes \in Nat \ {0}
                            /\ MaxFresh \in Nat /\ MaxChildren \in Nat
                            /\ MaxRestarts \in Nat /\ MaxCalls \in Nat

VARIABLES
  job,     \* jobs.json: see JobRecord
  voice,   \* the voiceover file in the directory of a job exists
  final,   \* its final.mp4 exists
  child,   \* the media queue: see ChildRecord
  worker,  \* the worker thread of a job: see WorkerRecord
  caller,  \* stage of the cancel call for a job
  held,    \* children that an ending process read from the job
  maker,   \* the retry under way: see MakerRecord
  restarts, calls

files == <<voice, final>>
vars == <<job, voice, final, child, worker, caller, held, maker, restarts, calls>>

Scenes == 1..NumScenes
Children == 1..MaxChildren
None == 0

Running == {"keyframe", "video", "tts", "compose"}
Active == {"queued", "video_completed", "tts_completed"} \cup Running
Terminal == {"completed", "failed", "cancelled"}
Gone == {"absent", "deleted"}
Phases == Active \cup Terminal \cup Gone

Kinds == {"image", "video"}
\* clips and frames: scenes with a completed video or keyframe; plain: scenes
\* whose keyframe is rendered without the character anchor; spoken: tts_status
\* is completed; track: the job whose directory tts_path points into.
JobRecord == [phase : Phases, cancel : BOOLEAN, clips : SUBSET Scenes, frames : SUBSET Scenes,
              plain : SUBSET Scenes, image : Children \cup {None}, video : Children \cup {None},
              spoken : BOOLEAN, track : Jobs, parent : Jobs \cup {NoJob}]
ChildRecord == [owner : Jobs \cup {NoJob}, scene : Scenes, kind : Kinds,
                state : {"none", "active", "asked", "completed", "failed", "cancelled"}]
Pcs == {"none", "begin", "mark", "scene", "post", "record", "poll", "seen", "take", "after",
        "tts", "speak", "speaking", "write", "heard", "voiced",
        "compose", "mix", "render", "rendered", "publish",
        "error", "fail", "ending", "asking", "committing"}
WorkerRecord == [pc : Pcs,
                 scene : Scenes, kind : Kinds, child : Children \cup {None},
                 seen : {"active", "completed", "failed", "cancelled"},
                 late : BOOLEAN]  \* in the handler of a job whose videos are complete
Stages == {"idle", "snapshot", "flag", "ending", "asking", "committing"}
MakerRecord == [pc : {"idle", "create", "fill", "speech", "start"},
                from : Jobs \cup {NoJob}, to : Jobs \cup {NoJob}, clips : SUBSET Scenes, frames : SUBSET Scenes,
                spoken : BOOLEAN, track : Jobs \cup {NoJob}]

NewJob(j) == [phase |-> "queued", cancel |-> FALSE, clips |-> {}, frames |-> {}, plain |-> {},
              image |-> None, video |-> None, spoken |-> FALSE, track |-> j, parent |-> NoJob]
NoRetry == [pc |-> "idle", from |-> NoJob, to |-> NoJob, clips |-> {}, frames |-> {},
            spoken |-> FALSE, track |-> NoJob]
Idle == [pc |-> "none", scene |-> 1, kind |-> "video", child |-> None, seen |-> "active", late |-> FALSE]

Is(j, phases) == job[j].phase \in phases
Exists(j) == ~Is(j, Gone)

SaveAlways(j, new) == job' = [job EXCEPT ![j] = new]
\* _update_job: nothing is written to a job that has ended.
Save(j, new) == job' = IF Is(j, Active) THEN [job EXCEPT ![j] = new] ELSE job

Ended(s) == s \in {"completed", "failed", "cancelled"}
Unfinished == {c \in Children : child[c].state \in {"active", "asked"}}
Asked(cs) == [c \in Children |-> IF c \in cs /\ child[c].state = "active"
                                 THEN [child[c] EXCEPT !.state = "asked"] ELSE child[c]]
Unused == {c \in Children : child[c].state = "none"}

----------------------------------------------------------------------------
Init ==
  /\ job = [j \in Jobs |-> [NewJob(j) EXCEPT !.phase = "absent"]]
  /\ voice = [j \in Jobs |-> FALSE] /\ final = [j \in Jobs |-> FALSE]
  /\ child = [c \in Children |-> [owner |-> NoJob, scene |-> 1, kind |-> "video", state |-> "none"]]
  /\ worker = [j \in Jobs |-> Idle]
  /\ caller = [j \in Jobs |-> "idle"]
  /\ held = [j \in Jobs |-> [worker |-> {}, caller |-> {}]]
  /\ maker = NoRetry
  /\ restarts = 0 /\ calls = 0

----------------------------------------------------------------------------
(* The worker: run_short_job and run_consistent_short_job *)

At(j, pc) == worker[j].pc = pc
Goto(j, pc) == worker' = [worker EXCEPT ![j].pc = pc]
\* What a worker knows of a child is forgotten with the child.
Leaves(j, pc) == worker' = [worker EXCEPT ![j] = [Idle EXCEPT !.pc = pc, !.late = worker[j].late]]
Finish(j) == worker' = [worker EXCEPT ![j] = Idle]
OnlyWorker == UNCHANGED <<caller, held, maker, restarts, calls>>

Begin(j) ==
  /\ At(j, "begin")
  /\ \/ Is(j, Terminal) /\ Finish(j)
     \/ Is(j, Active) /\ job[j].cancel /\ Goto(j, "ending")
     \/ /\ Is(j, {"video_completed", "tts_completed"}) /\ ~job[j].cancel
        /\ worker' = [worker EXCEPT ![j].pc = "after", ![j].late = TRUE]
     \/ Is(j, {"queued"} \cup Running) /\ ~job[j].cancel /\ Goto(j, "mark")
  /\ UNCHANGED <<job, files, child>> /\ OnlyWorker

Mark(j) ==
  /\ At(j, "mark")
  /\ Save(j, [job[j] EXCEPT !.phase = IF j \notin Consistent THEN "video"
                                      ELSE IF @ = "video" THEN "video" ELSE "keyframe"])
  /\ Goto(j, "scene")
  /\ UNCHANGED <<files, child>> /\ OnlyWorker

\* The first scene without a video; its keyframe comes first.
MissingMedia(j) == Scenes \ (job[j].clips \cup job[j].frames)
Missing(j) == Scenes \ job[j].clips
NextByIndex(j) == Cardinality(job[j].clips) + 2
NextScene(j) == CHOOSE s \in Missing(j) : \A t \in Missing(j) : s <= t
NextKind(j) == IF j \in Consistent /\ NextScene(j) \notin job[j].frames THEN "image" ELSE "video"
RecordedVideo(j) == job[j].video
Recorded(j) == IF NextKind(j) = "image" THEN job[j].image ELSE job[j].video

NextChild(j) ==
  /\ At(j, "scene")
  /\ \/ Is(j, Terminal) /\ Finish(j)
     \/ Is(j, Active) /\ job[j].cancel /\ Goto(j, "ending")
     \/ /\ Is(j, Active) /\ ~job[j].cancel /\ Missing(j) # {}
        /\ worker' = [worker EXCEPT ![j].pc = IF Recorded(j) = None THEN "post" ELSE "poll",
                                    ![j].scene = NextScene(j), ![j].kind = NextKind(j),
                                    ![j].child = Recorded(j)]
  /\ UNCHANGED <<job, files, child>> /\ OnlyWorker

\* All videos are there.  A job in consistency mode enters the original worker.
VideosComplete(j) ==
  /\ At(j, "scene") /\ Is(j, Active) /\ ~job[j].cancel /\ Missing(j) = {}
  /\ Save(j, [job[j] EXCEPT !.phase = "video_completed", !.image = None, !.video = None])
  /\ Goto(j, IF j \in Consistent THEN "begin" ELSE "after")
  /\ UNCHANGED <<files, child>> /\ OnlyWorker

Post(j) ==
  /\ At(j, "post")
  /\ \E c \in Unused :
       /\ \A d \in Unused : c <= d
       /\ child' = [child EXCEPT ![c] = [owner |-> j, scene |-> worker[j].scene,
                                         kind |-> worker[j].kind, state |-> "active"]]
       /\ worker' = [worker EXCEPT ![j].pc = "record", ![j].child = c]
  /\ UNCHANGED <<job, files>> /\ OnlyWorker

WithChild(j) ==
  IF worker[j].kind = "image"
  THEN [job[j] EXCEPT !.image = worker[j].child, !.video = None, !.phase = "keyframe"]
  ELSE [job[j] EXCEPT !.image = None, !.video = worker[j].child, !.phase = "video"]
Record(j) ==
  /\ At(j, "record")
  /\ Save(j, WithChild(j))
  /\ Goto(j, "poll")
  /\ UNCHANGED <<files, child>> /\ OnlyWorker

Poll(j) ==
  /\ At(j, "poll")
  /\ LET s == child[worker[j].child].state IN
       worker' = [worker EXCEPT ![j].pc = "seen", ![j].seen = IF Ended(s) THEN s ELSE "active"]
  /\ UNCHANGED <<job, files, child>> /\ OnlyWorker

\* The cancel flag goes before whatever the child said.
Seen(j) ==
  /\ At(j, "seen")
  /\ IF job[j].cancel THEN Leaves(j, "ending")
     ELSE IF worker[j].seen = "active" THEN Leaves(j, "scene") ELSE Goto(j, "take")
  /\ UNCHANGED <<job, files, child>> /\ OnlyWorker

WithResult(j) ==
  IF worker[j].kind = "image"
  THEN [job[j] EXCEPT !.frames = @ \cup {worker[j].scene}, !.image = None, !.phase = "video"]
  ELSE [job[j] EXCEPT !.clips = @ \cup {worker[j].scene}, !.video = None,
                      !.phase = IF j \in Consistent THEN "keyframe" ELSE @]
\* A flag that was set meanwhile is looked at once more, but not everywhere.
LooksAgain(j) == \/ worker[j].seen = "cancelled"
                 \/ worker[j].seen = "completed" /\ j \notin Consistent
StopInstead(j) ==
  /\ At(j, "take") /\ LooksAgain(j) /\ job[j].cancel
  /\ Leaves(j, "ending")
  /\ UNCHANGED <<job, files, child>> /\ OnlyWorker

TakeResult(j) ==
  /\ At(j, "take") /\ worker[j].seen = "completed"
  /\ ~(LooksAgain(j) /\ job[j].cancel)
  /\ Save(j, WithResult(j))
  /\ Leaves(j, "scene")
  /\ UNCHANGED <<files, child>> /\ OnlyWorker

\* An image model that cannot edit the anchor: the keyframe is asked for once more.
WithoutAnchor(j) ==
  /\ At(j, "take") /\ worker[j].seen = "failed"
  /\ worker[j].kind = "image" /\ worker[j].scene > 1 /\ worker[j].scene \notin job[j].plain
  /\ Save(j, [job[j] EXCEPT !.image = None, !.plain = @ \cup {worker[j].scene}])
  /\ Leaves(j, "scene")
  /\ UNCHANGED <<files, child>> /\ OnlyWorker

Failed(j) == IF j \in Consistent THEN [job[j] EXCEPT !.phase = "failed", !.image = None, !.video = None]
             ELSE [job[j] EXCEPT !.phase = "failed"]
ChildLost(j) ==
  /\ At(j, "take") /\ worker[j].seen \in {"failed", "cancelled"}
  /\ ~(LooksAgain(j) /\ job[j].cancel)
  /\ Save(j, Failed(j))
  /\ Finish(j)
  /\ UNCHANGED <<files, child>> /\ OnlyWorker

After(j) ==
  /\ At(j, "after")
  /\ \/ Is(j, {"video_completed"}) /\ Goto(j, "tts")
     \/ Is(j, {"tts_completed"}) /\ Goto(j, "compose")
     \/ ~Is(j, {"video_completed", "tts_completed"}) /\ Finish(j)
  /\ UNCHANGED <<job, files, child>> /\ OnlyWorker

----------------------------------------------------------------------------
(* Voiceover and composition: _run_tts and _run_compose *)

Tts(j) ==
  /\ At(j, "tts")
  /\ \/ job[j].cancel /\ Goto(j, "ending") /\ UNCHANGED job
     \/ /\ ~job[j].cancel /\ voice[job[j].track]
        /\ Save(j, [job[j] EXCEPT !.phase = "tts_completed", !.spoken = TRUE])
        /\ Goto(j, "after")
     \/ ~job[j].cancel /\ ~voice[job[j].track] /\ Goto(j, "speak") /\ UNCHANGED job
  /\ UNCHANGED <<files, child>> /\ OnlyWorker

Speak(j) ==
  /\ At(j, "speak")
  /\ Save(j, [job[j] EXCEPT !.phase = "tts", !.spoken = FALSE])
  /\ Goto(j, "speaking")
  /\ UNCHANGED <<files, child>> /\ OnlyWorker

Spoken(j) ==
  /\ At(j, "speaking")
  /\ Goto(j, IF job[j].cancel THEN "ending" ELSE "write")
  /\ UNCHANGED <<job, files, child>> /\ OnlyWorker

WriteVoice(j) ==
  /\ At(j, "write")
  /\ voice' = [voice EXCEPT ![j] = TRUE]
  /\ Goto(j, "heard")
  /\ UNCHANGED <<job, final, child>> /\ OnlyWorker

CheckVoice(j) ==
  /\ At(j, "heard")
  /\ voice' = [voice EXCEPT ![j] = ~job[j].cancel]
  /\ Goto(j, IF job[j].cancel THEN "ending" ELSE "voiced")
  /\ UNCHANGED <<job, final, child>> /\ OnlyWorker

Voiced(j) ==
  /\ At(j, "voiced")
  /\ Save(j, [job[j] EXCEPT !.phase = "tts_completed", !.spoken = TRUE, !.track = j])
  /\ Goto(j, "after")
  /\ UNCHANGED <<files, child>> /\ OnlyWorker

Completed(j) == [job[j] EXCEPT !.phase = "completed"]

\* A result that an earlier life of the agent left is taken as it is.
Compose(j) ==
  /\ At(j, "compose")
  /\ \/ job[j].cancel /\ Goto(j, "ending") /\ UNCHANGED job
     \/ ~job[j].cancel /\ final[j] /\ Finish(j) /\ Save(j, Completed(j))
     \/ ~job[j].cancel /\ ~final[j] /\ Goto(j, "mix") /\ UNCHANGED job
  /\ UNCHANGED <<files, child>> /\ OnlyWorker

Mix(j) ==
  /\ At(j, "mix")
  /\ Save(j, [job[j] EXCEPT !.phase = "compose"])
  /\ Goto(j, IF job[j].cancel THEN "ending" ELSE "render")
  /\ UNCHANGED <<files, child>> /\ OnlyWorker

\* FFmpeg needs the voiceover, and is stopped when the flag is seen.
Render(j) ==
  /\ At(j, "render")
  /\ \/ job[j].cancel /\ Goto(j, "ending") /\ UNCHANGED final
     \/ /\ voice[job[j].track]
        /\ final' = [final EXCEPT ![j] = TRUE]
        /\ Goto(j, "rendered")
  /\ UNCHANGED <<job, voice, child>> /\ OnlyWorker

CheckFinal(j) ==
  /\ At(j, "rendered")
  /\ final' = [final EXCEPT ![j] = ~job[j].cancel]
  /\ Goto(j, IF job[j].cancel THEN "ending" ELSE "publish")
  /\ UNCHANGED <<job, voice, child>> /\ OnlyWorker

Publish(j) ==
  /\ At(j, "publish")
  /\ Save(j, Completed(j))
  /\ Finish(j)
  /\ UNCHANGED <<files, child>> /\ OnlyWorker

----------------------------------------------------------------------------
(* Errors: the preflight, a request, the speech service, a missing track or *)
(* FFmpeg                                                                    *)

Error(j) ==
  /\ \/ worker[j].pc \in {"post", "poll", "take", "speaking", "mix", "render"}
     \/ At(j, "scene") /\ j \in Consistent
  /\ Leaves(j, "error")
  /\ UNCHANGED <<job, files, child>> /\ OnlyWorker

HandleError(j) ==
  /\ At(j, "error")
  /\ Goto(j, IF job[j].cancel THEN "ending" ELSE "fail")
  /\ UNCHANGED <<job, files, child>> /\ OnlyWorker

\* The handler of a job whose videos are complete blames the voiceover for
\* whatever happened before the phase "compose".
VoiceStands(j) == job[j].spoken /\ (IF worker[j].late THEN Is(j, {"compose"}) ELSE ~Is(j, {"tts"}))
Fail(j) ==
  /\ At(j, "fail")
  /\ Save(j, IF worker[j].late THEN [job[j] EXCEPT !.phase = "failed", !.spoken = VoiceStands(j)]
             ELSE [Failed(j) EXCEPT !.spoken = VoiceStands(j)])
  /\ Finish(j)
  /\ UNCHANGED <<files, child>> /\ OnlyWorker

----------------------------------------------------------------------------
(* _finish_cancelled, by the worker and by a cancel call *)

Ids(j) == {job[j].image, job[j].video} \ {None}

\* Best effort: the request that cancels a child may fail.
Asks(cs) == child' = Asked(cs) \/ UNCHANGED child

Cancelled(j) ==
  [job[j] EXCEPT !.phase = "cancelled", !.cancel = TRUE, !.image = None, !.video = None]
\* Unlike _update_job it rewrites a failed job; a deleted one is a KeyError.
SaveCancelled(j) == job' = IF Is(j, Gone \cup {"completed"}) THEN job
                           ELSE [job EXCEPT ![j] = Cancelled(j)]

WorkerReads(j) == /\ At(j, "ending")
                  /\ held' = [held EXCEPT ![j].worker = Ids(j)]
                  /\ Goto(j, "asking")
                  /\ UNCHANGED <<job, files, child, caller, maker, restarts, calls>>
WorkerAsks(j) == /\ At(j, "asking")
                 /\ Asks(held[j].worker)
                 /\ Goto(j, "committing")
                 /\ UNCHANGED <<job, files>> /\ OnlyWorker
WorkerCommits(j) == /\ At(j, "committing")
                    /\ SaveCancelled(j)
                    /\ held' = [held EXCEPT ![j].worker = {}]
                    /\ Finish(j)
                    /\ UNCHANGED <<files, child, caller, maker, restarts, calls>>

OnlyCaller == UNCHANGED <<files, worker, maker, restarts>>
CallerAt(j, stage) == caller[j] = stage
CallGoesTo(j, stage) == caller' = [caller EXCEPT ![j] = stage]

\* cancel_short_job: 409 for a job that has ended.
Cancel(j) ==
  /\ CallerAt(j, "idle") /\ calls < MaxCalls
  /\ Is(j, Active)
  /\ CallGoesTo(j, "flag") /\ calls' = calls + 1
  /\ UNCHANGED <<job, child, held>> /\ OnlyCaller

\* A chat is deleted: its jobs of the media queue are cancelled before its shorts.
CancelChat(j) ==
  /\ CallerAt(j, "idle") /\ calls < MaxCalls
  /\ Exists(j)
  /\ child' = Asked(Children)
  /\ CallGoesTo(j, "snapshot") /\ calls' = calls + 1
  /\ UNCHANGED <<job, held>> /\ OnlyCaller

Snapshot(j) ==
  /\ CallerAt(j, "snapshot")
  /\ CallGoesTo(j, IF Is(j, Active) THEN "flag" ELSE "idle")
  /\ UNCHANGED <<job, child, held, calls>> /\ OnlyCaller

Flag(j) ==
  /\ CallerAt(j, "flag")
  /\ Save(j, [job[j] EXCEPT !.cancel = TRUE])
  /\ CallGoesTo(j, IF Exists(j) THEN "ending" ELSE "idle")
  /\ UNCHANGED <<child, held, calls>> /\ OnlyCaller

CallerReads(j) == /\ CallerAt(j, "ending")
                  /\ held' = [held EXCEPT ![j].caller = Ids(j)]
                  /\ CallGoesTo(j, IF Exists(j) THEN "asking" ELSE "idle")
                  /\ UNCHANGED <<job, child, calls>> /\ OnlyCaller
CallerAsks(j) == /\ CallerAt(j, "asking")
                 /\ Asks(held[j].caller)
                 /\ CallGoesTo(j, "committing")
                 /\ UNCHANGED <<job, held, calls>> /\ OnlyCaller
CallerCommits(j) == /\ CallerAt(j, "committing")
                    /\ SaveCancelled(j)
                    /\ held' = [held EXCEPT ![j].caller = {}]
                    /\ CallGoesTo(j, "idle")
                    /\ UNCHANGED <<child, calls>> /\ OnlyCaller

----------------------------------------------------------------------------
(* Creation, retry and deletion *)

\* start_short_job: one worker per job.
Started(j) == worker' = IF Is(j, Active) /\ At(j, "none")
                        THEN [worker EXCEPT ![j].pc = "begin"] ELSE worker

\* create_short_job and start_short_job of a chat or a draft, in one step: a
\* job without a thread can be cancelled, as it can before its thread's first
\* look, and only then be deleted; the thread that starts nevertheless finds
\* nothing to do and ends at that look.
Create(j) ==
  /\ j \in Fresh /\ Is(j, {"absent"})
  /\ Cardinality({k \in Fresh : ~Is(k, {"absent"})}) < MaxFresh
  /\ job' = [job EXCEPT ![j] = NewJob(j)]
  /\ worker' = [worker EXCEPT ![j].pc = "begin"]
  /\ UNCHANGED <<files, child, caller, held, maker, restarts, calls>>

MakerAt(stage) == maker.pc = stage
MakerDone == maker' = NoRetry
OnlyMaker == UNCHANGED <<files, child, caller, held, restarts, calls>>

\* retry_short_job reads the source ...
Retry(j, k) ==
  /\ MakerAt("idle")
  /\ Is(j, {"failed", "cancelled"})
  /\ k \notin Fresh /\ Is(k, {"absent"})
  /\ maker' = [pc |-> "create", from |-> j, to |-> k, clips |-> job[j].clips,
               frames |-> job[j].frames, spoken |-> job[j].spoken, track |-> job[j].track]
  /\ UNCHANGED <<job, worker>> /\ OnlyMaker

\* ... again in create_project_revision, where it may be gone ...
RetryLosesSource ==
  /\ MakerAt("create") /\ ~Exists(maker.from)
  /\ MakerDone
  /\ UNCHANGED <<job, worker>> /\ OnlyMaker

\* ... (a deletion after that read does not matter), creates a job like any other ...
RetryCreates ==
  /\ MakerAt("create")
  /\ job' = [job EXCEPT ![maker.to] = NewJob(maker.to)]
  /\ maker' = [maker EXCEPT !.pc = "fill"]
  /\ UNCHANGED worker /\ OnlyMaker

\* ... gives it the finished media ...
RetryFills ==
  /\ MakerAt("fill")
  /\ Save(maker.to, [job[maker.to] EXCEPT !.clips = maker.clips, !.frames = maker.frames,
                                          !.parent = maker.from])
  /\ maker' = [maker EXCEPT !.pc = "speech"]
  /\ UNCHANGED worker /\ OnlyMaker

\* ... and a voiceover that still exists ...
Reusable == maker.spoken /\ voice[maker.track]
RetrySpeech ==
  /\ MakerAt("speech")
  /\ Save(maker.to, IF Reusable THEN [job[maker.to] EXCEPT !.spoken = TRUE, !.track = maker.track]
                    ELSE job[maker.to])
  /\ maker' = [maker EXCEPT !.pc = "start"]
  /\ UNCHANGED worker /\ OnlyMaker

\* ... and starts it.
RetryStarts ==
  /\ MakerAt("start")
  /\ Started(maker.to)
  /\ MakerDone
  /\ UNCHANGED job /\ OnlyMaker

\* Revisions with the same first short: those that parents which still exist link.
HasParent(j) == Exists(j) /\ job[j].parent # NoJob /\ Exists(job[j].parent)
Linked(S) == \A j \in Jobs : HasParent(j) => (j \in S <=> job[j].parent \in S)
JustJob(j) == {j}
Chain(j) == {k \in Jobs : Exists(k) /\ \A S \in SUBSET Jobs : Linked(S) /\ j \in S => k \in S}

\* _delete_project_from_store, and the files unless the agent ends in between.
StatusOnly(j) == FALSE
WorkerIsActive(j) == ~At(j, "none")
Delete(j) ==
  /\ Exists(j)
  /\ \A k \in Chain(j) : ~Is(k, Active) /\ ~WorkerIsActive(k)
  /\ job' = [k \in Jobs |-> IF k \in Chain(j) THEN [NewJob(k) EXCEPT !.phase = "deleted"] ELSE job[k]]
  /\ \E removed \in {{}, Chain(j)} :
       /\ voice' = [k \in Jobs |-> voice[k] /\ k \notin removed]
       /\ final' = [k \in Jobs |-> final[k] /\ k \notin removed]
  /\ UNCHANGED <<child, worker, caller, held, maker, restarts, calls>>

----------------------------------------------------------------------------
(* The agent ends and starts again: resume_short_jobs *)

ResumedVideos(j) == Is(j, {"queued"} \cup Running) /\ ~job[j].cancel
Resumed(j) == Is(j, Active) /\ ~job[j].cancel
Restart ==
  /\ restarts < MaxRestarts
  /\ worker' = [j \in Jobs |-> IF Resumed(j) THEN [Idle EXCEPT !.pc = "begin"] ELSE Idle]
  /\ caller' = [j \in Jobs |-> "idle"]
  /\ held' = [j \in Jobs |-> [worker |-> {}, caller |-> {}]]
  /\ MakerDone
  /\ restarts' = restarts + 1
  /\ UNCHANGED <<job, files, child, calls>>

\* The media queue finishes a job, also one that somebody cancels there.
ChildEnds(c) ==
  /\ c \in Unfinished
  /\ \E s \in {"completed", "failed", "cancelled"} : child' = [child EXCEPT ![c].state = s]
  /\ UNCHANGED <<job, files, worker>> /\ OnlyWorker

Videos(j) == \/ Begin(j) \/ Mark(j) \/ NextChild(j) \/ VideosComplete(j) \/ Post(j) \/ Record(j)
             \/ Poll(j) \/ Seen(j) \/ StopInstead(j) \/ TakeResult(j) \/ WithoutAnchor(j)
             \/ ChildLost(j) \/ After(j)
Sound(j) == Tts(j) \/ Speak(j) \/ Spoken(j) \/ WriteVoice(j) \/ CheckVoice(j) \/ Voiced(j)
Composition(j) == Compose(j) \/ Mix(j) \/ Render(j) \/ CheckFinal(j) \/ Publish(j)
Handling(j) == HandleError(j) \/ Fail(j)
Ending(j) == WorkerReads(j) \/ WorkerAsks(j) \/ WorkerCommits(j)
Work(j) == Videos(j) \/ Sound(j) \/ Composition(j) \/ Handling(j) \/ Ending(j)
Call(j) == Snapshot(j) \/ Flag(j) \/ CallerReads(j) \/ CallerAsks(j) \/ CallerCommits(j)
Make == RetryLosesSource \/ RetryCreates \/ RetryFills \/ RetrySpeech \/ RetryStarts

Next == \/ \E j \in Jobs : \/ Work(j) \/ Error(j) \/ Cancel(j) \/ CancelChat(j) \/ Call(j)
                           \/ Create(j) \/ Delete(j)
        \/ \E j, k \in Jobs : Retry(j, k)
        \/ Make
        \/ Restart
        \/ \E c \in Children : ChildEnds(c)

Safe == Init /\ [][Next]_vars

\* Threads run, and the media queue finishes what it was given.
Spec == /\ Safe
        /\ \A j \in Jobs : WF_vars(Work(j)) /\ WF_vars(Call(j))
        /\ WF_vars(Make)
        /\ \A c \in Children : WF_vars(ChildEnds(c))

----------------------------------------------------------------------------
(* Properties *)

\* Every variable has its type.
TypeOK == /\ job \in [Jobs -> JobRecord]
          /\ voice \in [Jobs -> BOOLEAN] /\ final \in [Jobs -> BOOLEAN]
          /\ child \in [Children -> ChildRecord]
          /\ worker \in [Jobs -> WorkerRecord]
          /\ caller \in [Jobs -> Stages]
          /\ held \in [Jobs -> [worker : SUBSET Children, caller : SUBSET Children]]
          /\ maker \in MakerRecord
          /\ restarts \in 0..MaxRestarts /\ calls \in 0..MaxCalls

\* A completed short has a video of every scene and its result on disk, whatever
\* cancels, errors, restarts and deletions came before (shorts_jobs.py:686, 697:
\* the result is unlinked for a cancel, and published when it exists).
CompletedIsWhole ==
  \A j \in Jobs : Is(j, {"completed"}) => job[j].clips = Scenes /\ final[j]

\* A completed short keeps its voiceover, also when it lies in the directory of
\* the short it is a revision of: a deletion takes the whole chain or nothing
\* (shorts_studio_routes.py:53-70).
VoiceoverStays == \A j \in Jobs : Is(j, {"completed"}) => voice[job[j].track]

\* "The durable parent state still prevents consumption" (shorts_jobs.py:479):
\* until it is deleted a short that was completed or cancelled stays as it is,
\* and a failed one at most becomes a cancelled one, although its worker and
\* its children go on.
NothingConsumedAfterEnd ==
  [][\A j \in Jobs : Is(j, Terminal) =>
       \/ job'[j].phase = "deleted"
       \/ /\ job'[j].phase \in {job[j].phase} \cup (IF Is(j, {"failed"}) THEN {"cancelled"} ELSE {})
          /\ job'[j].clips = job[j].clips /\ job'[j].frames = job[j].frames
          /\ job'[j].spoken = job[j].spoken
          /\ {job'[j].image, job'[j].video} \subseteq {job[j].image, job[j].video, None}]_vars

\* At most one child of a short is unfinished, and a scene is not rendered
\* twice, except that each restart of the agent may repeat one request that it
\* cut off from its record (shorts_jobs.py:806-819).
Owned(j) == {c \in Children : child[c].owner = j}
For(j, s, k) == {c \in Owned(j) : child[c].scene = s /\ child[c].kind = k}
RepeatedOnlyAfterRestart ==
  \A j \in Jobs : Exists(j) =>
    /\ Cardinality(Owned(j) \cap Unfinished) <= 1 + restarts
    /\ \A s \in Scenes, k \in Kinds :
         Cardinality(For(j, s, k)) <= 1 + restarts + (IF k = "image" /\ s \in job[j].plain THEN 1 ELSE 0)

\* A worker never outlives the record of its job (shorts_studio_routes.py:227).
WorkersHaveJobs == \A j \in Jobs : ~At(j, "none") => Exists(j)

\* Every short ends, unless the agent ended between the two steps of a cancel:
\* the flag keeps the job from being resumed (shorts_jobs.py:975, 1002).
CutShort(j) == job[j].cancel /\ restarts > 0
EndsUnlessCutShort == \A j \in Jobs : Is(j, Active) ~> ~Is(j, Active) \/ CutShort(j)
=============================================================================
