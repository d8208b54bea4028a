------------------------- MODULE ShortsJobsProofs -------------------------
(***************************************************************************)
(* Proofs about ShortsJobs for any number of shorts, scenes, children,     *)
(* restarts and calls: types; a worker has a job that has not completed;   *)
(* a completed short has all its videos and its result; an ended short     *)
(* consumes nothing; a completed short keeps its voiceover; and no scene   *)
(* is rendered twice without a restart.                                    *)
(***************************************************************************)
EXTENDS ShortsJobs, WellFoundedInduction, FiniteSetTheorems, TLAPS

\* The parts of TypeOK.
JobsTyped == job \in [Jobs -> JobRecord]
FilesTyped == voice \in [Jobs -> BOOLEAN] /\ final \in [Jobs -> BOOLEAN]
ChildrenTyped == child \in [Children -> ChildRecord]
WorkersTyped == worker \in [Jobs -> WorkerRecord]
CallersTyped == /\ caller \in [Jobs -> Stages]
                /\ held \in [Jobs -> [worker : SUBSET Children, caller : SUBSET Children]]
                /\ restarts \in 0..MaxRestarts /\ calls \in 0..MaxCalls
MakerTyped == maker \in MakerRecord

\* A retry under way knows which job it makes, and from what.
MakerKnows == maker.pc # "idle" => maker.from \in Jobs /\ maker.to \in Jobs /\ maker.track \in Jobs

Typed == JobsTyped /\ FilesTyped /\ ChildrenTyped /\ WorkersTyped /\ CallersTyped /\ MakerTyped /\ MakerKnows

----------------------------------------------------------------------------
(* The records that the actions write *)

LEMMA PhaseNames ==
  Phases = Phases \cup {"queued", "keyframe", "video", "video_completed", "tts", "tts_completed", "compose",
                        "completed", "failed", "cancelled", "absent", "deleted"}
  BY DEF Phases, Active, Running, Terminal, Gone

\* What a worker writes of its job.
LEMMA WrittenTyped ==
  ASSUME JobsTyped, WorkersTyped, NEW j \in Jobs
  PROVE  /\ NewJob(j) \in JobRecord
         /\ WithChild(j) \in JobRecord
         /\ WithResult(j) \in JobRecord
         /\ Failed(j) \in JobRecord
         /\ Completed(j) \in JobRecord
         /\ Cancelled(j) \in JobRecord
<1>1. worker[j].scene \in Scenes /\ worker[j].child \in Children \cup {None}
  BY DEF WorkersTyped, WorkerRecord
<1>2. job[j] \in JobRecord
  BY DEF JobsTyped
<1>3. NewJob(j) \in JobRecord
  BY PhaseNames DEF NewJob, JobRecord
<1>4. WithChild(j) \in JobRecord
  BY <1>1, <1>2, PhaseNames DEF WithChild, JobRecord
<1>5. WithResult(j) \in JobRecord
  <2> DEFINE p == IF j \in Consistent THEN "keyframe" ELSE job[j].phase
  <2>1. p \in Phases /\ "video" \in Phases
    BY <1>2, PhaseNames DEF JobRecord
  <2>2. [job[j] EXCEPT !.clips = @ \cup {worker[j].scene}, !.video = None, !.phase = p] \in JobRecord
    <3> HIDE DEF p
    <3> QED
      BY <1>1, <1>2, <2>1 DEF JobRecord
  <2>3. [job[j] EXCEPT !.frames = @ \cup {worker[j].scene}, !.image = None, !.phase = "video"] \in JobRecord
    BY <1>1, <1>2, <2>1 DEF JobRecord
  <2> QED
    BY <2>2, <2>3 DEF WithResult
<1>6. Failed(j) \in JobRecord
  BY <1>2, PhaseNames DEF Failed, JobRecord
<1>7. Completed(j) \in JobRecord
  BY <1>2, PhaseNames DEF Completed, JobRecord
<1>8. Cancelled(j) \in JobRecord
  BY <1>2, PhaseNames DEF Cancelled, JobRecord
<1> QED
  BY <1>3, <1>4, <1>5, <1>6, <1>7, <1>8

\* A set of numbers has a least one, which the choice of the next scene relies on.
LEMMA LeastNat ==
  ASSUME NEW S, S \subseteq Nat, S # {}
  PROVE  \E s \in S : \A t \in S : s <= t
<1>1. PICK s \in S : \A t \in S : ~ (<<t, s>> \in OpToRel(<, Nat))
  BY NatLessThanWellFounded, WFMin
<1>2. \A t \in S : ~ (t < s)
  BY <1>1 DEF OpToRel
<1> QED
  BY <1>2

LEMMA IdleTyped == Idle \in WorkerRecord /\ NoRetry \in MakerRecord /\ 1 \in Scenes
  BY NumbersAssumption DEF Idle, NoRetry, WorkerRecord, MakerRecord, Scenes, Pcs, Kinds

\* Writing a typed record keeps the types of the jobs file.
LEMMA SaveTyped ==
  ASSUME JobsTyped, NEW j \in Jobs, NEW new \in JobRecord, Save(j, new)
  PROVE  JobsTyped'
  BY DEF JobsTyped, Save

\* A worker that goes on, or forgets its child, stays a worker.
LEMMA GotoTyped ==
  ASSUME WorkersTyped, NEW j \in Jobs, NEW pc \in Pcs, Goto(j, pc) \/ Leaves(j, pc) \/ Finish(j)
  PROVE  WorkersTyped'
<1>1. worker[j] \in WorkerRecord /\ Idle \in WorkerRecord
  BY IdleTyped DEF WorkersTyped
<1>2. [worker[j] EXCEPT !.pc = pc] \in WorkerRecord
  BY <1>1 DEF WorkerRecord
<1>3. [Idle EXCEPT !.pc = pc, !.late = worker[j].late] \in WorkerRecord
  BY <1>1 DEF WorkerRecord
<1> QED
  BY <1>1, <1>2, <1>3 DEF WorkersTyped, Goto, Leaves, Finish

----------------------------------------------------------------------------
(* Types *)

\* What no worker touches keeps its type.
LEMMA RestTyped ==
  ASSUME Typed, OnlyWorker
  PROVE  CallersTyped' /\ MakerTyped' /\ MakerKnows'
  BY DEF Typed, OnlyWorker, CallersTyped, MakerTyped, MakerKnows

LEMMA VideosTyped ==
  ASSUME Typed, NEW j \in Jobs, Videos(j)
  PROVE  Typed'
<1>1. JobsTyped /\ WorkersTyped /\ ChildrenTyped /\ FilesTyped
  BY DEF Typed
<1>2. worker[j] \in WorkerRecord /\ job[j] \in JobRecord
  BY <1>1 DEF WorkersTyped, JobsTyped
<1>3. OnlyWorker /\ UNCHANGED files
  BY DEF Videos, Begin, Mark, NextChild, VideosComplete, Post, Record, Poll, Seen, StopInstead, TakeResult,
         WithoutAnchor, ChildLost, After, files, OnlyWorker
<1>4. SUFFICES JobsTyped' /\ ChildrenTyped' /\ WorkersTyped'
  BY <1>1, <1>3, RestTyped DEF Typed, FilesTyped, files
<1>5. CASE Begin(j)
  <2>1. [worker[j] EXCEPT !.pc = "after", !.late = TRUE] \in WorkerRecord
    BY <1>2 DEF WorkerRecord, Pcs
  <2>2. CASE worker' = [worker EXCEPT ![j].pc = "after", ![j].late = TRUE]
    BY <1>1, <1>5, <2>1, <2>2 DEF Begin, WorkersTyped, JobsTyped, ChildrenTyped
  <2>3. CASE Finish(j) \/ Goto(j, "ending") \/ Goto(j, "mark")
    BY <1>1, <1>5, <2>3, GotoTyped DEF Begin, Pcs, JobsTyped, ChildrenTyped
  <2> QED
    BY <1>5, <2>2, <2>3 DEF Begin
<1>6. CASE Mark(j)
  <2> DEFINE p == IF j \notin Consistent THEN "video" ELSE IF job[j].phase = "video" THEN "video" ELSE "keyframe"
  <2>1. p \in Phases
    BY PhaseNames
  <2>2. [job[j] EXCEPT !.phase = p] \in JobRecord
    <3> HIDE DEF p
    <3> QED
      BY <1>2, <2>1 DEF JobRecord
  <2> QED
    BY <1>1, <1>6, <2>2, SaveTyped, GotoTyped DEF Mark, Pcs, ChildrenTyped
<1>7. CASE NextChild(j)
  <2>1. CASE Missing(j) # {} /\ ~Finish(j) /\ ~Goto(j, "ending")
    <3>1. NextScene(j) \in Scenes
      <4>1. Missing(j) \subseteq Nat /\ Missing(j) # {} /\ Missing(j) \subseteq Scenes
        BY <2>1 DEF Missing, Scenes
      <4>2. \E s \in Missing(j) : \A t \in Missing(j) : s <= t
        BY <4>1, LeastNat
      <4> QED
        BY <4>1, <4>2 DEF NextScene
    <3>2. NextKind(j) \in Kinds
      BY DEF NextKind, Kinds
    <3>3. Recorded(j) \in Children \cup {None}
      BY <1>2 DEF Recorded, JobRecord
    <3>4. \A pc \in Pcs : [worker[j] EXCEPT !.pc = pc, !.scene = NextScene(j), !.kind = NextKind(j),
                                            !.child = Recorded(j)] \in WorkerRecord
      <4> HIDE DEF NextScene, NextKind, Recorded
      <4> QED
        BY <1>2, <3>1, <3>2, <3>3 DEF WorkerRecord
    <3>5. PICK pc \in Pcs : worker' = [worker EXCEPT ![j].pc = pc, ![j].scene = NextScene(j), ![j].kind = NextKind(j),
                                            ![j].child = Recorded(j)]
      BY <1>7, <2>1 DEF NextChild, Pcs
    <3> QED
      BY <1>1, <1>7, <3>4, <3>5 DEF NextChild, WorkersTyped, JobsTyped, ChildrenTyped
  <2>2. CASE Finish(j) \/ Goto(j, "ending")
    BY <1>1, <1>7, <2>2, GotoTyped DEF NextChild, Pcs, JobsTyped, ChildrenTyped
  <2> QED
    BY <1>7, <2>1, <2>2 DEF NextChild
<1>8. CASE VideosComplete(j)
  <2>1. [job[j] EXCEPT !.phase = "video_completed", !.image = None, !.video = None] \in JobRecord
    BY <1>2, PhaseNames DEF JobRecord
  <2> QED
    BY <1>1, <1>8, <2>1, SaveTyped, GotoTyped DEF VideosComplete, Pcs, ChildrenTyped
<1>9. CASE Post(j)
  <2> PICK c \in Unused :
         /\ child' = [child EXCEPT ![c] = [owner |-> j, scene |-> worker[j].scene,
                                            kind |-> worker[j].kind, state |-> "active"]]
         /\ worker' = [worker EXCEPT ![j].pc = "record", ![j].child = c]
    BY <1>9 DEF Post
  <2>1. c \in Children
    BY DEF Unused
  <2>2. [owner |-> j, scene |-> worker[j].scene, kind |-> worker[j].kind, state |-> "active"] \in ChildRecord
    BY <1>2 DEF ChildRecord, WorkerRecord
  <2>3. [worker[j] EXCEPT !.pc = "record", !.child = c] \in WorkerRecord
    BY <1>2, <2>1 DEF WorkerRecord, Pcs
  <2> QED
    BY <1>1, <1>9, <2>1, <2>2, <2>3 DEF Post, ChildrenTyped, WorkersTyped, JobsTyped
<1>10. CASE Record(j)
  BY <1>1, <1>10, WrittenTyped, SaveTyped, GotoTyped DEF Record, Pcs, ChildrenTyped
<1>11. CASE Poll(j)
  <2>1. PICK s \in {"active", "completed", "failed", "cancelled"} :
           worker' = [worker EXCEPT ![j].pc = "seen", ![j].seen = s]
    BY <1>11 DEF Poll, Ended
  <2>2. [worker[j] EXCEPT !.pc = "seen", !.seen = s] \in WorkerRecord
    BY <1>2 DEF WorkerRecord, Pcs
  <2> QED
    BY <1>1, <1>11, <2>1, <2>2 DEF Poll, WorkersTyped, JobsTyped, ChildrenTyped
<1>12. CASE Seen(j)
  BY <1>1, <1>12, GotoTyped DEF Seen, Pcs, JobsTyped, ChildrenTyped
<1>13. CASE StopInstead(j)
  BY <1>1, <1>13, GotoTyped DEF StopInstead, Pcs, JobsTyped, ChildrenTyped
<1>14. CASE TakeResult(j)
  BY <1>1, <1>14, WrittenTyped, SaveTyped, GotoTyped DEF TakeResult, Pcs, ChildrenTyped
<1>15. CASE WithoutAnchor(j)
  <2>1. [job[j] EXCEPT !.image = None, !.plain = @ \cup {worker[j].scene}] \in JobRecord
    BY <1>2 DEF JobRecord, WorkerRecord
  <2> QED
    BY <1>1, <1>15, <2>1, SaveTyped, GotoTyped DEF WithoutAnchor, Pcs, ChildrenTyped
<1>16. CASE ChildLost(j)
  BY <1>1, <1>16, WrittenTyped, SaveTyped, GotoTyped DEF ChildLost, Pcs, ChildrenTyped
<1>17. CASE After(j)
  BY <1>1, <1>17, GotoTyped DEF After, Pcs, JobsTyped, ChildrenTyped
<1> QED
  BY <1>5, <1>6, <1>7, <1>8, <1>9, <1>10, <1>11, <1>12, <1>13, <1>14, <1>15, <1>16, <1>17 DEF Videos
LEMMA SoundTyped ==
  ASSUME Typed, NEW j \in Jobs, Sound(j) \/ Composition(j)
  PROVE  Typed'
<1>1. JobsTyped /\ WorkersTyped /\ ChildrenTyped /\ FilesTyped
  BY DEF Typed
<1>2. worker[j] \in WorkerRecord /\ job[j] \in JobRecord
  BY <1>1 DEF WorkersTyped, JobsTyped
<1>3. OnlyWorker /\ UNCHANGED child
  BY DEF Sound, Composition, Tts, Speak, Spoken, WriteVoice, CheckVoice, Voiced, Compose, Mix, Render, CheckFinal,
         Publish, OnlyWorker
<1>4. FilesTyped'
  <2>1. job[j].cancel \in BOOLEAN
    BY <1>2 DEF JobRecord
  <2>2. CASE WriteVoice(j) \/ CheckVoice(j)
    BY <1>1, <2>1, <2>2 DEF WriteVoice, CheckVoice, FilesTyped
  <2>3. CASE Render(j) \/ CheckFinal(j)
    BY <1>1, <2>1, <2>3 DEF Render, CheckFinal, FilesTyped
  <2>4. CASE UNCHANGED files
    BY <1>1, <2>4 DEF files, FilesTyped
  <2> QED
    BY <2>2, <2>3, <2>4
       DEF Sound, Composition, Tts, Speak, Spoken, Voiced, Compose, Mix, Publish
<1>5. SUFFICES JobsTyped' /\ WorkersTyped'
  BY <1>1, <1>3, <1>4, RestTyped DEF Typed, ChildrenTyped
<1>6. CASE Tts(j)
  <2>1. [job[j] EXCEPT !.phase = "tts_completed", !.spoken = TRUE] \in JobRecord
    BY <1>2, PhaseNames DEF JobRecord
  <2> QED
    BY <1>1, <1>6, <2>1, SaveTyped, GotoTyped DEF Tts, Pcs, JobsTyped
<1>7. CASE Speak(j)
  <2>1. [job[j] EXCEPT !.phase = "tts", !.spoken = FALSE] \in JobRecord
    BY <1>2, PhaseNames DEF JobRecord
  <2> QED
    BY <1>1, <1>7, <2>1, SaveTyped, GotoTyped DEF Speak, Pcs
<1>8. CASE Spoken(j)
  BY <1>1, <1>8, GotoTyped DEF Spoken, Pcs, JobsTyped
<1>9. CASE WriteVoice(j)
  BY <1>1, <1>9, GotoTyped DEF WriteVoice, Pcs, JobsTyped
<1>10. CASE CheckVoice(j)
  BY <1>1, <1>10, GotoTyped DEF CheckVoice, Pcs, JobsTyped
<1>11. CASE Voiced(j)
  <2>1. [job[j] EXCEPT !.phase = "tts_completed", !.spoken = TRUE, !.track = j] \in JobRecord
    BY <1>2, PhaseNames DEF JobRecord
  <2> QED
    BY <1>1, <1>11, <2>1, SaveTyped, GotoTyped DEF Voiced, Pcs
<1>12. CASE Compose(j)
  BY <1>1, <1>12, WrittenTyped, SaveTyped, GotoTyped DEF Compose, Pcs, JobsTyped
<1>13. CASE Mix(j)
  <2>1. [job[j] EXCEPT !.phase = "compose"] \in JobRecord
    BY <1>2, PhaseNames DEF JobRecord
  <2> QED
    BY <1>1, <1>13, <2>1, SaveTyped, GotoTyped DEF Mix, Pcs
<1>14. CASE Render(j)
  BY <1>1, <1>14, GotoTyped DEF Render, Pcs, JobsTyped
<1>15. CASE CheckFinal(j)
  BY <1>1, <1>15, GotoTyped DEF CheckFinal, Pcs, JobsTyped
<1>16. CASE Publish(j)
  BY <1>1, <1>16, WrittenTyped, SaveTyped, GotoTyped DEF Publish, Pcs
<1> QED
  BY <1>6, <1>7, <1>8, <1>9, <1>10, <1>11, <1>12, <1>13, <1>14, <1>15, <1>16 DEF Sound, Composition

LEMMA AskedTyped ==
  ASSUME ChildrenTyped, NEW cs
  PROVE  Asked(cs) \in [Children -> ChildRecord]
<1>1. \A c \in Children : [child[c] EXCEPT !.state = "asked"] \in ChildRecord
  BY DEF ChildrenTyped, ChildRecord
<1> QED
  BY <1>1 DEF Asked, ChildrenTyped

LEMMA EndingTyped ==
  ASSUME Typed, NEW j \in Jobs, Error(j) \/ Handling(j) \/ Ending(j)
  PROVE  Typed'
<1>1. JobsTyped /\ WorkersTyped /\ ChildrenTyped /\ FilesTyped /\ CallersTyped /\ MakerTyped /\ MakerKnows
  BY DEF Typed
<1>2. worker[j] \in WorkerRecord /\ job[j] \in JobRecord
  BY <1>1 DEF WorkersTyped, JobsTyped
<1>3. UNCHANGED <<files, caller, maker, restarts, calls>>
  BY DEF Error, Handling, Ending, HandleError, Fail, WorkerReads, WorkerAsks, WorkerCommits, OnlyWorker, files
<1>4. SUFFICES JobsTyped' /\ WorkersTyped' /\ ChildrenTyped' /\ held' \in [Jobs -> [worker : SUBSET Children, caller : SUBSET Children]]
  BY <1>1, <1>3 DEF Typed, FilesTyped, CallersTyped, MakerTyped, MakerKnows, files
<1>5. held \in [Jobs -> [worker : SUBSET Children, caller : SUBSET Children]]
  BY <1>1 DEF CallersTyped
<1>6. CASE Error(j)
  BY <1>1, <1>5, <1>6, GotoTyped DEF Error, Pcs, JobsTyped, ChildrenTyped, OnlyWorker
<1>7. CASE HandleError(j)
  BY <1>1, <1>5, <1>7, GotoTyped DEF HandleError, Pcs, JobsTyped, ChildrenTyped, OnlyWorker
<1>8. CASE Fail(j)
  <2>1. \A b \in BOOLEAN : /\ [job[j] EXCEPT !.phase = "failed", !.spoken = b] \in JobRecord
                           /\ [Failed(j) EXCEPT !.spoken = b] \in JobRecord
    <3>1. Failed(j) \in JobRecord
      BY <1>1, WrittenTyped
    <3> HIDE DEF Failed
    <3> QED
      BY <1>2, <3>1, PhaseNames DEF JobRecord
  <2>2. VoiceStands(j) \in BOOLEAN
    <3>1. job[j].spoken \in BOOLEAN
      BY <1>2 DEF JobRecord
    <3> QED
      BY <3>1 DEF VoiceStands, Is
  <2>3. \E new \in JobRecord : Save(j, new)
    BY <1>8, <2>1, <2>2 DEF Fail
  <2> QED
    BY <1>1, <1>5, <1>8, <2>3, SaveTyped, GotoTyped DEF Fail, Pcs, ChildrenTyped, OnlyWorker
<1>9. CASE WorkerReads(j)
  <2>1. Ids(j) \subseteq Children
    BY <1>2 DEF Ids, JobRecord
  <2>2. held' \in [Jobs -> [worker : SUBSET Children, caller : SUBSET Children]]
    BY <1>5, <1>9, <2>1 DEF WorkerReads
  <2> QED
    BY <1>1, <1>9, <2>2, GotoTyped DEF WorkerReads, Pcs, JobsTyped, ChildrenTyped
<1>10. CASE WorkerAsks(j)
  BY <1>1, <1>5, <1>10, GotoTyped, AskedTyped DEF WorkerAsks, Asks, Pcs, JobsTyped, ChildrenTyped, OnlyWorker
<1>11. CASE WorkerCommits(j)
  <2>1. JobsTyped'
    BY <1>1, <1>11, WrittenTyped DEF WorkerCommits, SaveCancelled, JobsTyped
  <2>2. held' \in [Jobs -> [worker : SUBSET Children, caller : SUBSET Children]]
    BY <1>5, <1>11 DEF WorkerCommits
  <2> QED
    BY <1>1, <1>11, <2>1, <2>2, GotoTyped DEF WorkerCommits, Pcs, ChildrenTyped
<1> QED
  BY <1>6, <1>7, <1>8, <1>9, <1>10, <1>11 DEF Handling, Ending

LEMMA CallsTyped ==
  ASSUME Typed, NEW j \in Jobs, Cancel(j) \/ CancelChat(j) \/ Call(j)
  PROVE  Typed'
<1> USE NumbersAssumption
<1>1. JobsTyped /\ WorkersTyped /\ ChildrenTyped /\ FilesTyped /\ CallersTyped /\ MakerTyped /\ MakerKnows
  BY DEF Typed
<1>2. job[j] \in JobRecord
  BY <1>1 DEF JobsTyped
<1>3. OnlyCaller
  BY DEF Cancel, CancelChat, Call, Snapshot, Flag, CallerReads, CallerAsks, CallerCommits, OnlyCaller
<1>4. SUFFICES JobsTyped' /\ ChildrenTyped' /\ CallersTyped'
  BY <1>1, <1>3 DEF OnlyCaller, files, Typed, WorkersTyped, FilesTyped, MakerTyped, MakerKnows
<1>5. \A stage \in Stages : CallGoesTo(j, stage) => caller' \in [Jobs -> Stages]
  BY <1>1 DEF CallersTyped, CallGoesTo
<1>6. CASE Cancel(j)
  BY <1>1, <1>3, <1>5, <1>6 DEF Cancel, Stages, OnlyCaller, CallersTyped, JobsTyped, ChildrenTyped
<1>7. CASE CancelChat(j)
  BY <1>1, <1>3, <1>5, <1>7, AskedTyped DEF CancelChat, Stages, OnlyCaller, CallersTyped, JobsTyped, ChildrenTyped
<1>8. CASE Snapshot(j)
  BY <1>1, <1>3, <1>5, <1>8 DEF Snapshot, Stages, OnlyCaller, CallersTyped, JobsTyped, ChildrenTyped
<1>9. CASE Flag(j)
  <2>1. [job[j] EXCEPT !.cancel = TRUE] \in JobRecord
    BY <1>2 DEF JobRecord
  <2> QED
    BY <1>1, <1>3, <1>5, <1>9, <2>1, SaveTyped DEF Flag, Stages, OnlyCaller, CallersTyped, ChildrenTyped
<1>10. CASE CallerReads(j)
  <2>1. Ids(j) \subseteq Children
    BY <1>2 DEF Ids, JobRecord
  <2>2. held' \in [Jobs -> [worker : SUBSET Children, caller : SUBSET Children]]
    BY <1>1, <1>10, <2>1 DEF CallerReads, CallersTyped
  <2> QED
    BY <1>1, <1>3, <1>5, <1>10, <2>2 DEF CallerReads, Stages, OnlyCaller, CallersTyped, JobsTyped, ChildrenTyped
<1>11. CASE CallerAsks(j)
  BY <1>1, <1>3, <1>5, <1>11, AskedTyped
     DEF CallerAsks, Asks, Stages, OnlyCaller, CallersTyped, JobsTyped, ChildrenTyped
<1>12. CASE CallerCommits(j)
  <2>1. JobsTyped'
    BY <1>1, <1>12, WrittenTyped DEF CallerCommits, SaveCancelled, JobsTyped
  <2>2. held' \in [Jobs -> [worker : SUBSET Children, caller : SUBSET Children]]
    BY <1>1, <1>12 DEF CallerCommits, CallersTyped
  <2> QED
    BY <1>1, <1>3, <1>5, <1>12, <2>1, <2>2 DEF CallerCommits, Stages, OnlyCaller, CallersTyped, ChildrenTyped
<1> QED
  BY <1>6, <1>7, <1>8, <1>9, <1>10, <1>11, <1>12 DEF Call

LEMMA MakingTyped ==
  ASSUME Typed,
         \/ \E j \in Jobs : Create(j) \/ Delete(j)
         \/ \E j, k \in Jobs : Retry(j, k)
         \/ Make
         \/ Restart
         \/ \E c \in Children : ChildEnds(c)
  PROVE  Typed'
<1> USE NumbersAssumption
<1>1. JobsTyped /\ WorkersTyped /\ ChildrenTyped /\ FilesTyped /\ CallersTyped /\ MakerTyped /\ MakerKnows
  BY DEF Typed
<1>2. ASSUME NEW j \in Jobs PROVE worker[j] \in WorkerRecord /\ job[j] \in JobRecord /\ NewJob(j) \in JobRecord
  BY <1>1, WrittenTyped DEF WorkersTyped, JobsTyped
<1>3. ASSUME NEW j \in Jobs, NEW pc \in Pcs PROVE [worker[j] EXCEPT !.pc = pc] \in WorkerRecord
  BY <1>2 DEF WorkerRecord
<1>4. CASE \E j \in Jobs : Create(j)
  <2> PICK j \in Jobs : Create(j)
    BY <1>4
  <2>1. JobsTyped' /\ WorkersTyped'
    BY <1>1, <1>2, <1>3 DEF Create, JobsTyped, WorkersTyped, Pcs
  <2> QED
    BY <1>1, <2>1 DEF Create, files, Typed, ChildrenTyped, FilesTyped, CallersTyped, MakerTyped, MakerKnows
<1>5. CASE \E j \in Jobs : Delete(j)
  <2> PICK j \in Jobs : Delete(j)
    BY <1>5
  <2>1. \A k \in Jobs : [NewJob(k) EXCEPT !.phase = "deleted"] \in JobRecord
    BY <1>2, PhaseNames DEF JobRecord
  <2>2. JobsTyped'
    BY <1>1, <2>1 DEF Delete, JobsTyped
  <2>3. FilesTyped'
    <3>1. PICK removed \in {{}, Chain(j)} :
             /\ voice' = [k \in Jobs |-> voice[k] /\ k \notin removed]
             /\ final' = [k \in Jobs |-> final[k] /\ k \notin removed]
      BY DEF Delete
    <3>2. \A k \in Jobs : (voice[k] /\ k \notin removed) \in BOOLEAN /\ (final[k] /\ k \notin removed) \in BOOLEAN
      OBVIOUS
    <3> QED
      BY <3>1, <3>2, Zenon DEF FilesTyped
  <2> QED
    BY <1>1, <2>2, <2>3 DEF Delete, Typed, ChildrenTyped, WorkersTyped, CallersTyped, MakerTyped, MakerKnows
<1>6. CASE \E j, k \in Jobs : Retry(j, k)
  <2> PICK j \in Jobs, k \in Jobs : Retry(j, k)
    BY <1>6
  <2>1. maker' \in MakerRecord /\ MakerKnows'
    BY <1>2 DEF Retry, MakerRecord, MakerKnows, JobRecord
  <2> QED
    BY <1>1, <2>1 DEF Retry, OnlyMaker, files, Typed, JobsTyped, ChildrenTyped, FilesTyped, WorkersTyped, CallersTyped, MakerTyped
<1>7. CASE RetryCreates \/ RetryFills \/ RetrySpeech
  <2>1. maker.from \in Jobs /\ maker.to \in Jobs /\ maker.track \in Jobs
    BY <1>1, <1>7 DEF MakerKnows, RetryCreates, RetryFills, RetrySpeech, MakerAt
  <2>2. maker.clips \subseteq Scenes /\ maker.frames \subseteq Scenes
    BY <1>1 DEF MakerTyped, MakerRecord
  <2>5. job[maker.to] \in JobRecord
    BY <1>1, <2>1 DEF JobsTyped
  <2>3. JobsTyped'
    <3>1. CASE RetryCreates
      BY <1>1, <1>2, <2>1, <3>1 DEF RetryCreates, JobsTyped
    <3>2. CASE RetryFills
      <4>1. [job[maker.to] EXCEPT !.clips = maker.clips, !.frames = maker.frames, !.parent = maker.from] \in JobRecord
        BY <2>1, <2>2, <2>5 DEF JobRecord
      <4>2. Save(maker.to, [job[maker.to] EXCEPT !.clips = maker.clips, !.frames = maker.frames,
                                                 !.parent = maker.from])
        BY <3>2 DEF RetryFills
      <4> QED
        BY <1>1, <2>1, <4>1, <4>2, SaveTyped
    <3>3. CASE RetrySpeech
      <4>1. [job[maker.to] EXCEPT !.spoken = TRUE, !.track = maker.track] \in JobRecord
        BY <2>1, <2>5 DEF JobRecord
      <4>2. \E new \in JobRecord : Save(maker.to, new)
        BY <2>5, <3>3, <4>1 DEF RetrySpeech
      <4> QED
        BY <1>1, <2>1, <4>2, SaveTyped
    <3> QED
      BY <1>7, <3>1, <3>2, <3>3
  <2>4. MakerTyped' /\ MakerKnows'
    <3>1. \A pc \in {"fill", "speech", "start"} : [maker EXCEPT !.pc = pc] \in MakerRecord
      BY <1>1 DEF MakerTyped, MakerRecord
    <3>2. PICK pc \in {"fill", "speech", "start"} : maker' = [maker EXCEPT !.pc = pc]
      BY <1>7 DEF RetryCreates, RetryFills, RetrySpeech
    <3> QED
      BY <1>1, <2>1, <3>1, <3>2 DEF MakerTyped, MakerKnows, MakerRecord
  <2> QED
    BY <1>1, <1>7, <2>3, <2>4
       DEF RetryCreates, RetryFills, RetrySpeech, OnlyMaker, files, Typed, ChildrenTyped, FilesTyped, WorkersTyped, CallersTyped
<1>8. CASE RetryStarts
  <2>1. maker.to \in Jobs
    BY <1>1, <1>8 DEF MakerKnows, RetryStarts, MakerAt
  <2>2. WorkersTyped'
    BY <1>1, <1>3, <1>8, <2>1 DEF RetryStarts, Started, WorkersTyped, Pcs
  <2>3. MakerTyped' /\ MakerKnows'
    BY <1>8, IdleTyped DEF RetryStarts, MakerDone, MakerTyped, MakerKnows, NoRetry
  <2> QED
    BY <1>1, <1>8, <2>2, <2>3
       DEF RetryStarts, OnlyMaker, files, Typed, JobsTyped, ChildrenTyped, FilesTyped, CallersTyped
<1>9. CASE Restart
  <2>1. [Idle EXCEPT !.pc = "begin"] \in WorkerRecord
    BY IdleTyped DEF WorkerRecord, Pcs
  <2>2. WorkersTyped'
    BY <1>9, <2>1, IdleTyped DEF Restart, WorkersTyped
  <2>3. CallersTyped'
    BY <1>1, <1>9 DEF Restart, CallersTyped, Stages
  <2>4. MakerTyped' /\ MakerKnows'
    BY <1>9, IdleTyped DEF Restart, MakerDone, MakerTyped, MakerKnows, NoRetry
  <2> QED
    BY <1>1, <1>9, <2>2, <2>3, <2>4 DEF Restart, files, Typed, JobsTyped, ChildrenTyped, FilesTyped
<1>10. CASE \E c \in Children : ChildEnds(c)
  <2> PICK c \in Children, s \in {"completed", "failed", "cancelled"} :
         ChildEnds(c) /\ child' = [child EXCEPT ![c].state = s]
    BY <1>10 DEF ChildEnds
  <2>1. [child[c] EXCEPT !.state = s] \in ChildRecord
    BY <1>1 DEF ChildrenTyped, ChildRecord
  <2> QED
    BY <1>1, <2>1 DEF ChildEnds, OnlyWorker, files, Typed, JobsTyped, ChildrenTyped, FilesTyped, WorkersTyped, CallersTyped,
                      MakerTyped, MakerKnows
<1>11. CASE RetryLosesSource
  BY <1>1, <1>11, IdleTyped
     DEF RetryLosesSource, MakerDone, MakerTyped, MakerKnows, NoRetry, OnlyMaker, files, Typed, JobsTyped, WorkersTyped,
         ChildrenTyped, FilesTyped, CallersTyped
<1> QED
  BY <1>4, <1>5, <1>6, <1>7, <1>8, <1>9, <1>10, <1>11 DEF Make

LEMMA InitTyped == Init => Typed
<1> SUFFICES ASSUME Init PROVE Typed
  OBVIOUS
<1> USE JobsAssumption, NumbersAssumption
<1>1. \A j \in Jobs : [NewJob(j) EXCEPT !.phase = "absent"] \in JobRecord
  BY PhaseNames DEF NewJob, JobRecord
<1>2. JobsTyped
  BY <1>1 DEF Init, JobsTyped
<1>3. ChildrenTyped
  BY IdleTyped DEF Init, ChildrenTyped, ChildRecord, Kinds
<1>4. WorkersTyped /\ MakerTyped /\ MakerKnows
  BY IdleTyped DEF Init, WorkersTyped, MakerTyped, MakerKnows, NoRetry
<1>5. FilesTyped /\ CallersTyped
  BY DEF Init, FilesTyped, CallersTyped, Stages
<1> QED
  BY <1>2, <1>3, <1>4, <1>5 DEF Typed

LEMMA TypedStep == Typed /\ [Next]_vars => Typed'
<1> SUFFICES ASSUME Typed, [Next]_vars PROVE Typed'
  OBVIOUS
<1>1. CASE Next
  BY <1>1, VideosTyped, SoundTyped, EndingTyped, CallsTyped, MakingTyped DEF Next, Work
<1>2. CASE UNCHANGED vars
  BY <1>2 DEF vars, files, Typed, JobsTyped, FilesTyped, ChildrenTyped, WorkersTyped, CallersTyped, MakerTyped, MakerKnows
<1> QED
  BY <1>1, <1>2

LEMMA TypedMeans == Typed => TypeOK
  BY DEF Typed, TypeOK, JobsTyped, FilesTyped, ChildrenTyped, WorkersTyped, CallersTyped, MakerTyped

\* Every variable has its type (TypeOK), for any number of shorts, scenes and children.
THEOREM ShortsTypeCorrect == Safe => []TypeOK
  BY InitTyped, TypedStep, TypedMeans, PTL DEF Safe

----------------------------------------------------------------------------
(* A completed short is whole *)

\* The job that a retry makes waits for it: untouched, without a worker.
MakerWaits ==
  maker.pc # "idle" =>
    /\ maker.to \notin Fresh /\ At(maker.to, "none")
    /\ maker.pc = "create" => Is(maker.to, {"absent"})
    /\ maker.pc \in {"fill", "speech"} => Is(maker.to, {"queued"}) \/ ~Is(maker.to, Active)

WithVideos == {"video_completed", "tts", "tts_completed", "compose", "completed"}
LatePcs == {"tts", "speak", "speaking", "write", "heard", "voiced", "compose", "mix", "render", "rendered", "publish"}

\* A worker has a job that has not completed; behind the videos, a job and its
\* worker have all of them; what is published exists.
Whole(j) ==
  /\ ~At(j, "none") => Exists(j) /\ ~Is(j, {"completed"})
  /\ Is(j, WithVideos) => job[j].clips = Scenes
  /\ worker[j].pc \in LatePcs => Is(j, Terminal) \/ job[j].clips = Scenes
  /\ At(j, "publish") \/ Is(j, {"completed"}) => final[j]

ShortsInv == Typed /\ MakerWaits /\ \A j \in Jobs : Whole(j)

\* What a step leaves alone stays whole.
LEMMA Untouched ==
  ASSUME NEW k \in Jobs, Whole(k), job'[k] = job[k], worker'[k] = worker[k], final'[k] = final[k]
  PROVE  Whole(k)'
  BY DEF Whole, At, Is, Exists

LEMMA Saved ==
  ASSUME JobsTyped, NEW j \in Jobs, NEW new, Save(j, new)
  PROVE  /\ Is(j, Active) => job'[j] = new
         /\ ~Is(j, Active) => job'[j] = job[j]
         /\ \A k \in Jobs \ {j} : job'[k] = job[k]
  BY DEF JobsTyped, Save

\* Where the steps of a worker lead.
LEMMA Went ==
  ASSUME WorkersTyped, NEW j \in Jobs, NEW pc, Goto(j, pc) \/ Leaves(j, pc)
  PROVE  worker'[j].pc = pc /\ \A k \in Jobs \ {j} : worker'[k] = worker[k]
<1>1. \A w \in WorkerRecord : [w EXCEPT !.pc = pc].pc = pc
  BY DEF WorkerRecord
<1>2. worker[j] \in WorkerRecord
  BY DEF WorkersTyped
<1>3. [Idle EXCEPT !.pc = pc, !.late = worker[j].late].pc = pc
  BY DEF Idle
<1> QED
  BY <1>1, <1>2, <1>3 DEF WorkersTyped, Goto, Leaves

LEMMA Finished ==
  ASSUME WorkersTyped, NEW j \in Jobs, Finish(j)
  PROVE  worker'[j].pc = "none" /\ \A k \in Jobs \ {j} : worker'[k] = worker[k]
  BY DEF WorkersTyped, Finish, Idle

LEMMA VideosWhole ==
  ASSUME Typed, NEW j \in Jobs, Whole(j), Videos(j)
  PROVE  Whole(j)'
<1>1. JobsTyped /\ WorkersTyped
  BY DEF Typed
<1>2. worker[j] \in WorkerRecord /\ job[j] \in JobRecord
  BY <1>1 DEF WorkersTyped, JobsTyped
<1>3. UNCHANGED final
  BY DEF Videos, Begin, Mark, NextChild, VideosComplete, Post, Record, Poll, Seen, StopInstead, TakeResult,
         WithoutAnchor, ChildLost, After, files
<1>4. ~At(j, "none") /\ Exists(j) /\ ~Is(j, {"completed"})
  BY DEF Whole, Videos, Begin, Mark, NextChild, VideosComplete, Post, Record, Poll, Seen, StopInstead, TakeResult,
         WithoutAnchor, ChildLost, After, At
\* Steps that write nothing, and lead to no late stage but those that follow a phase.
<1>5. CASE job' = job /\ worker'[j].pc \notin LatePcs
  BY <1>3, <1>4, <1>5 DEF Whole, At, Is, Exists, LatePcs
<1>6. CASE Begin(j)
  <2>1. worker'[j].pc \in {"none", "ending", "after", "mark"}
    BY <1>1, <1>2, <1>6, Went, Finished DEF Begin, WorkersTyped, WorkerRecord
  <2> QED
    BY <1>5, <1>6, <2>1 DEF Begin, LatePcs
<1>7. CASE NextChild(j)
  <2>1. worker'[j].pc \in {"none", "ending", "post", "poll"}
    BY <1>1, <1>2, <1>7, Went, Finished DEF NextChild, WorkersTyped, WorkerRecord
  <2> QED
    BY <1>5, <1>7, <2>1 DEF NextChild, LatePcs
<1>8. CASE Post(j) \/ Poll(j)
  <2>1. worker'[j].pc \in {"record", "seen"}
    BY <1>1, <1>2, <1>8 DEF Post, Poll, WorkersTyped, WorkerRecord
  <2> QED
    BY <1>5, <1>8, <2>1 DEF Post, Poll, LatePcs
<1>9. CASE Seen(j) \/ StopInstead(j)
  <2>1. worker'[j].pc \in {"ending", "scene", "take"}
    BY <1>1, <1>9, Went DEF Seen, StopInstead
  <2> QED
    BY <1>5, <1>9, <2>1 DEF Seen, StopInstead, LatePcs
<1>10. CASE After(j)
  <2>1. \/ worker'[j].pc = "tts" /\ Is(j, {"video_completed"})
        \/ worker'[j].pc = "compose" /\ Is(j, {"tts_completed"})
        \/ worker'[j].pc = "none"
    BY <1>1, <1>10, Went, Finished DEF After
  <2>2. job' = job
    BY <1>10 DEF After
  <2> QED
    BY <1>3, <1>4, <2>1, <2>2 DEF Whole, At, Is, Exists, WithVideos, LatePcs
\* Steps that write.
<1>11. ASSUME NEW new, Save(j, new), worker'[j].pc \notin LatePcs, worker'[j].pc = "none" \/ new.phase # "completed",
              new.phase \in Active \cup Terminal,
              new.phase \in WithVideos => new.clips = Scenes, new.phase # "completed"
       PROVE  Whole(j)'
  <2>1. CASE Is(j, Active)
    <3>1. job'[j] = new
      BY <1>1, <1>11, <2>1, Saved
    <3> QED
      BY <1>3, <1>4, <1>11, <3>1 DEF Whole, At, Is, Exists, LatePcs, Active, Terminal, Running, Gone
  <2>2. CASE ~Is(j, Active)
    <3>1. job'[j] = job[j]
      BY <1>1, <1>11, <2>2, Saved
    <3> QED
      BY <1>3, <1>4, <1>11, <3>1 DEF Whole, At, Is, Exists, LatePcs
  <2> QED
    BY <2>1, <2>2
<1>18. /\ job[j].phase \in Active \cup Terminal /\ job[j].phase # "completed"
       /\ job[j].phase \in WithVideos => job[j].clips = Scenes
  BY <1>2, <1>4 DEF Whole, Is, Exists, JobRecord, Phases
<1>12. CASE Mark(j)
  <2> DEFINE new == [job[j] EXCEPT !.phase = IF j \notin Consistent THEN "video"
                                             ELSE IF @ = "video" THEN "video" ELSE "keyframe"]
  <2>1. new.phase \in {"video", "keyframe"}
    BY <1>2 DEF JobRecord
  <2>2. Save(j, new) /\ worker'[j].pc = "scene"
    BY <1>1, <1>12, Went DEF Mark
  <2> QED
    BY <1>11, <2>1, <2>2 DEF Active, Running, WithVideos, LatePcs
<1>13. CASE VideosComplete(j)
  <2> DEFINE new == [job[j] EXCEPT !.phase = "video_completed", !.image = None, !.video = None]
  <2>1. new.phase = "video_completed" /\ new.clips = job[j].clips /\ job[j].clips \subseteq Scenes
    BY <1>2 DEF JobRecord
  <2>2. job[j].clips = Scenes
    BY <1>13, <2>1 DEF VideosComplete, Missing
  <2>3. Save(j, new) /\ worker'[j].pc \in {"begin", "after"}
    BY <1>1, <1>13, Went DEF VideosComplete
  <2> QED
    BY <1>11, <2>1, <2>2, <2>3 DEF Active, Running, WithVideos, LatePcs
<1>14. CASE Record(j)
  <2>1. WithChild(j).phase \in {"video", "keyframe"}
    BY <1>2 DEF WithChild, JobRecord
  <2>2. Save(j, WithChild(j)) /\ worker'[j].pc = "poll"
    BY <1>1, <1>14, Went DEF Record
  <2> QED
    BY <1>11, <2>1, <2>2 DEF Active, Running, WithVideos, LatePcs
<1>15. CASE TakeResult(j)
  <2>1. Save(j, WithResult(j)) /\ worker'[j].pc = "scene"
    BY <1>1, <1>15, Went DEF TakeResult
  <2>2. /\ WithResult(j).phase \in {"video", "keyframe", job[j].phase}
        /\ job[j].clips \subseteq WithResult(j).clips /\ WithResult(j).clips \subseteq Scenes
    <3>1. worker[j].scene \in Scenes /\ job[j].clips \subseteq Scenes
      BY <1>2 DEF WorkerRecord, JobRecord
    <3> QED
      BY <1>2, <3>1 DEF WithResult, JobRecord
  <2>3. WithResult(j).phase \in Active \cup Terminal /\ WithResult(j).phase # "completed"
    BY <1>18, <2>2 DEF Active, Running
  <2>4. WithResult(j).phase \in WithVideos => WithResult(j).clips = Scenes
    BY <1>18, <2>2 DEF WithVideos
  <2> QED
    BY <1>11, <2>1, <2>3, <2>4 DEF LatePcs
<1>16. CASE WithoutAnchor(j)
  <2> DEFINE new == [job[j] EXCEPT !.image = None, !.plain = @ \cup {worker[j].scene}]
  <2>1. Save(j, new) /\ worker'[j].pc = "scene"
    BY <1>1, <1>16, Went DEF WithoutAnchor
  <2>2. new.phase = job[j].phase /\ new.clips = job[j].clips
    BY <1>2 DEF JobRecord
  <2> QED
    BY <1>11, <1>18, <2>1, <2>2 DEF LatePcs
<1>17. CASE ChildLost(j)
  <2>1. Save(j, Failed(j)) /\ worker'[j].pc = "none"
    BY <1>1, <1>17, Finished DEF ChildLost
  <2>2. Failed(j).phase = "failed"
    BY <1>2 DEF Failed, JobRecord
  <2> QED
    BY <1>11, <2>1, <2>2 DEF Terminal, WithVideos, LatePcs
<1> QED
  BY <1>6, <1>7, <1>8, <1>9, <1>10, <1>12, <1>13, <1>14, <1>15, <1>16, <1>17 DEF Videos

LEMMA SoundWhole ==
  ASSUME Typed, NEW j \in Jobs, Whole(j), Sound(j) \/ Composition(j)
  PROVE  Whole(j)'
<1>1. JobsTyped /\ WorkersTyped /\ FilesTyped
  BY DEF Typed
<1>2. job[j] \in JobRecord
  BY <1>1 DEF JobsTyped
<1>3. /\ worker[j].pc \in LatePcs /\ ~At(j, "none") /\ Exists(j) /\ ~Is(j, {"completed"})
      /\ Is(j, Terminal) \/ job[j].clips = Scenes
  BY DEF Whole, Sound, Composition, Tts, Speak, Spoken, WriteVoice, CheckVoice, Voiced, Compose, Mix, Render,
         CheckFinal, Publish, At, LatePcs
\* The three ways the job can be written here.
<1>4. CASE job' = job /\ worker'[j].pc \notin {"none", "publish"}
  BY <1>3, <1>4 DEF Whole, At, Is, Exists
<1>5. ASSUME NEW new, Save(j, new), worker'[j].pc \notin {"none", "publish"},
             new.phase \in {"tts", "tts_completed", "compose"}, new.clips = job[j].clips
      PROVE  Whole(j)'
  <2>1. CASE Is(j, Active)
    <3>1. job'[j] = new /\ job[j].clips = Scenes
      BY <1>1, <1>3, <1>5, <2>1, Saved DEF Is, Active, Running, Terminal
    <3> QED
      BY <1>5, <3>1 DEF Whole, At, Is, Exists, Gone
  <2>2. CASE ~Is(j, Active)
    <3>1. job'[j] = job[j]
      BY <1>1, <1>5, <2>2, Saved
    <3> QED
      BY <1>3, <1>5, <3>1 DEF Whole, At, Is, Exists
  <2> QED
    BY <2>1, <2>2
<1>6. ASSUME Save(j, Completed(j)), Finish(j), final'[j] = final[j], final[j] PROVE Whole(j)'
  <2>1. worker'[j].pc = "none"
    BY <1>1, <1>6, Finished
  <2>2. CASE Is(j, Active)
    <3>1. job'[j] = Completed(j) /\ job[j].clips = Scenes
      BY <1>1, <1>3, <1>6, <2>2, Saved DEF Is, Active, Running, Terminal
    <3>2. job'[j].clips = Scenes
      BY <1>2, <3>1 DEF Completed, JobRecord
    <3> QED
      BY <1>6, <2>1, <3>2 DEF Whole, At, LatePcs
  <2>3. CASE ~Is(j, Active)
    <3>1. job'[j] = job[j]
      BY <1>1, <1>6, <2>3, Saved
    <3> QED
      BY <1>3, <1>6, <2>1, <3>1 DEF Whole, At, Is, Exists, LatePcs
  <2> QED
    BY <2>2, <2>3
<1>7. CASE Tts(j)
  <2>1. CASE UNCHANGED job
    <3>1. worker'[j].pc \in {"ending", "speak", "after"}
      BY <1>1, <1>7, Went DEF Tts
    <3> QED
      BY <1>4, <2>1, <3>1
  <2>2. CASE ~UNCHANGED job
    <3> DEFINE new == [job[j] EXCEPT !.phase = "tts_completed", !.spoken = TRUE]
    <3>1. Save(j, new) /\ worker'[j].pc = "after"
      BY <1>1, <1>7, <2>2, Went DEF Tts
    <3>2. new.phase = "tts_completed" /\ new.clips = job[j].clips
      BY <1>2 DEF JobRecord
    <3> QED
      BY <1>5, <3>1, <3>2
  <2> QED
    BY <2>1, <2>2
<1>8. CASE Speak(j)
  <2> DEFINE new == [job[j] EXCEPT !.phase = "tts", !.spoken = FALSE]
  <2>1. Save(j, new) /\ worker'[j].pc = "speaking"
    BY <1>1, <1>8, Went DEF Speak
  <2>2. new.phase = "tts" /\ new.clips = job[j].clips
    BY <1>2 DEF JobRecord
  <2> QED
    BY <1>5, <2>1, <2>2
<1>9. CASE Spoken(j) \/ WriteVoice(j) \/ CheckVoice(j)
  <2>1. worker'[j].pc \in {"ending", "write", "heard", "voiced"} /\ job' = job
    BY <1>1, <1>9, Went DEF Spoken, WriteVoice, CheckVoice
  <2> QED
    BY <1>4, <2>1
<1>10. CASE Voiced(j)
  <2> DEFINE new == [job[j] EXCEPT !.phase = "tts_completed", !.spoken = TRUE, !.track = j]
  <2>1. Save(j, new) /\ worker'[j].pc = "after"
    BY <1>1, <1>10, Went DEF Voiced
  <2>2. new.phase = "tts_completed" /\ new.clips = job[j].clips
    BY <1>2 DEF JobRecord
  <2> QED
    BY <1>5, <2>1, <2>2
<1>11. CASE Compose(j)
  <2>1. CASE UNCHANGED job /\ (Goto(j, "ending") \/ Goto(j, "mix"))
    BY <1>1, <1>4, <2>1, Went
  <2>2. CASE final[j] /\ Finish(j) /\ Save(j, Completed(j))
    BY <1>6, <1>11, <2>2 DEF Compose, files
  <2> QED
    BY <1>11, <2>1, <2>2 DEF Compose
<1>12. CASE Mix(j)
  <2> DEFINE new == [job[j] EXCEPT !.phase = "compose"]
  <2>1. Save(j, new) /\ worker'[j].pc \in {"ending", "render"}
    BY <1>1, <1>12, Went DEF Mix
  <2>2. new.phase = "compose" /\ new.clips = job[j].clips
    BY <1>2 DEF JobRecord
  <2> QED
    BY <1>5, <2>1, <2>2
<1>13. CASE Render(j)
  <2>1. worker'[j].pc \in {"ending", "rendered"} /\ job' = job
    BY <1>1, <1>13, Went DEF Render
  <2> QED
    BY <1>4, <2>1
<1>14. CASE CheckFinal(j)
  <2>1. job' = job /\ worker'[j].pc = (IF job[j].cancel THEN "ending" ELSE "publish")
    BY <1>1, <1>14, Went DEF CheckFinal
  <2>2. job[j].cancel \/ final'[j]
    BY <1>1, <1>14 DEF CheckFinal, FilesTyped
  <2> QED
    BY <1>3, <2>1, <2>2 DEF Whole, At, Is, Exists, LatePcs
<1>15. CASE Publish(j)
  BY <1>6, <1>15 DEF Publish, Whole, At, files
<1> QED
  BY <1>7, <1>8, <1>9, <1>10, <1>11, <1>12, <1>13, <1>14, <1>15 DEF Sound, Composition

LEMMA EndingWhole ==
  ASSUME Typed, NEW j \in Jobs, Whole(j), Error(j) \/ Handling(j) \/ Ending(j)
  PROVE  Whole(j)'
<1>1. JobsTyped /\ WorkersTyped
  BY DEF Typed
<1>2. job[j] \in JobRecord
  BY <1>1 DEF JobsTyped
<1>3. ~At(j, "none") /\ Exists(j) /\ ~Is(j, {"completed"})
  BY DEF Whole, Error, Handling, Ending, HandleError, Fail, WorkerReads, WorkerAsks, WorkerCommits, At
<1>4. UNCHANGED final
  BY DEF Error, Handling, Ending, HandleError, Fail, WorkerReads, WorkerAsks, WorkerCommits, files
<1>5. CASE Error(j) \/ HandleError(j) \/ WorkerReads(j) \/ WorkerAsks(j)
  <2>1. job' = job /\ worker'[j].pc \in {"error", "ending", "fail", "asking", "committing"}
    BY <1>1, <1>5, Went DEF Error, HandleError, WorkerReads, WorkerAsks
  <2> QED
    BY <1>3, <1>4, <2>1 DEF Whole, At, Is, Exists, LatePcs
<1>6. CASE Fail(j) \/ WorkerCommits(j)
  <2>1. worker'[j].pc = "none"
    BY <1>1, <1>6, Finished DEF Fail, WorkerCommits
  <2>2. job'[j] = job[j] \/ job'[j].phase \in {"failed", "cancelled"}
    <3>1. CASE Fail(j)
      <4>1. \E new : Save(j, new) /\ new.phase = "failed"
        <5>1. \A b : [job[j] EXCEPT !.phase = "failed", !.spoken = b].phase = "failed"
          BY <1>2 DEF JobRecord
        <5>2. Failed(j) \in JobRecord /\ Failed(j).phase = "failed"
          BY <1>1, <1>2, WrittenTyped DEF Failed, JobRecord
        <5>3. \A b : [Failed(j) EXCEPT !.spoken = b].phase = "failed"
          <6> HIDE DEF Failed
          <6> QED
            BY <5>2 DEF JobRecord
        <5> QED
          BY <3>1, <5>1, <5>3 DEF Fail
      <4> QED
        BY <1>1, <4>1, Saved
    <3>2. CASE WorkerCommits(j)
      BY <1>1, <1>2, <3>2 DEF WorkerCommits, SaveCancelled, Cancelled, JobsTyped, JobRecord
    <3> QED
      BY <1>6, <3>1, <3>2
  <2> QED
    BY <1>3, <1>4, <2>1, <2>2 DEF Whole, At, Is, Exists, LatePcs, WithVideos
<1> QED
  BY <1>5, <1>6 DEF Handling, Ending

\* What a cancel call writes: the flag, or the end.
LEMMA CallWrites ==
  ASSUME JobsTyped, NEW j \in Jobs, Cancel(j) \/ CancelChat(j) \/ Call(j)
  PROVE  \/ job'[j] = job[j]
         \/ job'[j].phase = job[j].phase /\ job'[j].clips = job[j].clips
         \/ job'[j].phase = "cancelled" /\ Exists(j)
<1>1. job[j] \in JobRecord
  BY DEF JobsTyped
<1>2. CASE Flag(j)
  <2>1. Save(j, [job[j] EXCEPT !.cancel = TRUE])
    BY <1>2 DEF Flag
  <2> QED
    BY <1>1, <2>1, Saved DEF JobRecord
<1>3. CASE CallerCommits(j)
  BY <1>1, <1>3 DEF CallerCommits, SaveCancelled, Cancelled, JobsTyped, JobRecord, Is, Exists, Gone
<1> QED
  BY <1>2, <1>3 DEF Cancel, CancelChat, Call, Snapshot, CallerReads, CallerAsks

LEMMA CallsWhole ==
  ASSUME Typed, NEW j \in Jobs, Whole(j), Cancel(j) \/ CancelChat(j) \/ Call(j)
  PROVE  Whole(j)'
<1>1. JobsTyped
  BY DEF Typed
<1>2. UNCHANGED <<worker, final>>
  BY DEF Cancel, CancelChat, Call, Snapshot, Flag, CallerReads, CallerAsks, CallerCommits, OnlyCaller, files
<1> QED
  BY <1>1, <1>2, CallWrites DEF Whole, At, Is, Exists, WithVideos, Terminal, Gone

\* What a step does to a retry under way: nothing, unless it is a step of the retry.
LEMMA WaitsUntouched ==
  ASSUME MakerWaits, MakerKnows, maker' = maker,
         \A k \in Jobs : maker.pc # "idle" /\ k = maker.to =>
           /\ worker'[k] = worker[k]
           /\ job'[k].phase = job[k].phase \/ (job'[k].phase = "cancelled" /\ Exists(k))
  PROVE  MakerWaits'
<1> SUFFICES ASSUME maker.pc # "idle"
             PROVE  /\ maker.to \notin Fresh /\ At(maker.to, "none")'
                    /\ maker.pc = "create" => Is(maker.to, {"absent"})'
                    /\ maker.pc \in {"fill", "speech"} => Is(maker.to, {"queued"})' \/ ~Is(maker.to, Active)'
  BY DEF MakerWaits, At, Is
<1>1. maker.to \in Jobs
  BY DEF MakerKnows
<1> QED
  BY <1>1 DEF MakerWaits, At, Is, Exists, Gone, Active, Running

\* The step of a worker changes nothing of another short, and no retry.
LEMMA WorkFrame ==
  ASSUME Typed, NEW j \in Jobs, Work(j) \/ Error(j)
  PROVE  /\ \A k \in Jobs : k # j => /\ job'[k] = job[k] /\ worker'[k] = worker[k]
                                    /\ final'[k] = final[k] /\ voice'[k] = voice[k]
         /\ maker' = maker
<1>1. JobsTyped /\ WorkersTyped /\ FilesTyped
  BY DEF Typed
<1>2. ASSUME NEW k \in Jobs, k # j
      PROVE  job'[k] = job[k] /\ worker'[k] = worker[k] /\ final'[k] = final[k] /\ voice'[k] = voice[k]
  <2>1. CASE Videos(j)
    BY <1>1, <1>2, <2>1, Saved, Went, Finished
       DEF Videos, Begin, Mark, NextChild, VideosComplete, Post, Record, Poll, Seen, StopInstead, TakeResult,
           WithoutAnchor, ChildLost, After, OnlyWorker, files, WorkersTyped
  <2>2. CASE Sound(j) \/ Composition(j)
    BY <1>1, <1>2, <2>2, Saved, Went, Finished
       DEF Sound, Composition, Tts, Speak, Spoken, WriteVoice, CheckVoice, Voiced, Compose, Mix, Render, CheckFinal,
           Publish, OnlyWorker, files, FilesTyped
  <2>3. CASE Error(j) \/ Handling(j) \/ Ending(j)
    BY <1>1, <1>2, <2>3, Saved, Went, Finished
       DEF Error, Handling, Ending, HandleError, Fail, WorkerReads, WorkerAsks, WorkerCommits, SaveCancelled, OnlyWorker,
           files, JobsTyped
  <2> QED
    BY <2>1, <2>2, <2>3 DEF Work
<1>3. maker' = maker
  <2>1. CASE Videos(j)
    BY <2>1 DEF Videos, Begin, Mark, NextChild, VideosComplete, Post, Record, Poll, Seen, StopInstead, TakeResult,
                WithoutAnchor, ChildLost, After, OnlyWorker
  <2>2. CASE Sound(j) \/ Composition(j)
    BY <2>2 DEF Sound, Composition, Tts, Speak, Spoken, WriteVoice, CheckVoice, Voiced, Compose, Mix, Render, CheckFinal,
                Publish, OnlyWorker
  <2>3. CASE Error(j) \/ Handling(j) \/ Ending(j)
    BY <2>3 DEF Error, Handling, Ending, HandleError, Fail, WorkerReads, WorkerAsks, WorkerCommits, OnlyWorker
  <2> QED
    BY <2>1, <2>2, <2>3 DEF Work
<1> QED
  BY <1>2, <1>3

LEMMA WorkStep ==
  ASSUME ShortsInv, NEW j \in Jobs, Work(j) \/ Error(j)
  PROVE  MakerWaits' /\ \A k \in Jobs : Whole(k)'
<1>1. Typed /\ MakerWaits /\ MakerKnows /\ JobsTyped /\ WorkersTyped /\ FilesTyped /\ \A k \in Jobs : Whole(k)
  BY DEF ShortsInv, Typed
<1>2. ~At(j, "none")
  BY DEF Work, Error, Videos, Sound, Composition, Handling, Ending, Begin, Mark, NextChild, VideosComplete, Post, Record,
         Poll, Seen, StopInstead, TakeResult, WithoutAnchor, ChildLost, After, Tts, Speak, Spoken, WriteVoice, CheckVoice,
         Voiced, Compose, Mix, Render, CheckFinal, Publish, HandleError, Fail, WorkerReads, WorkerAsks, WorkerCommits, At
<1>3. /\ \A k \in Jobs : k # j => job'[k] = job[k] /\ worker'[k] = worker[k] /\ final'[k] = final[k]
      /\ maker' = maker
  BY <1>1, WorkFrame
<1>4. Whole(j)'
  BY <1>1, VideosWhole, SoundWhole, EndingWhole DEF Work
<1>5. maker.pc # "idle" => maker.to # j
  BY <1>1, <1>2 DEF MakerWaits
<1> QED
  BY <1>1, <1>3, <1>4, <1>5, Untouched, WaitsUntouched

LEMMA CallStep ==
  ASSUME ShortsInv, NEW j \in Jobs, Cancel(j) \/ CancelChat(j) \/ Call(j)
  PROVE  MakerWaits' /\ \A k \in Jobs : Whole(k)'
<1>1. Typed /\ MakerWaits /\ MakerKnows /\ JobsTyped /\ \A k \in Jobs : Whole(k)
  BY DEF ShortsInv, Typed
<1>2. UNCHANGED <<worker, final, maker>>
  BY DEF Cancel, CancelChat, Call, Snapshot, Flag, CallerReads, CallerAsks, CallerCommits, OnlyCaller, files
<1>3. ASSUME NEW k \in Jobs, k # j PROVE job'[k] = job[k]
  BY <1>1, <1>3, Saved
     DEF Cancel, CancelChat, Call, Snapshot, Flag, CallerReads, CallerAsks, CallerCommits, SaveCancelled, JobsTyped
<1>4. job'[j].phase = job[j].phase \/ (job'[j].phase = "cancelled" /\ Exists(j))
  BY <1>1, CallWrites
<1>5. MakerWaits'
  BY <1>1, <1>2, <1>3, <1>4, WaitsUntouched
<1>6. Whole(j)'
  BY <1>1, CallsWhole
<1> QED
  BY <1>1, <1>2, <1>3, <1>5, <1>6, Untouched

LEMMA MakingStep ==
  ASSUME ShortsInv,
         \/ \E j \in Jobs : Create(j) \/ Delete(j)
         \/ \E j, k \in Jobs : Retry(j, k)
         \/ Make
         \/ Restart
         \/ \E c \in Children : ChildEnds(c)
  PROVE  MakerWaits' /\ \A k \in Jobs : Whole(k)'
<1>1. Typed /\ MakerWaits /\ MakerKnows /\ JobsTyped /\ WorkersTyped /\ FilesTyped /\ \A k \in Jobs : Whole(k)
  BY DEF ShortsInv, Typed
<1>2. \A j \in Jobs : NewJob(j).phase = "queued"
  BY DEF NewJob
<1>3. CASE \E j \in Jobs : Create(j)
  <2> PICK j \in Jobs : Create(j)
    BY <1>3
  <2>1. job'[j].phase = "queued" /\ worker'[j].pc = "begin" /\ UNCHANGED <<final, maker>> /\ j \in Fresh /\ Is(j, {"absent"})
    BY <1>1, <1>2 DEF Create, JobsTyped, WorkersTyped, WorkerRecord, files
  <2>2. \A k \in Jobs \ {j} : job'[k] = job[k] /\ worker'[k] = worker[k]
    BY <1>1 DEF Create, JobsTyped, WorkersTyped
  <2>3. Whole(j)'
    BY <2>1 DEF Whole, At, Is, Exists, Gone, WithVideos, LatePcs
  <2>4. MakerWaits'
    BY <1>1, <2>1, <2>2, WaitsUntouched DEF MakerWaits
  <2> QED
    BY <1>1, <2>1, <2>2, <2>3, <2>4, Untouched
<1>4. CASE \E j \in Jobs : Delete(j)
  <2> PICK j \in Jobs : Delete(j)
    BY <1>4
  <2>1. \A k \in Jobs : k \notin Chain(j) => job'[k] = job[k] /\ final'[k] = final[k]
    BY <1>1 DEF Delete, JobsTyped, FilesTyped
  <2>2. \A k \in Jobs : k \in Chain(j) => job'[k].phase = "deleted" /\ At(k, "none") /\ Exists(k) /\ ~Is(k, Active)
    <3>1. \A k \in Jobs : k \in Chain(j) => job'[k] = [NewJob(k) EXCEPT !.phase = "deleted"] /\ At(k, "none") /\ ~Is(k, Active)
      BY DEF Delete, WorkerIsActive
    <3>2. \A k \in Jobs : k \in Chain(j) => Exists(k)
      BY DEF Chain
    <3> QED
      BY <3>1, <3>2 DEF NewJob
  <2>3. UNCHANGED <<worker, maker>>
    BY DEF Delete
  <2>4. ASSUME NEW k \in Jobs PROVE Whole(k)'
    <3>1. CASE k \in Chain(j)
      BY <2>2, <2>3, <3>1 DEF Whole, At, Is, Exists, WithVideos, LatePcs
    <3>2. CASE k \notin Chain(j)
      BY <1>1, <2>1, <2>3, <3>2, Untouched
    <3> QED
      BY <3>1, <3>2
  <2>5. MakerWaits'
    <3> SUFFICES ASSUME maker.pc # "idle"
                 PROVE  /\ maker.to \notin Fresh /\ At(maker.to, "none")'
                        /\ maker.pc = "create" => Is(maker.to, {"absent"})'
                        /\ maker.pc \in {"fill", "speech"} => Is(maker.to, {"queued"})' \/ ~Is(maker.to, Active)'
      BY <2>3 DEF MakerWaits, At, Is
    <3>1. maker.to \in Jobs
      BY <1>1 DEF MakerKnows
    <3>2. CASE maker.to \in Chain(j)
      BY <1>1, <2>2, <2>3, <3>1, <3>2 DEF MakerWaits, At, Is, Exists, Gone, Active, Running
    <3>3. CASE maker.to \notin Chain(j)
      BY <1>1, <2>1, <2>3, <3>1, <3>3 DEF MakerWaits, At, Is
    <3> QED
      BY <3>2, <3>3
  <2> QED
    BY <2>4, <2>5
<1>5. CASE \E j, k \in Jobs : Retry(j, k)
  <2> PICK j \in Jobs, k \in Jobs : Retry(j, k)
    BY <1>5
  <2>1. UNCHANGED <<job, worker, final>> /\ maker'.to = k /\ maker'.pc = "create"
    BY DEF Retry, OnlyMaker, files
  <2>2. k \notin Fresh /\ Is(k, {"absent"})
    BY DEF Retry
  <2>3. At(k, "none")
    BY <1>1, <2>2 DEF Whole, Is, Exists, Gone
  <2>4. MakerWaits'
    BY <2>1, <2>2, <2>3 DEF MakerWaits, At, Is
  <2> QED
    BY <1>1, <2>1, <2>4, Untouched
<1>6. CASE RetryCreates \/ RetryFills \/ RetrySpeech
  <2>1. maker.to \in Jobs /\ maker.pc # "idle"
    BY <1>1, <1>6 DEF MakerKnows, RetryCreates, RetryFills, RetrySpeech, MakerAt
  <2>2. UNCHANGED <<worker, final>> /\ maker'.to = maker.to /\ maker'.pc \in {"fill", "speech", "start"}
    BY <1>1, <1>6 DEF Typed, MakerTyped, MakerRecord, RetryCreates, RetryFills, RetrySpeech, OnlyMaker, files
  <2>3. \A k \in Jobs \ {maker.to} : job'[k] = job[k]
    BY <1>1, <1>6, <2>1, Saved DEF RetryCreates, RetryFills, RetrySpeech, JobsTyped
  <2>4. job'[maker.to] = job[maker.to] \/ job'[maker.to].phase = "queued"
    <3>1. CASE RetryCreates
      BY <1>1, <1>2, <2>1, <3>1 DEF RetryCreates, JobsTyped
    <3>2. CASE RetryFills \/ RetrySpeech
      <4>1. job[maker.to] \in JobRecord
        BY <1>1, <2>1 DEF JobsTyped
      <4>2. \E new : Save(maker.to, new) /\ new.phase = job[maker.to].phase
        <5>1. CASE RetryFills
          <6>1. [job[maker.to] EXCEPT !.clips = maker.clips, !.frames = maker.frames, !.parent = maker.from].phase
                  = job[maker.to].phase
            BY <4>1 DEF JobRecord
          <6> QED
            BY <5>1, <6>1 DEF RetryFills
        <5>2. CASE RetrySpeech
          <6>1. [job[maker.to] EXCEPT !.spoken = TRUE, !.track = maker.track].phase = job[maker.to].phase
            BY <4>1 DEF JobRecord
          <6> QED
            BY <5>2, <6>1 DEF RetrySpeech
        <5> QED
          BY <3>2, <5>1, <5>2
      <4>3. Is(maker.to, Active) => job[maker.to].phase = "queued"
        BY <1>1, <2>1, <3>2 DEF MakerWaits, RetryFills, RetrySpeech, MakerAt, Is
      <4> QED
        BY <1>1, <2>1, <4>2, <4>3, Saved
    <3> QED
      BY <1>6, <3>1, <3>2
  <2>5. job[maker.to].phase \in {"absent", "queued"} \/ ~Is(maker.to, Active)
    BY <1>1, <1>6 DEF MakerWaits, RetryCreates, RetryFills, RetrySpeech, MakerAt, Is
  <2>6. Whole(maker.to)'
    BY <1>1, <2>1, <2>2, <2>4, Untouched DEF MakerWaits, Whole, At, Is, Exists, Gone, WithVideos, LatePcs
  <2>7. MakerWaits'
    BY <1>1, <2>1, <2>2, <2>4, <2>5 DEF MakerWaits, At, Is, Active, Running
  <2> QED
    BY <1>1, <2>1, <2>2, <2>3, <2>6, <2>7, Untouched
<1>7. CASE RetryStarts
  <2>1. PICK t \in Jobs : t = maker.to
    BY <1>1, <1>7 DEF MakerKnows, RetryStarts, MakerAt
  <2>2. MakerWaits'
    BY <1>7 DEF RetryStarts, MakerDone, NoRetry, MakerWaits
  <2>3. UNCHANGED <<job, final>>
    BY <1>7 DEF RetryStarts, OnlyMaker, files
  <2>4. worker' = worker \/ (worker' = [worker EXCEPT ![t].pc = "begin"] /\ Is(t, Active))
    BY <1>7, <2>1 DEF RetryStarts, Started
  <2>5. ASSUME Is(t, Active), worker' = [worker EXCEPT ![t].pc = "begin"] PROVE Whole(t)'
    <3>1. worker'[t].pc = "begin"
      BY <1>1, <2>1, <2>5 DEF WorkersTyped, WorkerRecord
    <3> QED
      BY <1>1, <2>1, <2>3, <2>5, <3>1 DEF Whole, At, Is, Exists, Gone, Active, Running, LatePcs
  <2>6. \A k \in Jobs \ {t} : worker'[k] = worker[k]
    BY <1>1, <2>1, <2>4 DEF WorkersTyped
  <2>7. Whole(t)'
    BY <1>1, <2>1, <2>3, <2>4, <2>5, Untouched
  <2> QED
    BY <1>1, <2>1, <2>2, <2>3, <2>6, <2>7, Untouched
<1>8. CASE Restart
  <2>1. MakerWaits'
    BY <1>8 DEF Restart, MakerDone, NoRetry, MakerWaits
  <2>2. UNCHANGED <<job, final>>
    BY <1>8 DEF Restart, files
  <2>3. \A k \in Jobs : worker'[k].pc = "none" \/ (worker'[k].pc = "begin" /\ Is(k, Active))
    BY <1>8 DEF Restart, Resumed, Idle
  <2> QED
    BY <1>1, <2>1, <2>2, <2>3 DEF Whole, At, Is, Exists, Gone, Active, Running, LatePcs
<1>9. CASE \E c \in Children : ChildEnds(c)
  <2>1. UNCHANGED <<job, final, worker, maker>>
    BY <1>9 DEF ChildEnds, OnlyWorker, files
  <2> QED
    BY <1>1, <2>1, Untouched, WaitsUntouched
<1>10. CASE RetryLosesSource
  <2>1. MakerWaits'
    BY <1>10 DEF RetryLosesSource, MakerDone, NoRetry, MakerWaits
  <2>2. UNCHANGED <<job, final, worker>>
    BY <1>10 DEF RetryLosesSource, OnlyMaker, files
  <2> QED
    BY <1>1, <2>1, <2>2, Untouched
<1> QED
  BY <1>3, <1>4, <1>5, <1>6, <1>7, <1>8, <1>9, <1>10 DEF Make

LEMMA InitShorts == Init => ShortsInv
<1> SUFFICES ASSUME Init PROVE MakerWaits /\ \A k \in Jobs : Whole(k)
  BY InitTyped DEF ShortsInv
<1>1. \A j \in Jobs : job[j].phase = "absent" /\ worker[j].pc = "none"
  BY DEF Init, NewJob, Idle
<1>2. maker.pc = "idle"
  BY DEF Init, NoRetry
<1> QED
  BY <1>1, <1>2 DEF MakerWaits, Whole, At, Is, Exists, WithVideos, LatePcs

LEMMA ShortsStep == ShortsInv /\ [Next]_vars => ShortsInv'
<1> SUFFICES ASSUME ShortsInv, [Next]_vars PROVE ShortsInv'
  OBVIOUS
<1>1. Typed'
  BY TypedStep DEF ShortsInv
<1>2. CASE Next
  BY <1>1, <1>2, WorkStep, CallStep, MakingStep DEF Next, ShortsInv
<1>3. CASE UNCHANGED vars
  BY <1>1, <1>3, Untouched, WaitsUntouched DEF vars, files, ShortsInv, Typed
<1> QED
  BY <1>2, <1>3

\* A completed short has all its videos and its result (CompletedIsWhole).
THEOREM CompletedShortsAreWhole == Safe => []CompletedIsWhole
<1>1. ShortsInv => CompletedIsWhole
  BY DEF ShortsInv, Whole, CompletedIsWhole, Is, WithVideos
<1> QED
  BY <1>1, InitShorts, ShortsStep, PTL DEF Safe

\* A worker never outlives the record of its job (WorkersHaveJobs).
THEOREM ShortsWorkersHaveJobs == Safe => []WorkersHaveJobs
<1>1. ShortsInv => WorkersHaveJobs
  BY DEF ShortsInv, Whole, WorkersHaveJobs
<1> QED
  BY <1>1, InitShorts, ShortsStep, PTL DEF Safe

----------------------------------------------------------------------------
(* An ended short consumes nothing *)

Kept(j) ==
  \/ job'[j].phase = "deleted"
  \/ /\ job'[j].phase \in {job[j].phase} \cup (IF Is(j, {"failed"}) THEN {"cancelled"} ELSE {})
     /\ job'[j].clips = job[j].clips /\ job'[j].frames = job[j].frames
     /\ job'[j].spoken = job[j].spoken
     /\ {job'[j].image, job'[j].video} \subseteq {job[j].image, job[j].video, None}

LEMMA SameIsKept == ASSUME NEW j \in Jobs, job'[j] = job[j] PROVE Kept(j)
  BY DEF Kept

LEMMA CancelledIsKept ==
  ASSUME JobsTyped, NEW j \in Jobs, SaveCancelled(j), NEW k \in Jobs, Is(k, Terminal)
  PROVE  Kept(k)
<1>1. CASE job'[k] = job[k]
  BY <1>1, SameIsKept
<1>2. CASE job'[k] # job[k]
  <2>1. k = j /\ ~Is(j, Gone \cup {"completed"}) /\ job'[j] = Cancelled(j)
    BY <1>2 DEF SaveCancelled, JobsTyped
  <2>2. job[j] \in JobRecord
    BY DEF JobsTyped
  <2>3. /\ Cancelled(j).phase = "cancelled" /\ Cancelled(j).image = None /\ Cancelled(j).video = None
        /\ Cancelled(j).clips = job[j].clips /\ Cancelled(j).frames = job[j].frames
        /\ Cancelled(j).spoken = job[j].spoken
    BY <2>2 DEF Cancelled, JobRecord
  <2>4. job[j].phase \in {"failed", "cancelled"}
    BY <2>1 DEF Is, Terminal
  <2> QED
    BY <2>1, <2>3, <2>4 DEF Kept, Is
<1> QED
  BY <1>1, <1>2

LEMMA StepKeeps ==
  ASSUME ShortsInv, [Next]_vars, NEW k \in Jobs, Is(k, Terminal)
  PROVE  Kept(k)
<1>1. JobsTyped /\ MakerWaits /\ MakerKnows
  BY DEF ShortsInv, Typed
<1>2. ~Is(k, Active) /\ Exists(k) /\ ~Is(k, {"absent"})
  BY DEF Is, Exists, Terminal, Active, Running, Gone
<1>3. ASSUME NEW j \in Jobs, NEW new, Save(j, new) PROVE job'[k] = job[k]
  BY <1>1, <1>2, <1>3, Saved
<1>4. CASE job' = job
  BY <1>4, SameIsKept
<1>5. ASSUME NEW j \in Jobs, Work(j) \/ Error(j) PROVE Kept(k)
  <2>1. CASE Videos(j)
    BY <1>3, <1>4, <2>1, SameIsKept
       DEF Videos, Begin, Mark, NextChild, VideosComplete, Post, Record, Poll, Seen, StopInstead, TakeResult,
           WithoutAnchor, ChildLost, After
  <2>2. CASE Sound(j)
    BY <1>3, <1>4, <2>2, SameIsKept DEF Sound, Tts, Speak, Spoken, WriteVoice, CheckVoice, Voiced
  <2>3. CASE Composition(j)
    BY <1>3, <1>4, <2>3, SameIsKept DEF Composition, Compose, Mix, Render, CheckFinal, Publish
  <2>4. CASE Error(j) \/ Handling(j) \/ WorkerReads(j) \/ WorkerAsks(j)
    BY <1>3, <1>4, <2>4, SameIsKept DEF Error, Handling, HandleError, Fail, WorkerReads, WorkerAsks
  <2>5. CASE WorkerCommits(j)
    BY <1>1, <2>5, CancelledIsKept DEF WorkerCommits
  <2> QED
    BY <1>5, <2>1, <2>2, <2>3, <2>4, <2>5 DEF Work, Ending
<1>6. ASSUME NEW j \in Jobs, Cancel(j) \/ CancelChat(j) \/ Call(j) PROVE Kept(k)
  <2>1. CASE CallerCommits(j)
    BY <1>1, <2>1, CancelledIsKept DEF CallerCommits
  <2>2. CASE ~CallerCommits(j)
    BY <1>3, <1>4, <1>6, <2>2, SameIsKept DEF Cancel, CancelChat, Call, Snapshot, Flag, CallerReads, CallerAsks
  <2> QED
    BY <2>1, <2>2
<1>7. ASSUME NEW j \in Jobs, Create(j) PROVE Kept(k)
  BY <1>1, <1>2, <1>7, SameIsKept DEF Create, JobsTyped
<1>8. ASSUME NEW j \in Jobs, Delete(j) PROVE Kept(k)
  <2>1. CASE k \in Chain(j)
    <3>1. job'[k] = [NewJob(k) EXCEPT !.phase = "deleted"]
      BY <1>8, <2>1 DEF Delete
    <3> QED
      BY <3>1 DEF Kept, NewJob
  <2>2. CASE k \notin Chain(j)
    BY <1>8, <2>2, SameIsKept DEF Delete
  <2> QED
    BY <2>1, <2>2
<1>9. CASE RetryCreates
  <2>1. maker.to \in Jobs /\ Is(maker.to, {"absent"})
    BY <1>1, <1>9 DEF MakerWaits, MakerKnows, RetryCreates, MakerAt
  <2>2. k # maker.to
    BY <1>2, <2>1
  <2> QED
    BY <1>1, <1>9, <2>1, <2>2, SameIsKept DEF RetryCreates, JobsTyped
<1>10. CASE RetryFills \/ RetrySpeech
  <2>1. maker.to \in Jobs
    BY <1>1, <1>10 DEF MakerKnows, RetryFills, RetrySpeech, MakerAt
  <2>2. \E new : Save(maker.to, new)
    BY <1>10 DEF RetryFills, RetrySpeech
  <2> QED
    BY <1>3, <2>1, <2>2, SameIsKept
<1>11. CASE RetryStarts \/ RetryLosesSource \/ Restart \/ (\E j \in Jobs, t \in Jobs : Retry(j, t))
              \/ (\E c \in Children : ChildEnds(c))
  BY <1>4, <1>11 DEF RetryStarts, RetryLosesSource, Restart, Retry, ChildEnds
<1>12. CASE UNCHANGED vars
  BY <1>4, <1>12 DEF vars
<1> QED
  BY <1>5, <1>6, <1>7, <1>8, <1>9, <1>10, <1>11, <1>12 DEF Next, Make

\* A short that ended consumes nothing any more (NothingConsumedAfterEnd).
THEOREM EndedShortsStay == Safe => NothingConsumedAfterEnd
<1>1. ShortsInv /\ [Next]_vars => [\A j \in Jobs : Is(j, Terminal) => Kept(j)]_vars
  BY StepKeeps
<1>2. Safe => [][\A j \in Jobs : Is(j, Terminal) => Kept(j)]_vars
  BY <1>1, InitShorts, ShortsStep, PTL DEF Safe
<1> QED
  BY <1>2 DEF NothingConsumedAfterEnd, Kept

----------------------------------------------------------------------------
(* The voiceover of a completed short stays *)

VoicePhases == {"tts_completed", "compose", "completed"}
Speaking == {"speak", "speaking", "write", "heard"}
Composing == {"compose", "mix", "render", "rendered", "publish"}

\* A short that counts as spoken exists and has its voiceover, one that is
\* composed counts as spoken, and one that is being spoken does not.
SpokenHasVoice(j) == job[j].spoken => voice[job[j].track]
Vocal(j) ==
  /\ job[j].spoken => Exists(j)
  /\ Is(j, VoicePhases) => job[j].spoken
  /\ Is(j, Active) /\ worker[j].pc \in Composing => job[j].spoken
  /\ worker[j].pc \in Speaking => ~job[j].spoken
  /\ At(j, "voiced") => voice[j]

\* The voiceover of a short will not be spoken again: it is deleted, it is there,
\* or the short has ended together with its worker.
Settled(j) == \/ Is(j, {"deleted"})
              \/ Exists(j) /\ job[j].spoken
              \/ Is(j, Terminal) /\ At(j, "none")

\* A voiceover of another short is settled, and the two are in one chain.
Together(j, k) == \A S \in SUBSET Jobs : Linked(S) => (j \in S <=> k \in S)
Borrowed(j) == LET t == job[j].track IN
                 Exists(j) /\ t # j => Settled(t) /\ (Exists(t) => Together(j, t))

\* What a retry remembers of its source still holds when it uses it.
MakerVoice == maker.pc # "idle" =>
  /\ Is(maker.from, Terminal \cup {"deleted"})
  /\ maker.spoken => /\ Settled(maker.track)
                     /\ Exists(maker.track) => Exists(maker.from) /\ job[maker.from].track = maker.track
  /\ maker.pc = "fill" /\ Exists(maker.to) => job[maker.to].parent = NoJob
  /\ maker.pc = "speech" /\ Is(maker.to, Active) => job[maker.to].parent = maker.from

VoiceInv == /\ \A j \in Jobs : SpokenHasVoice(j) /\ Vocal(j) /\ Borrowed(j)
            /\ MakerVoice

\* Steps that create, link and delete no short keep what is borrowed.
KeepsLinks ==
  \A j \in Jobs : /\ (Exists(j)' <=> Exists(j)) /\ job'[j].parent = job[j].parent
                  /\ job'[j].track \in {job[j].track, j}
                  /\ Is(j, Terminal) => Is(j, Terminal)' /\ job'[j].track = job[j].track
                  /\ Is(j, {"deleted"}) => Is(j, {"deleted"})'
                  /\ Is(j, Active)' => Is(j, Active)
                  /\ Settled(j) => Settled(j)'

LEMMA LinksSame ==
  ASSUME KeepsLinks, JobsTyped
  PROVE  \A S \in SUBSET Jobs : Linked(S)' <=> Linked(S)
<1> SUFFICES ASSUME NEW S \in SUBSET Jobs
             PROVE  Linked(S)' <=> Linked(S)
  OBVIOUS
<1>1. \A j \in Jobs : job[j].parent \in Jobs \/ job[j].parent = NoJob
  BY DEF JobsTyped, JobRecord
<1>2. \A j \in Jobs : HasParent(j)' <=> HasParent(j)
  <2>1. ASSUME NEW j \in Jobs
        PROVE  HasParent(j)' <=> HasParent(j)
    <3>1. job'[j].parent = job[j].parent /\ (Exists(j)' <=> Exists(j))
      BY DEF KeepsLinks
    <3>2. job[j].parent # NoJob => (job'[job[j].parent].phase \notin Gone <=> job[job[j].parent].phase \notin Gone)
      BY <1>1 DEF KeepsLinks, Exists, Is
    <3> QED BY <3>1, <3>2 DEF HasParent, Exists, Is
  <2> QED BY <2>1
<1>3. \A j \in Jobs : job'[j].parent = job[j].parent
  BY DEF KeepsLinks
<1> QED BY <1>2, <1>3 DEF Linked

\* MakerVoice after a step, for the jobs that the retry names.
LEMMA MakerVoiceMeans ==
  ASSUME NEW f \in Jobs, NEW k \in Jobs, NEW t \in Jobs,
         maker'.from = f, maker'.to = k, maker'.track = t,
         Is(f, Terminal \cup {"deleted"})',
         maker'.spoken => Settled(t)' /\ (Exists(t)' => Exists(f)' /\ job'[f].track = t),
         maker'.pc = "fill" /\ Exists(k)' => job'[k].parent = NoJob,
         maker'.pc = "speech" /\ Is(k, Active)' => job'[k].parent = f
  PROVE  MakerVoice'
  BY DEF MakerVoice, Settled, Exists, Is, At

LEMMA LinksKept ==
  ASSUME Typed, KeepsLinks, VoiceInv, maker' = maker \/ maker'.pc = "idle"
  PROVE  MakerVoice' /\ \A j \in Jobs : Borrowed(j)'
<1>1. JobsTyped /\ MakerKnows
  BY DEF Typed
<1>2. \A j, k \in Jobs : Together(j, k) => Together(j, k)'
  BY <1>1, LinksSame DEF Together
<1>3. ASSUME NEW j \in Jobs
      PROVE  Borrowed(j)'
  <2>1. PICK t \in Jobs : t = job[j].track
    BY <1>1 DEF JobsTyped, JobRecord
  <2>2. Borrowed(j)
    BY DEF VoiceInv
  <2>3. CASE Exists(j)' /\ job'[j].track # j
    <3>1. job'[j].track = t /\ Exists(j) /\ t # j
      BY <2>1, <2>3 DEF KeepsLinks
    <3>2. Settled(t) /\ (Exists(t) => Together(j, t))
      BY <2>1, <2>2, <3>1 DEF Borrowed
    <3>3. Settled(t)' /\ (Exists(t)' => Together(j, t)')
      BY <1>2, <3>2 DEF KeepsLinks
    <3> QED BY <3>1, <3>3 DEF Borrowed
  <2>4. CASE ~(Exists(j)' /\ job'[j].track # j)
    BY <2>4 DEF Borrowed
  <2> QED BY <2>3, <2>4
<1>4. ASSUME maker.pc # "idle", maker' = maker
      PROVE  MakerVoice'
  <2>1. PICK f \in Jobs, k \in Jobs, t \in Jobs : f = maker.from /\ k = maker.to /\ t = maker.track
    BY <1>1, <1>4 DEF MakerKnows
  <2>2. /\ Is(f, Terminal \cup {"deleted"})
        /\ maker.spoken => Settled(t) /\ (Exists(t) => Exists(f) /\ job[f].track = t)
        /\ maker.pc = "fill" /\ Exists(k) => job[k].parent = NoJob
        /\ maker.pc = "speech" /\ Is(k, Active) => job[k].parent = f
    BY <1>4, <2>1 DEF VoiceInv, MakerVoice
  <2>3. Is(f, Terminal \cup {"deleted"})'
    BY <2>2 DEF KeepsLinks, Is
  <2>4. Exists(f) /\ Is(f, Terminal \cup {"deleted"}) => Is(f, Terminal)
    BY DEF Exists, Is, Gone
  <2>5. maker.spoken => Settled(t)' /\ (Exists(t)' => Exists(f)' /\ job'[f].track = t)
    BY <2>2, <2>4 DEF KeepsLinks
  <2>6. /\ maker.pc = "fill" /\ Exists(k)' => job'[k].parent = NoJob
        /\ maker.pc = "speech" /\ Is(k, Active)' => job'[k].parent = f
    BY <2>2 DEF KeepsLinks
  <2>7. maker'.from = f /\ maker'.to = k /\ maker'.track = t /\ maker'.pc = maker.pc /\ maker'.spoken = maker.spoken
    BY <1>4, <2>1
  <2> QED BY <2>3, <2>5, <2>6, <2>7, MakerVoiceMeans
<1>5. ASSUME maker'.pc = "idle"
      PROVE  MakerVoice'
  BY <1>5 DEF MakerVoice
<1> QED BY <1>3, <1>4, <1>5

\* What the step of a worker may do to its own job.
VoiceStep(j) ==
  /\ job'[j].spoken => voice[job'[j].track]
  /\ voice'[j] = voice[j] \/ voice'[j] \/ (~job[j].spoken /\ ~job'[j].spoken)
  /\ Vocal(j)'
  /\ job[j].spoken => job'[j].spoken \/ (Is(j, Terminal)' /\ At(j, "none")')
  /\ job'[j].track \in {job[j].track, j} /\ job'[j].parent = job[j].parent
  /\ Is(j, Terminal) => Is(j, Terminal)' /\ job'[j].track = job[j].track
  /\ Is(j, Active)' => Is(j, Active)
  /\ Exists(j)'

\* A step that leaves the voiceover and what counts as spoken alone.
LEMMA SilentStep ==
  ASSUME NEW j \in Jobs, Exists(j), SpokenHasVoice(j), Vocal(j), voice'[j] = voice[j],
         worker'[j].pc \notin Speaking \cup Composing \cup {"voiced"},
         job'[j].spoken = job[j].spoken, job'[j].track = job[j].track, job'[j].parent = job[j].parent,
         job'[j].phase = job[j].phase \/ (job'[j].phase \notin VoicePhases \cup Gone),
         Is(j, Terminal) => Is(j, Terminal)', Is(j, Active)' => Is(j, Active)
  PROVE  VoiceStep(j)
  BY DEF VoiceStep, Vocal, SpokenHasVoice, Is, Exists, At, Gone

LEMMA SavedSilently ==
  ASSUME JobsTyped, NEW j \in Jobs, Exists(j), SpokenHasVoice(j), Vocal(j), voice'[j] = voice[j],
         NEW new, Save(j, new), worker'[j].pc \notin Speaking \cup Composing \cup {"voiced"},
         new.spoken = job[j].spoken, new.track = job[j].track, new.parent = job[j].parent,
         new.phase = job[j].phase \/ new.phase \notin VoicePhases \cup Gone
  PROVE  VoiceStep(j)
<1>1. CASE Is(j, Active)
  <2>1. job'[j] = new /\ ~Is(j, Terminal)
    BY <1>1, Saved DEF Is, Active, Running, Terminal
  <2> QED BY <1>1, <2>1, SilentStep
<1>2. CASE ~Is(j, Active)
  <2>1. job'[j] = job[j]
    BY <1>2, Saved
  <2> QED BY <1>2, <2>1, SilentStep DEF Is
<1> QED BY <1>1, <1>2

LEMMA VideosVoice ==
  ASSUME Typed, NEW j \in Jobs, Whole(j), SpokenHasVoice(j), Vocal(j), Videos(j)
  PROVE  VoiceStep(j)
<1>1. JobsTyped /\ WorkersTyped
  BY DEF Typed
<1>2. worker[j] \in WorkerRecord /\ job[j] \in JobRecord
  BY <1>1 DEF WorkersTyped, JobsTyped
<1>3. voice' = voice /\ ~At(j, "none")
  BY DEF Videos, Begin, Mark, NextChild, VideosComplete, Post, Record, Poll, Seen, StopInstead, TakeResult,
         WithoutAnchor, ChildLost, After, files, At
<1>4. Exists(j)
  BY <1>3 DEF Whole
<1> DEFINE Quiet == worker'[j].pc \notin Speaking \cup Composing \cup {"voiced"}
<1>5. CASE job' = job /\ Quiet
  BY <1>3, <1>4, <1>5, SilentStep DEF Is
<1>6. ASSUME NEW new, Save(j, new), Quiet,
             new.spoken = job[j].spoken, new.track = job[j].track, new.parent = job[j].parent,
             new.phase = job[j].phase \/ new.phase \in {"keyframe", "video", "video_completed", "failed"}
      PROVE  VoiceStep(j)
  <2>1. new.phase = job[j].phase \/ new.phase \notin VoicePhases \cup Gone
    BY <1>6 DEF VoicePhases, Gone
  <2> QED BY <1>1, <1>3, <1>4, <1>6, <2>1, SavedSilently
<1>7. ASSUME NEW pc \in {"none", "begin", "ending", "mark", "after", "scene", "post", "record", "poll", "seen", "take", "tts"},
             worker'[j].pc = pc
      PROVE  Quiet
  BY <1>7 DEF Speaking, Composing
<1> HIDE DEF Quiet
<1>8. CASE Begin(j)
  <2>1. \/ worker'[j].pc \in {"none", "ending", "mark"}
        \/ worker' = [worker EXCEPT ![j].pc = "after", ![j].late = TRUE]
    BY <1>1, <1>8, Went, Finished DEF Begin
  <2>2. [worker[j] EXCEPT !.pc = "after", !.late = TRUE].pc = "after"
    BY <1>2 DEF WorkerRecord
  <2>3. worker'[j].pc \in {"none", "ending", "mark", "after"}
    BY <1>1, <2>1, <2>2 DEF WorkersTyped
  <2> QED BY <1>5, <1>7, <1>8, <2>3 DEF Begin
<1>9. CASE Mark(j)
  <2> DEFINE p == IF j \notin Consistent THEN "video" ELSE IF job[j].phase = "video" THEN "video" ELSE "keyframe"
             new == [job[j] EXCEPT !.phase = p]
  <2>1. Save(j, new) /\ worker'[j].pc = "scene"
    BY <1>1, <1>9, Went DEF Mark
  <2>2. new.spoken = job[j].spoken /\ new.track = job[j].track /\ new.parent = job[j].parent /\ new.phase = p
    BY <1>2 DEF JobRecord
  <2>3. p \in {"keyframe", "video"}
    OBVIOUS
  <2> HIDE DEF new, p
  <2> QED BY <1>6, <1>7, <2>1, <2>2, <2>3
<1>10. CASE NextChild(j)
  <2>3. worker'[j].pc \in {"none", "ending", "post", "poll"}
    BY <1>1, <1>2, <1>10, Went, Finished DEF NextChild, WorkersTyped, WorkerRecord
  <2> QED BY <1>5, <1>7, <1>10, <2>3 DEF NextChild
<1>11. CASE VideosComplete(j)
  <2> DEFINE new == [job[j] EXCEPT !.phase = "video_completed", !.image = None, !.video = None]
  <2>1. Save(j, new) /\ worker'[j].pc \in {"begin", "after"}
    BY <1>1, <1>11, Went DEF VideosComplete
  <2>2. new.spoken = job[j].spoken /\ new.track = job[j].track /\ new.parent = job[j].parent /\ new.phase = "video_completed"
    BY <1>2 DEF JobRecord
  <2> HIDE DEF new
  <2> QED BY <1>6, <1>7, <2>1, <2>2
<1>12. CASE Post(j) \/ Poll(j)
  <2>3. worker'[j].pc \in {"record", "seen"}
    BY <1>1, <1>2, <1>12 DEF Post, Poll, WorkersTyped, WorkerRecord
  <2> QED BY <1>5, <1>7, <1>12, <2>3 DEF Post, Poll
<1>13. CASE Record(j)
  <2>1. Save(j, WithChild(j)) /\ worker'[j].pc = "poll"
    BY <1>1, <1>13, Went DEF Record
  <2>2. /\ WithChild(j).spoken = job[j].spoken /\ WithChild(j).track = job[j].track /\ WithChild(j).parent = job[j].parent
        /\ WithChild(j).phase \in {"keyframe", "video"}
    BY <1>2 DEF WithChild, JobRecord
  <2> QED BY <1>6, <1>7, <2>1, <2>2
<1>14. CASE Seen(j) \/ StopInstead(j)
  <2>1. worker'[j].pc \in {"ending", "scene", "take"} /\ job' = job
    BY <1>1, <1>14, Went DEF Seen, StopInstead
  <2> QED BY <1>5, <1>7, <2>1
<1>15. CASE After(j)
  <2>1. /\ job' = job
        /\ \/ Is(j, {"video_completed"}) /\ worker'[j].pc = "tts"
           \/ Is(j, {"tts_completed"}) /\ worker'[j].pc = "compose"
           \/ worker'[j].pc = "none"
    BY <1>1, <1>15, Went, Finished DEF After
  <2>2. CASE Is(j, {"tts_completed"}) /\ worker'[j].pc = "compose"
    <3>1. job[j].spoken
      BY <2>2 DEF Vocal, Is, VoicePhases
    <3> QED BY <1>3, <1>4, <2>1, <2>2, <3>1 DEF VoiceStep, Vocal, SpokenHasVoice, Is, Exists, At, Speaking, Composing
  <2> QED BY <1>5, <1>7, <2>1, <2>2
<1>16. CASE TakeResult(j)
  <2>1. Save(j, WithResult(j)) /\ worker'[j].pc = "scene"
    BY <1>1, <1>16, Went DEF TakeResult
  <2>2. /\ WithResult(j).spoken = job[j].spoken /\ WithResult(j).track = job[j].track
        /\ WithResult(j).parent = job[j].parent
        /\ WithResult(j).phase = job[j].phase \/ WithResult(j).phase \in {"keyframe", "video"}
    BY <1>2 DEF WithResult, JobRecord
  <2> QED BY <1>6, <1>7, <2>1, <2>2
<1>17. CASE WithoutAnchor(j)
  <2> DEFINE new == [job[j] EXCEPT !.image = None, !.plain = @ \cup {worker[j].scene}]
  <2>1. Save(j, new) /\ worker'[j].pc = "scene"
    BY <1>1, <1>17, Went DEF WithoutAnchor
  <2>2. new.spoken = job[j].spoken /\ new.track = job[j].track /\ new.parent = job[j].parent /\ new.phase = job[j].phase
    BY <1>2 DEF JobRecord
  <2> HIDE DEF new
  <2> QED BY <1>6, <1>7, <2>1, <2>2
<1>18. CASE ChildLost(j)
  <2>1. Save(j, Failed(j)) /\ worker'[j].pc = "none"
    BY <1>1, <1>18, Finished DEF ChildLost
  <2>2. /\ Failed(j).spoken = job[j].spoken /\ Failed(j).track = job[j].track /\ Failed(j).parent = job[j].parent
        /\ Failed(j).phase = "failed"
    BY <1>2 DEF Failed, JobRecord
  <2> QED BY <1>6, <1>7, <2>1, <2>2
<1> QED
  BY <1>8, <1>9, <1>10, <1>11, <1>12, <1>13, <1>14, <1>15, <1>16, <1>17, <1>18 DEF Videos

\* A step of the composition that leaves the voiceover alone.
LEMMA Composed ==
  ASSUME JobsTyped, NEW j \in Jobs, Exists(j), SpokenHasVoice(j), Vocal(j), voice'[j] = voice[j],
         worker[j].pc \in Composing, worker'[j].pc \in Composing \cup {"none", "ending"},
         NEW new, Save(j, new) \/ job' = job,
         new.spoken = job[j].spoken, new.track = job[j].track, new.parent = job[j].parent,
         new.phase \in {"compose", "completed"}
  PROVE  VoiceStep(j)
<1>1. worker'[j].pc \notin Speaking \cup {"voiced"}
  BY DEF Composing, Speaking
<1>2. CASE Is(j, Active) /\ Save(j, new)
  <2>1. job'[j] = new /\ ~Is(j, Terminal) /\ job[j].spoken
    BY <1>2, Saved DEF Is, Active, Running, Terminal, Vocal
  <2> QED BY <1>1, <1>2, <2>1 DEF VoiceStep, Vocal, SpokenHasVoice, Is, Exists, At, Gone
<1>3. CASE ~Is(j, Active) \/ job' = job
  <2>1. job'[j] = job[j]
    BY <1>3, Saved
  <2> QED BY <1>1, <1>3, <2>1 DEF VoiceStep, Vocal, SpokenHasVoice, Is, Exists, At
<1> QED BY <1>2, <1>3

LEMMA SoundVoice ==
  ASSUME Typed, NEW j \in Jobs, Whole(j), SpokenHasVoice(j), Vocal(j), Sound(j) \/ Composition(j)
  PROVE  VoiceStep(j)
<1>1. JobsTyped /\ WorkersTyped /\ FilesTyped
  BY DEF Typed
<1>2. job[j] \in JobRecord
  BY <1>1 DEF JobsTyped
<1>3. ~At(j, "none")
  BY DEF Sound, Composition, Tts, Speak, Spoken, WriteVoice, CheckVoice, Voiced, Compose, Mix, Render, CheckFinal,
         Publish, At
<1>4. Exists(j)
  BY <1>3 DEF Whole
<1>5. CASE Tts(j)
  <2> DEFINE new == [job[j] EXCEPT !.phase = "tts_completed", !.spoken = TRUE]
  <2>1. voice' = voice
    BY <1>5 DEF Tts, files
  <2>2. \/ job' = job /\ worker'[j].pc = "ending"
        \/ voice[job[j].track] /\ Save(j, new) /\ worker'[j].pc = "after"
        \/ job' = job /\ ~voice[job[j].track] /\ worker'[j].pc = "speak"
    BY <1>1, <1>5, Went DEF Tts
  <2>3. new.phase = "tts_completed" /\ new.spoken = TRUE /\ new.track = job[j].track /\ new.parent = job[j].parent
    BY <1>2 DEF JobRecord
  <2> HIDE DEF new
  <2>4. CASE job' = job /\ worker'[j].pc = "ending"
    BY <1>4, <2>1, <2>4, SilentStep DEF Is, Speaking, Composing
  <2>5. CASE voice[job[j].track] /\ Save(j, new) /\ worker'[j].pc = "after"
    <3>1. CASE Is(j, Active)
      <4>1. job'[j] = new /\ ~Is(j, Terminal)
        BY <1>1, <2>5, <3>1, Saved DEF Is, Active, Running, Terminal
      <4> QED BY <2>1, <2>3, <2>5, <3>1, <4>1 DEF VoiceStep, Vocal, Is, Exists, At, Gone, Speaking, Composing
    <3>2. CASE ~Is(j, Active)
      <4>1. job'[j] = job[j]
        BY <1>1, <2>5, <3>2, Saved
      <4> QED BY <1>4, <2>1, <2>5, <4>1, SilentStep DEF Is, Speaking, Composing
    <3> QED BY <3>1, <3>2
  <2>6. CASE job' = job /\ ~voice[job[j].track] /\ worker'[j].pc = "speak"
    <3>1. ~job[j].spoken
      BY <2>6 DEF SpokenHasVoice
    <3> QED BY <1>4, <2>1, <2>6, <3>1 DEF VoiceStep, Vocal, Is, Exists, At, Speaking, Composing
  <2> QED BY <2>2, <2>4, <2>5, <2>6
<1>6. CASE Speak(j)
  <2> DEFINE new == [job[j] EXCEPT !.phase = "tts", !.spoken = FALSE]
  <2>1. voice' = voice /\ ~job[j].spoken /\ Save(j, new) /\ worker'[j].pc = "speaking"
    BY <1>1, <1>6, Went DEF Speak, files, Vocal, Speaking, At
  <2>2. new.phase = "tts" /\ ~new.spoken /\ new.track = job[j].track /\ new.parent = job[j].parent
    BY <1>2 DEF JobRecord
  <2> HIDE DEF new
  <2>3. CASE Is(j, Active)
    <3>1. job'[j] = new /\ ~Is(j, Terminal)
      BY <1>1, <2>1, <2>3, Saved DEF Is, Active, Running, Terminal
    <3> QED BY <2>1, <2>2, <2>3, <3>1 DEF VoiceStep, Vocal, VoicePhases, Is, Exists, At, Gone, Speaking, Composing
  <2>4. CASE ~Is(j, Active)
    <3>1. job'[j] = job[j]
      BY <1>1, <2>1, <2>4, Saved
    <3> QED BY <1>4, <2>1, <2>4, <3>1 DEF VoiceStep, Vocal, Is, Exists, At, Speaking, Composing
  <2> QED BY <2>3, <2>4
<1>7. CASE Spoken(j)
  <2>1. voice' = voice /\ job' = job /\ ~job[j].spoken /\ worker'[j].pc \in {"ending", "write"}
    BY <1>1, <1>7, Went DEF Spoken, files, Vocal, Speaking, At
  <2> QED BY <1>4, <2>1 DEF VoiceStep, Vocal, Is, Exists, At, Speaking, Composing
<1>8. CASE WriteVoice(j)
  <2>1. voice'[j] /\ job' = job /\ ~job[j].spoken /\ worker'[j].pc = "heard"
    BY <1>1, <1>8, Went DEF WriteVoice, Vocal, Speaking, At, FilesTyped
  <2> QED BY <1>4, <2>1 DEF VoiceStep, Vocal, Is, Exists, At, Speaking, Composing
<1>9. CASE CheckVoice(j)
  <2>1. /\ voice'[j] = ~job[j].cancel /\ job' = job /\ ~job[j].spoken
        /\ worker'[j].pc = IF job[j].cancel THEN "ending" ELSE "voiced"
    BY <1>1, <1>9, Went DEF CheckVoice, Vocal, Speaking, At, FilesTyped
  <2> QED BY <1>4, <2>1 DEF VoiceStep, Vocal, Is, Exists, At, Speaking, Composing
<1>10. CASE Voiced(j)
  <2> DEFINE new == [job[j] EXCEPT !.phase = "tts_completed", !.spoken = TRUE, !.track = j]
  <2>1. voice' = voice /\ voice[j] /\ Save(j, new) /\ worker'[j].pc = "after"
    BY <1>1, <1>10, Went DEF Voiced, files, Vocal, At
  <2>2. new.phase = "tts_completed" /\ new.spoken = TRUE /\ new.track = j /\ new.parent = job[j].parent
    BY <1>2 DEF JobRecord
  <2> HIDE DEF new
  <2>3. CASE Is(j, Active)
    <3>1. job'[j] = new /\ ~Is(j, Terminal)
      BY <1>1, <2>1, <2>3, Saved DEF Is, Active, Running, Terminal
    <3> QED BY <2>1, <2>2, <2>3, <3>1 DEF VoiceStep, Vocal, Is, Exists, At, Gone, Speaking, Composing
  <2>4. CASE ~Is(j, Active)
    <3>1. job'[j] = job[j]
      BY <1>1, <2>1, <2>4, Saved
    <3> QED BY <1>4, <2>1, <3>1, SilentStep DEF Is, Speaking, Composing
  <2> QED BY <2>3, <2>4
<1>11. /\ Completed(j).spoken = job[j].spoken /\ Completed(j).track = job[j].track
       /\ Completed(j).parent = job[j].parent /\ Completed(j).phase = "completed"
  BY <1>2 DEF Completed, JobRecord
<1>12. CASE Compose(j)
  <2>1. voice' = voice /\ worker[j].pc \in Composing /\ (Save(j, Completed(j)) \/ job' = job)
    BY <1>12 DEF Compose, files, Composing, At
  <2>2. worker'[j].pc \in Composing \cup {"none", "ending"}
    BY <1>1, <1>12, Went, Finished DEF Compose, Composing
  <2> QED BY <1>1, <1>4, <1>11, <2>1, <2>2, Composed
<1>13. CASE Mix(j)
  <2> DEFINE new == [job[j] EXCEPT !.phase = "compose"]
  <2>1. voice' = voice /\ worker[j].pc \in Composing /\ Save(j, new)
    BY <1>13 DEF Mix, files, Composing, At
  <2>2. worker'[j].pc \in Composing \cup {"none", "ending"}
    BY <1>1, <1>13, Went DEF Mix, Composing
  <2>3. new.phase = "compose" /\ new.spoken = job[j].spoken /\ new.track = job[j].track /\ new.parent = job[j].parent
    BY <1>2 DEF JobRecord
  <2> HIDE DEF new
  <2> QED BY <1>1, <1>4, <2>1, <2>2, <2>3, Composed
<1>14. CASE Render(j) \/ CheckFinal(j)
  <2>1. voice' = voice /\ worker[j].pc \in Composing /\ job' = job
    BY <1>14 DEF Render, CheckFinal, Composing, At
  <2>2. worker'[j].pc \in Composing \cup {"none", "ending"}
    BY <1>1, <1>14, Went DEF Render, CheckFinal, Composing
  <2> QED BY <1>1, <1>4, <1>11, <2>1, <2>2, Composed
<1>15. CASE Publish(j)
  <2>1. voice' = voice /\ worker[j].pc \in Composing /\ Save(j, Completed(j))
    BY <1>15 DEF Publish, files, Composing, At
  <2>2. worker'[j].pc = "none"
    BY <1>1, <1>15, Finished DEF Publish
  <2> QED BY <1>1, <1>4, <1>11, <2>1, <2>2, Composed
<1> QED
  BY <1>5, <1>6, <1>7, <1>8, <1>9, <1>10, <1>12, <1>13, <1>14, <1>15 DEF Sound, Composition

LEMMA EndingVoice ==
  ASSUME Typed, NEW j \in Jobs, Whole(j), SpokenHasVoice(j), Vocal(j), Error(j) \/ Handling(j) \/ Ending(j)
  PROVE  VoiceStep(j)
<1>1. JobsTyped /\ WorkersTyped
  BY DEF Typed
<1>2. job[j] \in JobRecord
  BY <1>1 DEF JobsTyped
<1>3. ~At(j, "none") /\ voice' = voice
  BY DEF Error, Handling, Ending, HandleError, Fail, WorkerReads, WorkerAsks, WorkerCommits, At, files
<1>4. Exists(j) /\ ~Is(j, {"completed"})
  BY <1>3 DEF Whole
<1>5. CASE Error(j) \/ HandleError(j) \/ WorkerReads(j) \/ WorkerAsks(j)
  <2>1. job' = job /\ worker'[j].pc \in {"error", "ending", "fail", "asking", "committing"}
    BY <1>1, <1>5, Went DEF Error, HandleError, WorkerReads, WorkerAsks
  <2> QED BY <1>3, <1>4, <2>1, SilentStep DEF Is, Speaking, Composing
<1>6. CASE Fail(j)
  <2> DEFINE new == IF worker[j].late THEN [job[j] EXCEPT !.phase = "failed", !.spoken = VoiceStands(j)]
                    ELSE [Failed(j) EXCEPT !.spoken = VoiceStands(j)]
  <2>1. Save(j, new) /\ worker'[j].pc = "none"
    BY <1>1, <1>6, Finished DEF Fail
  <2>2. new.phase = "failed" /\ new.spoken = VoiceStands(j) /\ new.track = job[j].track /\ new.parent = job[j].parent
    <3>1. Failed(j) \in JobRecord /\ Failed(j).phase = "failed" /\ Failed(j).track = job[j].track
          /\ Failed(j).parent = job[j].parent
      BY <1>1, <1>2, WrittenTyped DEF Failed, JobRecord
    <3> HIDE DEF Failed, VoiceStands
    <3> QED BY <1>2, <3>1 DEF JobRecord
  <2>3. VoiceStands(j) => job[j].spoken
    BY DEF VoiceStands
  <2> HIDE DEF new
  <2>4. CASE Is(j, Active)
    <3>1. job'[j] = new /\ ~Is(j, Terminal)
      BY <1>1, <2>1, <2>4, Saved DEF Is, Active, Running, Terminal
    <3>2. /\ job'[j].spoken => job[j].spoken
          /\ job'[j].phase = "failed" /\ job'[j].track = job[j].track /\ job'[j].parent = job[j].parent
      BY <2>2, <2>3, <3>1
    <3> QED
      BY <1>3, <2>1, <2>4, <3>1, <3>2
         DEF VoiceStep, Vocal, SpokenHasVoice, VoicePhases, Is, Exists, At, Gone, Speaking, Composing, Terminal
  <2>5. CASE ~Is(j, Active)
    <3>1. job'[j] = job[j]
      BY <1>1, <2>1, <2>5, Saved
    <3> QED BY <1>3, <1>4, <2>1, <3>1, SilentStep DEF Is, Speaking, Composing
  <2> QED BY <2>4, <2>5
<1>7. CASE WorkerCommits(j)
  <2>1. SaveCancelled(j) /\ worker'[j].pc = "none"
    BY <1>1, <1>7, Finished DEF WorkerCommits
  <2>2. /\ job'[j].spoken = job[j].spoken /\ job'[j].track = job[j].track /\ job'[j].parent = job[j].parent
        /\ job'[j].phase = "cancelled"
    BY <1>1, <1>2, <1>4, <2>1 DEF SaveCancelled, Cancelled, JobsTyped, JobRecord, Is, Exists, Gone
  <2> QED BY <1>3, <1>4, <2>1, <2>2, SilentStep DEF Is, Speaking, Composing, VoicePhases, Gone, Terminal, Active, Running
<1> QED
  BY <1>5, <1>6, <1>7 DEF Handling, Ending

LEMMA WorkVoice ==
  ASSUME ShortsInv, VoiceInv, NEW j \in Jobs, Work(j) \/ Error(j)
  PROVE  VoiceInv'
<1>1. Typed /\ JobsTyped /\ Whole(j) /\ \A k \in Jobs : SpokenHasVoice(k) /\ Vocal(k) /\ Borrowed(k)
  BY DEF ShortsInv, Typed, VoiceInv
<1>2. VoiceStep(j)
  BY <1>1, VideosVoice, SoundVoice, EndingVoice DEF Work
<1>3. /\ \A k \in Jobs : k # j => job'[k] = job[k] /\ worker'[k] = worker[k] /\ voice'[k] = voice[k]
      /\ maker' = maker
  BY <1>1, WorkFrame
<1>4. ~At(j, "none")
  BY DEF Work, Error, Videos, Sound, Composition, Handling, Ending, Begin, Mark, NextChild, VideosComplete, Post, Record,
         Poll, Seen, StopInstead, TakeResult, WithoutAnchor, ChildLost, After, Tts, Speak, Spoken, WriteVoice, CheckVoice,
         Voiced, Compose, Mix, Render, CheckFinal, Publish, HandleError, Fail, WorkerReads, WorkerAsks, WorkerCommits, At
<1>5. Exists(j) /\ Exists(j)'
  BY <1>1, <1>2, <1>4 DEF Whole, VoiceStep
<1>6. Settled(j) => job[j].spoken
  BY <1>4, <1>5 DEF Settled, Is, Exists, Gone
<1>7. KeepsLinks
  <2>1. ASSUME NEW k \in Jobs, k # j, job'[k] = job[k], worker'[k] = worker[k]
        PROVE  /\ (Exists(k)' <=> Exists(k)) /\ job'[k].parent = job[k].parent
               /\ job'[k].track \in {job[k].track, k}
               /\ Is(k, Terminal) => Is(k, Terminal)' /\ job'[k].track = job[k].track
               /\ Is(k, {"deleted"}) => Is(k, {"deleted"})'
               /\ Is(k, Active)' => Is(k, Active)
               /\ Settled(k) => Settled(k)'
    BY <2>1 DEF Settled, Is, Exists, At
  <2>2. Settled(j) => Settled(j)'
    BY <1>2, <1>5, <1>6 DEF VoiceStep, Settled
  <2>3. ~Is(j, {"deleted"})
    BY <1>5 DEF Is, Exists, Gone
  <2> QED BY <1>2, <1>3, <1>5, <2>1, <2>2, <2>3 DEF KeepsLinks, VoiceStep
<1>8. ASSUME NEW k \in Jobs
      PROVE  SpokenHasVoice(k)' /\ Vocal(k)'
  <2>1. CASE k = j
    <3>1. Vocal(k)'
      BY <1>2, <2>1 DEF VoiceStep
    <3>2. ASSUME job'[j].spoken
          PROVE  voice'[job'[j].track]
      <4>1. PICK t : t = job'[j].track
        OBVIOUS
      <4>2. voice[t] /\ (t = j => voice'[j]) /\ t \in Jobs
        BY <1>1, <1>2, <3>2, <4>1 DEF VoiceStep, JobsTyped, JobRecord
      <4> QED BY <1>3, <4>1, <4>2
    <3> QED BY <2>1, <3>1, <3>2 DEF SpokenHasVoice
  <2>2. CASE k # j
    <3>1. Vocal(k)'
      BY <1>1, <1>3, <2>2 DEF Vocal, Is, Exists, At
    <3>2. ASSUME job[k].spoken
          PROVE  voice'[job[k].track]
      <4>1. PICK t \in Jobs : t = job[k].track
        BY <1>1 DEF JobsTyped, JobRecord
      <4>2. voice[t] /\ Exists(k)
        BY <1>1, <3>2, <4>1 DEF SpokenHasVoice, Vocal
      <4>3. t = j => job[j].spoken
        BY <1>1, <1>6, <2>2, <4>1, <4>2 DEF Borrowed
      <4>4. t = j => voice'[t]
        BY <1>2, <4>2, <4>3 DEF VoiceStep
      <4> QED BY <1>3, <4>1, <4>2, <4>4
    <3> QED BY <1>3, <2>2, <3>1, <3>2 DEF SpokenHasVoice
  <2> QED BY <2>1, <2>2
<1> QED BY <1>1, <1>3, <1>7, <1>8, LinksKept DEF VoiceInv

\* A step that at most cancels shorts, starts workers of shorts that go on, or
\* ends workers and the retry.
LEMMA QuietStep ==
  ASSUME Typed, VoiceInv, voice' = voice, maker' = maker \/ maker'.pc = "idle",
         \A k \in Jobs :
           /\ job'[k].spoken = job[k].spoken /\ job'[k].track = job[k].track /\ job'[k].parent = job[k].parent
           /\ job'[k].phase = job[k].phase \/ (job'[k].phase = "cancelled" /\ Exists(k))
           /\ worker'[k].pc \in {worker[k].pc, "none"} \/ (worker'[k].pc = "begin" /\ Is(k, Active))
  PROVE  VoiceInv'
<1>1. \A k \in Jobs : SpokenHasVoice(k)' /\ Vocal(k)'
  BY DEF VoiceInv, SpokenHasVoice, Vocal, VoicePhases, Speaking, Composing, Is, Exists, Gone, At, Active, Running
<1>2. KeepsLinks
  BY DEF KeepsLinks, Settled, Is, Exists, Gone, At, Active, Running, Terminal
<1> QED BY <1>1, <1>2, LinksKept DEF VoiceInv

\* Links that only become more leave what is together.
LEMMA TogetherGrows ==
  ASSUME \A x \in Jobs : HasParent(x) => HasParent(x)' /\ job'[x].parent = job[x].parent,
         NEW j \in Jobs, NEW k \in Jobs, Together(j, k)
  PROVE  Together(j, k)'
<1>1. ASSUME NEW S \in SUBSET Jobs, Linked(S)'
      PROVE  Linked(S)
  BY <1>1 DEF Linked
<1> QED BY <1>1 DEF Together

\* A voiceover that is not borrowed anew stays settled and in the chain.
LEMMA BorrowedKept ==
  ASSUME NEW k \in Jobs, NEW t \in Jobs, t = job[k].track, Borrowed(k),
         \A x \in Jobs : HasParent(x) => HasParent(x)' /\ job'[x].parent = job[x].parent,
         Exists(k)' => Exists(k), job'[k].track = t,
         Settled(t) => Settled(t)' /\ (Exists(t)' => Exists(t))
  PROVE  Borrowed(k)'
<1>1. ASSUME Exists(k)', t # k
      PROVE  Settled(t)' /\ (Exists(t)' => Together(k, t)')
  BY <1>1, TogetherGrows DEF Borrowed
<1> QED BY <1>1 DEF Borrowed

\* A new short borrows nothing, and nothing was borrowed from it.
LEMMA Appears ==
  ASSUME ShortsInv, VoiceInv, NEW j \in Jobs, Is(j, {"absent"}), voice' = voice,
         job' = [job EXCEPT ![j] = NewJob(j)], worker'[j].pc \in {"begin", "none"},
         \A k \in Jobs : k # j => worker'[k] = worker[k]
  PROVE  /\ \A k \in Jobs : SpokenHasVoice(k)' /\ Vocal(k)' /\ Borrowed(k)'
         /\ \A k \in Jobs : k # j => job'[k] = job[k] /\ (Settled(k) => Settled(k)' /\ (Exists(k)' => Exists(k)))
         /\ ~Settled(j) /\ job'[j].parent = NoJob
<1>1. JobsTyped /\ \A k \in Jobs : SpokenHasVoice(k) /\ Vocal(k) /\ Borrowed(k)
  BY DEF ShortsInv, Typed, VoiceInv
<1>2. job'[j] = NewJob(j) /\ \A k \in Jobs : k # j => job'[k] = job[k]
  BY <1>1 DEF JobsTyped
<1>3. job'[j].phase = "queued" /\ job'[j].spoken = FALSE /\ job'[j].track = j /\ job'[j].parent = NoJob
  BY <1>2 DEF NewJob
<1>4. ~Settled(j) /\ ~Exists(j)
  BY DEF Settled, Is, Exists, Terminal, Gone
<1>5. ASSUME NEW k \in Jobs, k # j
      PROVE  /\ SpokenHasVoice(k)' /\ Vocal(k)'
             /\ Settled(k) => Settled(k)' /\ (Exists(k)' => Exists(k))
  BY <1>1, <1>2, <1>5 DEF SpokenHasVoice, Vocal, Settled, Is, Exists, At
<1>6. SpokenHasVoice(j)' /\ Vocal(j)' /\ Borrowed(j)'
  BY <1>3 DEF SpokenHasVoice, Vocal, Borrowed, Is, Exists, At, VoicePhases, Speaking, Composing, Gone
<1>7. ASSUME NEW x \in Jobs, HasParent(x)
      PROVE  HasParent(x)' /\ job'[x].parent = job[x].parent
  <2>1. x # j /\ job[x].parent \in Jobs /\ job[x].parent # j
    BY <1>1, <1>4, <1>7 DEF HasParent, JobsTyped, JobRecord
  <2> QED BY <1>2, <1>7, <2>1 DEF HasParent, Exists, Is
<1>8. ASSUME NEW k \in Jobs, k # j
      PROVE  Borrowed(k)'
  <2>1. PICK t \in Jobs : t = job[k].track
    BY <1>1 DEF JobsTyped, JobRecord
  <2>2. Exists(k)' => Exists(k)
    BY <1>2, <1>8 DEF Exists, Is
  <2>3. Settled(t) => Settled(t)' /\ (Exists(t)' => Exists(t))
    BY <1>4, <1>5
  <2> QED BY <1>1, <1>2, <1>7, <1>8, <2>1, <2>2, <2>3, BorrowedKept
<1> QED BY <1>2, <1>3, <1>4, <1>5, <1>6, <1>8

\* What MakerVoice says of a retry under way, for the jobs that it names.
LEMMA MakerVoiceSays ==
  ASSUME Typed, MakerWaits, MakerVoice, maker.pc # "idle"
  PROVE  \E f \in Jobs, k \in Jobs, t \in Jobs :
           /\ f = maker.from /\ k = maker.to /\ t = maker.track
           /\ Is(f, Terminal \cup {"deleted"})
           /\ maker.spoken => Settled(t) /\ (Exists(t) => Exists(f) /\ job[f].track = t)
           /\ maker.pc = "fill" /\ Exists(k) => job[k].parent = NoJob
           /\ maker.pc = "speech" /\ Is(k, Active) => job[k].parent = f
           /\ k \notin Fresh /\ At(k, "none")
           /\ maker.pc = "create" => Is(k, {"absent"})
           /\ maker.pc \in {"fill", "speech"} => Is(k, {"queued"}) \/ ~Is(k, Active)
<1>1. PICK f \in Jobs, k \in Jobs, t \in Jobs : f = maker.from /\ k = maker.to /\ t = maker.track
  BY DEF Typed, MakerKnows
<1> QED BY <1>1 DEF MakerVoice, MakerWaits

LEMMA CreateVoice ==
  ASSUME ShortsInv, VoiceInv, NEW j \in Jobs, Create(j)
  PROVE  VoiceInv'
<1>1. Typed /\ WorkersTyped /\ MakerWaits /\ MakerVoice
  BY DEF ShortsInv, Typed, VoiceInv
<1>2. /\ j \in Fresh /\ Is(j, {"absent"}) /\ job' = [job EXCEPT ![j] = NewJob(j)]
      /\ voice' = voice /\ maker' = maker
  BY DEF Create, files
<1>3. worker'[j].pc = "begin" /\ \A k \in Jobs : k # j => worker'[k] = worker[k]
  BY <1>1 DEF Create, WorkersTyped, WorkerRecord
<1>4. /\ \A k \in Jobs : SpokenHasVoice(k)' /\ Vocal(k)' /\ Borrowed(k)'
      /\ \A k \in Jobs : k # j => job'[k] = job[k] /\ (Settled(k) => Settled(k)' /\ (Exists(k)' => Exists(k)))
      /\ ~Settled(j) /\ job'[j].parent = NoJob
  BY <1>2, <1>3, Appears
<1>5. ASSUME maker.pc # "idle"
      PROVE  MakerVoice'
  <2>1. PICK f \in Jobs, k \in Jobs, t \in Jobs :
           /\ f = maker.from /\ k = maker.to /\ t = maker.track
           /\ Is(f, Terminal \cup {"deleted"})
           /\ maker.spoken => Settled(t) /\ (Exists(t) => Exists(f) /\ job[f].track = t)
           /\ maker.pc = "fill" /\ Exists(k) => job[k].parent = NoJob
           /\ maker.pc = "speech" /\ Is(k, Active) => job[k].parent = f
           /\ k \notin Fresh
    BY <1>1, <1>5, MakerVoiceSays
  <2>2. f # j /\ k # j /\ (maker.spoken => t # j)
    BY <1>2, <1>4, <2>1 DEF Is, Terminal
  <2>3. Is(f, Terminal \cup {"deleted"})' /\ (Exists(f) => Exists(f)')
    BY <1>4, <2>1, <2>2 DEF Is, Exists
  <2>4. maker.spoken => Settled(t)' /\ (Exists(t)' => Exists(f)' /\ job'[f].track = t)
    BY <1>4, <2>1, <2>2, <2>3
  <2>5. /\ maker.pc = "fill" /\ Exists(k)' => job'[k].parent = NoJob
        /\ maker.pc = "speech" /\ Is(k, Active)' => job'[k].parent = f
    BY <1>4, <2>1, <2>2 DEF Is, Exists
  <2> QED BY <1>2, <2>1, <2>3, <2>4, <2>5, MakerVoiceMeans
<1>6. ASSUME maker.pc = "idle"
      PROVE  MakerVoice'
  BY <1>2, <1>6 DEF MakerVoice
<1> QED BY <1>4, <1>5, <1>6 DEF VoiceInv

LEMMA RetryCreatesVoice ==
  ASSUME ShortsInv, VoiceInv, RetryCreates
  PROVE  VoiceInv'
<1>1. Typed /\ MakerTyped /\ MakerWaits /\ MakerVoice /\ maker.pc = "create"
  BY DEF ShortsInv, Typed, VoiceInv, RetryCreates, MakerAt
<1>2. PICK f \in Jobs, k \in Jobs, t \in Jobs :
         /\ f = maker.from /\ k = maker.to /\ t = maker.track
         /\ Is(f, Terminal \cup {"deleted"})
         /\ maker.spoken => Settled(t) /\ (Exists(t) => Exists(f) /\ job[f].track = t)
         /\ At(k, "none") /\ Is(k, {"absent"})
  BY <1>1, MakerVoiceSays
<1>3. /\ job' = [job EXCEPT ![k] = NewJob(k)] /\ voice' = voice /\ worker' = worker
      /\ maker' = [maker EXCEPT !.pc = "fill"]
  BY <1>2 DEF RetryCreates, OnlyMaker, files
<1>4. /\ \A x \in Jobs : SpokenHasVoice(x)' /\ Vocal(x)' /\ Borrowed(x)'
      /\ \A x \in Jobs : x # k => job'[x] = job[x] /\ (Settled(x) => Settled(x)' /\ (Exists(x)' => Exists(x)))
      /\ ~Settled(k) /\ job'[k].parent = NoJob
  BY <1>2, <1>3, Appears DEF At
<1>5. f # k /\ (maker.spoken => t # k)
  BY <1>2, <1>4 DEF Is, Terminal
<1>6. Is(f, Terminal \cup {"deleted"})' /\ (Exists(f) => Exists(f)')
  BY <1>2, <1>4, <1>5 DEF Is, Exists
<1>7. maker.spoken => Settled(t)' /\ (Exists(t)' => Exists(f)' /\ job'[f].track = t)
  BY <1>2, <1>4, <1>5, <1>6
<1>8. /\ maker'.from = f /\ maker'.to = k /\ maker'.track = t /\ maker'.spoken = maker.spoken /\ maker'.pc = "fill"
  BY <1>1, <1>2, <1>3 DEF MakerTyped, MakerRecord
<1>9. MakerVoice'
  BY <1>4, <1>6, <1>7, <1>8, MakerVoiceMeans
<1> QED BY <1>4, <1>9 DEF VoiceInv

LEMMA RetryVoice ==
  ASSUME ShortsInv, VoiceInv, NEW j \in Jobs, NEW k \in Jobs, Retry(j, k)
  PROVE  VoiceInv'
<1>1. JobsTyped /\ \A x \in Jobs : SpokenHasVoice(x) /\ Vocal(x) /\ Borrowed(x)
  BY DEF ShortsInv, Typed, VoiceInv
<1>2. /\ Is(j, {"failed", "cancelled"}) /\ job' = job /\ worker' = worker /\ voice' = voice
      /\ maker'.pc = "create" /\ maker'.from = j /\ maker'.to = k /\ maker'.spoken = job[j].spoken
      /\ maker'.track = job[j].track
  BY DEF Retry, OnlyMaker, files
<1>3. Exists(j) /\ Is(j, Terminal)
  BY <1>2 DEF Is, Exists, Gone, Terminal
<1>4. PICK t \in Jobs : t = job[j].track
  BY <1>1 DEF JobsTyped, JobRecord
<1>5. job[j].spoken => Settled(t)
  BY <1>1, <1>3, <1>4 DEF Borrowed, Settled
<1>6. ASSUME NEW x \in Jobs
      PROVE  (Settled(x)' <=> Settled(x)) /\ (Exists(x)' <=> Exists(x)) /\ (Is(x, Terminal)' <=> Is(x, Terminal))
  BY <1>2 DEF Settled, Exists, Is, At
<1>7. Is(j, Terminal \cup {"deleted"})'
  BY <1>2 DEF Is, Terminal
<1>8. maker'.spoken => Settled(t)' /\ (Exists(t)' => Exists(j)' /\ job'[j].track = t)
  BY <1>2, <1>3, <1>4, <1>5, <1>6
<1>9. MakerVoice'
  BY <1>2, <1>4, <1>7, <1>8, MakerVoiceMeans
<1>10. ASSUME NEW x \in Jobs
       PROVE  SpokenHasVoice(x)' /\ Vocal(x)' /\ Borrowed(x)'
  <2>1. SpokenHasVoice(x)' /\ Vocal(x)'
    BY <1>1, <1>2 DEF SpokenHasVoice, Vocal, Is, Exists, At
  <2>2. PICK y \in Jobs : y = job[x].track
    BY <1>1 DEF JobsTyped, JobRecord
  <2>3. \A z \in Jobs : HasParent(z) => HasParent(z)' /\ job'[z].parent = job[z].parent
    BY <1>2 DEF HasParent, Exists, Is
  <2>4. Borrowed(x)'
    BY <1>1, <1>2, <1>6, <2>2, <2>3, BorrowedKept
  <2> QED BY <2>1, <2>4
<1> QED BY <1>9, <1>10 DEF VoiceInv

\* The new short gets its parent, and only then a voiceover: both keep what is settled.
LEMMA RetryFillsVoice ==
  ASSUME ShortsInv, VoiceInv, RetryFills
  PROVE  VoiceInv'
<1>1. /\ Typed /\ JobsTyped /\ MakerTyped /\ MakerWaits /\ MakerVoice /\ maker.pc = "fill"
      /\ \A x \in Jobs : SpokenHasVoice(x) /\ Vocal(x) /\ Borrowed(x)
  BY DEF ShortsInv, Typed, VoiceInv, RetryFills, MakerAt
<1>2. PICK f \in Jobs, k \in Jobs, t \in Jobs :
         /\ f = maker.from /\ k = maker.to /\ t = maker.track
         /\ Is(f, Terminal \cup {"deleted"})
         /\ maker.spoken => Settled(t) /\ (Exists(t) => Exists(f) /\ job[f].track = t)
         /\ Exists(k) => job[k].parent = NoJob
  BY <1>1, MakerVoiceSays
<1> DEFINE new == [job[k] EXCEPT !.clips = maker.clips, !.frames = maker.frames, !.parent = f]
<1>3. /\ Save(k, new) /\ voice' = voice /\ worker' = worker
      /\ maker' = [maker EXCEPT !.pc = "speech"]
  BY <1>2 DEF RetryFills, OnlyMaker, files
<1>4. /\ new.phase = job[k].phase /\ new.spoken = job[k].spoken /\ new.track = job[k].track /\ new.parent = f
  BY <1>1 DEF JobsTyped, JobRecord
<1> HIDE DEF new
<1>5. \A x \in Jobs : /\ job'[x].phase = job[x].phase /\ job'[x].spoken = job[x].spoken
                      /\ job'[x].track = job[x].track
                      /\ job'[x].parent = IF x = k /\ Is(k, Active) THEN f ELSE job[x].parent
  BY <1>1, <1>3, <1>4, Saved
<1>6. ASSUME NEW x \in Jobs
      PROVE  /\ (Settled(x)' <=> Settled(x)) /\ (Exists(x)' <=> Exists(x))
             /\ \A phases : Is(x, phases)' <=> Is(x, phases)
  BY <1>3, <1>5 DEF Settled, Exists, Is, At
<1>7. ASSUME NEW x \in Jobs, HasParent(x)
      PROVE  HasParent(x)' /\ job'[x].parent = job[x].parent
  <2>1. job[x].parent \in Jobs /\ Exists(x) /\ Exists(job[x].parent) /\ x # k
    BY <1>1, <1>2, <1>7 DEF HasParent, JobsTyped, JobRecord
  <2>2. PICK y \in Jobs : y = job[x].parent
    BY <2>1
  <2>3. job'[x].parent = y /\ Exists(x)' /\ Exists(y)' /\ y # NoJob
    BY <1>5, <1>6, <2>1, <2>2, JobsAssumption
  <2> QED BY <2>2, <2>3 DEF HasParent, Exists, Is
<1>8. ASSUME NEW x \in Jobs
      PROVE  SpokenHasVoice(x)' /\ Vocal(x)' /\ Borrowed(x)'
  <2>1. PICK y \in Jobs : y = job[x].track
    BY <1>1 DEF JobsTyped, JobRecord
  <2>2. Borrowed(x)'
    BY <1>1, <1>5, <1>6, <1>7, <2>1, BorrowedKept
  <2>3. SpokenHasVoice(x)' /\ Vocal(x)'
    BY <1>1, <1>3, <1>5 DEF SpokenHasVoice, Vocal, Is, Exists, At
  <2> QED BY <2>2, <2>3
<1>9. Is(f, Terminal \cup {"deleted"})' /\ (Is(k, Active)' => job'[k].parent = f)
  BY <1>2, <1>5, <1>6
<1>10. maker'.spoken = maker.spoken /\ maker'.from = f /\ maker'.to = k /\ maker'.track = t /\ maker'.pc = "speech"
  BY <1>1, <1>2, <1>3 DEF MakerTyped, MakerRecord
<1>11. maker'.spoken => Settled(t)' /\ (Exists(t)' => Exists(f)' /\ job'[f].track = t)
  BY <1>2, <1>5, <1>6, <1>10
<1>12. MakerVoice'
  BY <1>9, <1>10, <1>11, MakerVoiceMeans
<1> QED BY <1>8, <1>12 DEF VoiceInv

LEMMA RetrySpeechVoice ==
  ASSUME ShortsInv, VoiceInv, RetrySpeech
  PROVE  VoiceInv'
<1>1. /\ Typed /\ JobsTyped /\ MakerTyped /\ MakerWaits /\ MakerVoice /\ maker.pc = "speech"
      /\ \A x \in Jobs : SpokenHasVoice(x) /\ Vocal(x) /\ Borrowed(x)
  BY DEF ShortsInv, Typed, VoiceInv, RetrySpeech, MakerAt
<1>2. PICK f \in Jobs, k \in Jobs, t \in Jobs :
         /\ f = maker.from /\ k = maker.to /\ t = maker.track
         /\ Is(f, Terminal \cup {"deleted"})
         /\ maker.spoken => Settled(t) /\ (Exists(t) => Exists(f) /\ job[f].track = t)
         /\ Is(k, Active) => job[k].parent = f
         /\ At(k, "none") /\ (Is(k, {"queued"}) \/ ~Is(k, Active))
  BY <1>1, MakerVoiceSays
<1> DEFINE reused == maker.spoken /\ voice[t] /\ Is(k, Active)
<1>3. /\ Save(k, IF maker.spoken /\ voice[t] THEN [job[k] EXCEPT !.spoken = TRUE, !.track = t] ELSE job[k])
      /\ voice' = voice /\ worker' = worker /\ maker' = [maker EXCEPT !.pc = "start"]
  BY <1>2 DEF RetrySpeech, Reusable, OnlyMaker, files
<1>4. \A x \in Jobs : /\ job'[x].phase = job[x].phase /\ job'[x].parent = job[x].parent
                      /\ job'[x].spoken = IF x = k /\ reused THEN TRUE ELSE job[x].spoken
                      /\ job'[x].track = IF x = k /\ reused THEN t ELSE job[x].track
  <2>1. \A x \in Jobs : x # k => job'[x] = job[x]
    BY <1>1, <1>3, Saved
  <2>2. CASE reused
    <3>1. job'[k] = [job[k] EXCEPT !.spoken = TRUE, !.track = t]
      BY <1>1, <1>3, <2>2, Saved
    <3>2. job[k] \in JobRecord
      BY <1>1 DEF JobsTyped
    <3>3. job'[k].phase = job[k].phase /\ job'[k].parent = job[k].parent /\ job'[k].spoken = TRUE /\ job'[k].track = t
      BY <3>1, <3>2 DEF JobRecord
    <3> QED BY <2>1, <2>2, <3>3
  <2>3. CASE ~reused
    <3>1. job'[k] = job[k]
      BY <1>1, <1>3, <2>3, Saved
    <3> QED BY <2>1, <2>3, <3>1
  <2> QED BY <2>2, <2>3
<1>5. ASSUME NEW x \in Jobs
      PROVE  /\ (Settled(x) => Settled(x)') /\ (Exists(x)' <=> Exists(x))
             /\ \A phases : Is(x, phases)' <=> Is(x, phases)
  BY <1>3, <1>4 DEF Settled, Exists, Is, At
<1>6. ASSUME NEW x \in Jobs, HasParent(x)
      PROVE  HasParent(x)' /\ job'[x].parent = job[x].parent
  <2>1. job[x].parent \in Jobs /\ Exists(x) /\ Exists(job[x].parent) /\ job[x].parent # NoJob
    BY <1>1, <1>6, JobsAssumption DEF HasParent, JobsTyped, JobRecord
  <2>2. PICK y \in Jobs : y = job[x].parent
    BY <2>1
  <2>3. job'[x].parent = y /\ Exists(x)' /\ Exists(y)'
    BY <1>4, <1>5, <2>1, <2>2
  <2> QED BY <2>1, <2>2, <2>3 DEF HasParent, Exists, Is
<1>7. reused => Settled(t) /\ (Exists(t) => Together(k, t))
  <2> SUFFICES ASSUME reused, Exists(t) PROVE Together(k, t)
    BY <1>2
  <2>1. Exists(f) /\ job[f].track = t /\ job[k].parent = f /\ Exists(k) /\ f # NoJob
    BY <1>2, JobsAssumption DEF Exists, Is, Active, Running, Gone
  <2>2. Together(k, f)
    BY <2>1 DEF Together, Linked, HasParent
  <2>3. f # t => Together(f, t)
    BY <1>1, <2>1 DEF Borrowed
  <2> QED BY <2>2, <2>3 DEF Together
<1>8. ASSUME NEW x \in Jobs
      PROVE  SpokenHasVoice(x)' /\ Vocal(x)' /\ Borrowed(x)'
  <2>1. CASE x = k /\ reused
    <3>1. Borrowed(x)'
      <4>1. ASSUME k # t
            PROVE  Settled(t)' /\ (Exists(t)' => Together(k, t)')
        BY <1>5, <1>6, <1>7, <2>1, TogetherGrows
      <4>2. job'[k].track = t
        BY <1>4, <2>1
      <4> QED BY <2>1, <4>1, <4>2 DEF Borrowed
    <3>2. SpokenHasVoice(x)'
      BY <1>3, <1>4, <2>1 DEF SpokenHasVoice
    <3>3. Vocal(x)'
      BY <1>1, <1>2, <1>3, <1>4, <2>1
         DEF Vocal, Is, Exists, At, VoicePhases, Speaking, Composing, Active, Running, Gone
    <3> QED BY <3>1, <3>2, <3>3
  <2>2. CASE ~(x = k /\ reused)
    <3>1. PICK y \in Jobs : y = job[x].track
      BY <1>1 DEF JobsTyped, JobRecord
    <3>2. Borrowed(x)'
      BY <1>1, <1>4, <1>5, <1>6, <2>2, <3>1, BorrowedKept
    <3>3. SpokenHasVoice(x)' /\ Vocal(x)'
      BY <1>1, <1>3, <1>4, <2>2 DEF SpokenHasVoice, Vocal, Is, Exists, At
    <3> QED BY <3>2, <3>3
  <2> QED BY <2>1, <2>2
<1>9. maker'.spoken = maker.spoken /\ maker'.from = f /\ maker'.to = k /\ maker'.track = t /\ maker'.pc = "start"
  BY <1>1, <1>2, <1>3 DEF MakerTyped, MakerRecord
<1>10. reused => f # k
  BY <1>2 DEF Is, Terminal, Active, Running
<1>11. job'[f].track = job[f].track
  BY <1>4, <1>10
<1>12. maker'.spoken => Settled(t)' /\ (Exists(t)' => Exists(f)' /\ job'[f].track = t)
  BY <1>2, <1>5, <1>9, <1>11
<1>13. Is(f, Terminal \cup {"deleted"})'
  BY <1>2, <1>5
<1>14. MakerVoice'
  BY <1>9, <1>12, <1>13, MakerVoiceMeans
<1> QED BY <1>8, <1>14 DEF VoiceInv

\* No link leads into a chain or out of it.
LEMMA ChainClosed ==
  ASSUME JobsTyped, NEW j \in Jobs
  PROVE  /\ \A x \in Jobs : HasParent(x) => (x \in Chain(j) <=> job[x].parent \in Chain(j))
         /\ \A x, y \in Jobs : Together(x, y) /\ Exists(x) /\ y \in Chain(j) => x \in Chain(j)
         /\ \A x \in Jobs : x \in Chain(j) => Exists(x)
<1>1. ASSUME NEW x \in Jobs, HasParent(x)
      PROVE  x \in Chain(j) <=> job[x].parent \in Chain(j)
  <2>1. PICK p \in Jobs : p = job[x].parent
    BY <1>1, JobsAssumption DEF HasParent, JobsTyped, JobRecord
  <2>2. Exists(x) /\ Exists(p) /\ \A S \in SUBSET Jobs : Linked(S) => (x \in S <=> p \in S)
    BY <1>1, <2>1 DEF HasParent, Linked
  <2> QED BY <2>1, <2>2 DEF Chain
<1>2. ASSUME NEW x \in Jobs, NEW y \in Jobs, Together(x, y), Exists(x), y \in Chain(j)
      PROVE  x \in Chain(j)
  BY <1>2 DEF Together, Chain
<1> QED BY <1>1, <1>2 DEF Chain

LEMMA DeleteVoice ==
  ASSUME ShortsInv, VoiceInv, NEW j \in Jobs, Delete(j)
  PROVE  VoiceInv'
<1>1. /\ Typed /\ JobsTyped /\ FilesTyped /\ MakerWaits /\ MakerVoice
      /\ \A x \in Jobs : SpokenHasVoice(x) /\ Vocal(x) /\ Borrowed(x)
  BY DEF ShortsInv, Typed, VoiceInv
<1> DEFINE C == Chain(j)
<1>2. /\ \A x \in Jobs : HasParent(x) => (x \in C <=> job[x].parent \in C)
      /\ \A x, y \in Jobs : Together(x, y) /\ Exists(x) /\ y \in C => x \in C
      /\ \A x \in Jobs : x \in C => Exists(x)
  BY <1>1, ChainClosed
<1>3. /\ \A x \in Jobs : x \notin C => job'[x] = job[x] /\ voice'[x] = voice[x]
      /\ \A x \in Jobs : x \in C => job'[x].phase = "deleted" /\ job'[x].spoken = FALSE /\ At(x, "none")
      /\ worker' = worker /\ maker' = maker
  <2>1. PICK removed \in {{}, C} : voice' = [x \in Jobs |-> voice[x] /\ x \notin removed]
    BY DEF Delete
  <2>2. \A x \in Jobs : x \notin C => voice'[x] = voice[x]
    BY <1>1, <2>1 DEF FilesTyped
  <2>3. \A x \in Jobs : x \in C => job'[x] = [NewJob(x) EXCEPT !.phase = "deleted"] /\ At(x, "none")
    BY DEF Delete, WorkerIsActive
  <2>4. \A x \in Jobs : [NewJob(x) EXCEPT !.phase = "deleted"].phase = "deleted"
                      /\ [NewJob(x) EXCEPT !.phase = "deleted"].spoken = FALSE
    BY DEF NewJob
  <2>5. \A x \in Jobs : x \notin C => job'[x] = job[x]
    BY DEF Delete
  <2>6. worker' = worker /\ maker' = maker
    BY DEF Delete
  <2> QED BY <2>2, <2>3, <2>4, <2>5, <2>6
<1> HIDE DEF C
<1>4. ASSUME NEW x \in Jobs
      PROVE  /\ x \in C => ~Exists(x)' /\ Settled(x)' /\ Is(x, Terminal \cup {"deleted"})' /\ ~Is(x, Active)'
             /\ x \notin C => /\ (Exists(x)' <=> Exists(x)) /\ (Settled(x)' <=> Settled(x))
                            /\ \A phases : Is(x, phases)' <=> Is(x, phases)
  BY <1>3 DEF Settled, Exists, Is, At, Gone, Active, Running
<1>5. ASSUME NEW S \in SUBSET Jobs, Linked(S)'
      PROVE  Linked(S \ C)
  <2> SUFFICES ASSUME NEW x \in Jobs, HasParent(x)
               PROVE  x \in S \ C <=> job[x].parent \in S \ C
    BY DEF Linked
  <2>1. PICK p \in Jobs : p = job[x].parent
    BY <1>1, JobsAssumption DEF HasParent, JobsTyped, JobRecord
  <2>2. x \in C <=> p \in C
    BY <1>2, <2>1
  <2>3. ASSUME x \notin C
        PROVE  x \in S <=> p \in S
    <3>1. job'[x].parent = p /\ Exists(x)' /\ Exists(p)' /\ p # NoJob
      BY <1>3, <1>4, <2>1, <2>2, <2>3 DEF HasParent
    <3>2. HasParent(x)'
      BY <3>1 DEF HasParent, Exists, Is
    <3> QED BY <1>5, <3>1, <3>2 DEF Linked
  <2> QED BY <2>1, <2>2, <2>3
<1>6. ASSUME NEW x \in Jobs, NEW y \in Jobs, x \notin C, y \notin C, Together(x, y)
      PROVE  Together(x, y)'
  BY <1>5, <1>6 DEF Together
<1>7. ASSUME NEW x \in Jobs, x \in C
      PROVE  SpokenHasVoice(x)' /\ Vocal(x)' /\ Borrowed(x)'
  BY <1>3, <1>4, <1>7 DEF SpokenHasVoice, Vocal, Borrowed, Is, At, VoicePhases, Speaking, Active, Running
<1>8. ASSUME NEW x \in Jobs, x \notin C
      PROVE  SpokenHasVoice(x)' /\ Vocal(x)' /\ Borrowed(x)'
  <2>1. PICK t \in Jobs : t = job[x].track
    BY <1>1 DEF JobsTyped, JobRecord
  <2>2. job'[x] = job[x] /\ voice'[x] = voice[x] /\ worker'[x] = worker[x]
    BY <1>3, <1>8
  <2>3. Vocal(x)'
    BY <1>1, <2>2 DEF Vocal, Is, Exists, At
  <2>4. Exists(x) => t \notin C
    <3>1. Exists(x) /\ t # x /\ Exists(t) => Together(x, t)
      BY <1>1, <2>1 DEF Borrowed
    <3> QED BY <1>2, <1>8, <3>1
  <2>5. job[x].spoken => voice'[t]
    <3>1. job[x].spoken => Exists(x) /\ voice[t]
      BY <1>1, <2>1 DEF Vocal, SpokenHasVoice
    <3> QED BY <1>3, <2>4, <3>1
  <2>6. SpokenHasVoice(x)'
    BY <2>1, <2>2, <2>5 DEF SpokenHasVoice
  <2>7. ASSUME Exists(x), t # x
        PROVE  Settled(t)' /\ (Exists(t)' => Together(x, t)')
    <3>1. Settled(t) /\ (Exists(t) => Together(x, t)) /\ t \notin C
      BY <1>1, <2>1, <2>4, <2>7 DEF Borrowed
    <3> QED BY <1>4, <1>6, <1>8, <3>1
  <2>8. Borrowed(x)'
    BY <1>4, <1>8, <2>1, <2>2, <2>7 DEF Borrowed
  <2> QED BY <2>3, <2>6, <2>8
<1>9. ASSUME maker.pc # "idle"
      PROVE  MakerVoice'
  <2>1. PICK f \in Jobs, k \in Jobs, t \in Jobs :
           /\ f = maker.from /\ k = maker.to /\ t = maker.track
           /\ Is(f, Terminal \cup {"deleted"})
           /\ maker.spoken => Settled(t) /\ (Exists(t) => Exists(f) /\ job[f].track = t)
           /\ maker.pc = "fill" /\ Exists(k) => job[k].parent = NoJob
           /\ maker.pc = "speech" /\ Is(k, Active) => job[k].parent = f
    BY <1>1, <1>9, MakerVoiceSays
  <2>2. Is(f, Terminal \cup {"deleted"})'
    BY <1>4, <2>1
  <2>3. ASSUME maker.spoken, Exists(t)'
        PROVE  Exists(f)' /\ job'[f].track = t
    <3>1. t \notin C /\ Exists(t) /\ Exists(f) /\ job[f].track = t
      BY <1>4, <2>1, <2>3
    <3>2. f # t => Together(f, t)
      BY <1>1, <3>1 DEF Borrowed
    <3>3. f \in C => t \in C
      <4>1. Together(f, t) => Together(t, f)
        BY DEF Together
      <4> QED BY <1>2, <3>1, <3>2, <4>1
    <3> QED BY <1>3, <1>4, <3>1, <3>3
  <2>4. maker.spoken => Settled(t)'
    BY <1>4, <2>1
  <2>5. /\ maker.pc = "fill" /\ Exists(k)' => job'[k].parent = NoJob
        /\ maker.pc = "speech" /\ Is(k, Active)' => job'[k].parent = f
    BY <1>3, <1>4, <2>1
  <2> QED BY <1>3, <2>1, <2>2, <2>3, <2>4, <2>5, MakerVoiceMeans
<1>10. ASSUME maker.pc = "idle"
       PROVE  MakerVoice'
  BY <1>3, <1>10 DEF MakerVoice
<1> QED BY <1>7, <1>8, <1>9, <1>10 DEF VoiceInv

\* Cancel calls, the media queue, the start of a retried short and a restart.
LEMMA OtherVoice ==
  ASSUME ShortsInv, VoiceInv,
         \/ \E j \in Jobs : Cancel(j) \/ CancelChat(j) \/ Call(j)
         \/ \E c \in Children : ChildEnds(c)
         \/ RetryStarts
         \/ RetryLosesSource
         \/ Restart
         \/ UNCHANGED vars
  PROVE  VoiceInv'
<1>1. Typed /\ JobsTyped /\ WorkersTyped /\ MakerKnows
  BY DEF ShortsInv, Typed
<1>2. CASE \E j \in Jobs : Cancel(j) \/ CancelChat(j) \/ Call(j)
  <2> PICK j \in Jobs : Cancel(j) \/ CancelChat(j) \/ Call(j)
    BY <1>2
  <2>1. voice' = voice /\ worker' = worker /\ maker' = maker
    BY DEF Cancel, CancelChat, Call, Snapshot, Flag, CallerReads, CallerAsks, CallerCommits, OnlyCaller, files
  <2>2. \A k \in Jobs : k # j => job'[k] = job[k]
    BY <1>1, Saved
       DEF Cancel, CancelChat, Call, Snapshot, Flag, CallerReads, CallerAsks, CallerCommits, SaveCancelled, JobsTyped
  <2>3. job[j] \in JobRecord
    BY <1>1 DEF JobsTyped
  <2>4. /\ job'[j].spoken = job[j].spoken /\ job'[j].track = job[j].track /\ job'[j].parent = job[j].parent
        /\ job'[j].phase = job[j].phase \/ (job'[j].phase = "cancelled" /\ Exists(j))
    <3>1. CASE Flag(j)
      <4>1. Save(j, [job[j] EXCEPT !.cancel = TRUE])
        BY <3>1 DEF Flag
      <4>2. job'[j] = job[j] \/ job'[j] = [job[j] EXCEPT !.cancel = TRUE]
        BY <1>1, <4>1, Saved
      <4> QED BY <2>3, <4>2 DEF JobRecord
    <3>2. CASE CallerCommits(j)
      BY <1>1, <2>3, <3>2 DEF CallerCommits, SaveCancelled, Cancelled, JobsTyped, JobRecord, Is, Exists, Gone
    <3>3. CASE ~Flag(j) /\ ~CallerCommits(j)
      BY <3>3 DEF Cancel, CancelChat, Call, Snapshot, CallerReads, CallerAsks
    <3> QED BY <3>1, <3>2, <3>3
  <2> QED BY <1>1, <2>1, <2>2, <2>4, QuietStep
<1>3. CASE (\E c \in Children : ChildEnds(c)) \/ UNCHANGED vars
  <2>1. voice' = voice /\ worker' = worker /\ maker' = maker /\ job' = job
    BY <1>3 DEF ChildEnds, OnlyWorker, vars, files
  <2> QED BY <1>1, <2>1, QuietStep
<1>4. CASE RetryStarts
  <2>1. PICK k \in Jobs : k = maker.to
    BY <1>1, <1>4 DEF MakerKnows, RetryStarts, MakerAt
  <2>2. voice' = voice /\ maker'.pc = "idle" /\ job' = job
    BY <1>4 DEF RetryStarts, OnlyMaker, MakerDone, NoRetry, files
  <2>3. worker' = worker \/ (worker' = [worker EXCEPT ![k].pc = "begin"] /\ Is(k, Active))
    BY <1>4, <2>1 DEF RetryStarts, Started
  <2>4. \A x \in Jobs : worker'[x].pc = worker[x].pc \/ (worker'[x].pc = "begin" /\ Is(x, Active))
    BY <1>1, <2>3 DEF WorkersTyped, WorkerRecord
  <2> QED BY <1>1, <2>2, <2>4, QuietStep
<1>5. CASE Restart
  <2>1. voice' = voice /\ maker'.pc = "idle" /\ job' = job
    BY <1>5 DEF Restart, MakerDone, NoRetry, files
  <2>2. \A k \in Jobs : worker'[k].pc = "none" \/ (worker'[k].pc = "begin" /\ Is(k, Active))
    BY <1>5 DEF Restart, Resumed, Idle
  <2> QED BY <1>1, <2>1, <2>2, QuietStep
<1>6. CASE RetryLosesSource
  <2>1. voice' = voice /\ maker'.pc = "idle" /\ job' = job /\ worker' = worker
    BY <1>6 DEF RetryLosesSource, OnlyMaker, MakerDone, NoRetry, files
  <2> QED BY <1>1, <2>1, QuietStep
<1> QED
  BY <1>2, <1>3, <1>4, <1>5, <1>6

LEMMA InitVoice == Init => VoiceInv
<1> SUFFICES ASSUME Init PROVE VoiceInv
  OBVIOUS
<1>1. \A j \in Jobs : job[j].phase = "absent" /\ ~job[j].spoken /\ worker[j].pc = "none"
  BY DEF Init, NewJob, Idle
<1>2. maker.pc = "idle"
  BY DEF Init, NoRetry
<1> QED
  BY <1>1, <1>2 DEF VoiceInv, MakerVoice, SpokenHasVoice, Vocal, Borrowed, VoicePhases, Speaking, Composing, Is, Exists,
                    At, Gone, Active, Running

LEMMA VoiceInvStep == ShortsInv /\ VoiceInv /\ [Next]_vars => VoiceInv'
  BY WorkVoice, OtherVoice, CreateVoice, DeleteVoice, RetryVoice, RetryCreatesVoice, RetryFillsVoice, RetrySpeechVoice
     DEF Next, Make

\* A completed short keeps its voiceover, whoever else uses it and whatever is
\* deleted (VoiceoverStays).
THEOREM CompletedShortsKeepTheirVoice == Safe => []VoiceoverStays
<1>1. ShortsInv /\ VoiceInv => VoiceoverStays
  BY DEF VoiceInv, VoiceoverStays, SpokenHasVoice, Vocal, VoicePhases, Is
<1> QED
  BY <1>1, InitShorts, ShortsStep, InitVoice, VoiceInvStep, PTL DEF Safe

----------------------------------------------------------------------------
(* Nothing is rendered twice *)

Doing == {"post", "record", "poll", "seen", "take"}
Going(j) == ~Is(j, Terminal \cup {"deleted"})
NoChild(j) == job[j].image = None /\ job[j].video = None
Empty(j) == NoChild(j) /\ job[j].clips = {} /\ job[j].frames = {} /\ job[j].plain = {}

\* A worker renders the next scene of a short that goes on, and the record of
\* the short names at most one child, one of that scene.
Fits(j) ==
  /\ Is(j, {"absent"}) => Empty(j)
  /\ worker[j].pc \in Doing \ {"post"} => worker[j].child # None
  /\ worker[j].pc \in {"seen", "take"} /\ Ended(worker[j].seen) => Ended(child[worker[j].child].state)
  /\ Going(j) =>
       /\ worker[j].pc \in Doing =>
            Missing(j) # {} /\ worker[j].scene = NextScene(j) /\ worker[j].kind = NextKind(j)
       /\ worker[j].pc \in {"post", "record"} => NoChild(j)
       /\ worker[j].pc \in {"poll", "seen", "take"} => worker[j].child \in Ids(j)
       /\ job[j].image # None => job[j].video = None /\ Missing(j) # {} /\ NextKind(j) = "image"
       /\ job[j].video # None => job[j].image = None /\ Missing(j) # {} /\ NextKind(j) = "video"

\* What a short may still ask for: what it does not have, has no child for, and
\* what its worker is about to post, even when the short has ended meanwhile.
Done(j, s, k) == s \in IF k = "image" THEN job[j].frames ELSE job[j].clips
Underway(j, s, k) == /\ Missing(j) # {} /\ s = NextScene(j) /\ k = NextKind(j)
                     /\ ~NoChild(j) \/ At(j, "record")
Due(j, s, k) == \/ Going(j) /\ ~Done(j, s, k) /\ ~Underway(j, s, k)
                \/ At(j, "post") /\ worker[j].scene = s /\ worker[j].kind = k
Extra(j, s, k) == IF k = "image" /\ s \in job[j].plain THEN 1 ELSE 0
Room(j, s, k) == Extra(j, s, k) + (IF Due(j, s, k) THEN 0 ELSE 1)

\* Unfinished children that neither the short nor its worker knows.
Known(j) == (IF At(j, "record") THEN {worker[j].child} ELSE {}) \cup (IF Going(j) THEN Ids(j) ELSE {})
Loose(j) == (Owned(j) \cap Unfinished) \ Known(j)
Slack(j) == IF Going(j) \/ At(j, "post") \/ At(j, "record") THEN 0 ELSE 1

Counted(j) ==
  /\ Cardinality(Loose(j)) <= restarts + Slack(j)
  /\ ~Is(j, {"deleted"}) => \A s \in Scenes, k \in Kinds : Cardinality(For(j, s, k)) <= restarts + Room(j, s, k)

NoneUnowned == \A c \in Children : child[c].state = "none" => child[c].owner = NoJob
FillsEmpty == maker.pc = "fill" /\ Is(maker.to, Active) => Empty(maker.to)
RenderInv == /\ \A j \in Jobs : Fits(j) /\ Counted(j)
             /\ NoneUnowned /\ FillsEmpty

\* What every step but a post does to a child: it may end.
Aged == \A c \in Children : /\ child'[c].owner = child[c].owner
                            /\ child'[c].scene = child[c].scene /\ child'[c].kind = child[c].kind
                            /\ child'[c].state = "none" <=> child[c].state = "none"
                            /\ Ended(child[c].state) => Ended(child'[c].state)
                            /\ child'[c].state \in {"active", "asked"} => child[c].state \in {"active", "asked"}

\* The next scene depends on the finished ones only.
Least(S) == CHOOSE s \in S : \A t \in S : s <= t
LEMMA NextSame ==
  ASSUME NEW j \in Jobs, job'[j].clips = job[j].clips, job'[j].frames = job[j].frames
  PROVE  Missing(j)' = Missing(j) /\ NextScene(j)' = NextScene(j) /\ NextKind(j)' = NextKind(j)
<1>1. Missing(j)' = Missing(j)
  BY DEF Missing
<1>2. NextScene(j) = Least(Missing(j)) /\ NextScene(j)' = Least(Missing(j)')
  BY DEF NextScene, Least
<1>3. NextScene(j)' = NextScene(j)
  BY <1>1, <1>2
<1> QED BY <1>1, <1>3 DEF NextKind

LEMMA NextIsMissing ==
  ASSUME NEW j \in Jobs, Missing(j) # {}
  PROVE  /\ NextScene(j) \in Scenes /\ NextScene(j) \notin job[j].clips
         /\ NextKind(j) = "image" => NextScene(j) \notin job[j].frames
<1>1. Missing(j) \subseteq Nat
  BY DEF Missing, Scenes
<1>2. \E s \in Missing(j) : \A t \in Missing(j) : s <= t
  BY <1>1, LeastNat
<1>3. NextScene(j) \in Missing(j)
  BY <1>2 DEF NextScene
<1> QED BY <1>3 DEF Missing, NextKind

LEMMA SetsFinite ==
  ASSUME NEW S \in SUBSET Children
  PROVE  IsFiniteSet(S) /\ Cardinality(S) \in Nat
<1>1. IsFiniteSet(Children)
  BY NumbersAssumption, FS_Interval DEF Children
<1> QED BY <1>1, FS_Subset, FS_CardinalityType

LEMMA CountSets ==
  ASSUME NEW j \in Jobs
  PROVE  /\ Loose(j) \in SUBSET Children /\ Owned(j) \in SUBSET Children
         /\ \A s, k : For(j, s, k) \in SUBSET Children
         /\ Slack(j) \in 0..1
         /\ \A s, k : Extra(j, s, k) \in 0..1 /\ Room(j, s, k) \in 0..2
  BY DEF Loose, Owned, For, Slack, Extra, Room

\* One element more, at most one in the count.
LEMMA OneMore ==
  ASSUME NEW S \in SUBSET Children, NEW c, NEW T \in SUBSET Children, T \subseteq S \cup {c}
  PROVE  Cardinality(T) <= Cardinality(S) + 1 /\ (T \subseteq S => Cardinality(T) <= Cardinality(S))
<1>1. IsFiniteSet(S) /\ Cardinality(S) \in Nat /\ Cardinality(T) \in Nat
  BY SetsFinite
<1>2. IsFiniteSet(S \cup {c}) /\ Cardinality(S \cup {c}) = IF c \in S THEN Cardinality(S) ELSE Cardinality(S) + 1
  BY <1>1, FS_AddElement
<1>3. Cardinality(T) <= Cardinality(S \cup {c})
  BY <1>2, FS_Subset
<1>4. T \subseteq S => Cardinality(T) <= Cardinality(S)
  BY <1>1, FS_Subset
<1> QED BY <1>1, <1>2, <1>3, <1>4

\* A step that gives as much room as it takes keeps the counts.
LEMMA CountsKept ==
  ASSUME Typed, NEW j \in Jobs, Counted(j), Aged, restarts' = restarts,
         NEW c, Loose(j)' \subseteq Loose(j) \cup {c},
         Slack(j)' >= Slack(j), ~(Loose(j)' \subseteq Loose(j)) => Slack(j)' = Slack(j) + 1,
         Is(j, {"deleted"}) => Is(j, {"deleted"})',
         ~Is(j, {"deleted"})' => \A s \in Scenes, k \in Kinds : Room(j, s, k)' >= Room(j, s, k)
  PROVE  Counted(j)'
<1>1. restarts \in Nat
  BY NumbersAssumption DEF Typed, CallersTyped
<1>2. /\ Loose(j) \in SUBSET Children /\ Loose(j)' \in SUBSET Children
      /\ Slack(j) \in 0..1 /\ Slack(j)' \in 0..1
  BY DEF Loose, Owned, Slack
<1>3. Cardinality(Loose(j)') <= restarts + Slack(j)'
  <2>1. /\ Cardinality(Loose(j)') <= Cardinality(Loose(j)) + 1
        /\ Loose(j)' \subseteq Loose(j) => Cardinality(Loose(j)') <= Cardinality(Loose(j))
    BY <1>2, OneMore
  <2>2. Cardinality(Loose(j)) \in Nat /\ Cardinality(Loose(j)') \in Nat
    BY <1>2, SetsFinite
  <2>3. Cardinality(Loose(j)) <= restarts + Slack(j)
    BY DEF Counted
  <2> QED BY <1>1, <1>2, <2>1, <2>2, <2>3
<1>4. ASSUME ~Is(j, {"deleted"})', NEW s \in Scenes, NEW k \in Kinds
      PROVE  Cardinality(For(j, s, k)') <= restarts + Room(j, s, k)'
  <2>1. For(j, s, k)' = For(j, s, k)
    BY DEF For, Owned, Aged
  <2>2. Cardinality(For(j, s, k)) <= restarts + Room(j, s, k)
    BY <1>4 DEF Counted
  <2>3. Room(j, s, k)' >= Room(j, s, k) /\ Room(j, s, k) \in 0..2 /\ Room(j, s, k)' \in 0..2
    BY <1>4, CountSets DEF Room, Extra
  <2>4. Cardinality(For(j, s, k)) \in Nat
    BY CountSets, SetsFinite
  <2> QED BY <1>1, <2>1, <2>2, <2>3, <2>4
<1> QED BY <1>3, <1>4 DEF Counted

LEMMA KnownOne ==
  ASSUME NEW j \in Jobs, Fits(j)
  PROVE  \E c : Known(j) \subseteq {c}
<1>1. CASE Going(j) /\ At(j, "record")
  <2>1. Ids(j) = {}
    BY <1>1 DEF Fits, NoChild, Ids, At
  <2> QED BY <2>1 DEF Known
<1>2. CASE Going(j) /\ ~At(j, "record")
  BY <1>2 DEF Fits, Ids, Known
<1>3. CASE ~Going(j)
  BY <1>3 DEF Known
<1> QED BY <1>1, <1>2, <1>3

\* The short and its worker forget nothing that is unfinished: no child becomes loose.
LEMMA LooseKept ==
  ASSUME NEW j \in Jobs, Aged, \A c \in Children : c \in Known(j) => c \in Known(j)' \/ Ended(child[c].state)
  PROVE  Loose(j)' \subseteq Loose(j)
  BY DEF Loose, Aged, Owned, Unfinished, Ended

\* What the short or its worker knew is all that can become loose.
LEMMA LooseGrows ==
  ASSUME NEW j \in Jobs, Aged, Fits(j)
  PROVE  \E c : Loose(j)' \subseteq Loose(j) \cup {c}
<1>1. PICK c : Known(j) \subseteq {c}
  BY KnownOne
<1> QED BY <1>1 DEF Loose, Aged, Owned, Unfinished

\* A worker that goes on without a child, or leaves its short as it was.
LEMMA Calm ==
  ASSUME Typed, NEW j \in Jobs, Fits(j), Counted(j), Aged, restarts' = restarts,
         worker'[j] = worker[j] \/ (worker[j].pc # "record" /\ worker'[j].pc \notin Doing),
         job'[j].clips = job[j].clips, job'[j].frames = job[j].frames, job'[j].plain = job[j].plain,
         ~Is(j, {"absent"})' \/ job'[j] = job[j],
         \/ ~Is(j, {"deleted"}) /\ Is(j, Terminal)'
         \/ /\ (Going(j) <=> Going(j)') /\ (Is(j, {"deleted"}) <=> Is(j, {"deleted"})')
            /\ job'[j].image = job[j].image /\ job'[j].video = job[j].video
  PROVE  Fits(j)' /\ Counted(j)'
<1>1. /\ Missing(j)' = Missing(j) /\ NextScene(j)' = NextScene(j) /\ NextKind(j)' = NextKind(j)
      /\ \A s, k : Done(j, s, k)' <=> Done(j, s, k)
      /\ \A s, k : Extra(j, s, k)' = Extra(j, s, k)
  BY NextSame DEF Done, Extra
<1>2. Is(j, Terminal)' => ~Going(j)' /\ ~Is(j, {"deleted"})' /\ ~Is(j, {"absent"})'
  BY DEF Going, Is, Terminal
<1>3. /\ At(j, "record")' <=> At(j, "record")
      /\ At(j, "record") => worker'[j] = worker[j]
      /\ At(j, "post")' => At(j, "post") /\ worker'[j] = worker[j]
  BY DEF At, Doing
<1>4. Fits(j)'
  <2>1. Is(j, {"absent"})' => Empty(j)'
    BY DEF Fits, Empty, NoChild, Is
  <2>2. worker'[j].pc \in Doing => worker'[j] = worker[j]
    OBVIOUS
  <2>3. /\ worker'[j].pc \in Doing \ {"post"} => worker'[j].child # None
        /\ worker'[j].pc \in {"seen", "take"} /\ Ended(worker'[j].seen) => Ended(child'[worker'[j].child].state)
    <3>1. worker[j].child \in Children \cup {None}
      BY DEF Typed, WorkersTyped, WorkerRecord
    <3>2. \A c \in Children : Ended(child[c].state) => Ended(child'[c].state)
      BY DEF Aged
    <3>3. worker'[j].pc \in Doing => worker'[j] = worker[j]
      OBVIOUS
    <3>4. {"seen", "take"} \subseteq Doing \ {"post"}
      BY DEF Doing
    <3> QED BY <3>1, <3>2, <3>3, <3>4 DEF Fits
  <2>4. ASSUME Going(j)'
        PROVE  /\ worker'[j].pc \in Doing =>
                    Missing(j)' # {} /\ worker'[j].scene = NextScene(j)' /\ worker'[j].kind = NextKind(j)'
               /\ worker'[j].pc \in {"post", "record"} => NoChild(j)'
               /\ worker'[j].pc \in {"poll", "seen", "take"} => worker'[j].child \in Ids(j)'
               /\ job'[j].image # None => job'[j].video = None /\ Missing(j)' # {} /\ NextKind(j)' = "image"
               /\ job'[j].video # None => job'[j].image = None /\ Missing(j)' # {} /\ NextKind(j)' = "video"
    <3>1. Going(j) /\ job'[j].image = job[j].image /\ job'[j].video = job[j].video
      BY <1>2, <2>4
    <3>2. (NoChild(j)' <=> NoChild(j)) /\ Ids(j)' = Ids(j)
      BY <3>1 DEF NoChild, Ids
    <3>3. {"post", "record", "poll", "seen", "take"} = Doing
      BY DEF Doing
    <3> QED BY <1>1, <2>2, <3>1, <3>2, <3>3 DEF Fits
  <2> QED BY <2>1, <2>3, <2>4 DEF Fits
<1>5. PICK c : Loose(j)' \subseteq Loose(j) \cup {c}
  BY LooseGrows
<1>6. Slack(j)' >= Slack(j) /\ (~(Loose(j)' \subseteq Loose(j)) => Slack(j)' = Slack(j) + 1)
  <2>1. CASE Going(j) /\ Going(j)'
    <3>1. Known(j)' = Known(j)
      BY <1>2, <1>3, <2>1 DEF Known, Ids
    <3> QED BY <2>1, <3>1, LooseKept DEF Slack
  <2>2. CASE Going(j) /\ ~Going(j)'
    <3>1. CASE worker'[j].pc \in {"post", "record"}
      <4>1. Ids(j) = {} /\ Known(j)' = Known(j)
        BY <1>3, <2>2, <3>1 DEF Fits, NoChild, Ids, Known, At, Doing
      <4> QED BY <2>2, <3>1, <4>1, LooseKept DEF Slack, At
    <3>2. CASE worker'[j].pc \notin {"post", "record"}
      BY <2>2, <3>2 DEF Slack, At
    <3> QED BY <3>1, <3>2
  <2>3. CASE ~Going(j)
    <3>1. ~Going(j)'
      BY <1>2, <2>3
    <3>2. Known(j)' = Known(j)
      BY <1>3, <2>3, <3>1 DEF Known
    <3>3. Slack(j)' >= Slack(j)
      BY <1>3, <2>3, <3>1 DEF Slack
    <3> QED BY <3>2, <3>3, LooseKept
  <2> QED BY <2>1, <2>2, <2>3
<1>7. ASSUME NEW s \in Scenes, NEW k \in Kinds
      PROVE  Room(j, s, k)' >= Room(j, s, k)
  <2>1. Due(j, s, k)' => Due(j, s, k)
    <3>1. CASE Going(j)'
      <4>1. Going(j) /\ (NoChild(j)' <=> NoChild(j))
        BY <1>2, <3>1 DEF NoChild
      <4>2. Underway(j, s, k)' <=> Underway(j, s, k)
        BY <1>1, <1>3, <4>1 DEF Underway
      <4> QED BY <1>1, <1>3, <3>1, <4>1, <4>2 DEF Due
    <3>2. CASE ~Going(j)'
      BY <1>3, <3>2 DEF Due
    <3> QED BY <3>1, <3>2
  <2>2. Extra(j, s, k)' = Extra(j, s, k) /\ Extra(j, s, k) \in 0..1
    BY <1>1 DEF Extra
  <2> HIDE DEF Extra, Due
  <2> QED BY <2>1, <2>2 DEF Room
<1>8. Is(j, {"deleted"}) => Is(j, {"deleted"})'
  OBVIOUS
<1> QED BY <1>4, <1>5, <1>6, <1>7, <1>8, CountsKept

LEMMA AskingAges ==
  ASSUME ChildrenTyped, child' = child \/ \E cs : child' = Asked(cs)
  PROVE  Aged
<1>1. CASE child' = child
  BY <1>1 DEF Aged
<1>2. CASE \E cs : child' = Asked(cs)
  <2>1. PICK cs : child' = Asked(cs)
    BY <1>2
  <2>2. ASSUME NEW c \in Children
        PROVE  \/ child'[c] = child[c]
               \/ child[c].state = "active" /\ child'[c] = [child[c] EXCEPT !.state = "asked"]
    BY <2>1 DEF Asked
  <2>3. \A c \in Children : child[c] \in ChildRecord
    BY DEF ChildrenTyped
  <2> QED BY ZenonT(40), <2>2, <2>3 DEF Aged, ChildRecord, Ended
<1> QED BY <1>1, <1>2

SameMedia(r, j) == /\ r.clips = job[j].clips /\ r.frames = job[j].frames /\ r.plain = job[j].plain
                   /\ r.image = job[j].image /\ r.video = job[j].video

\* A worker that writes nothing of what was rendered.
LEMMA CalmSame ==
  ASSUME Typed, NEW j \in Jobs, Fits(j), Counted(j), Aged, restarts' = restarts,
         worker'[j] = worker[j] \/ (worker[j].pc # "record" /\ worker'[j].pc \notin Doing),
         job'[j].phase = job[j].phase, SameMedia(job'[j], j), ~Is(j, {"absent"}) \/ job'[j] = job[j]
  PROVE  Fits(j)' /\ Counted(j)'
<1>1. (Going(j) <=> Going(j)') /\ (Is(j, {"deleted"}) <=> Is(j, {"deleted"})') /\ (Is(j, {"absent"}) <=> Is(j, {"absent"})')
  BY DEF Going, Is
<1> QED BY <1>1, Calm DEF SameMedia

LEMMA CalmSave ==
  ASSUME Typed, NEW j \in Jobs, Fits(j), Counted(j), Aged, restarts' = restarts,
         worker[j].pc # "record", worker'[j].pc \notin Doing,
         NEW new, Save(j, new), new.clips = job[j].clips, new.frames = job[j].frames, new.plain = job[j].plain,
         new.phase \in Terminal \/ (new.phase \in Active /\ SameMedia(new, j))
  PROVE  Fits(j)' /\ Counted(j)'
<1>1. JobsTyped
  BY DEF Typed
<1>2. CASE Is(j, Active)
  <2>1. job'[j] = new /\ Going(j) /\ ~Is(j, {"deleted"})
    BY <1>1, <1>2, Saved DEF Is, Going, Active, Running, Terminal
  <2>2. new.phase \in Terminal => Is(j, Terminal)' /\ ~Is(j, {"absent"})'
    BY <2>1 DEF Is, Terminal
  <2>3. new.phase \in Active => Going(j)' /\ ~Is(j, {"absent"})' /\ ~Is(j, {"deleted"})'
    BY <2>1 DEF Is, Active, Running, Going, Terminal
  <2> QED BY <2>1, <2>2, <2>3, Calm DEF SameMedia
<1>3. CASE ~Is(j, Active)
  <2>1. job'[j] = job[j]
    BY <1>1, <1>3, Saved
  <2> QED BY <2>1, CalmSame DEF SameMedia
<1> QED BY <1>2, <1>3

\* Voiceover, composition and the handling of errors render nothing.
LEMMA SoundRender ==
  ASSUME Typed, NEW j \in Jobs, Fits(j), Counted(j), Sound(j) \/ Composition(j)
  PROVE  Fits(j)' /\ Counted(j)'
<1>1. JobsTyped /\ WorkersTyped /\ ChildrenTyped
  BY DEF Typed
<1>2. job[j] \in JobRecord
  BY <1>1 DEF JobsTyped
<1>3. child' = child /\ restarts' = restarts /\ worker[j].pc # "record"
  BY DEF Sound, Composition, Tts, Speak, Spoken, WriteVoice, CheckVoice, Voiced, Compose, Mix, Render, CheckFinal, Publish,
         OnlyWorker, At
<1>4. Aged
  BY <1>1, <1>3, AskingAges
<1>5. worker'[j].pc \notin Doing
  <2>1. CASE Sound(j)
    BY <1>1, <2>1, Went DEF Sound, Tts, Speak, Spoken, WriteVoice, CheckVoice, Voiced, Doing
  <2>2. CASE Composition(j)
    BY <1>1, <2>2, Went, Finished DEF Composition, Compose, Mix, Render, CheckFinal, Publish, Doing
  <2> QED BY <2>1, <2>2
<1>7. \/ job' = job
      \/ \E new : Save(j, new) /\ SameMedia(new, j) /\ new.phase \in {"tts_completed", "tts", "compose", "completed"}
  <2>1. CASE Tts(j)
    <3> DEFINE new == [job[j] EXCEPT !.phase = "tts_completed", !.spoken = TRUE]
    <3>1. SameMedia(new, j) /\ new.phase = "tts_completed"
      BY <1>2 DEF SameMedia, JobRecord
    <3>2. job' = job \/ Save(j, new)
      BY <2>1 DEF Tts
    <3> HIDE DEF new
    <3> QED BY <3>1, <3>2
  <2>2. CASE Speak(j)
    <3> DEFINE new == [job[j] EXCEPT !.phase = "tts", !.spoken = FALSE]
    <3>1. SameMedia(new, j) /\ new.phase = "tts"
      BY <1>2 DEF SameMedia, JobRecord
    <3>2. job' = job \/ Save(j, new)
      BY <2>2 DEF Speak
    <3> HIDE DEF new
    <3> QED BY <3>1, <3>2
  <2>3. CASE Voiced(j)
    <3> DEFINE new == [job[j] EXCEPT !.phase = "tts_completed", !.spoken = TRUE, !.track = j]
    <3>1. SameMedia(new, j) /\ new.phase = "tts_completed"
      BY <1>2 DEF SameMedia, JobRecord
    <3>2. job' = job \/ Save(j, new)
      BY <2>3 DEF Voiced
    <3> HIDE DEF new
    <3> QED BY <3>1, <3>2
  <2>4. CASE Mix(j)
    <3> DEFINE new == [job[j] EXCEPT !.phase = "compose"]
    <3>1. SameMedia(new, j) /\ new.phase = "compose"
      BY <1>2 DEF SameMedia, JobRecord
    <3>2. job' = job \/ Save(j, new)
      BY <2>4 DEF Mix
    <3> HIDE DEF new
    <3> QED BY <3>1, <3>2
  <2>5. CASE Compose(j) \/ Publish(j)
    <3>1. SameMedia(Completed(j), j) /\ Completed(j).phase = "completed"
      BY <1>2 DEF Completed, SameMedia, JobRecord
    <3>2. job' = job \/ Save(j, Completed(j))
      BY <2>5 DEF Compose, Publish
    <3> QED BY <3>1, <3>2
  <2>6. CASE Spoken(j) \/ WriteVoice(j) \/ CheckVoice(j) \/ Render(j) \/ CheckFinal(j)
    BY <2>6 DEF Spoken, WriteVoice, CheckVoice, Render, CheckFinal
  <2> QED BY <2>1, <2>2, <2>3, <2>4, <2>5, <2>6 DEF Sound, Composition
<1>8. CASE job' = job
  BY <1>3, <1>4, <1>5, <1>8, CalmSame DEF SameMedia
<1>9. CASE \E new : Save(j, new) /\ SameMedia(new, j) /\ new.phase \in {"tts_completed", "tts", "compose", "completed"}
  <2>1. PICK new : Save(j, new) /\ SameMedia(new, j) /\ new.phase \in {"tts_completed", "tts", "compose", "completed"}
    BY <1>9
  <2>2. new.phase \in Terminal \/ new.phase \in Active
    BY <2>1 DEF Terminal, Active, Running
  <2> QED BY <1>3, <1>4, <1>5, <2>1, <2>2, CalmSave DEF SameMedia
<1> QED BY <1>7, <1>8, <1>9

\* What SaveCancelled leaves of a short.
LEMMA CancelledMedia ==
  ASSUME JobsTyped, NEW j \in Jobs, SaveCancelled(j)
  PROVE  \/ job'[j] = job[j]
         \/ /\ ~Is(j, Gone) /\ job'[j].phase = "cancelled"
            /\ job'[j].clips = job[j].clips /\ job'[j].frames = job[j].frames /\ job'[j].plain = job[j].plain
<1>1. job[j] \in JobRecord
  BY DEF JobsTyped
<1> QED BY <1>1 DEF SaveCancelled, Cancelled, JobsTyped, JobRecord, Is

LEMMA EndingRender ==
  ASSUME Typed, NEW j \in Jobs, Fits(j), Counted(j), Error(j) \/ Handling(j) \/ Ending(j)
  PROVE  Fits(j)' /\ Counted(j)'
<1>1. JobsTyped /\ WorkersTyped /\ ChildrenTyped
  BY DEF Typed
<1>2. job[j] \in JobRecord
  BY <1>1 DEF JobsTyped
<1>3. restarts' = restarts /\ worker[j].pc # "record" /\ (child' = child \/ \E cs : child' = Asked(cs))
  BY DEF Error, Handling, Ending, HandleError, Fail, WorkerReads, WorkerAsks, WorkerCommits, OnlyWorker, At, Asks
<1>4. Aged
  BY <1>1, <1>3, AskingAges
<1>5. worker'[j].pc \notin Doing
  BY <1>1, Went, Finished DEF Error, Handling, Ending, HandleError, Fail, WorkerReads, WorkerAsks, WorkerCommits, Doing
<1>6. CASE Error(j) \/ HandleError(j) \/ WorkerReads(j) \/ WorkerAsks(j)
  <2>1. job' = job
    BY <1>6 DEF Error, HandleError, WorkerReads, WorkerAsks
  <2> QED BY <1>3, <1>4, <1>5, <2>1, CalmSame DEF SameMedia
<1>7. CASE Fail(j)
  <2> DEFINE new == IF worker[j].late THEN [job[j] EXCEPT !.phase = "failed", !.spoken = VoiceStands(j)]
                    ELSE [Failed(j) EXCEPT !.spoken = VoiceStands(j)]
  <2>1. Save(j, new)
    BY <1>7 DEF Fail
  <2>2. new.phase = "failed" /\ new.clips = job[j].clips /\ new.frames = job[j].frames /\ new.plain = job[j].plain
    <3>1. /\ Failed(j) \in JobRecord /\ Failed(j).phase = "failed" /\ Failed(j).clips = job[j].clips
          /\ Failed(j).frames = job[j].frames /\ Failed(j).plain = job[j].plain
      BY <1>1, <1>2, WrittenTyped DEF Failed, JobRecord
    <3> HIDE DEF Failed, VoiceStands
    <3> QED BY <1>2, <3>1 DEF JobRecord
  <2> HIDE DEF new
  <2> QED BY <1>3, <1>4, <1>5, <2>1, <2>2, CalmSave DEF Terminal
<1>8. CASE WorkerCommits(j)
  <2>1. SaveCancelled(j)
    BY <1>8 DEF WorkerCommits
  <2>2. CASE job'[j] = job[j]
    BY <1>3, <1>4, <1>5, <2>2, CalmSame DEF SameMedia
  <2>3. CASE job'[j] # job[j]
    <3>1. /\ ~Is(j, Gone) /\ job'[j].phase = "cancelled"
          /\ job'[j].clips = job[j].clips /\ job'[j].frames = job[j].frames /\ job'[j].plain = job[j].plain
      BY <1>1, <2>1, <2>3, CancelledMedia
    <3>2. Is(j, Terminal)' /\ ~Is(j, {"absent"})' /\ ~Is(j, {"deleted"})
      BY <3>1 DEF Is, Terminal, Gone
    <3> QED BY <1>3, <1>4, <1>5, <3>1, <3>2, Calm
  <2> QED BY <2>2, <2>3
<1> QED BY <1>6, <1>7, <1>8 DEF Handling, Ending

\* The room for children while the short stays as it is.
LEMMA RoomKept ==
  ASSUME NEW j \in Jobs, job'[j] = job[j], At(j, "record")' <=> At(j, "record"),
         At(j, "post")' => Due(j, worker'[j].scene, worker'[j].kind)
  PROVE  \A s \in Scenes, k \in Kinds : Room(j, s, k)' >= Room(j, s, k)
<1>1. Missing(j)' = Missing(j) /\ NextScene(j)' = NextScene(j) /\ NextKind(j)' = NextKind(j)
  BY NextSame
<1>2. ASSUME NEW s \in Scenes, NEW k \in Kinds
      PROVE  (Due(j, s, k)' => Due(j, s, k)) /\ Extra(j, s, k)' = Extra(j, s, k) /\ Extra(j, s, k) \in 0..1
  <2>1. (Underway(j, s, k)' <=> Underway(j, s, k)) /\ (Going(j)' <=> Going(j)) /\ (Done(j, s, k)' <=> Done(j, s, k))
    BY <1>1 DEF Underway, NoChild, Going, Is, Done
  <2>2. ASSUME At(j, "post")', worker'[j].scene = s, worker'[j].kind = k
        PROVE  Due(j, s, k)
    BY <2>2
  <2>3. Due(j, s, k)' => Due(j, s, k)
    BY <2>1, <2>2 DEF Due
  <2> QED BY <2>3 DEF Extra
<1>3. ASSUME NEW s \in Scenes, NEW k \in Kinds
      PROVE  Room(j, s, k)' >= Room(j, s, k)
  <2> HIDE DEF Due, Extra
  <2> QED BY <1>2 DEF Room
<1> QED BY <1>3

\* A worker that looks at its child goes on with it.
LEMMA Watching ==
  ASSUME Typed, NEW j \in Jobs, Fits(j), Counted(j), child' = child, restarts' = restarts, job' = job,
         worker[j].pc \in {"poll", "seen"}, worker'[j].pc \in {"seen", "take"},
         worker'[j].scene = worker[j].scene, worker'[j].kind = worker[j].kind, worker'[j].child = worker[j].child,
         Ended(worker'[j].seen) => Ended(child[worker[j].child].state)
  PROVE  Fits(j)' /\ Counted(j)'
<1>1. Aged
  BY AskingAges DEF Typed
<1>2. Missing(j)' = Missing(j) /\ NextScene(j)' = NextScene(j) /\ NextKind(j)' = NextKind(j)
  BY NextSame
<1>3. (Going(j)' <=> Going(j)) /\ (NoChild(j)' <=> NoChild(j)) /\ Ids(j)' = Ids(j) /\ (Is(j, {"absent"})' <=> Is(j, {"absent"}))
      /\ (Is(j, {"deleted"})' <=> Is(j, {"deleted"}))
  BY DEF Going, Is, NoChild, Ids
<1>4. ~At(j, "post")' /\ ~At(j, "record")' /\ ~At(j, "post") /\ ~At(j, "record")
  BY DEF At
<1>5. Fits(j)'
  <2>1. child'[worker'[j].child] = child[worker[j].child]
    OBVIOUS
  <2>2. worker[j].pc \in Doing \ {"post"} /\ worker[j].pc \in Doing
    BY DEF Doing
  <2>3. Is(j, {"absent"})' => Empty(j)'
    BY DEF Fits, Empty, NoChild, Is
  <2>4. job'[j].image = job[j].image /\ job'[j].video = job[j].video
    OBVIOUS
  <2> QED BY <1>2, <1>3, <2>1, <2>2, <2>3, <2>4 DEF Fits
<1>6. Loose(j)' \subseteq Loose(j) /\ Slack(j)' = Slack(j)
  <2>1. Known(j)' = Known(j)
    BY <1>3, <1>4 DEF Known
  <2> QED BY <1>1, <1>3, <1>4, <2>1, LooseKept DEF Slack
<1>7. \A s \in Scenes, k \in Kinds : Room(j, s, k)' >= Room(j, s, k)
  BY <1>4, RoomKept
<1>8. Slack(j) \in 0..1 /\ Loose(j)' \subseteq Loose(j) \cup {None}
  BY <1>6 DEF Slack
<1> QED BY <1>1, <1>3, <1>5, <1>6, <1>7, <1>8, CountsKept

\* The worker turns to the next scene.
LEMMA NextChildRender ==
  ASSUME Typed, NEW j \in Jobs, Fits(j), Counted(j), NextChild(j)
  PROVE  Fits(j)' /\ Counted(j)'
<1>1. WorkersTyped /\ ChildrenTyped
  BY DEF Typed
<1>2. job' = job /\ child' = child /\ restarts' = restarts /\ At(j, "scene")
  BY DEF NextChild, OnlyWorker
<1>3. Aged
  BY <1>1, <1>2, AskingAges
<1>4. CASE worker'[j].pc \in {"none", "ending"}
  BY <1>2, <1>3, <1>4, CalmSame DEF SameMedia, Doing, At
<1>5. CASE worker'[j].pc \notin {"none", "ending"}
  <2>1. /\ Is(j, Active) /\ Missing(j) # {}
        /\ worker' = [worker EXCEPT ![j].pc = IF Recorded(j) = None THEN "post" ELSE "poll",
                                    ![j].scene = NextScene(j), ![j].kind = NextKind(j), ![j].child = Recorded(j)]
    BY <1>1, <1>5, Went, Finished DEF NextChild
  <2>2. worker[j] \in WorkerRecord
    BY <1>1 DEF WorkersTyped
  <2>3. /\ worker'[j].pc = IF Recorded(j) = None THEN "post" ELSE "poll"
        /\ worker'[j].scene = NextScene(j) /\ worker'[j].kind = NextKind(j) /\ worker'[j].child = Recorded(j)
    <3> HIDE DEF NextScene, NextKind, Recorded
    <3> QED BY <1>1, <2>1, <2>2 DEF WorkersTyped, WorkerRecord
  <2>4. /\ Missing(j)' = Missing(j) /\ NextScene(j)' = NextScene(j) /\ NextKind(j)' = NextKind(j)
        /\ NextScene(j) \notin job[j].clips /\ (NextKind(j) = "image" => NextScene(j) \notin job[j].frames)
    BY <1>2, <2>1, NextSame, NextIsMissing
  <2>5. /\ Going(j) /\ Going(j)' /\ ~Is(j, {"deleted"}) /\ ~Is(j, {"absent"})'
        /\ (NoChild(j)' <=> NoChild(j)) /\ Ids(j)' = Ids(j)
    BY <1>2, <2>1 DEF Going, Is, NoChild, Ids, Active, Running, Terminal
  <2>6. NextKind(j) \in {"image", "video"} /\ (NextKind(j) = "image" \/ NextKind(j) = "video")
    BY DEF NextKind
  <2>7. /\ Recorded(j) = None => NoChild(j)
        /\ Recorded(j) # None => Recorded(j) \in Ids(j)
    BY <2>5, <2>6 DEF Recorded, NoChild, Fits, Ids
  <2>8. Fits(j)'
    <3>1. job'[j].image = job[j].image /\ job'[j].video = job[j].video
      BY <1>2
    <3>2. worker'[j].pc \in {"post", "poll"} /\ (worker'[j].pc = "poll" => Recorded(j) # None)
          /\ (worker'[j].pc = "post" => Recorded(j) = None)
      BY <2>3
    <3> HIDE DEF NextScene, NextKind, Recorded
    <3> QED BY <2>1, <2>3, <2>4, <2>5, <2>7, <3>1, <3>2 DEF Fits, Doing
  <2>9. Loose(j)' \subseteq Loose(j) /\ Slack(j)' = 0 /\ Slack(j) = 0
    <3>1. ~At(j, "record") /\ ~At(j, "record")'
      BY <1>2, <2>3 DEF At
    <3>2. Known(j)' = Known(j)
      BY <2>5, <3>1 DEF Known
    <3> QED BY <1>3, <2>5, <3>2, LooseKept DEF Slack
  <2>10. \A s \in Scenes, k \in Kinds : Room(j, s, k)' >= Room(j, s, k)
    <3>1. worker'[j].pc = "post" => Due(j, NextScene(j), NextKind(j))
      <4>1. ASSUME worker'[j].pc = "post"
            PROVE  NoChild(j) /\ ~At(j, "record")
        BY <1>2, <2>3, <2>7, <4>1 DEF At
      <4>2. ~Done(j, NextScene(j), NextKind(j))
        BY <2>4 DEF Done
      <4> HIDE DEF NextScene, NextKind
      <4> QED BY <2>5, <4>1, <4>2 DEF Due, Underway
    <3>2. ~At(j, "record") /\ ~At(j, "record")' /\ job'[j] = job[j]
      BY <1>2, <2>3 DEF At
    <3> QED BY <2>3, <3>1, <3>2, RoomKept DEF At
  <2>11. Slack(j)' >= Slack(j) /\ Loose(j)' \subseteq Loose(j) \cup {None}
    BY <2>9
  <2> QED BY <1>2, <1>3, <2>5, <2>8, <2>9, <2>10, <2>11, CountsKept
<1> QED BY <1>4, <1>5

\* A post takes the room that the worker had left for it.
LEMMA PostRender ==
  ASSUME Typed, NoneUnowned, NEW j \in Jobs, Fits(j), Counted(j), Post(j)
  PROVE  Fits(j)' /\ Counted(j)'
<1>1. WorkersTyped /\ ChildrenTyped /\ restarts \in Nat
  BY NumbersAssumption DEF Typed, CallersTyped
<1>2. PICK c \in Unused :
         /\ child' = [child EXCEPT ![c] = [owner |-> j, scene |-> worker[j].scene,
                                           kind |-> worker[j].kind, state |-> "active"]]
         /\ worker' = [worker EXCEPT ![j].pc = "record", ![j].child = c]
  BY DEF Post
<1>3. /\ job' = job /\ restarts' = restarts /\ At(j, "post") /\ ~At(j, "record") /\ c \in Children /\ c # None
      /\ child[c].state = "none" /\ child[c].owner # j
  BY JobsAssumption DEF Post, OnlyWorker, At, Unused, NoneUnowned, Children, None
<1>4. worker[j] \in WorkerRecord
  BY <1>1 DEF WorkersTyped
<1>5. /\ worker'[j].pc = "record" /\ worker'[j].child = c
      /\ worker'[j].scene = worker[j].scene /\ worker'[j].kind = worker[j].kind
  BY <1>1, <1>2, <1>4 DEF WorkersTyped, WorkerRecord
<1>6. /\ child'[c].owner = j /\ child'[c].scene = worker[j].scene /\ child'[c].kind = worker[j].kind
      /\ child'[c].state = "active" /\ \A d \in Children : d # c => child'[d] = child[d]
  BY <1>1, <1>2, <1>3 DEF ChildrenTyped
<1>7. /\ Missing(j)' = Missing(j) /\ NextScene(j)' = NextScene(j) /\ NextKind(j)' = NextKind(j)
      /\ (Going(j)' <=> Going(j)) /\ (NoChild(j)' <=> NoChild(j)) /\ Ids(j)' = Ids(j)
      /\ \A s, k : (Done(j, s, k)' <=> Done(j, s, k)) /\ Extra(j, s, k)' = Extra(j, s, k)
  BY <1>3, NextSame DEF Going, Is, NoChild, Ids, Done, Extra
<1>8. At(j, "record")' /\ ~At(j, "post")'
  BY <1>5 DEF At
<1>9. Going(j) => NoChild(j) /\ Missing(j) # {} /\ worker[j].scene = NextScene(j) /\ worker[j].kind = NextKind(j)
  BY <1>3 DEF Fits, At, Doing
<1>10. Fits(j)'
  <2>1. Is(j, {"absent"})' => Empty(j)'
    BY <1>3 DEF Fits, Empty, NoChild, Is
  <2>2. job'[j].image = job[j].image /\ job'[j].video = job[j].video
    BY <1>3
  <2> HIDE DEF NextScene, NextKind
  <2> QED BY <1>3, <1>5, <1>7, <1>9, <2>1, <2>2 DEF Fits, NoChild
<1>11. Cardinality(Loose(j)') <= restarts' + Slack(j)'
  <2>1. Known(j)' = {c} \cup Known(j) /\ Known(j) = {}
    <3>1. Going(j) => Ids(j) = {}
      BY <1>9 DEF NoChild, Ids
    <3>2. Known(j) = {}
      BY <1>3, <3>1 DEF Known
    <3>3. Known(j)' = {worker'[j].child} \cup (IF Going(j)' THEN Ids(j)' ELSE {})
      BY <1>8 DEF Known
    <3> QED BY <1>5, <1>7, <3>1, <3>2, <3>3
  <2>2. Loose(j)' \subseteq Loose(j)
    BY <1>6, <2>1 DEF Loose, Owned, Unfinished
  <2>3. Slack(j) = 0 /\ Slack(j)' \in 0..1
    BY <1>3 DEF Slack
  <2>4. Loose(j) \in SUBSET Children /\ Loose(j)' \in SUBSET Children
    BY DEF Loose, Owned
  <2>5. Cardinality(Loose(j)') <= Cardinality(Loose(j))
    BY <2>2, <2>4, OneMore
  <2>6. Cardinality(Loose(j)) \in Nat /\ Cardinality(Loose(j)') \in Nat
    BY <2>4, SetsFinite
  <2>7. Cardinality(Loose(j)) <= restarts + Slack(j)
    BY DEF Counted
  <2> QED BY <1>1, <1>3, <2>3, <2>5, <2>6, <2>7
<1>12. ASSUME ~Is(j, {"deleted"})', NEW s \in Scenes, NEW k \in Kinds
       PROVE  Cardinality(For(j, s, k)') <= restarts' + Room(j, s, k)'
  <2>1. For(j, s, k) \in SUBSET Children /\ For(j, s, k)' \in SUBSET Children
    BY DEF For, Owned
  <2>2. For(j, s, k)' \subseteq For(j, s, k) \cup {c}
    BY <1>6 DEF For, Owned
  <2>3. ~(s = worker[j].scene /\ k = worker[j].kind) => For(j, s, k)' \subseteq For(j, s, k)
    BY <1>6 DEF For, Owned
  <2>4. /\ Cardinality(For(j, s, k)') <= Cardinality(For(j, s, k)) + 1
        /\ ~(s = worker[j].scene /\ k = worker[j].kind) => Cardinality(For(j, s, k)') <= Cardinality(For(j, s, k))
    BY <2>1, <2>2, <2>3, OneMore
  <2>5. Cardinality(For(j, s, k)) \in Nat /\ Cardinality(For(j, s, k)') \in Nat
    BY <2>1, SetsFinite
  <2>6. Cardinality(For(j, s, k)) <= restarts + Room(j, s, k)
    BY <1>3, <1>12 DEF Counted, Is
  <2>7. Extra(j, s, k) \in 0..1 /\ Extra(j, s, k)' = Extra(j, s, k)
    BY <1>7 DEF Extra
  <2>8. s = worker[j].scene /\ k = worker[j].kind => Due(j, s, k) /\ ~Due(j, s, k)'
    <3> HIDE DEF NextScene, NextKind
    <3>1. s = worker[j].scene /\ k = worker[j].kind /\ Going(j)' => Underway(j, s, k)'
      BY <1>7, <1>8, <1>9 DEF Underway
    <3> QED BY <1>3, <1>8, <3>1 DEF Due
  <2>9. ~(s = worker[j].scene /\ k = worker[j].kind) /\ Due(j, s, k)' => Due(j, s, k)
    <3> HIDE DEF NextScene, NextKind
    <3>1. ~(s = worker[j].scene /\ k = worker[j].kind) /\ Going(j) => ~Underway(j, s, k) /\ ~Underway(j, s, k)'
      BY <1>7, <1>9 DEF Underway
    <3> QED BY <1>7, <1>8, <3>1 DEF Due
  <2> HIDE DEF Due, Extra
  <2>10. Room(j, s, k) = Extra(j, s, k) + (IF Due(j, s, k) THEN 0 ELSE 1)
         /\ Room(j, s, k)' = Extra(j, s, k) + (IF Due(j, s, k)' THEN 0 ELSE 1)
    BY <2>7 DEF Room
  <2> HIDE DEF Room
  <2>11. CASE s = worker[j].scene /\ k = worker[j].kind
    BY <1>1, <1>3, <2>4, <2>5, <2>6, <2>7, <2>8, <2>10, <2>11
  <2>12. CASE ~(s = worker[j].scene /\ k = worker[j].kind)
    <3>1. Room(j, s, k)' >= Room(j, s, k) /\ Room(j, s, k) \in Int /\ Room(j, s, k)' \in Int
      BY <2>7, <2>9, <2>10, <2>12
    <3> QED BY <1>1, <1>3, <2>4, <2>5, <2>6, <2>12, <3>1
  <2> QED BY <2>11, <2>12
<1> QED BY <1>10, <1>11, <1>12 DEF Counted

\* The record of a post names the child that the worker knew already.
LEMMA RecordRender ==
  ASSUME Typed, NEW j \in Jobs, Whole(j), Fits(j), Counted(j), Record(j)
  PROVE  Fits(j)' /\ Counted(j)'
<1>1. JobsTyped /\ WorkersTyped /\ ChildrenTyped
  BY DEF Typed
<1>2. child' = child /\ restarts' = restarts /\ At(j, "record") /\ Save(j, WithChild(j))
  BY DEF Record, OnlyWorker
<1>3. /\ worker'[j].pc = "poll" /\ worker'[j].scene = worker[j].scene /\ worker'[j].kind = worker[j].kind
      /\ worker'[j].child = worker[j].child
  BY <1>1 DEF Record, Goto, WorkersTyped, WorkerRecord
<1>4. Aged
  BY <1>1, <1>2, AskingAges
<1>5. worker[j].child # None /\ Exists(j) /\ job[j] \in JobRecord /\ worker[j].kind \in Kinds
  BY <1>1, <1>2 DEF Fits, At, Doing, Whole, JobsTyped, WorkersTyped, WorkerRecord
<1>6. CASE Is(j, Active)
  <2>1. job'[j] = WithChild(j) /\ Going(j) /\ ~Is(j, {"deleted"})
    BY <1>1, <1>2, <1>6, Saved DEF Is, Going, Active, Running, Terminal
  <2>2. /\ job'[j].clips = job[j].clips /\ job'[j].frames = job[j].frames /\ job'[j].plain = job[j].plain
        /\ job'[j].phase \in {"keyframe", "video"}
        /\ job'[j].image = IF worker[j].kind = "image" THEN worker[j].child ELSE None
        /\ job'[j].video = IF worker[j].kind = "image" THEN None ELSE worker[j].child
    BY <1>5, <2>1 DEF WithChild, JobRecord
  <2>3. Going(j)' /\ ~Is(j, {"absent"})' /\ ~Is(j, {"deleted"})'
    BY <2>2 DEF Going, Is, Terminal
  <2>4. /\ Missing(j)' = Missing(j) /\ NextScene(j)' = NextScene(j) /\ NextKind(j)' = NextKind(j)
        /\ \A s, k : (Done(j, s, k)' <=> Done(j, s, k)) /\ Extra(j, s, k)' = Extra(j, s, k)
    BY <2>2, NextSame DEF Done, Extra
  <2>5. /\ Missing(j) # {} /\ worker[j].scene = NextScene(j) /\ worker[j].kind = NextKind(j) /\ NoChild(j)
    BY <1>2, <2>1 DEF Fits, At, Doing
  <2>6. ~NoChild(j)' /\ Ids(j)' = {worker[j].child}
    BY <1>5, <2>2 DEF NoChild, Ids
  <2>7. Fits(j)'
    <3>1. worker[j].kind = "image" \/ worker[j].kind = "video"
      BY <1>5 DEF Kinds
    <3> HIDE DEF NextScene, NextKind
    <3> QED BY <1>3, <1>5, <2>2, <2>3, <2>4, <2>5, <2>6, <3>1 DEF Fits, Doing
  <2>8. Loose(j)' \subseteq Loose(j) /\ Slack(j)' = 0 /\ Slack(j) = 0
    <3>1. Known(j) = {worker[j].child}
      BY <1>2, <2>1, <2>5 DEF Known, NoChild, Ids
    <3>2. Known(j)' = {worker[j].child}
      BY <1>3, <2>3, <2>6 DEF Known, At
    <3> QED BY <1>4, <2>1, <2>3, <3>1, <3>2, LooseKept DEF Slack
  <2>9. ASSUME NEW s \in Scenes, NEW k \in Kinds
        PROVE  Room(j, s, k)' >= Room(j, s, k)
    <3>1. (Underway(j, s, k)' <=> Underway(j, s, k)) /\ ~At(j, "post")'
      <4> HIDE DEF NextScene, NextKind
      <4> QED BY <1>2, <1>3, <2>4, <2>6 DEF Underway, At
    <3>2. Due(j, s, k)' => Due(j, s, k)
      BY <2>1, <2>4, <3>1 DEF Due
    <3>3. Extra(j, s, k)' = Extra(j, s, k) /\ Extra(j, s, k) \in 0..1
      BY <2>4 DEF Extra
    <3> HIDE DEF Due, Extra
    <3> QED BY <3>2, <3>3 DEF Room
  <2>10. Slack(j)' >= Slack(j) /\ Loose(j)' \subseteq Loose(j) \cup {None}
    BY <2>8
  <2> QED BY <1>2, <1>4, <2>1, <2>7, <2>8, <2>9, <2>10, CountsKept
<1>7. CASE ~Is(j, Active)
  <2>1. job'[j] = job[j] /\ Is(j, Terminal) /\ ~Going(j) /\ ~Going(j)'
    BY <1>1, <1>2, <1>5, <1>7, Saved DEF Is, Going, Exists, JobRecord, Phases
  <2>2. Fits(j)'
    BY <1>3, <1>5, <2>1 DEF Fits, Empty, NoChild, Is, Terminal
  <2>3. PICK c : Loose(j)' \subseteq Loose(j) \cup {c}
    BY <1>4, LooseGrows
  <2>4. Slack(j)' = 1 /\ Slack(j) = 0
    BY <1>2, <1>3, <2>1 DEF Slack, At
  <2>5. ASSUME NEW s \in Scenes, NEW k \in Kinds
        PROVE  Room(j, s, k)' >= Room(j, s, k)
    <3>1. ~Due(j, s, k)'
      BY <1>3, <2>1 DEF Due, At
    <3>2. Extra(j, s, k)' = Extra(j, s, k) /\ Extra(j, s, k) \in 0..1
      BY <2>1 DEF Extra
    <3> HIDE DEF Due, Extra
    <3> QED BY <3>1, <3>2 DEF Room
  <2>6. Slack(j)' >= Slack(j) /\ (Is(j, {"deleted"}) => Is(j, {"deleted"})') /\ Slack(j)' = Slack(j) + 1
    BY <2>1, <2>4 DEF Is
  <2> QED BY <1>2, <1>4, <2>2, <2>3, <2>5, <2>6, CountsKept
<1> QED BY <1>6, <1>7

\* The worker takes note of how its child ended, and the short forgets the child.
LEMMA Forgets ==
  ASSUME Typed, NEW j \in Jobs, Fits(j), Counted(j), child' = child, restarts' = restarts,
         At(j, "take"), Ended(worker[j].seen), worker'[j].pc = "scene",
         Going(j), Going(j)', ~Is(j, {"absent"})', NoChild(j)',
         \A s \in Scenes, k \in Kinds : Room(j, s, k)' >= Room(j, s, k)
  PROVE  Fits(j)' /\ Counted(j)'
<1>1. Aged
  BY AskingAges DEF Typed
<1>2. Fits(j)'
  BY DEF Fits, Doing, NoChild
<1>3. worker[j].child # None /\ worker[j].child \in Ids(j) /\ Ended(child[worker[j].child].state)
  BY DEF Fits, At, Doing
<1>4. Known(j) \subseteq {worker[j].child}
  BY <1>3 DEF Known, At, Fits, Ids
<1>5. Loose(j)' \subseteq Loose(j)
  BY <1>1, <1>3, <1>4, LooseKept
<1>6. Slack(j) = 0 /\ Slack(j)' = 0
  BY DEF Slack, At
<1>7. ~Is(j, {"deleted"})
  BY DEF Going, Is
<1>8. Slack(j)' >= Slack(j) /\ Loose(j)' \subseteq Loose(j) \cup {None}
  BY <1>5, <1>6
<1> QED BY <1>1, <1>2, <1>5, <1>6, <1>7, <1>8, CountsKept

\* The child that the worker takes is the one the record names, of the kind it names.
LEMMA TakesOwn ==
  ASSUME Typed, NEW j \in Jobs, Fits(j), At(j, "take"), Going(j)
  PROVE  /\ Missing(j) # {} /\ worker[j].scene = NextScene(j) /\ worker[j].kind = NextKind(j)
         /\ worker[j].kind \in Kinds /\ worker[j].scene \in Scenes /\ ~NoChild(j)
         /\ IF worker[j].kind = "image" THEN job[j].video = None ELSE job[j].image = None
<1>1. worker[j].kind \in Kinds /\ worker[j].scene \in Scenes
  BY DEF Typed, WorkersTyped, WorkerRecord
<1>2. /\ Missing(j) # {} /\ worker[j].scene = NextScene(j) /\ worker[j].kind = NextKind(j)
      /\ worker[j].child # None /\ worker[j].child \in Ids(j)
  BY DEF Fits, At, Doing
<1>3. ~NoChild(j)
  BY <1>2 DEF NoChild, Ids
<1> HIDE DEF NextScene, NextKind
<1>4. IF worker[j].kind = "image" THEN job[j].video = None ELSE job[j].image = None
  BY <1>2 DEF Fits
<1> QED BY <1>1, <1>2, <1>3, <1>4

LEMMA TakeResultRender ==
  ASSUME Typed, NEW j \in Jobs, Fits(j), Counted(j), TakeResult(j)
  PROVE  Fits(j)' /\ Counted(j)'
<1>1. JobsTyped /\ WorkersTyped /\ ChildrenTyped /\ job[j] \in JobRecord
  BY DEF Typed, JobsTyped
<1>2. /\ child' = child /\ restarts' = restarts /\ At(j, "take") /\ Ended(worker[j].seen)
      /\ Save(j, WithResult(j))
  BY DEF TakeResult, OnlyWorker, Ended
<1>3. worker'[j].pc = "scene" /\ worker[j].pc # "record" /\ worker'[j].pc \notin Doing
  BY <1>1, <1>2, Went DEF TakeResult, At, Doing
<1>4. CASE Is(j, Active)
  <2>1. job'[j] = WithResult(j) /\ Going(j)
    BY <1>1, <1>2, <1>4, Saved DEF Is, Going, Active, Running, Terminal
  <2>2. /\ Missing(j) # {} /\ worker[j].scene = NextScene(j) /\ worker[j].kind = NextKind(j)
        /\ worker[j].kind \in Kinds /\ ~NoChild(j)
        /\ IF worker[j].kind = "image" THEN job[j].video = None ELSE job[j].image = None
    BY <1>2, <2>1, TakesOwn
  <2>3. /\ job'[j].phase \in {"video", "keyframe", job[j].phase} /\ NoChild(j)' /\ job'[j].plain = job[j].plain
        /\ worker[j].kind = "image" => /\ job'[j].frames = job[j].frames \cup {worker[j].scene}
                                       /\ job'[j].clips = job[j].clips
        /\ worker[j].kind # "image" => /\ job'[j].clips = job[j].clips \cup {worker[j].scene}
                                       /\ job'[j].frames = job[j].frames
    BY <1>1, <2>1, <2>2 DEF WithResult, JobRecord, NoChild
  <2>4. Going(j)' /\ ~Is(j, {"absent"})'
    BY <1>4, <2>3 DEF Going, Is, Terminal, Active, Running
  <2>5. ASSUME NEW s \in Scenes, NEW k \in Kinds
        PROVE  Room(j, s, k)' >= Room(j, s, k)
    <3>1. ~At(j, "post") /\ ~At(j, "post")' /\ ~At(j, "record")'
      BY <1>2, <1>3 DEF At
    <3>2. Done(j, s, k) => Done(j, s, k)'
      BY <2>3 DEF Done
    <3>3. s = worker[j].scene /\ k = worker[j].kind => Done(j, s, k)'
      BY <2>3 DEF Done
    <3>4. ~(s = worker[j].scene /\ k = worker[j].kind) => ~Underway(j, s, k)
      <4> HIDE DEF NextScene, NextKind
      <4> QED BY <2>2 DEF Underway
    <3>5. Due(j, s, k)' => Due(j, s, k)
      <4> HIDE DEF Done, Underway
      <4> QED BY <2>1, <3>1, <3>2, <3>3, <3>4 DEF Due
    <3>6. Extra(j, s, k)' = Extra(j, s, k) /\ Extra(j, s, k) \in 0..1
      BY <2>3 DEF Extra
    <3> HIDE DEF Due, Extra
    <3> QED BY <3>5, <3>6 DEF Room
  <2> QED BY <1>2, <1>3, <2>1, <2>3, <2>4, <2>5, Forgets
<1>5. CASE ~Is(j, Active)
  <2>1. job'[j] = job[j]
    BY <1>1, <1>2, <1>5, Saved
  <2> QED BY <1>1, <1>2, <1>3, <2>1, AskingAges, CalmSame DEF SameMedia
<1> QED BY <1>4, <1>5

\* A keyframe that is asked for once more.
LEMMA WithoutAnchorRender ==
  ASSUME Typed, NEW j \in Jobs, Fits(j), Counted(j), WithoutAnchor(j)
  PROVE  Fits(j)' /\ Counted(j)'
<1> DEFINE new == [job[j] EXCEPT !.image = None, !.plain = @ \cup {worker[j].scene}]
<1>1. JobsTyped /\ WorkersTyped /\ ChildrenTyped /\ job[j] \in JobRecord
  BY DEF Typed, JobsTyped
<1>2. /\ child' = child /\ restarts' = restarts /\ At(j, "take") /\ Ended(worker[j].seen)
      /\ Save(j, new) /\ worker[j].kind = "image" /\ worker[j].scene \notin job[j].plain
  BY DEF WithoutAnchor, OnlyWorker, Ended
<1>3. worker'[j].pc = "scene" /\ worker[j].pc # "record" /\ worker'[j].pc \notin Doing
  BY <1>1, <1>2, Went DEF WithoutAnchor, At, Doing
<1>4. CASE Is(j, Active)
  <2>1. job'[j] = new /\ Going(j)
    BY <1>1, <1>2, <1>4, Saved DEF Is, Going, Active, Running, Terminal
  <2>2. /\ Missing(j) # {} /\ worker[j].scene = NextScene(j) /\ worker[j].kind = NextKind(j)
        /\ worker[j].kind \in Kinds /\ ~NoChild(j) /\ job[j].video = None
    BY <1>2, <2>1, TakesOwn
  <2>3. /\ job'[j].phase = job[j].phase /\ NoChild(j)' /\ job'[j].plain = job[j].plain \cup {worker[j].scene}
        /\ job'[j].clips = job[j].clips /\ job'[j].frames = job[j].frames
    BY <1>1, <2>1, <2>2 DEF JobRecord, NoChild
  <2>4. Going(j)' /\ ~Is(j, {"absent"})'
    BY <1>4, <2>3 DEF Going, Is, Terminal, Active, Running
  <2>5. ASSUME NEW s \in Scenes, NEW k \in Kinds
        PROVE  Room(j, s, k)' >= Room(j, s, k)
    <3>1. ~At(j, "post") /\ ~At(j, "post")' /\ ~At(j, "record")'
      BY <1>2, <1>3 DEF At
    <3>2. Done(j, s, k)' <=> Done(j, s, k)
      BY <2>3 DEF Done
    <3>3. CASE s = worker[j].scene /\ k = worker[j].kind
      <4>1. Underway(j, s, k)
        <5> HIDE DEF NextScene, NextKind
        <5> QED BY <2>2, <3>3 DEF Underway
      <4>2. ~Due(j, s, k)
        BY <3>1, <4>1 DEF Due
      <4>3. Extra(j, s, k) = 0 /\ Extra(j, s, k)' = 1
        BY <1>2, <2>3, <3>3 DEF Extra
      <4> HIDE DEF Due, Extra
      <4> QED BY <4>2, <4>3 DEF Room
    <3>4. CASE ~(s = worker[j].scene /\ k = worker[j].kind)
      <4>1. ~Underway(j, s, k)
        <5> HIDE DEF NextScene, NextKind
        <5> QED BY <2>2, <3>4 DEF Underway
      <4>2. Due(j, s, k)' => Due(j, s, k)
        <5> HIDE DEF Done, Underway
        <5> QED BY <2>1, <3>1, <3>2, <4>1 DEF Due
      <4>3. Extra(j, s, k)' = Extra(j, s, k) /\ Extra(j, s, k) \in 0..1
        BY <1>2, <2>3, <3>4 DEF Extra
      <4> HIDE DEF Due, Extra
      <4> QED BY <4>2, <4>3 DEF Room
    <3> QED BY <3>3, <3>4
  <2> QED BY <1>2, <1>3, <2>1, <2>3, <2>4, <2>5, Forgets
<1>5. CASE ~Is(j, Active)
  <2>1. job'[j] = job[j]
    BY <1>1, <1>2, <1>5, Saved
  <2> QED BY <1>1, <1>2, <1>3, <2>1, AskingAges, CalmSame DEF SameMedia
<1> QED BY <1>4, <1>5

LEMMA VideosRender ==
  ASSUME Typed, NoneUnowned, NEW j \in Jobs, Whole(j), Fits(j), Counted(j), Videos(j)
  PROVE  Fits(j)' /\ Counted(j)'
<1>1. JobsTyped /\ WorkersTyped /\ ChildrenTyped /\ job[j] \in JobRecord /\ worker[j] \in WorkerRecord
  BY DEF Typed, JobsTyped, WorkersTyped
<1>2. CASE NextChild(j) \/ Post(j) \/ Record(j) \/ TakeResult(j) \/ WithoutAnchor(j)
  BY <1>2, NextChildRender, PostRender, RecordRender, TakeResultRender, WithoutAnchorRender
<1>3. CASE Begin(j) \/ StopInstead(j) \/ After(j)
  <2>1. child' = child /\ restarts' = restarts /\ job' = job /\ worker[j].pc # "record"
    BY <1>3 DEF Begin, StopInstead, After, OnlyWorker, At
  <2>2. worker'[j].pc \notin Doing
    <3>1. CASE worker' = [worker EXCEPT ![j].pc = "after", ![j].late = TRUE]
      BY <1>1, <3>1 DEF WorkersTyped, WorkerRecord, Doing
    <3>2. CASE Finish(j) \/ \E pc \in {"ending", "mark", "tts", "compose"} : Goto(j, pc) \/ Leaves(j, pc)
      BY <1>1, <3>2, Went, Finished DEF Doing
    <3> QED BY <1>3, <3>1, <3>2 DEF Begin, StopInstead, After
  <2> QED BY <1>1, <2>1, <2>2, AskingAges, CalmSame DEF SameMedia
<1>4. CASE Mark(j)
  <2> DEFINE new == [job[j] EXCEPT !.phase = IF j \notin Consistent THEN "video"
                                             ELSE IF @ = "video" THEN "video" ELSE "keyframe"]
  <2>1. child' = child /\ restarts' = restarts /\ worker[j].pc # "record" /\ Save(j, new)
    BY <1>4 DEF Mark, OnlyWorker, At
  <2>2. worker'[j].pc \notin Doing
    BY <1>1, <1>4, Went DEF Mark, Doing
  <2>3. new.phase \in Active /\ SameMedia(new, j)
    BY <1>1 DEF SameMedia, JobRecord, Active, Running
  <2> HIDE DEF new
  <2> QED BY <1>1, <2>1, <2>2, <2>3, AskingAges, CalmSave DEF SameMedia
<1>5. CASE VideosComplete(j)
  <2> DEFINE new == [job[j] EXCEPT !.phase = "video_completed", !.image = None, !.video = None]
  <2>1. child' = child /\ restarts' = restarts /\ worker[j].pc # "record" /\ Save(j, new) /\ Missing(j) = {}
        /\ Is(j, Active)
    BY <1>5 DEF VideosComplete, OnlyWorker, At
  <2>2. worker'[j].pc \notin Doing
    BY <1>1, <1>5, Went DEF VideosComplete, Doing
  <2>3. job[j].image = None /\ job[j].video = None
    BY <2>1 DEF Fits, Going, Is, Active, Running, Terminal
  <2>4. new.phase \in Active /\ SameMedia(new, j)
    BY <1>1, <2>3 DEF SameMedia, JobRecord, Active, Running
  <2> HIDE DEF new
  <2> QED BY <1>1, <2>1, <2>2, <2>4, AskingAges, CalmSave DEF SameMedia
<1>6. CASE Poll(j)
  <2>1. PICK s : /\ s = child[worker[j].child].state
                 /\ worker' = [worker EXCEPT ![j].pc = "seen", ![j].seen = IF Ended(s) THEN s ELSE "active"]
    BY <1>6 DEF Poll
  <2>2. /\ worker'[j].pc = "seen" /\ worker'[j].seen = IF Ended(s) THEN s ELSE "active"
        /\ worker'[j].scene = worker[j].scene /\ worker'[j].kind = worker[j].kind /\ worker'[j].child = worker[j].child
    BY <1>1, <2>1 DEF WorkersTyped, WorkerRecord
  <2>3. Ended(worker'[j].seen) => Ended(child[worker[j].child].state)
    BY <2>1, <2>2 DEF Ended
  <2>4. child' = child /\ restarts' = restarts /\ job' = job /\ worker[j].pc = "poll"
    BY <1>6 DEF Poll, OnlyWorker, At
  <2> QED BY <2>2, <2>3, <2>4, Watching
<1>7. CASE Seen(j)
  <2>1. child' = child /\ restarts' = restarts /\ job' = job /\ worker[j].pc = "seen"
    BY <1>7 DEF Seen, OnlyWorker, At
  <2>2. CASE Leaves(j, "ending") \/ Leaves(j, "scene")
    <3>1. worker'[j].pc \notin Doing
      BY <1>1, <2>2, Went DEF Doing
    <3> QED BY <1>1, <2>1, <3>1, AskingAges, CalmSame DEF SameMedia
  <2>3. CASE Goto(j, "take")
    <3>1. /\ worker'[j].pc = "take" /\ worker'[j].seen = worker[j].seen
          /\ worker'[j].scene = worker[j].scene /\ worker'[j].kind = worker[j].kind /\ worker'[j].child = worker[j].child
      BY <1>1, <2>3 DEF Goto, WorkersTyped, WorkerRecord
    <3>2. Ended(worker'[j].seen) => Ended(child[worker[j].child].state)
      BY <2>1, <3>1 DEF Fits
    <3> QED BY <2>1, <3>1, <3>2, Watching
  <2> QED BY <1>7, <2>2, <2>3 DEF Seen
<1>8. CASE ChildLost(j)
  <2>1. child' = child /\ restarts' = restarts /\ worker[j].pc # "record" /\ Save(j, Failed(j))
    BY <1>8 DEF ChildLost, OnlyWorker, At
  <2>2. worker'[j].pc \notin Doing
    BY <1>1, <1>8, Finished DEF ChildLost, Doing
  <2>3. /\ Failed(j).phase = "failed" /\ Failed(j).clips = job[j].clips /\ Failed(j).frames = job[j].frames
        /\ Failed(j).plain = job[j].plain
    BY <1>1 DEF Failed, JobRecord
  <2> HIDE DEF Failed
  <2> QED BY <1>1, <2>1, <2>2, <2>3, AskingAges, CalmSave DEF Terminal
<1> QED BY <1>2, <1>3, <1>4, <1>5, <1>6, <1>7, <1>8 DEF Videos

\* A step that only ages children leaves the shorts it does not write.
LEMMA Bystander ==
  ASSUME Typed, NEW k \in Jobs, Fits(k), Counted(k), Aged, restarts' = restarts,
         job'[k] = job[k], worker'[k] = worker[k]
  PROVE  Fits(k)' /\ Counted(k)'
  BY CalmSame DEF SameMedia

\* A post gives another short no child.
LEMMA PostElsewhere ==
  ASSUME Typed, NoneUnowned, NEW j \in Jobs, Post(j), NEW k \in Jobs, k # j, Fits(k), Counted(k)
  PROVE  Fits(k)' /\ Counted(k)'
<1>1. WorkersTyped /\ ChildrenTyped /\ worker[k] \in WorkerRecord
  BY DEF Typed, WorkersTyped
<1>2. PICK c \in Unused :
         /\ child' = [child EXCEPT ![c] = [owner |-> j, scene |-> worker[j].scene,
                                           kind |-> worker[j].kind, state |-> "active"]]
         /\ worker' = [worker EXCEPT ![j].pc = "record", ![j].child = c]
  BY DEF Post
<1>3. /\ job' = job /\ restarts' = restarts /\ worker'[k] = worker[k]
      /\ c \in Children /\ child[c].state = "none" /\ child[c].owner # k
  BY <1>1, <1>2, JobsAssumption DEF Post, OnlyWorker, Unused, NoneUnowned, WorkersTyped
<1>4. /\ child'[c].owner = j /\ child'[c].state = "active" /\ \A d \in Children : d # c => child'[d] = child[d]
  BY <1>1, <1>2, <1>3 DEF ChildrenTyped
<1>5. Fits(k)'
  <2>1. \A d \in Children : Ended(child[d].state) => Ended(child'[d].state)
    BY <1>3, <1>4 DEF Ended
  <2>2. worker[k].child \in Children \cup {None} /\ {"seen", "take"} \subseteq Doing \ {"post"}
    BY <1>1 DEF WorkerRecord, Doing
  <2>3. Missing(k)' = Missing(k) /\ NextScene(k)' = NextScene(k) /\ NextKind(k)' = NextKind(k)
    BY <1>3, NextSame
  <2>4. /\ Going(k)' <=> Going(k)
        /\ NoChild(k)' <=> NoChild(k)
        /\ Ids(k)' = Ids(k)
        /\ Is(k, {"absent"})' <=> Is(k, {"absent"})
        /\ Empty(k)' <=> Empty(k)
    BY <1>3 DEF Going, Is, NoChild, Ids, Empty
  <2>5. job'[k].image = job[k].image /\ job'[k].video = job[k].video
    BY <1>3
  <2> HIDE DEF NextScene, NextKind
  <2> QED BY <1>3, <2>1, <2>2, <2>3, <2>4, <2>5 DEF Fits
<1>6. Cardinality(Loose(k)') <= restarts' + Slack(k)'
  <2>1. Known(k)' = Known(k) /\ Slack(k)' = Slack(k)
    BY <1>3 DEF Known, Slack, Going, Is, Ids, At
  <2>2. Loose(k)' = Loose(k)
    BY <1>3, <1>4, <2>1 DEF Loose, Owned, Unfinished
  <2> QED BY <1>3, <2>1, <2>2 DEF Counted
<1>7. ASSUME ~Is(k, {"deleted"})', NEW s \in Scenes, NEW t \in Kinds
      PROVE  Cardinality(For(k, s, t)') <= restarts' + Room(k, s, t)'
  <2>1. For(k, s, t)' = For(k, s, t)
    BY <1>3, <1>4 DEF For, Owned
  <2>2. Cardinality(For(k, s, t)) <= restarts + Room(k, s, t)
    BY <1>3, <1>7 DEF Counted, Is
  <2>3. Missing(k)' = Missing(k) /\ NextScene(k)' = NextScene(k) /\ NextKind(k)' = NextKind(k)
    BY <1>3, NextSame
  <2>4. Extra(k, s, t)' = Extra(k, s, t) /\ (Due(k, s, t)' <=> Due(k, s, t))
    <3>1. Extra(k, s, t)' = Extra(k, s, t) /\ (Going(k)' <=> Going(k)) /\ (Done(k, s, t)' <=> Done(k, s, t))
          /\ (At(k, "post")' <=> At(k, "post"))
      BY <1>3 DEF Extra, Going, Is, Done, At
    <3>2. Underway(k, s, t)' <=> Underway(k, s, t)
      <4> HIDE DEF NextScene, NextKind
      <4> QED BY <1>3, <2>3 DEF Underway, NoChild, At
    <3> QED BY <1>3, <3>1, <3>2 DEF Due
  <2>5. Room(k, s, t)' = Room(k, s, t)
    <3> HIDE DEF Extra, Due
    <3> QED BY <2>4 DEF Room
  <2> QED BY <1>3, <2>1, <2>2, <2>5
<1> QED BY <1>5, <1>6, <1>7 DEF Counted

\* Every other step of a worker may ask children to stop, and no more.
LEMMA WorkAges ==
  ASSUME ChildrenTyped, NEW j \in Jobs, Work(j) \/ Error(j)
  PROVE  restarts' = restarts /\ (Post(j) \/ Aged)
<1>1. CASE Videos(j)
  <2>1. restarts' = restarts /\ (Post(j) \/ child' = child)
    BY <1>1 DEF Videos, Begin, Mark, NextChild, VideosComplete, Post, Record, Poll, Seen, StopInstead, TakeResult,
                WithoutAnchor, ChildLost, After, OnlyWorker
  <2> QED BY <2>1, AskingAges
<1>2. CASE Sound(j) \/ Composition(j)
  <2>1. restarts' = restarts /\ child' = child
    BY <1>2 DEF Sound, Composition, Tts, Speak, Spoken, WriteVoice, CheckVoice, Voiced, Compose, Mix, Render, CheckFinal,
                Publish, OnlyWorker
  <2> QED BY <2>1, AskingAges
<1>3. CASE Error(j) \/ Handling(j) \/ Ending(j)
  <2>1. restarts' = restarts /\ (child' = child \/ \E cs : child' = Asked(cs))
    BY <1>3 DEF Error, Handling, Ending, HandleError, Fail, WorkerReads, WorkerAsks, WorkerCommits, OnlyWorker, Asks
  <2> QED BY <2>1, AskingAges
<1> QED BY <1>1, <1>2, <1>3 DEF Work

LEMMA AgedUnowned ==
  ASSUME Aged, NoneUnowned
  PROVE  NoneUnowned'
  BY DEF Aged, NoneUnowned

\* A retry under way finds its job as it was.
LEMMA FillsSame ==
  ASSUME MakerKnows, FillsEmpty, maker' = maker,
         \A k \in Jobs : maker.pc = "fill" /\ k = maker.to => job'[k] = job[k] \/ ~Is(k, Active)'
                         \/ (SameMedia(job'[k], k) /\ job'[k].phase = job[k].phase)
  PROVE  FillsEmpty'
<1> SUFFICES ASSUME maker.pc = "fill", Is(maker.to, Active)'
             PROVE  Empty(maker.to)'
  BY DEF FillsEmpty, Is, Empty, NoChild
<1>1. maker.to \in Jobs
  BY DEF MakerKnows
<1> QED BY <1>1 DEF FillsEmpty, Is, Empty, NoChild, SameMedia

LEMMA WorkRender ==
  ASSUME ShortsInv, RenderInv, NEW j \in Jobs, Work(j) \/ Error(j)
  PROVE  RenderInv'
<1>1. Typed /\ MakerWaits /\ MakerKnows /\ ChildrenTyped /\ WorkersTyped /\ NoneUnowned /\ FillsEmpty
      /\ \A k \in Jobs : Whole(k) /\ Fits(k) /\ Counted(k)
  BY DEF ShortsInv, RenderInv, Typed
<1>2. ~At(j, "none")
  BY DEF Work, Error, Videos, Sound, Composition, Handling, Ending, Begin, Mark, NextChild, VideosComplete, Post, Record,
         Poll, Seen, StopInstead, TakeResult, WithoutAnchor, ChildLost, After, Tts, Speak, Spoken, WriteVoice, CheckVoice,
         Voiced, Compose, Mix, Render, CheckFinal, Publish, HandleError, Fail, WorkerReads, WorkerAsks, WorkerCommits, At
<1>3. maker' = maker /\ \A k \in Jobs : k # j => job'[k] = job[k] /\ worker'[k] = worker[k]
  BY <1>1, WorkFrame
<1>4. Fits(j)' /\ Counted(j)'
  BY <1>1, VideosRender, SoundRender, EndingRender DEF Work
<1>5. ASSUME NEW k \in Jobs, k # j
      PROVE  Fits(k)' /\ Counted(k)'
  BY <1>1, <1>3, <1>5, WorkAges, PostElsewhere, Bystander
<1>6. NoneUnowned'
  <2>1. CASE Post(j)
    <3>1. PICK c \in Unused :
             child' = [child EXCEPT ![c] = [owner |-> j, scene |-> worker[j].scene,
                                            kind |-> worker[j].kind, state |-> "active"]]
      BY <2>1 DEF Post
    <3> QED BY <1>1, <3>1 DEF NoneUnowned, ChildrenTyped, Unused
  <2> QED BY <1>1, <2>1, WorkAges, AgedUnowned
<1>7. FillsEmpty'
  <2>1. maker.pc = "fill" => maker.to # j
    BY <1>1, <1>2 DEF MakerWaits
  <2> QED BY <1>1, <1>3, <2>1, FillsSame
<1> QED BY <1>4, <1>5, <1>6, <1>7 DEF RenderInv

\* Cancel calls write the flag, or the end; neither says what was rendered.
LEMMA CallRender ==
  ASSUME ShortsInv, RenderInv, NEW j \in Jobs, Cancel(j) \/ CancelChat(j) \/ Call(j)
  PROVE  RenderInv'
<1>1. Typed /\ MakerKnows /\ ChildrenTyped /\ JobsTyped /\ job[j] \in JobRecord /\ NoneUnowned /\ FillsEmpty
      /\ \A k \in Jobs : Whole(k) /\ Fits(k) /\ Counted(k)
  BY DEF ShortsInv, RenderInv, Typed, JobsTyped
<1>2. /\ worker' = worker /\ maker' = maker /\ restarts' = restarts
      /\ child' = child \/ \E cs : child' = Asked(cs)
  BY DEF Cancel, CancelChat, Call, Snapshot, Flag, CallerReads, CallerAsks, CallerCommits, OnlyCaller, Asks
<1>3. Aged
  BY <1>1, <1>2, AskingAges
<1>4. ASSUME NEW k \in Jobs, k # j PROVE job'[k] = job[k]
  BY <1>1, <1>4, Saved
     DEF Cancel, CancelChat, Call, Snapshot, Flag, CallerReads, CallerAsks, CallerCommits, SaveCancelled, JobsTyped
<1>5. \/ job'[j] = job[j]
      \/ Is(j, Active) /\ job'[j].phase = job[j].phase /\ SameMedia(job'[j], j)
      \/ /\ ~Is(j, Gone) /\ job'[j].phase = "cancelled"
         /\ job'[j].clips = job[j].clips /\ job'[j].frames = job[j].frames /\ job'[j].plain = job[j].plain
  <2>1. CASE Flag(j)
    <3>1. Save(j, [job[j] EXCEPT !.cancel = TRUE])
      BY <2>1 DEF Flag
    <3> QED BY <1>1, <3>1, Saved DEF SameMedia, JobRecord
  <2>2. CASE CallerCommits(j)
    BY <1>1, <2>2, CancelledMedia DEF CallerCommits
  <2>3. CASE Cancel(j) \/ CancelChat(j) \/ Snapshot(j) \/ CallerReads(j) \/ CallerAsks(j)
    BY <2>3 DEF Cancel, CancelChat, Snapshot, CallerReads, CallerAsks
  <2> QED BY <2>1, <2>2, <2>3 DEF Call
<1>6. Fits(j)' /\ Counted(j)'
  <2>1. CASE job'[j] = job[j]
    BY <1>1, <1>2, <1>3, <2>1, Bystander
  <2>2. CASE Is(j, Active) /\ job'[j].phase = job[j].phase /\ SameMedia(job'[j], j)
    <3>1. ~Is(j, {"absent"})
      BY <2>2 DEF Is, Active, Running
    <3> QED BY <1>1, <1>2, <1>3, <2>2, <3>1, CalmSame
  <2>3. ASSUME ~Is(j, Gone), job'[j].phase = "cancelled",
               job'[j].clips = job[j].clips, job'[j].frames = job[j].frames, job'[j].plain = job[j].plain
        PROVE  Fits(j)' /\ Counted(j)'
    <3>1. Is(j, Terminal)' /\ ~Is(j, {"absent"})' /\ ~Is(j, {"deleted"})
      BY <2>3 DEF Is, Terminal, Gone
    <3> QED BY <1>1, <1>2, <1>3, <2>3, <3>1, Calm
  <2> QED BY <1>5, <2>1, <2>2, <2>3
<1>7. ASSUME NEW k \in Jobs, k # j
      PROVE  Fits(k)' /\ Counted(k)'
  BY <1>1, <1>2, <1>3, <1>4, <1>7, Bystander
<1>8. FillsEmpty'
  <2>1. job'[j].phase = "cancelled" => ~Is(j, Active)'
    BY DEF Is, Active, Running
  <2> QED BY <1>1, <1>2, <1>4, <1>5, <2>1, FillsSame
<1>9. NoneUnowned'
  BY <1>1, <1>3, AgedUnowned
<1> QED BY <1>6, <1>7, <1>8, <1>9 DEF RenderInv

LEMMA ChildEndsRender ==
  ASSUME ShortsInv, RenderInv, NEW c \in Children, ChildEnds(c)
  PROVE  RenderInv'
<1>1. Typed /\ MakerKnows /\ ChildrenTyped /\ NoneUnowned /\ FillsEmpty
      /\ \A k \in Jobs : Whole(k) /\ Fits(k) /\ Counted(k)
  BY DEF ShortsInv, RenderInv, Typed
<1>2. UNCHANGED <<job, worker, maker, restarts>> /\ child[c].state \in {"active", "asked"}
  BY DEF ChildEnds, OnlyWorker, Unfinished
<1>3. PICK s \in {"completed", "failed", "cancelled"} : child' = [child EXCEPT ![c].state = s]
  BY DEF ChildEnds
<1>4. child[c] \in ChildRecord
  BY <1>1 DEF ChildrenTyped
<1>5. /\ child'[c] = [child[c] EXCEPT !.state = s]
      /\ \A d \in Children : d # c => child'[d] = child[d]
  BY <1>1, <1>3 DEF ChildrenTyped
<1>6. Aged
  BY <1>2, <1>3, <1>4, <1>5 DEF Aged, Ended, ChildRecord
<1>7. \A k \in Jobs : Fits(k)' /\ Counted(k)'
  BY <1>1, <1>2, <1>6, Bystander
<1>8. NoneUnowned' /\ FillsEmpty'
  BY <1>1, <1>2, <1>6, AgedUnowned, FillsSame
<1> QED BY <1>7, <1>8 DEF RenderInv

\* A job that is created has rendered nothing, and neither has the record it replaces.
LEMMA NewRender ==
  ASSUME Typed, NEW j \in Jobs, Fits(j), Counted(j), Is(j, {"absent"}), job'[j] = NewJob(j),
         child' = child, restarts' = restarts, worker[j].pc \notin Doing, worker'[j].pc \notin Doing
  PROVE  Fits(j)' /\ Counted(j)' /\ Empty(j)'
<1>1. Empty(j) /\ Empty(j)' /\ Is(j, {"queued"})'
  BY DEF Fits, Empty, NoChild, NewJob, Is
<1>2. Aged
  BY AskingAges DEF Typed
<1>3. Going(j) /\ Going(j)' /\ ~Is(j, {"absent"})' /\ ~Is(j, {"deleted"}) /\ ~Is(j, {"deleted"})'
  BY <1>1 DEF Going, Is, Terminal
<1>4. worker[j].pc # "record"
  BY DEF Doing
<1> QED BY <1>1, <1>2, <1>3, <1>4, Calm DEF Empty, NoChild

LEMMA CreateRender ==
  ASSUME ShortsInv, RenderInv, NEW j \in Jobs, Create(j)
  PROVE  RenderInv'
<1>1. /\ Typed /\ MakerWaits /\ MakerKnows /\ ChildrenTyped /\ JobsTyped /\ WorkersTyped /\ NoneUnowned /\ FillsEmpty
      /\ \A k \in Jobs : Whole(k) /\ Fits(k) /\ Counted(k)
      /\ worker[j] \in WorkerRecord
  BY DEF ShortsInv, RenderInv, Typed, WorkersTyped
<1>2. /\ child' = child /\ maker' = maker /\ restarts' = restarts /\ j \in Fresh /\ Is(j, {"absent"})
      /\ job'[j] = NewJob(j) /\ worker'[j].pc = "begin"
      /\ \A k \in Jobs : k # j => job'[k] = job[k] /\ worker'[k] = worker[k]
  BY <1>1 DEF Create, JobsTyped, WorkersTyped, WorkerRecord
<1>3. worker[j].pc \notin Doing /\ worker'[j].pc \notin Doing
  BY <1>1, <1>2 DEF Whole, Is, Exists, Gone, At, Doing
<1>4. Fits(j)' /\ Counted(j)'
  BY <1>1, <1>2, <1>3, NewRender
<1>5. Aged
  BY <1>1, <1>2, AskingAges
<1>6. ASSUME NEW k \in Jobs, k # j
      PROVE  Fits(k)' /\ Counted(k)'
  BY <1>1, <1>2, <1>5, <1>6, Bystander
<1>7. maker.pc = "fill" => maker.to # j
  BY <1>1, <1>2 DEF MakerWaits
<1>8. FillsEmpty' /\ NoneUnowned'
  BY <1>1, <1>2, <1>5, <1>7, FillsSame, AgedUnowned
<1> QED BY <1>4, <1>6, <1>8 DEF RenderInv

\* The job that a retry makes gets finished media before it asks for any.
LEMMA RetryFillsRender ==
  ASSUME ShortsInv, RenderInv, NEW t \in Jobs, t = maker.to, RetryFills
  PROVE  Fits(t)' /\ Counted(t)'
<1> DEFINE new == [job[t] EXCEPT !.clips = maker.clips, !.frames = maker.frames, !.parent = maker.from]
<1>1. /\ Typed /\ MakerWaits /\ ChildrenTyped /\ JobsTyped /\ FillsEmpty /\ Fits(t) /\ Counted(t)
      /\ job[t] \in JobRecord
  BY DEF ShortsInv, RenderInv, Typed, JobsTyped
<1>2. /\ child' = child /\ restarts' = restarts /\ worker' = worker /\ maker.pc = "fill" /\ Save(t, new)
  BY DEF RetryFills, OnlyMaker, MakerAt
<1>3. Aged /\ worker[t].pc = "none"
  BY <1>1, <1>2, AskingAges DEF MakerWaits, At
<1>4. CASE ~Is(t, Active)
  BY <1>1, <1>2, <1>3, <1>4, Saved, Bystander
<1>5. CASE Is(t, Active)
  <2>1. /\ job'[t].phase = job[t].phase /\ NoChild(t) /\ NoChild(t)' /\ job'[t].plain = job[t].plain
        /\ job[t].clips = {} /\ job[t].frames = {}
    <3>1. Empty(t)
      BY <1>1, <1>2, <1>5 DEF FillsEmpty
    <3>2. job'[t] = new
      <4> HIDE DEF new
      <4> QED BY <1>1, <1>2, <1>5, Saved
    <3> QED BY <1>1, <3>1, <3>2 DEF JobRecord, Empty, NoChild
  <2>2. Going(t) /\ Going(t)' /\ ~Is(t, {"absent"})' /\ ~Is(t, {"deleted"})
    BY <1>5, <2>1 DEF Going, Is, Terminal, Active, Running
  <2>3. Fits(t)'
    BY <1>2, <1>3, <2>1, <2>2 DEF Fits, NoChild, Doing
  <2>4. Loose(t)' \subseteq Loose(t) /\ Slack(t)' = 0 /\ Slack(t) = 0
    <3>1. Known(t) = {}
      BY <1>3, <2>1 DEF Known, NoChild, Ids, At
    <3> QED BY <1>3, <2>2, <3>1, LooseKept DEF Slack
  <2>5. ASSUME NEW s \in Scenes, NEW k \in Kinds
        PROVE  Room(t, s, k)' >= Room(t, s, k)
    <3>1. Due(t, s, k)
      <4>1. ~Done(t, s, k)
        BY <2>1 DEF Done
      <4>2. ~Underway(t, s, k)
        BY <1>3, <2>1 DEF Underway, At
      <4> QED BY <2>2, <4>1, <4>2 DEF Due
    <3>2. Extra(t, s, k)' = Extra(t, s, k) /\ Extra(t, s, k) \in 0..1
      BY <2>1 DEF Extra
    <3> HIDE DEF Due, Extra
    <3> QED BY <3>1, <3>2 DEF Room
  <2>6. Slack(t)' >= Slack(t) /\ Loose(t)' \subseteq Loose(t) \cup {None}
    BY <2>4
  <2> QED BY <1>1, <1>2, <1>3, <2>2, <2>3, <2>4, <2>5, <2>6, CountsKept
<1> QED BY <1>4, <1>5

LEMMA RetryRender ==
  ASSUME ShortsInv, RenderInv, Make \/ \E j, k \in Jobs : Retry(j, k)
  PROVE  RenderInv'
<1>1. /\ Typed /\ MakerWaits /\ MakerKnows /\ MakerTyped /\ ChildrenTyped /\ JobsTyped /\ WorkersTyped /\ NoneUnowned
      /\ \A k \in Jobs : Whole(k) /\ Fits(k) /\ Counted(k)
  BY DEF ShortsInv, RenderInv, Typed
<1>2. child' = child /\ restarts' = restarts
  BY DEF Make, Retry, RetryLosesSource, RetryCreates, RetryFills, RetrySpeech, RetryStarts, OnlyMaker
<1>3. Aged /\ NoneUnowned'
  BY <1>1, <1>2, AskingAges, AgedUnowned
<1>4. CASE \E j, k \in Jobs : Retry(j, k)
  <2>1. job' = job /\ worker' = worker /\ maker'.pc = "create"
    BY <1>4 DEF Retry
  <2>2. FillsEmpty'
    BY <2>1 DEF FillsEmpty
  <2> QED BY <1>1, <1>2, <1>3, <2>1, <2>2, Bystander DEF RenderInv
<1>5. CASE Make
  <2>1. PICK t \in Jobs : t = maker.to
    BY <1>1, <1>5 DEF MakerKnows, Make, RetryLosesSource, RetryCreates, RetryFills, RetrySpeech, RetryStarts, MakerAt
  <2>2. maker.pc # "idle"
    BY <1>5 DEF Make, RetryLosesSource, RetryCreates, RetryFills, RetrySpeech, RetryStarts, MakerAt
  <2>3. worker[t].pc = "none" /\ worker[t] \in WorkerRecord /\ job[t] \in JobRecord
    BY <1>1, <2>1, <2>2 DEF MakerWaits, At, WorkersTyped, JobsTyped
  <2>4. ASSUME NEW k \in Jobs, k # t
        PROVE  Fits(k)' /\ Counted(k)'
    <3>1. job'[k] = job[k] /\ worker'[k] = worker[k]
      BY <1>1, <1>5, <2>1, <2>4, Saved
         DEF Make, RetryLosesSource, RetryCreates, RetryFills, RetrySpeech, RetryStarts, Started, JobsTyped, WorkersTyped
    <3> QED BY <1>1, <1>2, <1>3, <3>1, Bystander
  <2>5. Fits(t)' /\ Counted(t)' /\ FillsEmpty'
    <3>1. CASE RetryCreates
      <4>1. /\ Is(t, {"absent"}) /\ job'[t] = NewJob(t) /\ worker' = worker /\ maker'.to = t
        BY <1>1, <2>1, <3>1 DEF RetryCreates, MakerWaits, MakerAt, JobsTyped, MakerTyped, MakerRecord
      <4>2. worker[t].pc \notin Doing
        BY <2>3 DEF Doing
      <4>3. Fits(t)' /\ Counted(t)' /\ Empty(t)'
        BY <1>1, <1>2, <4>1, <4>2, NewRender
      <4>4. FillsEmpty'
        BY <4>1, <4>3 DEF FillsEmpty, Empty, NoChild
      <4> QED BY <4>3, <4>4
    <3>2. CASE RetryFills
      <4>1. maker'.pc = "speech"
        BY <1>1, <3>2 DEF RetryFills, MakerTyped, MakerRecord
      <4>2. FillsEmpty'
        BY <4>1 DEF FillsEmpty
      <4> QED BY <2>1, <3>2, <4>2, RetryFillsRender
    <3>3. CASE RetrySpeech
      <4>1. maker'.pc = "start" /\ worker' = worker
        BY <1>1, <3>3 DEF RetrySpeech, MakerTyped, MakerRecord
      <4>2. FillsEmpty'
        BY <4>1 DEF FillsEmpty
      <4>3. \/ job'[t] = job[t]
            \/ ~Is(t, {"absent"}) /\ job'[t].phase = job[t].phase /\ SameMedia(job'[t], t)
        <5> DEFINE new == IF Reusable THEN [job[t] EXCEPT !.spoken = TRUE, !.track = maker.track] ELSE job[t]
        <5>1. Save(t, new)
          BY <2>1, <3>3 DEF RetrySpeech
        <5>2. new.phase = job[t].phase /\ SameMedia(new, t)
          BY <2>3 DEF SameMedia, JobRecord
        <5> HIDE DEF new
        <5>3. Is(t, Active) => ~Is(t, {"absent"})
          BY DEF Is, Active, Running
        <5> QED BY <1>1, <5>1, <5>2, <5>3, Saved
      <4> QED BY <1>1, <1>2, <1>3, <4>1, <4>2, <4>3, Bystander, CalmSame
    <3>4. CASE RetryStarts
      <4>1. maker'.pc = "idle" /\ job' = job
        BY <3>4 DEF RetryStarts, MakerDone, NoRetry
      <4>2. FillsEmpty'
        BY <4>1 DEF FillsEmpty
      <4>3. worker'[t] = worker[t] \/ worker'[t].pc = "begin"
        BY <1>1, <2>1, <2>3, <3>4 DEF RetryStarts, Started, WorkersTyped, WorkerRecord
      <4>4. worker'[t] = worker[t] \/ (worker[t].pc # "record" /\ worker'[t].pc \notin Doing)
        BY <2>3, <4>3 DEF Doing
      <4> QED BY <1>1, <1>2, <1>3, <4>1, <4>2, <4>4, CalmSame DEF SameMedia
    <3>5. CASE RetryLosesSource
      <4>1. maker'.pc = "idle" /\ job' = job /\ worker' = worker
        BY <3>5 DEF RetryLosesSource, MakerDone, NoRetry
      <4>2. FillsEmpty'
        BY <4>1 DEF FillsEmpty
      <4> QED BY <1>1, <1>2, <1>3, <2>1, <4>1, <4>2, Bystander
    <3> QED BY <1>5, <3>1, <3>2, <3>3, <3>4, <3>5 DEF Make
  <2> QED BY <1>3, <2>4, <2>5 DEF RenderInv
<1> QED BY <1>4, <1>5

\* A deletion takes shorts that have ended, without a worker.
LEMMA DeleteRender ==
  ASSUME ShortsInv, RenderInv, NEW j \in Jobs, Delete(j)
  PROVE  RenderInv'
<1>1. /\ Typed /\ MakerKnows /\ ChildrenTyped /\ JobsTyped /\ NoneUnowned /\ FillsEmpty
      /\ \A k \in Jobs : Fits(k) /\ Counted(k) /\ job[k] \in JobRecord
  BY DEF ShortsInv, RenderInv, Typed, JobsTyped
<1>2. /\ child' = child /\ restarts' = restarts /\ worker' = worker /\ maker' = maker
      /\ \A k \in Jobs : k \notin Chain(j) => job'[k] = job[k]
      /\ \A k \in Jobs : k \in Chain(j) => job'[k].phase = "deleted" /\ At(k, "none") /\ ~Is(k, Active)
  <2>1. \A k \in Jobs : [NewJob(k) EXCEPT !.phase = "deleted"].phase = "deleted"
    BY DEF NewJob
  <2> HIDE DEF NewJob
  <2> QED BY <2>1 DEF Delete, WorkerIsActive
<1>3. \A k \in Jobs : k \in Chain(j) => Exists(k)
  BY DEF Chain
<1>4. Aged /\ NoneUnowned'
  BY <1>1, <1>2, AskingAges, AgedUnowned
<1>5. ASSUME NEW k \in Jobs, k \in Chain(j)
      PROVE  Fits(k)' /\ Counted(k)'
  <2>1. /\ Is(k, {"deleted"})' /\ ~Going(k)' /\ ~Going(k) /\ ~Is(k, {"absent"})' /\ worker[k].pc = "none"
        /\ At(k, "none")'
    <3>1. job[k].phase \in Phases
      BY <1>1 DEF JobRecord
    <3> QED BY <1>2, <1>3, <1>5, <3>1 DEF Is, Going, Exists, Phases, At
  <2>2. Fits(k)'
    BY <1>2, <2>1 DEF Fits, Doing
  <2>3. Known(k) = {} /\ Slack(k) = 1 /\ Slack(k)' = 1
    BY <1>2, <2>1 DEF Known, Slack, At
  <2>4. Loose(k)' \subseteq Loose(k)
    BY <1>4, <2>3, LooseKept
  <2>5. Slack(k)' >= Slack(k) /\ Loose(k)' \subseteq Loose(k) \cup {None}
    BY <2>3, <2>4
  <2> QED BY <1>1, <1>2, <1>4, <2>1, <2>2, <2>4, <2>5, CountsKept
<1>6. ASSUME NEW k \in Jobs, k \notin Chain(j)
      PROVE  Fits(k)' /\ Counted(k)'
  BY <1>1, <1>2, <1>4, <1>6, Bystander
<1>7. FillsEmpty'
  <2>1. \A k \in Jobs : job'[k] = job[k] \/ ~Is(k, Active)'
    BY <1>2 DEF Is, Active, Running
  <2> QED BY <1>1, <1>2, <2>1, FillsSame
<1> QED BY <1>4, <1>5, <1>6, <1>7 DEF RenderInv

\* A restart may cut one child off from its record, and gives room to repeat it.
LEMMA RestartRender ==
  ASSUME ShortsInv, RenderInv, Restart
  PROVE  RenderInv'
<1>1. /\ Typed /\ ChildrenTyped /\ NoneUnowned /\ restarts \in Nat
      /\ \A k \in Jobs : Fits(k) /\ Counted(k)
  BY NumbersAssumption DEF ShortsInv, RenderInv, Typed, CallersTyped
<1>2. /\ child' = child /\ job' = job /\ restarts' = restarts + 1 /\ maker'.pc = "idle"
      /\ \A k \in Jobs : worker'[k].pc \in {"none", "begin"}
  BY DEF Restart, MakerDone, NoRetry, Idle
<1>3. ASSUME NEW k \in Jobs
      PROVE  Fits(k)' /\ Counted(k)'
  <2>1. /\ Missing(k)' = Missing(k) /\ NextScene(k)' = NextScene(k) /\ NextKind(k)' = NextKind(k)
        /\ (Going(k)' <=> Going(k)) /\ Ids(k)' = Ids(k) /\ (NoChild(k)' <=> NoChild(k))
        /\ ~At(k, "record")' /\ ~At(k, "post")' /\ worker'[k].pc \notin Doing
        /\ (Is(k, {"absent"})' <=> Is(k, {"absent"})) /\ (Empty(k)' <=> Empty(k))
        /\ (Is(k, {"deleted"})' <=> Is(k, {"deleted"}))
    BY <1>2, NextSame DEF Going, Is, Ids, NoChild, At, Doing, Empty
  <2>2. Fits(k)'
    <3>1. job'[k].image = job[k].image /\ job'[k].video = job[k].video
      BY <1>2
    <3> HIDE DEF NextScene, NextKind
    <3> QED BY <1>1, <2>1, <3>1 DEF Fits, Doing
  <2>3. Cardinality(Loose(k)') <= restarts' + Slack(k)'
    <3>1. Loose(k)' \subseteq Loose(k) \cup {worker[k].child}
      BY <1>2, <2>1 DEF Loose, Owned, Unfinished, Known
    <3>2. Loose(k) \in SUBSET Children /\ Loose(k)' \in SUBSET Children
      BY DEF Loose, Owned
    <3>3. Cardinality(Loose(k)') <= Cardinality(Loose(k)) + 1
      BY <3>1, <3>2, OneMore
    <3>4. Cardinality(Loose(k)) \in Nat /\ Cardinality(Loose(k)') \in Nat
      BY <3>2, SetsFinite
    <3>5. Slack(k) \in 0..1 /\ Slack(k)' \in 0..1 /\ Slack(k)' >= Slack(k)
      BY <2>1 DEF Slack
    <3>6. Cardinality(Loose(k)) <= restarts + Slack(k)
      BY <1>1 DEF Counted
    <3> QED BY <1>1, <1>2, <3>3, <3>4, <3>5, <3>6
  <2>4. ASSUME ~Is(k, {"deleted"})', NEW s \in Scenes, NEW t \in Kinds
        PROVE  Cardinality(For(k, s, t)') <= restarts' + Room(k, s, t)'
    <3>1. For(k, s, t)' = For(k, s, t) /\ For(k, s, t) \in SUBSET Children
      BY <1>2 DEF For, Owned
    <3>2. Cardinality(For(k, s, t)) <= restarts + Room(k, s, t) /\ Cardinality(For(k, s, t)) \in Nat
      BY <1>1, <2>1, <2>4, <3>1, SetsFinite DEF Counted
    <3>3. Extra(k, s, t)' = Extra(k, s, t) /\ Extra(k, s, t) \in 0..1
      BY <1>2 DEF Extra
    <3>4. Room(k, s, t) \in 0..(Extra(k, s, t) + 1) /\ Room(k, s, t)' \in Extra(k, s, t)..2
      <4> HIDE DEF Extra, Due
      <4> QED BY <3>3 DEF Room
    <3> HIDE DEF Room, Extra
    <3> QED BY <1>1, <1>2, <3>1, <3>2, <3>3, <3>4
  <2> QED BY <2>2, <2>3, <2>4 DEF Counted
<1>4. NoneUnowned' /\ FillsEmpty'
  BY <1>1, <1>2 DEF NoneUnowned, FillsEmpty
<1> QED BY <1>3, <1>4 DEF RenderInv

LEMMA InitRender == Init => RenderInv
<1> SUFFICES ASSUME Init PROVE RenderInv
  OBVIOUS
<1>1. \A c \in Children : child[c].owner = NoJob
  BY DEF Init
<1>2. maker.pc = "idle" /\ restarts = 0
  BY DEF Init, NoRetry
<1>3. \A j \in Jobs : Is(j, {"absent"}) /\ Empty(j) /\ worker[j].pc = "none"
  BY DEF Init, NewJob, Is, Empty, NoChild, Idle
<1>4. ASSUME NEW j \in Jobs
      PROVE  Fits(j) /\ Counted(j)
  <2>1. Fits(j)
    BY <1>3 DEF Fits, Empty, NoChild, Doing
  <2>2. Owned(j) = {}
    BY <1>1, JobsAssumption DEF Owned
  <2>3. Loose(j) = {} /\ \A s, k : For(j, s, k) = {}
    BY <2>2 DEF Loose, For
  <2>4. Cardinality({}) = 0
    BY FS_EmptySet
  <2>5. Slack(j) \in 0..1 /\ \A s, k : Room(j, s, k) \in 0..2
    BY CountSets
  <2> HIDE DEF Slack, Room
  <2> QED BY <1>2, <2>1, <2>3, <2>4, <2>5 DEF Counted
<1>5. NoneUnowned /\ FillsEmpty
  BY <1>1, <1>2 DEF NoneUnowned, FillsEmpty
<1> QED BY <1>4, <1>5 DEF RenderInv

LEMMA RenderInvStep == ShortsInv /\ RenderInv /\ [Next]_vars => RenderInv'
<1> SUFFICES ASSUME ShortsInv, RenderInv, [Next]_vars PROVE RenderInv'
  OBVIOUS
<1>1. CASE UNCHANGED vars
  <2>1. /\ Typed /\ ChildrenTyped /\ MakerKnows /\ NoneUnowned /\ FillsEmpty
        /\ \A k \in Jobs : Fits(k) /\ Counted(k)
    BY DEF ShortsInv, RenderInv, Typed
  <2>2. UNCHANGED <<job, worker, child, maker, restarts>>
    BY <1>1 DEF vars
  <2>3. Aged
    BY <2>1, <2>2, AskingAges
  <2> QED BY <2>1, <2>2, <2>3, Bystander, FillsSame, AgedUnowned DEF RenderInv
<1>2. CASE \E j \in Jobs : Work(j) \/ Error(j)
  BY <1>2, WorkRender
<1>3. CASE \E j \in Jobs : Cancel(j) \/ CancelChat(j) \/ Call(j)
  BY <1>3, CallRender
<1>4. CASE \E j \in Jobs : Create(j) \/ Delete(j)
  BY <1>4, CreateRender, DeleteRender
<1>5. CASE Make \/ \E j, k \in Jobs : Retry(j, k)
  BY <1>5, RetryRender
<1>6. CASE Restart
  BY <1>6, RestartRender
<1>7. CASE \E c \in Children : ChildEnds(c)
  BY <1>7, ChildEndsRender
<1> QED BY <1>1, <1>2, <1>3, <1>4, <1>5, <1>6, <1>7 DEF Next

\* The counts say what the property says.
LEMMA RenderInvMeans == ShortsInv /\ RenderInv => RepeatedOnlyAfterRestart
<1> SUFFICES ASSUME ShortsInv, RenderInv, NEW j \in Jobs, Exists(j)
             PROVE  /\ Cardinality(Owned(j) \cap Unfinished) <= 1 + restarts
                    /\ \A s \in Scenes, k \in Kinds :
                         Cardinality(For(j, s, k)) <= 1 + restarts
                                                        + (IF k = "image" /\ s \in job[j].plain THEN 1 ELSE 0)
  BY DEF RepeatedOnlyAfterRestart
<1>1. restarts \in Nat /\ Fits(j) /\ Counted(j)
  BY NumbersAssumption DEF ShortsInv, RenderInv, Typed, CallersTyped
<1>2. Cardinality(Owned(j) \cap Unfinished) <= 1 + restarts
  <2>1. /\ Owned(j) \cap Unfinished \in SUBSET Children /\ Loose(j) \in SUBSET Children
        /\ Slack(j) \in 0..1
    BY DEF Owned, Unfinished, Loose, Slack
  <2>2. PICK c : Known(j) \subseteq {c}
    BY <1>1, KnownOne
  <2>3. Slack(j) = 1 => Known(j) = {}
    BY DEF Slack, Known
  <2>4. /\ Owned(j) \cap Unfinished \subseteq Loose(j) \cup {c}
        /\ Slack(j) = 1 => Owned(j) \cap Unfinished \subseteq Loose(j)
    BY <2>2, <2>3 DEF Loose
  <2>5. /\ Cardinality(Owned(j) \cap Unfinished) <= Cardinality(Loose(j)) + 1
        /\ Slack(j) = 1 => Cardinality(Owned(j) \cap Unfinished) <= Cardinality(Loose(j))
    BY <2>1, <2>4, OneMore
  <2>6. Cardinality(Owned(j) \cap Unfinished) \in Nat /\ Cardinality(Loose(j)) \in Nat
    BY <2>1, SetsFinite
  <2>7. Cardinality(Loose(j)) <= restarts + Slack(j)
    BY <1>1 DEF Counted
  <2> QED BY <1>1, <2>1, <2>5, <2>6, <2>7
<1>3. ASSUME NEW s \in Scenes, NEW k \in Kinds
      PROVE  Cardinality(For(j, s, k)) <= 1 + restarts + Extra(j, s, k)
  <2>1. Cardinality(For(j, s, k)) <= restarts + Room(j, s, k)
    BY <1>1 DEF Counted, Exists, Is, Gone
  <2>2. Cardinality(For(j, s, k)) \in Nat
    BY CountSets, SetsFinite
  <2>3. Extra(j, s, k) \in 0..1 /\ Room(j, s, k) \in 0..(Extra(j, s, k) + 1)
    <3>1. Extra(j, s, k) \in 0..1
      BY DEF Extra
    <3> HIDE DEF Extra, Due
    <3> QED BY <3>1 DEF Room
  <2> HIDE DEF Extra, Room
  <2> QED BY <1>1, <2>1, <2>2, <2>3
<1> QED BY <1>2, <1>3 DEF Extra

\* A short has at most one unfinished child, and no scene is rendered twice, but
\* for one request that each restart may cut off (RepeatedOnlyAfterRestart).
THEOREM ShortsRenderedOnce == Safe => []RepeatedOnlyAfterRestart
<1> QED
  BY InitShorts, ShortsStep, InitRender, RenderInvStep, RenderInvMeans, PTL DEF Safe
=============================================================================
