---------------------- MODULE MemorySupervisorProofs ----------------------
(***************************************************************************)
(* Safety of the memory-model supervisor for any media jobs and extraction *)
(* threads, and any number of stops, crashes and manual changes.           *)
(***************************************************************************)
EXTENDS MemorySupervisor, TLAPS

\* A stage in which the supervisor owns no process.
Childless == {"start", "down", "drained", "disabled", "expired", "exited"}

NoChild == spc \in Childless => child = "none"

\* The job of the worker, and no other, is on its way.
WorkerJob ==
  /\ wpc \in {"prepare", "wait", "post"} => status[cur] = "dispatching"
  /\ \A j \in MediaJobs : status[j] \in {"dispatching", "active"} => j = cur
  /\ \A j \in MediaJobs : status[j] = "active" => wpc = "follow"
  /\ wpc = "follow" => status[cur] = "active"
  /\ wpc = "prepare" => ~noted

\* No model and no start under way.
Free == child \notin Alive /\ spc # "start"

\* The worker waits until the memory is free, and it stays free.
KeptFree == /\ wpc = "wait" /\ ~Owned => Free
            /\ wpc \in {"post", "follow"} /\ noted => Free

SupervisorInv == TypeOK /\ NoChild /\ WorkerJob /\ KeptFree

----------------------------------------------------------------------------
LEMMA InitInv == Init => SupervisorInv
<1> SUFFICES ASSUME Init PROVE SupervisorInv
  OBVIOUS
<1>1. StateTypes /\ SupervisorTypes
  BY DEF Init, StateTypes, SupervisorTypes
<1>2. FlagTypes
  BY DEF Init, FlagTypes
<1>3. MediaTypes /\ ExtractionTypes
  BY MediaAssumption DEF Init, MediaTypes, ExtractionTypes
<1>4. CountTypes
  BY LimitsAssumption DEF Init, CountTypes
<1>5. NoChild /\ WorkerJob /\ KeptFree
  BY DEF Init, NoChild, Childless, WorkerJob, KeptFree, Free, Owned, Alive
<1> QED
  BY <1>1, <1>2, <1>3, <1>4, <1>5 DEF SupervisorInv, TypeOK

----------------------------------------------------------------------------
(* What the steps of each process leave alone *)

LEMMA SuperviseFrame == Supervise => UNCHANGED <<setting, demand, extraction, media, downs>>
<1>1. Tick => UNCHANGED <<setting, demand, extraction, media, downs>>
  BY DEF Tick, HealthyTick, Elsewhere
<1>2. Start \/ Stop \/ StopLater \/ PublishStopped => UNCHANGED <<setting, demand, extraction, media, downs>>
  BY DEF Start, Stop, StopLater, PublishStopped
<1> QED
  BY <1>1, <1>2 DEF Supervise

LEMMA DispatchFrame == Dispatch \/ TimedOut => UNCHANGED <<supervisor, setting, extraction, downs>>
  BY DEF Dispatch, BeginDispatch, Pass, Request, Granted, TimedOut, Post, JobEnds

Extract == \E e \in Extractors : TakeLock(e) \/ BeginInference(e) \/ Defer(e) \/ EndInference(e)

LEMMA ExtractFrame == Extract => UNCHANGED <<supervisor, setting, demand, media, downs>>
  BY DEF Extract, TakeLock, BeginInference, Defer, EndInference

Life == Exit \/ Crash \/ Relaunch \/ HeartbeatExpires \/ Loaded \/ BackoffEnds \/ Change

LEMMA LifeFrame == Life => UNCHANGED <<demand, extraction, media>>
  BY DEF Life, Exit, Crash, Relaunch, HeartbeatExpires, Loaded, BackoffEnds, Change

LEMMA ExpiryFrame == DemandExpires => UNCHANGED <<supervisor, setting, extraction, media, downs>>
  BY DEF DemandExpires

LEMMA Steps == Next <=> Supervise \/ Dispatch \/ TimedOut \/ Life \/ DemandExpires \/ Extract
  BY DEF Next, Life, Extract

----------------------------------------------------------------------------
(* Types *)

LEMMA StepCounts == CountTypes /\ [Next]_vars => CountTypes'
<1> USE LimitsAssumption DEF CountTypes
<1>1. ASSUME CountTypes, UNCHANGED <<downs, changes>> PROVE CountTypes'
  BY <1>1
<1>2. ASSUME CountTypes, downs < MaxDowns, downs' = downs + 1, changes' = changes PROVE CountTypes'
  BY <1>2
<1>3. ASSUME CountTypes, changes < MaxChanges, changes' = changes + 1, downs' = downs PROVE CountTypes'
  BY <1>3
<1> HIDE DEF CountTypes
<1>4. Life => \/ UNCHANGED <<downs, changes>>
              \/ downs < MaxDowns /\ downs' = downs + 1 /\ changes' = changes
              \/ changes < MaxChanges /\ changes' = changes + 1 /\ downs' = downs
  BY DEF Life, Exit, Crash, Relaunch, HeartbeatExpires, Loaded, BackoffEnds, Change, setting
<1>5. [Next]_vars /\ ~Life => UNCHANGED <<downs, changes>>
  BY Steps, SuperviseFrame, DispatchFrame, ExtractFrame, ExpiryFrame DEF setting, vars
<1> QED
  BY <1>1, <1>2, <1>3, <1>4, <1>5

LEMMA StepExtraction == ExtractionTypes /\ [Next]_vars => ExtractionTypes'
<1>1. ASSUME ExtractionTypes, NEW e \in Extractors,
             TakeLock(e) \/ BeginInference(e) \/ Defer(e) \/ EndInference(e)
      PROVE ExtractionTypes'
  BY <1>1 DEF ExtractionTypes, TakeLock, BeginInference, Hold, Defer, EndInference
<1>2. [Next]_vars /\ ~Extract => UNCHANGED extraction
  BY Steps, SuperviseFrame, DispatchFrame, LifeFrame, ExpiryFrame DEF vars
<1> QED
  BY <1>1, <1>2 DEF ExtractionTypes, Extract, extraction

LEMMA StepMedia == MediaTypes /\ [Next]_vars => MediaTypes'
<1> SUFFICES ASSUME MediaTypes, [Next]_vars PROVE MediaTypes'
  OBVIOUS
<1> USE MediaAssumption DEF MediaTypes, media
<1>1. CASE Dispatch \/ TimedOut
  <2>1. ASSUME NEW j \in MediaJobs, BeginDispatch(j) PROVE MediaTypes'
    BY <2>1 DEF BeginDispatch
  <2>2. CASE Pass \/ Request \/ Granted
    BY <2>2 DEF Pass, Request, NoteDemand, Granted
  <2>3. CASE Post \/ JobEnds \/ TimedOut
    BY <2>3 DEF Post, JobEnds, TimedOut
  <2> QED
    BY <1>1, <2>1, <2>2, <2>3 DEF Dispatch
<1>2. CASE DemandExpires
  BY <1>2 DEF DemandExpires
<1>3. CASE UNCHANGED <<demand, media>>
  BY <1>3
<1> HIDE DEF MediaTypes
<1> QED
  BY <1>1, <1>2, <1>3, Steps, SuperviseFrame, LifeFrame, ExtractFrame DEF vars

LEMMA StepState == StateTypes /\ [Next]_vars => StateTypes'
<1> SUFFICES ASSUME StateTypes, [Next]_vars PROVE StateTypes'
  OBVIOUS
<1>1. ASSUME NEW o \in BOOLEAN, NEW p \in BOOLEAN, Published(o, p) PROVE StateTypes'
  BY <1>1 DEF StateTypes, Published
<1>2. CASE HeartbeatExpires
  BY <1>2 DEF HeartbeatExpires, StateTypes
<1>3. CASE UNCHANGED state
  BY <1>3 DEF StateTypes
<1>4. CASE HealthyTick
  <2>1. CASE TickRunning
    BY <1>1, <1>3, <2>1, Zenon DEF TickRunning
  <2> QED
    BY <1>1, <1>3, <1>4, <2>1, Zenon DEF HealthyTick, TickDisabled, TickExternal, TickAbsent
<1>5. CASE TickError
  <2>1. CASE child \in Alive
    BY <1>5, <2>1 DEF TickError, Published, StateTypes
  <2>2. CASE child \notin Alive
    BY <1>5, <2>2 DEF TickError, Published, StateTypes
  <2> QED
    BY <2>1, <2>2
<1>6. CASE Start \/ Stop \/ StopLater \/ PublishStopped
  <2>1. CASE Start \/ Stop \/ PublishStopped
    BY <1>1, <1>3, <2>1, Zenon DEF Start, Stop, PublishStopped
  <2>2. (child \in Alive) \in BOOLEAN
    OBVIOUS
  <2>3. CASE StopLater
    <3>1. CASE Published(child \in Alive, TRUE)
      BY <1>1, <2>2, <3>1, Zenon
    <3>2. ASSUME NEW answers \in BOOLEAN, Published(child \in Alive, ~answers) PROVE StateTypes'
      BY <1>1, <2>2, <3>2, Zenon
    <3> QED
      BY <1>3, <2>3, <3>1, <3>2, Zenon DEF StopLater
  <2> QED
    BY <1>6, <2>1, <2>3
<1>7. Life /\ ~HeartbeatExpires => UNCHANGED state
  BY DEF Life, Exit, Crash, Relaunch, Loaded, BackoffEnds, Change
<1> QED
  BY <1>2, <1>3, <1>4, <1>5, <1>6, <1>7, Steps, DispatchFrame, ExtractFrame, ExpiryFrame
  DEF Supervise, Tick, Life, supervisor, vars

LEMMA StepSupervisor == SupervisorTypes /\ [Next]_vars => SupervisorTypes'
<1> SUFFICES ASSUME SupervisorTypes, [Next]_vars PROVE SupervisorTypes'
  OBVIOUS
<1> USE DEF SupervisorTypes, Alive, Stages
<1>1. CASE HealthyTick
  BY <1>1 DEF HealthyTick, TickDisabled, TickExternal, TickRunning, TickAbsent, Reap, Reaped
<1>2. CASE TickError
  BY <1>2 DEF TickError
<1>3. CASE Start \/ Stop \/ StopLater \/ PublishStopped
  BY <1>3 DEF Start, Stop, StopLater, PublishStopped
<1>4. CASE Life
  BY <1>4 DEF Life, Exit, Crash, Relaunch, HeartbeatExpires, Loaded, BackoffEnds, Change
<1>5. CASE UNCHANGED supervisor
  BY <1>5 DEF supervisor
<1> HIDE DEF SupervisorTypes
<1> QED
  BY <1>1, <1>2, <1>3, <1>4, <1>5, Steps, DispatchFrame, ExtractFrame, ExpiryFrame
  DEF Supervise, Tick, vars

LEMMA StepFlags == FlagTypes /\ [Next]_vars => FlagTypes'
<1> SUFFICES ASSUME FlagTypes, [Next]_vars PROVE FlagTypes'
  OBVIOUS
<1> USE DEF FlagTypes
<1>1. CASE Supervise
  <2>1. backoff' \in BOOLEAN
    BY <1>1, Zenon DEF Supervise, Tick, HealthyTick, TickDisabled, TickExternal, TickRunning, TickAbsent,
       TickError, Reap, Start, Stop, StopLater, PublishStopped
  <2> QED
    BY <1>1, <2>1, SuperviseFrame DEF setting, media
<1>2. CASE Dispatch \/ TimedOut
  <2>1. noted' \in BOOLEAN
    BY <1>2 DEF Dispatch, BeginDispatch, Pass, Request, Granted, TimedOut, Post, JobEnds
  <2> QED
    BY <1>2, <2>1, DispatchFrame DEF supervisor, setting
<1>3. CASE Life
  <2>1. backoff' \in BOOLEAN /\ valid' \in BOOLEAN
    BY <1>3 DEF Life, Exit, Crash, Relaunch, HeartbeatExpires, Loaded, BackoffEnds, Change, setting
  <2>2. external' \in BOOLEAN
    BY <1>3, Zenon DEF Life, Exit, Crash, Relaunch, HeartbeatExpires, Loaded, BackoffEnds, Change, setting
  <2> QED
    BY <1>3, <2>1, <2>2, LifeFrame DEF media
<1>4. CASE UNCHANGED <<backoff, external, valid, noted>>
  BY <1>4
<1> HIDE DEF FlagTypes
<1> QED
  BY <1>1, <1>2, <1>3, <1>4, Steps, ExtractFrame, ExpiryFrame DEF supervisor, setting, media, vars

LEMMA StepTypeOK == TypeOK /\ [Next]_vars => TypeOK'
  BY StepState, StepSupervisor, StepFlags, StepMedia, StepExtraction, StepCounts DEF TypeOK

----------------------------------------------------------------------------
(* The inductive invariant *)

LEMMA StepNoChild == SupervisorTypes /\ NoChild /\ [Next]_vars => NoChild'
<1> SUFFICES ASSUME SupervisorTypes, NoChild, [Next]_vars PROVE NoChild'
  OBVIOUS
<1> USE DEF NoChild, Childless
<1>1. CASE HealthyTick
  BY <1>1 DEF HealthyTick, TickDisabled, TickExternal, TickRunning, TickAbsent, Reap, Reaped
<1>2. CASE TickError
  BY <1>2 DEF TickError
<1>3. CASE Start \/ Stop \/ StopLater \/ PublishStopped
  BY <1>3 DEF Start, Stop, StopLater, PublishStopped
<1>4. CASE Life
  BY <1>4 DEF Life, Exit, Crash, Relaunch, HeartbeatExpires, Loaded, BackoffEnds, Change, Alive
<1>5. CASE UNCHANGED supervisor
  BY <1>5 DEF supervisor
<1> HIDE DEF NoChild
<1> QED
  BY <1>1, <1>2, <1>3, <1>4, <1>5, Steps, DispatchFrame, ExtractFrame, ExpiryFrame
  DEF Supervise, Tick, vars

LEMMA StepWorkerJob == MediaTypes /\ WorkerJob /\ [Next]_vars => WorkerJob'
<1> SUFFICES ASSUME MediaTypes, WorkerJob, [Next]_vars PROVE WorkerJob'
  OBVIOUS
<1> USE MediaAssumption DEF MediaTypes, WorkerJob
<1>1. CASE Dispatch \/ TimedOut
  <2>1. ASSUME NEW j \in MediaJobs, BeginDispatch(j) PROVE WorkerJob'
    BY <2>1 DEF BeginDispatch
  <2>2. CASE Pass \/ Request \/ Granted
    BY <2>2 DEF Pass, Request, Granted
  <2>3. CASE Post
    BY <2>3 DEF Post
  <2>4. CASE JobEnds \/ TimedOut
    BY <2>4 DEF JobEnds, TimedOut
  <2> QED
    BY <1>1, <2>1, <2>2, <2>3, <2>4 DEF Dispatch
<1>2. CASE UNCHANGED media
  BY <1>2 DEF media
<1> HIDE DEF MediaTypes, WorkerJob
<1> QED
  BY <1>1, <1>2, Steps, SuperviseFrame, LifeFrame, ExtractFrame, ExpiryFrame DEF vars

\* A stop that was put off is published with the model that is still there.
LEMMA LaterIsReported ==
  StopLater => /\ UNCHANGED child /\ spc # "start" /\ spc' # "start"
               /\ child \in Alive => UNCHANGED state \/ Owned'
<1>1. StopLater => UNCHANGED child /\ spc # "start" /\ spc' # "start"
  BY DEF StopLater
<1>2. ASSUME NEW p, Published(child \in Alive, p), child \in Alive
      PROVE  Owned'
  BY <1>2 DEF Published, Owned
<1>3. ASSUME StopLater, child \in Alive, ~UNCHANGED state
      PROVE  Owned'
  <2>1. CASE Published(child \in Alive, TRUE)
    BY <1>2, <1>3, <2>1, Zenon
  <2>2. ASSUME NEW answers \in BOOLEAN, Published(child \in Alive, ~answers)
        PROVE  Owned'
    BY <1>2, <1>3, <2>2, Zenon
  <2> QED
    BY <1>3, <2>1, <2>2, Zenon DEF StopLater
<1> QED
  BY <1>1, <1>3

\* A job on its way keeps the supervisor from starting the model; one that waits
\* sees no owned process only after it is gone.
LEMMA StepKeptFree == SupervisorInv /\ [Next]_vars => KeptFree'
<1> SUFFICES ASSUME SupervisorInv, [Next]_vars PROVE KeptFree'
  OBVIOUS
<1> USE DEF SupervisorInv, TypeOK, KeptFree, Free, Owned, Alive
<1>1. wpc \in {"wait", "post", "follow"} => MediaActive
  BY DEF MediaTypes, WorkerJob, MediaActive
<1>2. CASE Supervise
  <2>1. UNCHANGED media
    BY <1>2, SuperviseFrame
  <2>2. CASE TickDisabled \/ TickExternal
    BY <2>1, <2>2 DEF TickDisabled, TickExternal, Reap, Reaped, Published, media
  <2>3. CASE TickRunning
    BY <2>1, <2>3 DEF TickRunning, Published, media
  <2>4. CASE TickAbsent
    BY <1>1, <2>1, <2>4 DEF TickAbsent, ShouldLoad, Reap, Reaped, Published, media
  <2>5. CASE TickError
    BY <2>1, <2>5 DEF TickError, Published, media
  <2>6. CASE Start
    BY <2>1, <2>6 DEF Start, NoChild, Childless, Published, media
  <2>7. CASE Stop
    BY <2>1, <2>7 DEF Stop, media
  <2>8. CASE StopLater
    BY <2>1, <2>8, LaterIsReported DEF media
  <2>9. CASE PublishStopped
    BY <2>1, <2>9 DEF PublishStopped, NoChild, Childless, Published, media
  <2> QED
    BY <1>2, <2>2, <2>3, <2>4, <2>5, <2>6, <2>7, <2>8, <2>9 DEF Supervise, Tick, HealthyTick
<1>3. CASE Dispatch \/ TimedOut
  <2>1. UNCHANGED supervisor
    BY <1>3, DispatchFrame
  <2>2. ASSUME NEW j \in MediaJobs, BeginDispatch(j) PROVE KeptFree'
    BY <2>2 DEF BeginDispatch
  <2>3. CASE Pass \/ Request
    BY <2>1, <2>3 DEF Pass, Request, WorkerJob, supervisor
  <2>4. CASE Granted \/ Post
    BY <2>1, <2>4 DEF Granted, Released, Post, supervisor
  <2>5. CASE JobEnds \/ TimedOut
    BY <2>5 DEF JobEnds, TimedOut
  <2> QED
    BY <1>3, <2>2, <2>3, <2>4, <2>5 DEF Dispatch
<1>4. CASE Life
  <2>1. UNCHANGED media
    BY <1>4, LifeFrame
  <2>2. CASE Exit \/ Crash \/ Relaunch \/ HeartbeatExpires
    BY <2>1, <2>2 DEF Exit, Crash, Relaunch, HeartbeatExpires, NoChild, Childless, StateTypes, media
  <2>3. CASE Loaded \/ BackoffEnds \/ Change
    BY <2>1, <2>3 DEF Loaded, BackoffEnds, Change, media
  <2> QED
    BY <1>4, <2>2, <2>3 DEF Life
<1>5. CASE UNCHANGED <<supervisor, media>>
  BY <1>5 DEF supervisor, media
<1> HIDE DEF SupervisorInv, KeptFree
<1> QED
  BY <1>2, <1>3, <1>4, <1>5, Steps, ExtractFrame, ExpiryFrame DEF vars

THEOREM SupervisorInvariant == Safe => []SupervisorInv
<1>1. SupervisorInv /\ [Next]_vars => SupervisorInv'
  BY StepTypeOK, StepNoChild, StepWorkerJob, StepKeptFree DEF SupervisorInv, TypeOK
<1> QED
  BY <1>1, InitInv, PTL DEF Safe

----------------------------------------------------------------------------
(* Theorems *)

\* Every variable of the supervisor, the extractions and the dispatch keeps its
\* type, and an extraction holds the inference lock while its request runs.
THEOREM SupervisorTypeCorrect == Safe => []TypeOK
  BY SupervisorInvariant, PTL DEF SupervisorInv

\* An exclusive job that asked for the memory of the supervised model has it
\* alone until it ends (prepare_media_dispatch, should_load).
THEOREM ReleasedMemoryStaysFree == Safe => []AloneOnceReleased
<1>1. SupervisorInv => AloneOnceReleased
  BY MediaAssumption DEF SupervisorInv, WorkerJob, KeptFree, Free, AloneOnceReleased, TypeOK, MediaTypes
<1> QED
  BY <1>1, SupervisorInvariant, PTL

\* No stop of the supervisor takes the model from a running extraction
\* (inference_lease, Supervisor.stop).
THEOREM ExtractionsFinish == Safe => NoStopUnderInference
<1>1. SupervisorInv /\ [Next]_vars =>
        [inferring # {} /\ child \in Alive => child' # "none" \/ external']_vars
  <2> SUFFICES ASSUME SupervisorInv, Next, inferring # {}, child \in Alive
               PROVE  child' # "none" \/ external'
    BY DEF vars
  <2> USE DEF Alive
  <2>1. locking # {}
    BY DEF SupervisorInv, TypeOK, ExtractionTypes
  <2>2. CASE Tick
    BY <2>2 DEF Tick, HealthyTick, TickError, TickDisabled, TickExternal, TickRunning, TickAbsent, Reap, Reaped
  <2>3. CASE Start \/ Stop \/ StopLater \/ PublishStopped
    BY <2>1, <2>3 DEF Start, Stop, NobodyInfers, StopLater, PublishStopped
  <2>4. CASE Life
    BY <2>4 DEF Life, Exit, Crash, Relaunch, HeartbeatExpires, Loaded, BackoffEnds, Change
  <2>5. CASE UNCHANGED supervisor
    BY <2>5 DEF supervisor
  <2> QED
    BY <2>2, <2>3, <2>4, <2>5, Steps, DispatchFrame, ExtractFrame, ExpiryFrame DEF Supervise
<1> QED
  BY <1>1, SupervisorInvariant, PTL DEF Safe, NoStopUnderInference

----------------------------------------------------------------------------
(* Announced stops *)

Undisturbed == downs = 0 /\ changes = 0

\* While nothing is disturbed, a state file without a pause speaks of a model that
\* is there, and a drain was announced by a pause.
Announced ==
  Undisturbed =>
    /\ valid
    /\ spc \notin {"disable", "disabled", "exit", "exited", "down"}
    /\ spc \in {"drain", "drained"} => state.pause
    /\ state.fresh /\ ~state.pause /\ spc # "expired" => child = "ready" \/ external

LEMMA DisturbedForEver == CountTypes /\ [Next]_vars /\ Undisturbed' => Undisturbed
<1> USE LimitsAssumption DEF CountTypes, Undisturbed
<1>1. CountTypes /\ Life /\ Undisturbed' => Undisturbed
  BY DEF Life, Exit, Crash, Relaunch, HeartbeatExpires, Loaded, BackoffEnds, Change, setting
<1>2. [Next]_vars /\ ~Life => UNCHANGED <<downs, changes>>
  BY Steps, SuperviseFrame, DispatchFrame, ExtractFrame, ExpiryFrame DEF setting, vars
<1> QED
  BY <1>1, <1>2

\* What is published without a pause is a model that answers.
LEMMA SpeaksOfModel ==
  ASSUME NEW owned, NEW answers \in BOOLEAN, answers => child = "ready", Published(owned, ~answers)
  PROVE  state'.pause \/ child = "ready"
<1>1. CASE answers
  BY <1>1
<1>2. CASE ~answers
  BY <1>2 DEF Published
<1> QED
  BY <1>1, <1>2

LEMMA StepAnnounced == SupervisorInv /\ Announced /\ [Next]_vars => Announced'
<1> SUFFICES ASSUME SupervisorInv, Announced, [Next]_vars, Undisturbed'
             PROVE  Announced'
  BY DEF Announced
<1>0. Undisturbed
  BY DisturbedForEver DEF SupervisorInv, TypeOK
<1> USE <1>0 DEF Announced
<1>1. CASE Supervise
  <2>1. UNCHANGED setting
    BY <1>1, SuperviseFrame
  <2>2. CASE TickDisabled \/ TickExternal
    BY <2>1, <2>2 DEF TickDisabled, TickExternal, Published, setting
  <2>3. CASE TickRunning
    <3>1. UNCHANGED child /\ spc = "tick"
      BY <2>3 DEF TickRunning
    <3>2. \/ spc' = "drain" /\ Published(TRUE, TRUE)
          \/ spc' = "expire" /\ UNCHANGED state
          \/ spc' = "tick" /\ \E answers \in BOOLEAN : /\ answers => child = "ready"
                                                    /\ Published(TRUE, ~answers)
      BY <2>3, <3>1, Zenon DEF TickRunning
    <3> QED
      BY <2>1, <3>1, <3>2, SpeaksOfModel DEF Published, setting
  <2>4. CASE TickAbsent
    BY <2>1, <2>4 DEF TickAbsent, Reap, Reaped, Published, setting
  <2>5. CASE TickError
    BY <2>1, <2>5 DEF TickError, Published, setting
  <2>6. CASE Start \/ Stop
    BY <2>1, <2>6 DEF Start, Stop, Published, setting
  <2>7. CASE StopLater
    <3>1. UNCHANGED child /\ spc' = "tick" /\ spc \in {"drain", "expire"}
      BY <2>7 DEF StopLater
    <3>2. \/ Published(child \in Alive, TRUE)
          \/ \E answers \in BOOLEAN : /\ answers => child = "ready"
                                      /\ Published(child \in Alive, ~answers)
      BY <2>7, <3>1, Zenon DEF StopLater
    <3> QED
      BY <2>1, <3>1, <3>2, SpeaksOfModel DEF Published, setting
  <2>8. CASE PublishStopped
    BY <2>1, <2>8 DEF PublishStopped, Published, setting
  <2> QED
    BY <1>1, <2>2, <2>3, <2>4, <2>5, <2>6, <2>7, <2>8 DEF Supervise, Tick, HealthyTick
<1>2. CASE Life
  <2>1. Loaded \/ BackoffEnds
    BY <1>2, LimitsAssumption DEF Life, Exit, Crash, Relaunch, HeartbeatExpires, Change, Undisturbed
  <2> QED
    BY <2>1 DEF Loaded, BackoffEnds, setting
<1>3. CASE UNCHANGED <<supervisor, setting>>
  BY <1>3 DEF supervisor, setting
<1> QED
  BY <1>1, <1>2, <1>3, Steps, DispatchFrame, ExtractFrame, ExpiryFrame DEF vars

\* Undisturbed, an extraction that is let through finds its model: the supervisor
\* announces each stop first (tick, inference_lease).
THEOREM ExtractionsFindTheirModel == Safe => LetThroughToModel
<1>1. Init => Announced
  BY DEF Init, Announced
<1>2. SupervisorInv /\ Announced /\ [Next]_vars =>
        [inferring' \ inferring # {} /\ state.fresh /\ downs + changes = 0 /\ spc # "expired"
           => child = "ready" \/ external]_vars
  <2> SUFFICES ASSUME SupervisorInv, Announced, Next, inferring' \ inferring # {},
                      state.fresh, downs + changes = 0, spc # "expired"
               PROVE  child = "ready" \/ external
    BY DEF vars
  <2>1. Undisturbed
    BY LimitsAssumption DEF SupervisorInv, TypeOK, CountTypes, Undisturbed
  <2>2. ~state.pause
    BY Steps, SuperviseFrame, DispatchFrame, LifeFrame, ExpiryFrame
    DEF extraction, Extract, TakeLock, BeginInference, Deferred, Defer, EndInference
  <2> QED
    BY <2>1, <2>2 DEF Announced
<1> QED
  BY <1>1, <1>2, StepAnnounced, SupervisorInvariant, PTL DEF Safe, LetThroughToModel

=============================================================================
