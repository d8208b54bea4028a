------------------------- MODULE MemorySupervisor -------------------------
(***************************************************************************)
(* The optional 4B memory model: its supervisor                            *)
(* (agent/memory_model_supervisor.py), the extractions that use it under a *)
(* shared inference lock, and the dispatch of media jobs, which asks for   *)
(* its memory (agent/memory_model_coordination.py).  The processes meet in *)
(* a state file of the supervisor, a demand marker of the media queue, the *)
(* jobs file and the lock, and each of them acts on what it read before.   *)
(*                                                                         *)
(* A memory snapshot is abstracted to whether it asks for an unload or     *)
(* forbids a load ("tight").  Deadlines are flags: the state file gets     *)
(* stale only while the supervisor is down (it publishes more often than   *)
(* HEARTBEAT_SECONDS), the marker expires at any time except during the    *)
(* wait that wrote it (20 s against DEMAND_SECONDS).  Refusals of the      *)
(* native service, cancels and restarts of the worker are in MediaQueue.   *)
(***************************************************************************)
EXTENDS Naturals, FiniteSets

CONSTANTS
  MediaJobs,   \* jobs of the media queue, dispatched by its one worker
  Exclusive,   \* the text-to-image generations among them
  NoJob,
  Extractors,  \* threads that run an extraction
  MaxDowns,    \* bound on stops and crashes of the supervisor
  MaxChanges   \* bound on deaths of the child and on manual changes

ASSUME MediaAssumption == /\ Exclusive \subseteq MediaJobs
                          /\ NoJob \notin MediaJobs
ASSUME LimitsAssumption == MaxDowns \in Nat /\ MaxChanges \in Nat

VARIABLES
  spc,       \* stage of the supervisor
  child,     \* the process it owns
  backoff,   \* retry_at lies in the future
  external,  \* port 8011 is taken by a process it does not own
  valid,     \* the settings select the dedicated model
  state,     \* state.json, as supervisor_state reads it
  demand,    \* media-demand.json: "none", "shared" or "exclusive"
  locking,   \* extractions that hold the shared inference lock
  inferring, \* those among them that were let through
  wpc, cur,  \* the media worker and its job
  noted,     \* the worker wrote the marker for its job
  status,    \* status of a media job
  downs, changes

supervisor == <<spc, child, backoff, state>>
setting == <<external, valid, changes>>
media == <<wpc, cur, noted, status>>
extraction == <<locking, inferring>>
vars == <<supervisor, setting, demand, extraction, media, downs>>

Alive == {"loading", "ready"}

----------------------------------------------------------------------------
(* What the processes read *)

\* active_media_kind: a fresh marker, or a job that is on its way.
MediaActive == demand # "none" \/ \E j \in MediaJobs : status[j] \in {"dispatching", "active"}

\* A fresh exclusive marker takes the memory of a healthy model.
ShouldUnload(tight) == tight \/ demand = "exclusive"

ShouldLoad(tight) == ~tight /\ ~MediaActive

Published(owned, pause) == state' = [owned |-> owned, pause |-> pause, fresh |-> TRUE]
Owned == state.fresh /\ state.owned

\* LOCK_EX | LOCK_NB of stop.
Unchecked == TRUE
NobodyInfers == locking = {}

----------------------------------------------------------------------------
Init ==
  /\ spc = "tick" /\ child = "none" /\ backoff = FALSE
  /\ external \in BOOLEAN /\ valid = TRUE
  /\ state = [owned |-> FALSE, pause |-> FALSE, fresh |-> FALSE]
  /\ demand = "none"
  /\ locking = {} /\ inferring = {}
  /\ wpc = "idle" /\ cur = NoJob /\ noted = FALSE
  /\ status = [j \in MediaJobs |-> "queued"]
  /\ downs = 0 /\ changes = 0

----------------------------------------------------------------------------
(* tick, up to the point where it acts on what it read.  A child that died *)
(* is reaped first, and delays the next start.                             *)

Reaped == IF child = "dead" THEN "none" ELSE child
Reap == /\ child' = Reaped
        /\ backoff' = (backoff \/ child = "dead")

TickDisabled ==
  /\ spc = "tick" /\ ~valid
  /\ Reap
  /\ IF Reaped = "none" THEN Published(FALSE, FALSE) /\ UNCHANGED spc
                        ELSE Published(TRUE, TRUE) /\ spc' = "disable"

TickExternal ==
  /\ spc = "tick" /\ valid
  /\ Reaped = "none" /\ external
  /\ Reap
  /\ Published(FALSE, FALSE)
  /\ UNCHANGED spc

\* The model runs: drain it, give up on one that does not answer (any time
\* after STARTUP_SECONDS), or report it.
TickRunning ==
  /\ spc = "tick" /\ valid /\ child \in Alive
  /\ UNCHANGED <<child, backoff>>
  /\ \E tight, answers, overdue \in BOOLEAN :
       /\ answers => child = "ready"
       /\ IF ShouldUnload(tight) THEN Published(TRUE, TRUE) /\ spc' = "drain"
          ELSE IF overdue /\ ~answers THEN spc' = "expire" /\ UNCHANGED state
          ELSE Published(TRUE, ~answers) /\ UNCHANGED spc

TickAbsent ==
  /\ spc = "tick" /\ valid /\ Reaped = "none" /\ ~external
  /\ Reap
  /\ \E tight \in BOOLEAN :
       \/ ShouldLoad(tight) /\ ~backoff' /\ spc' = "start" /\ UNCHANGED state
       \/ ~(ShouldLoad(tight) /\ ~backoff') /\ Published(FALSE, TRUE) /\ UNCHANGED spc

\* An exception anywhere in tick.
TickError == /\ spc = "tick"
             /\ Published(child \in Alive, TRUE)
             /\ UNCHANGED <<spc, child, backoff>>

Elsewhere == UNCHANGED <<setting, demand, extraction, media, downs>>
HealthyTick == (TickDisabled \/ TickExternal \/ TickRunning \/ TickAbsent) /\ Elsewhere
Tick == HealthyTick \/ (TickError /\ Elsewhere)

\* start looks at the port once more.
Start == /\ spc = "start"
         /\ spc' = "tick"
         /\ IF external THEN Published(FALSE, TRUE) /\ UNCHANGED child
                        ELSE Published(TRUE, TRUE) /\ child' = "loading"
         /\ UNCHANGED <<backoff, setting, demand, extraction, media, downs>>

----------------------------------------------------------------------------
(* stop, from the four places that call it *)

Stages == {"drain", "disable", "expire", "exit"}

\* Under the exclusive lock the child is terminated and waited for.
Stop == /\ NobodyInfers \/ child = "none"
        /\ \/ spc = "drain" /\ spc' = "drained"
           \/ spc = "disable" /\ spc' = "disabled"
           \/ spc = "expire" /\ spc' = "expired"
           \/ spc = "exit" /\ spc' = "exited"
        /\ backoff' = (backoff \/ child # "none")
        /\ child' = "none"
        /\ UNCHANGED <<state, setting, demand, extraction, media, downs>>

\* An extraction holds the lock: the tick ends, and only exit tries on.
StopLater ==
  /\ locking # {}
  /\ spc' = "tick"
  /\ \/ spc = "drain" /\ Published(child \in Alive, TRUE)
     \/ spc = "disable" /\ UNCHANGED state
     \/ spc = "expire" /\ \E answers \in BOOLEAN :
                             /\ answers => child = "ready"
                             /\ Published(child \in Alive, ~answers)
  /\ UNCHANGED <<child, backoff, setting, demand, extraction, media, downs>>

\* The result of stop is published after the lock was released.
PublishStopped ==
  /\ \/ spc \in {"drained", "expired"} /\ Published(FALSE, TRUE) /\ spc' = "tick"
     \/ spc = "disabled" /\ Published(FALSE, FALSE) /\ spc' = "tick"
     \/ spc = "exited" /\ Published(FALSE, FALSE) /\ spc' = "down"
  /\ UNCHANGED <<child, backoff, setting, demand, extraction, media, downs>>

----------------------------------------------------------------------------
(* Life of the processes *)

\* SIGTERM is looked at between two ticks.
Exit == /\ spc = "tick"
        /\ downs < MaxDowns
        /\ downs' = downs + 1
        /\ spc' = "exit"
        /\ UNCHANGED <<child, backoff, state, setting, demand, extraction, media>>

\* The child has a session of its own and outlives a supervisor that is killed;
\* to the next one it is a process it does not own.
Crash == /\ spc # "down"
         /\ downs < MaxDowns
         /\ downs' = downs + 1
         /\ spc' = "down"
         /\ external' = (external \/ child \in Alive)
         /\ child' = "none"
         /\ UNCHANGED <<backoff, state, valid, changes, demand, extraction, media>>

Relaunch == /\ spc = "down"
            /\ spc' = "tick"
            /\ backoff' = FALSE
            /\ UNCHANGED <<child, state, setting, demand, extraction, media, downs>>

HeartbeatExpires == /\ spc = "down" /\ state.fresh
                    /\ state' = [state EXCEPT !.fresh = FALSE]
                    /\ UNCHANGED <<spc, child, backoff, setting, demand, extraction, media, downs>>

Loaded == /\ child = "loading"
          /\ child' = "ready"
          /\ UNCHANGED <<spc, backoff, state, setting, demand, extraction, media, downs>>

BackoffEnds == /\ backoff
               /\ backoff' = FALSE
               /\ UNCHANGED <<spc, child, state, setting, demand, extraction, media, downs>>

\* The child dies; a server is started or stopped by hand; the user turns the
\* dedicated model off, or on, which is accepted when it is being served.
Change ==
  /\ changes < MaxChanges
  /\ changes' = changes + 1
  /\ \/ child \in Alive /\ child' = "dead" /\ UNCHANGED <<external, valid>>
     \/ child = "none" /\ external' = ~external /\ UNCHANGED <<child, valid>>
     \/ valid /\ valid' = FALSE /\ UNCHANGED <<child, external>>
     \/ ~valid /\ (child = "ready" \/ external) /\ valid' = TRUE
        /\ UNCHANGED <<child, external>>
  /\ UNCHANGED <<spc, backoff, state, demand, extraction, media, downs>>

----------------------------------------------------------------------------
(* Extractions: inference_lease *)

TakeLock(e) == /\ e \notin locking
               /\ valid
               /\ locking' = locking \cup {e}
               /\ UNCHANGED <<supervisor, setting, demand, inferring, media, downs>>

\* With the lock in hand the lease is refused while the state file is fresh and
\* asks for a pause, or media asks for the memory.
DeferOnPauseOnly == state.fresh /\ state.pause
Deferred == state.fresh /\ (state.pause \/ demand # "none")

\* The lock is held throughout the request.
HoldWhileChecking(e) == locking' = locking \ {e}
Hold(e) == UNCHANGED locking

BeginInference(e) == /\ e \in locking \ inferring
                     /\ ~Deferred
                     /\ inferring' = inferring \cup {e}
                     /\ Hold(e)
                     /\ UNCHANGED <<supervisor, setting, demand, media, downs>>

Defer(e) == /\ e \in locking \ inferring
            /\ Deferred
            /\ locking' = locking \ {e}
            /\ UNCHANGED <<supervisor, setting, demand, inferring, media, downs>>

EndInference(e) == /\ e \in inferring
                   /\ inferring' = inferring \ {e}
                   /\ locking' = locking \ {e}
                   /\ UNCHANGED <<supervisor, setting, demand, media, downs>>

----------------------------------------------------------------------------
(* The media worker: prepare_media_dispatch and the job it dispatches *)

BeginDispatch(j) == /\ wpc = "idle" /\ status[j] = "queued"
                    /\ status' = [status EXCEPT ![j] = "dispatching"]
                    /\ wpc' = "prepare" /\ cur' = j /\ noted' = FALSE
                    /\ UNCHANGED <<supervisor, setting, demand, extraction, downs>>

\* No release is needed: the supervisor does not report a model of its own, or
\* the job may share the memory.
Pass == /\ wpc = "prepare"
        /\ ~Owned \/ cur \notin Exclusive
        /\ wpc' = "post"
        /\ UNCHANGED <<cur, noted, status, supervisor, setting, demand, extraction, downs>>

NoteDemand == demand' = IF cur \in Exclusive THEN "exclusive" ELSE "shared"
Request == /\ wpc = "prepare"
           /\ Owned
           /\ NoteDemand
           /\ noted' = TRUE
           /\ wpc' = "wait"
           /\ UNCHANGED <<cur, status, supervisor, setting, extraction, downs>>

ReleasedAtDraining == ~Owned \/ state.pause
Released == ~Owned
Granted == /\ wpc = "wait" /\ Released
           /\ wpc' = "post"
           /\ UNCHANGED <<cur, noted, status, supervisor, setting, demand, extraction, downs>>

\* The deadline passes, perhaps just after the last look at the state file: the
\* job goes back to the queue.
TimedOut == /\ wpc = "wait"
            /\ wpc' = "idle" /\ cur' = NoJob
            /\ status' = [status EXCEPT ![cur] = "queued"]
            /\ UNCHANGED <<noted, supervisor, setting, demand, extraction, downs>>

Post == /\ wpc = "post"
        /\ wpc' = "follow"
        /\ status' = [status EXCEPT ![cur] = "active"]
        /\ UNCHANGED <<cur, noted, supervisor, setting, demand, extraction, downs>>

JobEnds == /\ wpc = "follow"
           /\ wpc' = "idle" /\ cur' = NoJob
           /\ status' = [status EXCEPT ![cur] = "done"]
           /\ UNCHANGED <<noted, supervisor, setting, demand, extraction, downs>>

DemandExpires == /\ demand # "none"
                 /\ wpc # "wait"
                 /\ demand' = "none"
                 /\ UNCHANGED <<supervisor, setting, extraction, media, downs>>

----------------------------------------------------------------------------
Supervise == Tick \/ Start \/ Stop \/ StopLater \/ PublishStopped
Dispatch == \/ \E j \in MediaJobs : BeginDispatch(j)
            \/ Pass \/ Request \/ Granted \/ Post \/ JobEnds

Next == \/ Supervise \/ Dispatch \/ TimedOut
        \/ Exit \/ Crash \/ Relaunch \/ HeartbeatExpires
        \/ Loaded \/ BackoffEnds \/ Change \/ DemandExpires
        \/ \E e \in Extractors : \/ TakeLock(e) \/ BeginInference(e)
                              \/ Defer(e) \/ EndInference(e)

Safe == Init /\ [][Next]_vars

\* Both loops run, not every tick raises, launchd restarts the supervisor, every
\* job has its turn, and extractions end, sometimes while a job waits.
Spec == /\ Safe
        /\ WF_vars(Supervise) /\ SF_vars(Stop) /\ SF_vars(HealthyTick) /\ WF_vars(Relaunch)
        /\ WF_vars(Dispatch \/ TimedOut)
        /\ \A j \in MediaJobs : SF_vars(BeginDispatch(j))
        /\ \A e \in Extractors :
             /\ WF_vars(BeginInference(e) \/ Defer(e) \/ EndInference(e))
             /\ \A j \in Exclusive : SF_vars(wpc = "wait" /\ cur = j /\ EndInference(e))

----------------------------------------------------------------------------
(* Properties *)

StateTypes == state \in [owned : BOOLEAN, pause : BOOLEAN, fresh : BOOLEAN]
SupervisorTypes ==
  /\ spc \in {"tick", "start", "down", "drained", "disabled", "expired", "exited"} \cup Stages
  /\ child \in {"none", "dead"} \cup Alive
FlagTypes == backoff \in BOOLEAN /\ external \in BOOLEAN /\ valid \in BOOLEAN /\ noted \in BOOLEAN
MediaTypes == /\ demand \in {"none", "shared", "exclusive"}
              /\ wpc \in {"idle", "prepare", "wait", "post", "follow"}
              /\ cur \in MediaJobs \cup {NoJob}
              /\ wpc = "idle" <=> cur = NoJob
              /\ status \in [MediaJobs -> {"queued", "dispatching", "active", "done"}]
ExtractionTypes == locking \subseteq Extractors /\ inferring \subseteq locking
CountTypes == downs \in 0..MaxDowns /\ changes \in 0..MaxChanges

\* Every variable has its type, the worker has a job exactly when it works, and
\* an extraction holds the lock while its request runs.
TypeOK == /\ StateTypes /\ SupervisorTypes /\ FlagTypes
          /\ MediaTypes /\ ExtractionTypes /\ CountTypes

\* The supervisor never takes the model away from a running extraction, on none
\* of the four paths to a stop; a crash of the supervisor leaves it running too.
NoStopUnderInference ==
  [][inferring # {} /\ child \in Alive => child' # "none" \/ external']_vars

\* An exclusive job that asked for the memory and was let through never shares
\* it with the supervised model, from its dispatch to its end: neither a late
\* start, nor an expired marker, nor a restart of the supervisor brings it back.
AloneOnceReleased ==
  \A j \in Exclusive : status[j] = "active" /\ noted => child \notin Alive

\* An extraction that is let through finds the model that the state file speaks
\* of: every stop is announced before it happens.  Left out are deaths, manual
\* changes, other incarnations of the supervisor, and the one stop that is only
\* announced afterwards, that of a model that stopped answering.
LetThroughToModel ==
  [][inferring' \ inferring # {} /\ state.fresh /\ downs + changes = 0 /\ spc # "expired"
       => child = "ready" \/ external]_vars

\* 20 seconds are enough for a tick and a stop: the wait of an exclusive job is
\* in vain only because of an extraction that still runs.
WaitsSuffice == <>[][TimedOut => (Owned /\ inferring # {}) \/ cur \notin Exclusive]_vars

\* An exclusive job gets through at last: the marker bars new extractions, the
\* running one ends, and the supervisor stops the model.
DispatchedAtLast ==
  WaitsSuffice => \A j \in Exclusive : status[j] = "queued" ~> status[j] = "done"
==========================================================================
