---------------------------- MODULE MediaQueue ----------------------------
(***************************************************************************)
(* The durable media queue of the agent (agent/media_queue.py) and the     *)
(* native jobs that the image and the video service run for it.            *)
(*                                                                         *)
(* One worker thread picks the oldest runnable job, hands it to the native *)
(* service with POST /jobs, follows it with GET and forwards a cancel.     *)
(* Requests of users change the jobs between any two steps of the worker.  *)
(* Every change is saved under the same lock (atomic replace), so a restart*)
(* of the agent finds the jobs as they were and loses only the worker.     *)
(* The services restart too: the image service forgets its jobs, the video *)
(* service finds the running one and marks it failed.                      *)
(***************************************************************************)
EXTENDS Naturals, FiniteSets

CONSTANTS
  NumJobs,      \* jobs 1..NumJobs, in the order of their created_at
  KindOf,       \* the kind of every job
  NumNatives,   \* native job ids, fresh for every accepted POST
  Cancellable,  \* bound: the jobs somebody may cancel
  Delayed,      \* bound: the jobs that a younger job may be stored before
  MaxRetained,  \* MAX_RETAINED_JOBS
  MaxCrashes,   \* bound on restarts of the agent
  MaxOutages    \* bound on restarts of a service and answers that are lost or unreadable

Kinds == {"image", "video"}
Jobs == 1..NumJobs
Natives == 1..NumNatives
NoJob == 0
NoNative == 0

ASSUME SizesAssumption == /\ NumJobs \in Nat /\ NumNatives \in Nat
                          /\ MaxRetained \in Nat \ {0}
                          /\ MaxCrashes \in Nat /\ MaxOutages \in Nat
ASSUME KindsAssumption == KindOf \in [Jobs -> Kinds]

VARIABLES
  status,      \* status of a queue job
  cancelReq,   \* its cancel_requested
  nativeOf,    \* its native_job_id
  backoff,     \* its _retry_after lies in the future
  pc, cur,     \* the worker and the job it works on
  reply,       \* the native id in the answer to its POST
  late,        \* history: older jobs stored since the worker chose cur
  nativeFor,   \* the queue job a native job was created for
  nativeState, \* state of a native job in its service
  up,          \* the service answers
  crashes, outages, lost

jobVars == <<status, cancelReq, nativeOf, backoff>>
worker == <<pc, cur, reply, late>>
natives == <<nativeFor, nativeState>>
counts == <<crashes, outages, lost>>
vars == <<jobVars, worker, natives, up, counts>>

Terminal == {"completed", "failed", "cancelled"}
PendingStatus == {"queued", "dispatching", "active"}
Running == {"active", "cancelling"}
Pending(j) == status[j] \in PendingStatus

----------------------------------------------------------------------------
(* The scheduler's choice *)

Oldest(S) == {j \in S : \A i \in S : j <= i}

InFlightIgnored == {}
InFlight == {j \in Jobs : Pending(j) /\ nativeOf[j] # NoNative}

AnyOfItsKind(j) == TRUE
HeadOfKind(j) == \A i \in Jobs : Pending(i) /\ KindOf[i] = KindOf[j] => j <= i

Runnable == {j \in Jobs : /\ Pending(j)
                          /\ HeadOfKind(j)
                          /\ cancelReq[j] \/ ~backoff[j]}

NextJobs == IF InFlight # {} THEN Oldest(InFlight) ELSE Oldest(Runnable)

Busy(k) == \E n \in Natives : nativeState[n] \in Running /\ KindOf[nativeFor[n]] = k

----------------------------------------------------------------------------
(* Changes of a job *)

\* _update drops a change of status to a job that is terminal or was pruned.
AppliesAlways(j) == status[j] # "pruned"
Applies(j) == Pending(j)
Updated(j, value) == status' = IF Applies(j) THEN [status EXCEPT ![j] = value] ELSE status

Worker(stage) == pc' = stage /\ UNCHANGED <<cur, reply, late>>
Idle == pc' = "select" /\ cur' = NoJob /\ reply' = NoNative /\ late' = {}

\* 409 and 503: back to the queue, with a retry deadline.
Refused == /\ Updated(cur, "queued")
           /\ backoff' = [backoff EXCEPT ![cur] = @ \/ Applies(cur)]
           /\ Idle
           /\ UNCHANGED <<cancelReq, nativeOf>>

Failed == /\ Updated(cur, "failed")
          /\ Idle
          /\ UNCHANGED <<cancelReq, nativeOf, backoff>>

\* An answer that cannot be read is no ServiceError but an exception, which ends
\* in _worker: the job has failed.
Unreadable == /\ outages + lost < MaxOutages
              /\ lost' = lost + 1
              /\ Failed

Init ==
  /\ status = [j \in Jobs |-> "absent"]
  /\ cancelReq = [j \in Jobs |-> FALSE]
  /\ nativeOf = [j \in Jobs |-> NoNative]
  /\ backoff = [j \in Jobs |-> FALSE]
  /\ pc = "select" /\ cur = NoJob /\ reply = NoNative /\ late = {}
  /\ nativeFor = [n \in Natives |-> NoJob]
  /\ nativeState = [n \in Natives |-> "unused"]
  /\ up = [k \in Kinds |-> TRUE]
  /\ crashes = 0 /\ outages = 0 /\ lost = 0

----------------------------------------------------------------------------
(* Requests of users *)

Kept == {j \in Jobs : status[j] \notin {"absent", "pruned"}}
Finished == {j \in Jobs : status[j] \in Terminal}

\* enqueue: at the limit a terminal job makes room (the code takes the one that
\* finished first, here it is any).  created_at is read before the lock, so an
\* older job may be stored after a younger one.
Enqueue(j) ==
  /\ status[j] = "absent"
  /\ \A i \in Jobs \ Delayed : i < j => status[i] # "absent"
  /\ IF Cardinality(Kept) >= MaxRetained /\ Finished # {}
       THEN \E old \in Finished :
              status' = [status EXCEPT ![old] = "pruned", ![j] = "queued"]
       ELSE status' = [status EXCEPT ![j] = "queued"]
  /\ late' = IF j < cur THEN late \cup {j} ELSE late
  /\ UNCHANGED <<cancelReq, nativeOf, backoff, pc, cur, reply, natives, up, counts>>

\* cancel: a job that the queue knows to have no native job ends at once.
Cancel(j) ==
  /\ j \in Cancellable
  /\ Pending(j)
  /\ ~cancelReq[j]
  /\ cancelReq' = [cancelReq EXCEPT ![j] = TRUE]
  /\ status' = IF nativeOf[j] = NoNative THEN [status EXCEPT ![j] = "cancelled"]
                                         ELSE status
  /\ UNCHANGED <<nativeOf, backoff, worker, natives, up, counts>>

----------------------------------------------------------------------------
(* The worker: _next_job_id and _dispatch_and_poll *)

Select == /\ pc = "select"
          /\ \E j \in NextJobs : cur' = j
          /\ pc' = "look" /\ late' = {}
          /\ UNCHANGED <<reply, jobVars, natives, up, counts>>

\* The copy of the job that one round of the loop decides on.
Look == /\ pc = "look"
        /\ IF Pending(cur) /\ cancelReq[cur] /\ nativeOf[cur] = NoNative
             THEN Updated(cur, "cancelled") ELSE UNCHANGED status
        /\ CASE ~Pending(cur) -> Idle
             [] Pending(cur) /\ nativeOf[cur] = NoNative
                  -> IF cancelReq[cur] THEN Idle ELSE Worker("dispatch")
             [] Pending(cur) /\ nativeOf[cur] # NoNative
                  -> Worker(IF cancelReq[cur] THEN "forward" ELSE "poll")
        /\ UNCHANGED <<cancelReq, nativeOf, backoff, natives, up, counts>>

Dispatch == /\ pc = "dispatch"
            /\ Updated(cur, "dispatching")
            /\ Worker("drain")
            /\ UNCHANGED <<cancelReq, nativeOf, backoff, natives, up, counts>>

\* prepare_media_dispatch: the optional 4B model made room.  A job that was
\* cancelled meanwhile is not posted, unless it has been pruned as well:
\* _cancel_requested knows only jobs that are there.
Prepared == /\ pc = "drain"
            /\ IF cancelReq[cur] /\ status[cur] # "pruned" THEN Idle ELSE Worker("post")
            /\ UNCHANGED <<jobVars, natives, up, counts>>

\* Its inference did not end in time.
NotPrepared == /\ pc = "drain"
               /\ Refused
               /\ UNCHANGED <<natives, up, counts>>

\* POST /jobs is accepted; the answer arrives, is unreadable, or is lost (a
\* timeout, a reset connection), which the queue cannot tell from a service that
\* is down.
PostAccepted ==
  /\ pc = "post"
  /\ up[KindOf[cur]] /\ ~Busy(KindOf[cur])
  /\ \E n \in Natives :
       /\ nativeState[n] = "unused"
       /\ \A m \in Natives : m < n => nativeState[m] # "unused"
       /\ nativeState' = [nativeState EXCEPT ![n] = "active"]
       /\ nativeFor' = [nativeFor EXCEPT ![n] = cur]
       /\ \/ /\ pc' = "record" /\ reply' = n
             /\ UNCHANGED <<cur, late, lost, jobVars>>
          \/ /\ outages + lost < MaxOutages
             /\ lost' = lost + 1
             /\ Refused
          \/ Unreadable
  /\ UNCHANGED <<up, crashes, outages>>

PostRefused == /\ pc = "post"
               /\ ~up[KindOf[cur]] \/ Busy(KindOf[cur])
               /\ Refused
               /\ UNCHANGED <<natives, up, counts>>

\* Any other error, such as a payload the service does not accept.
PostRejected == /\ pc = "post"
                /\ up[KindOf[cur]]
                /\ Failed
                /\ UNCHANGED <<natives, up, counts>>

\* The native id is stored together with its status, in one _update.
Record == /\ pc = "record"
          /\ Updated(cur, "active")
          /\ nativeOf' = IF Applies(cur) THEN [nativeOf EXCEPT ![cur] = reply] ELSE nativeOf
          /\ backoff' = [backoff EXCEPT ![cur] = @ /\ ~Applies(cur)]
          /\ pc' = "look" /\ reply' = NoNative
          /\ UNCHANGED <<cur, late, cancelReq, natives, up, counts>>

\* A service that does not answer is asked again.
RequeueUnanswered == /\ Updated(cur, "queued")
                     /\ nativeOf' = [nativeOf EXCEPT ![cur] = NoNative]
                     /\ Idle
                     /\ UNCHANGED <<cancelReq, backoff>>
Unanswered == Worker("look") /\ UNCHANGED jobVars

\* GET /jobs: mirror the state; a job that the service forgot has failed (the
\* services' GET knows no error but 404).
Poll ==
  /\ pc = "poll"
  /\ LET state == nativeState[nativeOf[cur]]
     IN IF ~up[KindOf[cur]] THEN Unanswered
        ELSE CASE state \in Running -> Worker("look") /\ UNCHANGED jobVars
               [] state \in Terminal -> /\ Updated(cur, state)
                                        /\ Idle
                                        /\ UNCHANGED <<cancelReq, nativeOf, backoff>>
               [] OTHER -> Failed
  /\ UNCHANGED <<natives, up, counts>>

PollUnreadable == /\ pc = "poll"
                  /\ up[KindOf[cur]]
                  /\ nativeState[nativeOf[cur]] # "forgotten"
                  /\ Unreadable
                  /\ UNCHANGED <<natives, up, crashes, outages>>

\* POST /jobs/id/cancel at a service that is down, or for a job that has ended
\* already (409): the worker tries again.
ForwardInVain == /\ pc = "forward"
                 /\ ~up[KindOf[cur]] \/ nativeState[nativeOf[cur]] \in Terminal
                 /\ Worker("look")
                 /\ UNCHANGED <<jobVars, natives, up, counts>>

ForwardUnknownInVain == /\ pc = "forward"
                        /\ up[KindOf[cur]]
                        /\ nativeState[nativeOf[cur]] = "forgotten"
                        /\ Worker("look")
                        /\ UNCHANGED <<jobVars, natives, up, counts>>

\* 404: there is nothing left to cancel.
ForwardUnknown == /\ pc = "forward"
                  /\ up[KindOf[cur]]
                  /\ nativeState[nativeOf[cur]] = "forgotten"
                  /\ Updated(cur, "cancelled")
                  /\ Idle
                  /\ UNCHANGED <<cancelReq, nativeOf, backoff, natives, up, counts>>

CancelAnswers == {"cancelling", "cancelled", "completed"}

\* The service waits a while for its job to end and answers with its state.
ForwardCancel ==
  /\ pc = "forward"
  /\ up[KindOf[cur]]
  /\ nativeState[nativeOf[cur]] \in Running
  /\ Worker("look")
  /\ \E state \in CancelAnswers :
       /\ nativeState' = [nativeState EXCEPT ![nativeOf[cur]] = state]
       /\ IF state \in Terminal THEN Updated(cur, state) ELSE UNCHANGED status
  /\ UNCHANGED <<cancelReq, nativeOf, backoff, nativeFor, up, counts>>

\* The same, but its answer is unreadable.
ForwardUnreadable ==
  /\ pc = "forward"
  /\ up[KindOf[cur]]
  /\ nativeState[nativeOf[cur]] \in Running
  /\ \E state \in CancelAnswers : nativeState' = [nativeState EXCEPT ![nativeOf[cur]] = state]
  /\ Unreadable
  /\ UNCHANGED <<nativeFor, up, crashes, outages>>

BackoffEnds(j) == /\ backoff[j] /\ Pending(j)
                  /\ backoff' = [backoff EXCEPT ![j] = FALSE]
                  /\ UNCHANGED <<status, cancelReq, nativeOf, worker, natives, up, counts>>

----------------------------------------------------------------------------
(* The services, and restarts *)

\* A native job ends; once its cancel event is set an error counts as
\* cancelled.  Other clients of the service may cancel it as well.
NativeEnds(n) ==
  /\ nativeState[n] \in Running
  /\ \E state \in Terminal :
       /\ nativeState[n] = "cancelling" => state # "failed"
       /\ nativeState' = [nativeState EXCEPT ![n] = state]
  /\ UNCHANGED <<jobVars, worker, nativeFor, up, counts>>

\* What a service knows of its jobs when it is started again.
AfterOutage(n) ==
  CASE nativeState[n] = "unused" -> "unused"
    [] nativeState[n] # "unused" /\ KindOf[nativeFor[n]] = "image" -> "forgotten"
    [] OTHER -> IF nativeState[n] \in Running THEN "failed" ELSE nativeState[n]

Outage(k) ==
  /\ outages + lost < MaxOutages
  /\ up[k]
  /\ outages' = outages + 1
  /\ up' = [up EXCEPT ![k] = FALSE]
  /\ nativeState' = [n \in Natives |->
       IF nativeState[n] # "unused" /\ KindOf[nativeFor[n]] = k THEN AfterOutage(n)
                                                                ELSE nativeState[n]]
  /\ UNCHANGED <<jobVars, worker, nativeFor, crashes, lost>>

Restart(k) == /\ ~up[k]
              /\ up' = [up EXCEPT ![k] = TRUE]
              /\ UNCHANGED <<jobVars, worker, natives, counts>>

\* The agent dies and _ensure_loaded_locked reads the jobs again.
RecoveredByPhase(j) == "recovered"
Recovered(j) == "queued"
AgentRestart ==
  /\ crashes < MaxCrashes
  /\ crashes' = crashes + 1
  /\ Idle
  /\ status' = [j \in Jobs |->
       CASE Pending(j) /\ cancelReq[j] -> "cancelled"
         [] status[j] = "dispatching" /\ nativeOf[j] = NoNative /\ ~cancelReq[j] -> Recovered(j)
         [] OTHER -> status[j]]
  /\ UNCHANGED <<cancelReq, nativeOf, backoff, natives, up, outages, lost>>

----------------------------------------------------------------------------
Post == PostAccepted \/ PostRefused \/ PostRejected
Forward == ForwardInVain \/ ForwardUnknown \/ ForwardCancel \/ ForwardUnreadable
Work == \/ Select \/ Look \/ Dispatch \/ Prepared \/ NotPrepared
        \/ Post \/ Record \/ Poll \/ PollUnreadable \/ Forward

AllSettled == /\ \A j \in Jobs : status[j] # "absent" /\ ~Pending(j)
              /\ pc = "select"
              /\ \A n \in Natives : nativeState[n] \notin Running
              /\ UNCHANGED vars

Next == \/ \E j \in Jobs : Enqueue(j) \/ Cancel(j) \/ BackoffEnds(j)
        \/ Work
        \/ \E n \in Natives : NativeEnds(n)
        \/ \E k \in Kinds : Outage(k) \/ Restart(k)
        \/ AgentRestart
        \/ AllSettled

Safe == Init /\ [][Next]_vars

\* The worker runs, deadlines pass, generations end, launchd restarts services,
\* and a job that tries often enough finds the 4B model drained.
Spec == /\ Safe
        /\ WF_vars(Work)
        /\ SF_vars(Prepared)
        /\ \A j \in Jobs : WF_vars(BackoffEnds(j))
        /\ \A n \in Natives : WF_vars(NativeEnds(n))
        /\ \A k \in Kinds : WF_vars(Restart(k))

----------------------------------------------------------------------------
(* Properties *)

\* Every variable has its type.
TypeOK == /\ status \in [Jobs -> {"absent", "pruned"} \cup PendingStatus \cup Terminal]
          /\ cancelReq \in [Jobs -> BOOLEAN]
          /\ nativeOf \in [Jobs -> Natives \cup {NoNative}]
          /\ backoff \in [Jobs -> BOOLEAN]
          /\ pc \in {"select", "look", "dispatch", "drain", "post", "record", "poll", "forward"}
          /\ cur \in Jobs \cup {NoJob}
          /\ pc # "select" => cur \in Jobs
          /\ reply \in Natives \cup {NoNative}
          /\ late \subseteq Jobs
          /\ nativeFor \in [Natives -> Jobs \cup {NoJob}]
          /\ nativeState \in [Natives -> {"unused", "forgotten"} \cup Running \cup Terminal]
          /\ up \in [Kinds -> BOOLEAN]
          /\ crashes \in 0..MaxCrashes
          /\ outages \in Nat /\ lost \in Nat /\ outages + lost <= MaxOutages

\* A job that the user saw end stays as it ended, through answers that were on
\* their way, restarts of the agent and of the services; it may be pruned.
TerminalIsFinal ==
  [][\A j \in Jobs : status[j] \in Terminal => status'[j] \in {status[j], "pruned"}]_vars

\* A job is reported completed only when the native job that was created for it
\* completed, never with the result of an earlier or another job.
CompletedByItsNative ==
  [][\A j \in Jobs : status[j] # "completed" /\ status'[j] = "completed" =>
       \E n \in Natives : /\ nativeOf[j] = n /\ nativeFor[n] = j
                          /\ nativeState'[n] = "completed"]_vars

\* Jobs of one kind are handed over in the order of their created_at, also after
\* refusals, lost answers and restarts; only a job that was stored when the worker
\* had chosen already has to let that one pass.
HandedOverInOrder ==
  [][\A n \in Natives : nativeFor'[n] # nativeFor[n] =>
       \A i \in Jobs : /\ i < nativeFor'[n] /\ KindOf[i] = KindOf[nativeFor'[n]]
                       => ~Pending(i) \/ i \in late]_vars

\* No job is handed over while the queue knows of a native job it still follows,
\* also when the agent was restarted in the middle of it.
FollowsWhatItKnows ==
  [][(\E n \in Natives : nativeFor'[n] # nativeFor[n])
       => \A j \in Jobs : Pending(j) => nativeOf[j] = NoNative]_vars

\* A job is generated twice only when an answer was lost or the agent restarted.
RepeatedOnlyAfterLoss ==
  \A j \in Jobs : Cardinality({n \in Natives : nativeFor[n] = j}) <= 1 + lost + crashes

\* The queue gets through all its jobs again and again, up to one case: the
\* worker forwards the cancel of a native job that has ended already, which the
\* service refuses for ever (media_queue.py:455-466).
CancelTooLate == \E j \in InFlight : cancelReq[j] /\ nativeState[nativeOf[j]] \in Terminal
OnlyLateCancelsBlock ==
  []<>((\A j \in Jobs : ~Pending(j)) \/ CancelTooLate)

\* Doc claim (docs/PERFORMANCE_OBSERVATORY.md): one heavy native generation at a
\* time, since the worker follows a dispatched job until it finishes.
OneNativeAtATime ==
  \A m, n \in Natives : nativeState[m] \in Running /\ nativeState[n] \in Running => m = n
==========================================================================
