------------------------- MODULE MediaQueueProofs -------------------------
(***************************************************************************)
(* Proofs about MediaQueue for any number of jobs, native jobs, restarts   *)
(* and lost answers.  That a job is handed over in its turn and only when  *)
(* no other one is followed depends on what the scheduler saw several      *)
(* steps earlier: the invariant says that no request, answer or restart in *)
(* between can make that choice stale.                                     *)
(***************************************************************************)
EXTENDS MediaQueue, FiniteSetTheorems, TLAPS

----------------------------------------------------------------------------
(* The inductive invariant *)

\* A job that was not enqueued has no native job.
Enqueued == \A j \in Jobs : status[j] = "absent" => nativeOf[j] = NoNative

\* The worker is on its way to POST /jobs.
HandingOver == \/ pc \in {"dispatch", "drain", "post"}
               \/ pc = "look" /\ nativeOf[cur] = NoNative /\ Pending(cur)

\* It then follows no native job, and it has the oldest job of its kind among
\* those that were there when it chose.
WorkerAlone == /\ HandingOver \/ pc = "record" => InFlight = {}
               /\ pc = "look" /\ nativeOf[cur] = NoNative => InFlight = {}
WorkerInOrder ==
  HandingOver => \A i \in Jobs : i < cur /\ KindOf[i] = KindOf[cur] => ~Pending(i) \/ i \in late

\* What the worker holds was enqueued; what it follows has a native job.
WorkerKnows == /\ pc # "select" => status[cur] # "absent"
               /\ pc \in {"poll", "forward"} => nativeOf[cur] # NoNative

\* Native ids point back at the job they were created for.
Owns(j, n) == n \in Natives /\ nativeFor[n] = j /\ nativeState[n] # "unused"
NativesOwned == /\ \A j \in Jobs : nativeOf[j] # NoNative => Owns(j, nativeOf[j])
                /\ pc = "record" => Owns(cur, reply)

QueueInv == /\ TypeOK
            /\ Enqueued
            /\ WorkerAlone
            /\ WorkerInOrder
            /\ WorkerKnows
            /\ NativesOwned

\* What the scheduler may choose: a pending job, and one without a native job only
\* if it is the oldest of its kind and no native job is followed.
LEMMA NextJobsFacts ==
  \A j \in NextJobs : /\ j \in Jobs /\ Pending(j)
                      /\ nativeOf[j] = NoNative => InFlight = {} /\ HeadOfKind(j)
  BY DEF NextJobs, Runnable, InFlight, Oldest

\* Every step preserves the types.
LEMMA TypeStep == QueueInv /\ [Next]_vars => TypeOK'
<1> SUFFICES ASSUME QueueInv, [Next]_vars PROVE TypeOK'
  OBVIOUS
<1> USE SizesAssumption, KindsAssumption DEF QueueInv, TypeOK, Jobs, Natives, Kinds, NoJob, NoNative, Pending, PendingStatus, Terminal, Running, jobVars, worker, natives, counts
<1>1. ASSUME NEW j \in Jobs, Enqueue(j) PROVE TypeOK'
  BY <1>1 DEF Enqueue
<1>2. ASSUME NEW j \in Jobs, Cancel(j) PROVE TypeOK'
  BY <1>2 DEF Cancel
<1>3. ASSUME NEW j \in Jobs, BackoffEnds(j) PROVE TypeOK'
  BY <1>3 DEF BackoffEnds
<1>4. ASSUME Select PROVE TypeOK'
  BY <1>4, NextJobsFacts DEF Select
<1>5. ASSUME Look PROVE TypeOK'
  BY <1>5 DEF Look, Updated, Worker, Idle, Applies
<1>6. ASSUME Dispatch PROVE TypeOK'
  BY <1>6 DEF Dispatch, Updated, Worker, Applies
<1>7. ASSUME Prepared PROVE TypeOK'
  BY <1>7 DEF Prepared, Worker, Idle
<1>8. ASSUME NotPrepared PROVE TypeOK'
  BY <1>8 DEF NotPrepared, Refused, Updated, Idle, Applies
<1>9. ASSUME PostAccepted PROVE TypeOK'
  <2> PICK n \in Natives : /\ nativeState' = [nativeState EXCEPT ![n] = "active"]
                          /\ nativeFor' = [nativeFor EXCEPT ![n] = cur]
                          /\ \/ /\ pc' = "record" /\ reply' = n
                                /\ UNCHANGED <<cur, late, lost, jobVars>>
                             \/ /\ outages + lost < MaxOutages
                                /\ lost' = lost + 1
                                /\ Refused
                             \/ Unreadable
    BY <1>9 DEF PostAccepted
  <2>1. /\ nativeState' \in [Natives -> {"unused", "forgotten"} \cup Running \cup Terminal]
        /\ nativeFor' \in [Natives -> Jobs \cup {NoJob}]
    BY <1>9 DEF PostAccepted
  <2>2. /\ status' \in [Jobs -> {"absent", "pruned"} \cup PendingStatus \cup Terminal]
        /\ backoff' \in [Jobs -> BOOLEAN]
    BY DEF Refused, Unreadable, Failed, Updated
  <2>3. /\ pc' \in {"record", "select"} /\ cur' \in Jobs \cup {NoJob} /\ late' \subseteq Jobs
        /\ pc' # "select" => cur' \in Jobs
        /\ reply' \in Natives \cup {NoNative}
    BY <1>9 DEF PostAccepted, Refused, Unreadable, Failed, Idle
  <2>4. lost' \in Nat /\ outages + lost' <= MaxOutages
    BY DEF Unreadable
  <2>5. UNCHANGED <<up, crashes, outages, cancelReq, nativeOf>>
    BY <1>9 DEF PostAccepted, Refused, Unreadable, Failed
  <2> QED
    BY <2>1, <2>2, <2>3, <2>4, <2>5
<1>10. ASSUME PostRefused PROVE TypeOK'
  BY <1>10 DEF PostRefused, Refused, Updated, Idle, Applies
<1>11. ASSUME PostRejected PROVE TypeOK'
  BY <1>11 DEF PostRejected, Failed, Updated, Idle, Applies
<1>12. ASSUME Record PROVE TypeOK'
  BY <1>12 DEF Record, Updated, Applies
<1>13. ASSUME Poll PROVE TypeOK'
  BY ZenonT(40), <1>13 DEF Poll, Unanswered, Failed, Updated, Worker, Idle, Applies
<1>14. ASSUME ForwardInVain PROVE TypeOK'
  BY <1>14 DEF ForwardInVain, Worker
<1>15. ASSUME ForwardUnknown PROVE TypeOK'
  BY <1>15 DEF ForwardUnknown, Updated, Idle, Applies
<1>16. ASSUME ForwardCancel PROVE TypeOK'
  <2> PICK state \in CancelAnswers :
           /\ nativeState' = [nativeState EXCEPT ![nativeOf[cur]] = state]
           /\ IF state \in Terminal THEN Updated(cur, state) ELSE UNCHANGED status
    BY <1>16 DEF ForwardCancel
  <2>1. nativeState' \in [Natives -> {"unused", "forgotten"} \cup Running \cup Terminal]
    BY DEF CancelAnswers
  <2>2. status' \in [Jobs -> {"absent", "pruned"} \cup PendingStatus \cup Terminal]
    BY DEF Updated
  <2> QED
    BY <1>16, <2>1, <2>2 DEF ForwardCancel, Worker
<1>17. ASSUME NEW n \in Natives, NativeEnds(n) PROVE TypeOK'
  BY <1>17 DEF NativeEnds
<1>18. ASSUME NEW k \in Kinds, Outage(k) PROVE TypeOK'
  <2>1. nativeState' \in [Natives -> {"unused", "forgotten"} \cup Running \cup Terminal]
    BY <1>18 DEF Outage, AfterOutage
  <2>2. outages' \in Nat /\ outages' + lost' <= MaxOutages
    BY <1>18 DEF Outage
  <2> QED
    BY <1>18, <2>1, <2>2 DEF Outage
<1>19. ASSUME NEW k \in Kinds, Restart(k) PROVE TypeOK'
  BY <1>19 DEF Restart
<1>20. ASSUME AgentRestart PROVE TypeOK'
  BY SMTT(30), <1>20 DEF AgentRestart, Recovered, Idle
<1>21. ASSUME UNCHANGED vars PROVE TypeOK'
  BY <1>21 DEF vars, jobVars, worker, natives, counts
<1>22. ASSUME PollUnreadable PROVE TypeOK'
  BY <1>22 DEF PollUnreadable, Unreadable, Failed, Updated, Idle, Applies
<1>23. ASSUME ForwardUnreadable PROVE TypeOK'
  <2> PICK state \in CancelAnswers : nativeState' = [nativeState EXCEPT ![nativeOf[cur]] = state]
    BY <1>23 DEF ForwardUnreadable
  <2>1. nativeState' \in [Natives -> {"unused", "forgotten"} \cup Running \cup Terminal]
    BY DEF CancelAnswers
  <2>2. status' \in [Jobs -> {"absent", "pruned"} \cup PendingStatus \cup Terminal]
    BY <1>23 DEF ForwardUnreadable, Unreadable, Failed, Updated
  <2>3. lost' \in Nat /\ outages + lost' <= MaxOutages
    BY <1>23 DEF ForwardUnreadable, Unreadable
  <2>4. pc' = "select" /\ cur' = NoJob /\ reply' = NoNative /\ late' = {}
    BY <1>23 DEF ForwardUnreadable, Unreadable, Failed, Idle
  <2>5. UNCHANGED <<cancelReq, nativeOf, backoff, nativeFor, up, crashes, outages>>
    BY <1>23 DEF ForwardUnreadable, Unreadable, Failed
  <2> QED
    BY <2>1, <2>2, <2>3, <2>4, <2>5
<1> QED
  BY <1>1, <1>2, <1>3, <1>4, <1>5, <1>6, <1>7, <1>8, <1>9, <1>10, <1>11, <1>12, <1>13, <1>14, <1>15, <1>16, <1>17, <1>18, <1>19, <1>20, <1>21, <1>22, <1>23
     DEF Next, Work, Post, Forward, AllSettled

\* Native ids are given to jobs that were enqueued.
LEMMA EnqueuedStep == QueueInv /\ [Next]_vars => Enqueued'
<1> SUFFICES ASSUME QueueInv, [Next]_vars PROVE Enqueued'
  OBVIOUS
<1> USE SizesAssumption DEF QueueInv, TypeOK, Enqueued, WorkerKnows, Jobs, Natives, Kinds, NoJob, NoNative, Pending, PendingStatus, Terminal, Running, jobVars, worker, natives, counts
<1>1. ASSUME NEW j \in Jobs, Enqueue(j) PROVE Enqueued'
  <2>1. \A i \in Jobs : status'[i] = "absent" <=> status[i] = "absent" /\ i # j
    BY <1>1 DEF Enqueue, Finished
  <2>2. UNCHANGED nativeOf
    BY <1>1 DEF Enqueue
  <2> QED
    BY <2>1, <2>2
<1>2. ASSUME NEW j \in Jobs, Cancel(j) PROVE Enqueued'
  BY <1>2 DEF Cancel
<1>3. ASSUME NEW j \in Jobs, BackoffEnds(j) PROVE Enqueued'
  BY <1>3 DEF BackoffEnds
<1>4. ASSUME Select PROVE Enqueued'
  BY <1>4, NextJobsFacts DEF Select
<1>5. ASSUME Look PROVE Enqueued'
  BY SMTT(30), <1>5 DEF Look, Updated, Worker, Idle, Applies
<1>6. ASSUME Dispatch PROVE Enqueued'
  BY <1>6 DEF Dispatch, Updated, Worker, Applies
<1>7. ASSUME Prepared PROVE Enqueued'
  BY <1>7 DEF Prepared, Worker, Idle
<1>8. ASSUME NotPrepared PROVE Enqueued'
  BY <1>8 DEF NotPrepared, Refused, Updated, Idle, Applies
<1>9. ASSUME PostAccepted PROVE Enqueued'
  BY <1>9 DEF PostAccepted, Refused, Unreadable, Failed, Updated, Idle, Applies
<1>10. ASSUME PostRefused PROVE Enqueued'
  BY <1>10 DEF PostRefused, Refused, Updated, Idle, Applies
<1>11. ASSUME PostRejected PROVE Enqueued'
  BY <1>11 DEF PostRejected, Failed, Updated, Idle, Applies
<1>12. ASSUME Record PROVE Enqueued'
  BY <1>12 DEF Record, Updated, Applies
<1>13. ASSUME Poll PROVE Enqueued'
  BY SMTT(30), <1>13 DEF Poll, Unanswered, Failed, Updated, Worker, Idle, Applies
<1>14. ASSUME ForwardInVain PROVE Enqueued'
  BY <1>14 DEF ForwardInVain, Worker
<1>15. ASSUME ForwardUnknown PROVE Enqueued'
  BY <1>15 DEF ForwardUnknown, Updated, Idle, Applies
<1>16. ASSUME ForwardCancel PROVE Enqueued'
  BY <1>16 DEF ForwardCancel, CancelAnswers, Updated, Worker, Applies
<1>17. ASSUME NEW n \in Natives, NativeEnds(n) PROVE Enqueued'
  BY <1>17 DEF NativeEnds
<1>18. ASSUME NEW k \in Kinds, Outage(k) PROVE Enqueued'
  BY <1>18 DEF Outage, AfterOutage
<1>19. ASSUME NEW k \in Kinds, Restart(k) PROVE Enqueued'
  BY <1>19 DEF Restart
<1>20. ASSUME AgentRestart PROVE Enqueued'
  BY <1>20 DEF AgentRestart, Recovered, Idle
<1>21. ASSUME UNCHANGED vars PROVE Enqueued'
  BY <1>21 DEF vars, jobVars, worker, natives, counts
<1>22. ASSUME PollUnreadable PROVE Enqueued'
  BY <1>22 DEF PollUnreadable, Unreadable, Failed, Updated, Idle, Applies
<1>23. ASSUME ForwardUnreadable PROVE Enqueued'
  BY <1>23 DEF ForwardUnreadable, Unreadable, CancelAnswers, Failed, Updated, Idle, Applies
<1> QED
  BY <1>1, <1>2, <1>3, <1>4, <1>5, <1>6, <1>7, <1>8, <1>9, <1>10, <1>11, <1>12, <1>13, <1>14, <1>15, <1>16, <1>17, <1>18, <1>19, <1>20, <1>21, <1>22, <1>23
     DEF Next, Work, Post, Forward, AllSettled

\* The worker stays alone with the job it hands over.
LEMMA AloneStep == QueueInv /\ [Next]_vars => WorkerAlone'
<1> SUFFICES ASSUME QueueInv, [Next]_vars PROVE WorkerAlone'
  OBVIOUS
<1> USE SizesAssumption DEF QueueInv, TypeOK, Enqueued, WorkerAlone, WorkerKnows, HandingOver, InFlight, Jobs, Natives, Kinds, NoJob, NoNative, Pending, PendingStatus, Terminal, Running, jobVars, worker, natives, counts
<1>1. ASSUME NEW j \in Jobs, Enqueue(j) PROVE WorkerAlone'
  BY SMTT(30), <1>1 DEF Enqueue
<1>2. ASSUME NEW j \in Jobs, Cancel(j) PROVE WorkerAlone'
  BY <1>2 DEF Cancel
<1>3. ASSUME NEW j \in Jobs, BackoffEnds(j) PROVE WorkerAlone'
  BY <1>3 DEF BackoffEnds
<1>4. ASSUME Select PROVE WorkerAlone'
  BY <1>4, NextJobsFacts DEF Select
<1>5. ASSUME Look PROVE WorkerAlone'
  BY <1>5 DEF Look, Updated, Worker, Idle, Applies
<1>6. ASSUME Dispatch PROVE WorkerAlone'
  BY <1>6 DEF Dispatch, Updated, Worker, Applies
<1>7. ASSUME Prepared PROVE WorkerAlone'
  BY <1>7 DEF Prepared, Worker, Idle
<1>8. ASSUME NotPrepared PROVE WorkerAlone'
  BY <1>8 DEF NotPrepared, Refused, Updated, Idle, Applies
<1>9. ASSUME PostAccepted PROVE WorkerAlone'
  BY <1>9 DEF PostAccepted, Refused, Unreadable, Failed, Updated, Idle, Applies
<1>10. ASSUME PostRefused PROVE WorkerAlone'
  BY <1>10 DEF PostRefused, Refused, Updated, Idle, Applies
<1>11. ASSUME PostRejected PROVE WorkerAlone'
  BY <1>11 DEF PostRejected, Failed, Updated, Idle, Applies
<1>12. ASSUME Record PROVE WorkerAlone'
  BY <1>12 DEF Record, Updated, Applies
<1>13. ASSUME Poll PROVE WorkerAlone'
  BY <1>13 DEF Poll, Unanswered, Failed, Updated, Worker, Idle, Applies
<1>14. ASSUME ForwardInVain PROVE WorkerAlone'
  BY <1>14 DEF ForwardInVain, Worker
<1>15. ASSUME ForwardUnknown PROVE WorkerAlone'
  BY <1>15 DEF ForwardUnknown, Updated, Idle, Applies
<1>16. ASSUME ForwardCancel PROVE WorkerAlone'
  BY <1>16 DEF ForwardCancel, CancelAnswers, Updated, Worker, Applies
<1>17. ASSUME NEW n \in Natives, NativeEnds(n) PROVE WorkerAlone'
  BY <1>17 DEF NativeEnds
<1>18. ASSUME NEW k \in Kinds, Outage(k) PROVE WorkerAlone'
  BY <1>18 DEF Outage, AfterOutage
<1>19. ASSUME NEW k \in Kinds, Restart(k) PROVE WorkerAlone'
  BY <1>19 DEF Restart
<1>20. ASSUME AgentRestart PROVE WorkerAlone'
  BY <1>20 DEF AgentRestart, Recovered, Idle
<1>21. ASSUME UNCHANGED vars PROVE WorkerAlone'
  BY <1>21 DEF vars, jobVars, worker, natives, counts
<1>22. ASSUME PollUnreadable PROVE WorkerAlone'
  BY <1>22 DEF PollUnreadable, Unreadable, Failed, Updated, Idle, Applies
<1>23. ASSUME ForwardUnreadable PROVE WorkerAlone'
  BY <1>23 DEF ForwardUnreadable, Unreadable, CancelAnswers, Failed, Updated, Idle, Applies
<1> QED
  BY <1>1, <1>2, <1>3, <1>4, <1>5, <1>6, <1>7, <1>8, <1>9, <1>10, <1>11, <1>12, <1>13, <1>14, <1>15, <1>16, <1>17, <1>18, <1>19, <1>20, <1>21, <1>22, <1>23
     DEF Next, Work, Post, Forward, AllSettled

\* No older job of its kind joins the one that is handed over.
LEMMA OrderStep == QueueInv /\ [Next]_vars => WorkerInOrder'
<1> SUFFICES ASSUME QueueInv, [Next]_vars PROVE WorkerInOrder'
  OBVIOUS
<1> USE SizesAssumption DEF QueueInv, TypeOK, Enqueued, WorkerInOrder, WorkerKnows, HandingOver, NativesOwned, Owns, Jobs, Natives, Kinds, NoJob, NoNative, Pending, PendingStatus, Terminal, Running, jobVars, worker, natives, counts
<1>1. ASSUME NEW j \in Jobs, Enqueue(j) PROVE WorkerInOrder'
  <2>1. \A i \in Jobs : Pending(i)' => Pending(i) \/ i = j
    BY <1>1 DEF Enqueue, Finished
  <2>2. UNCHANGED <<pc, cur, nativeOf>> /\ late' = IF j < cur THEN late \cup {j} ELSE late
    BY <1>1 DEF Enqueue
  <2>3. HandingOver' => HandingOver
    BY <1>1, <2>2 DEF Enqueue, Finished
  <2> QED
    BY <2>1, <2>2, <2>3
<1>2. ASSUME NEW j \in Jobs, Cancel(j) PROVE WorkerInOrder'
  BY <1>2 DEF Cancel
<1>3. ASSUME NEW j \in Jobs, BackoffEnds(j) PROVE WorkerInOrder'
  BY <1>3 DEF BackoffEnds
<1>4. ASSUME Select PROVE WorkerInOrder'
  <2>1. cur' \in NextJobs /\ pc' = "look" /\ UNCHANGED <<status, nativeOf>>
    BY <1>4 DEF Select
  <2>2. cur' \in Jobs /\ (nativeOf[cur'] = NoNative => HeadOfKind(cur'))
    BY <2>1, NextJobsFacts
  <2>3. HeadOfKind(cur') => \A i \in Jobs : i < cur' /\ KindOf[i] = KindOf[cur'] => ~Pending(i)
    BY <2>2 DEF HeadOfKind
  <2> QED
    BY <2>1, <2>2, <2>3
<1>5. ASSUME Look PROVE WorkerInOrder'
  <2>1. CASE Pending(cur) /\ nativeOf[cur] = NoNative /\ ~cancelReq[cur]
    BY <1>5, <2>1 DEF Look, Worker
  <2>2. CASE ~(Pending(cur) /\ nativeOf[cur] = NoNative /\ ~cancelReq[cur])
    <3>1. pc' \in {"select", "forward", "poll"}
      BY <1>5, <2>2 DEF Look, Worker, Idle
    <3> QED
      BY <3>1
  <2> QED
    BY <2>1, <2>2
<1>6. ASSUME Dispatch PROVE WorkerInOrder'
  BY <1>6 DEF Dispatch, Updated, Worker, Applies
<1>7. ASSUME Prepared PROVE WorkerInOrder'
  BY <1>7 DEF Prepared, Worker, Idle
<1>8. ASSUME NotPrepared PROVE WorkerInOrder'
  BY <1>8 DEF NotPrepared, Refused, Updated, Idle, Applies
<1>9. ASSUME PostAccepted PROVE WorkerInOrder'
  BY <1>9 DEF PostAccepted, Refused, Unreadable, Failed, Updated, Idle, Applies
<1>10. ASSUME PostRefused PROVE WorkerInOrder'
  BY <1>10 DEF PostRefused, Refused, Updated, Idle, Applies
<1>11. ASSUME PostRejected PROVE WorkerInOrder'
  BY <1>11 DEF PostRejected, Failed, Updated, Idle, Applies
<1>12. ASSUME Record PROVE WorkerInOrder'
  BY <1>12 DEF Record, Updated, Applies
<1>13. ASSUME Poll PROVE WorkerInOrder'
  BY <1>13 DEF Poll, Unanswered, Failed, Updated, Worker, Idle, Applies
<1>14. ASSUME ForwardInVain PROVE WorkerInOrder'
  BY <1>14 DEF ForwardInVain, Worker
<1>15. ASSUME ForwardUnknown PROVE WorkerInOrder'
  BY <1>15 DEF ForwardUnknown, Updated, Idle, Applies
<1>16. ASSUME ForwardCancel PROVE WorkerInOrder'
  BY <1>16 DEF ForwardCancel, CancelAnswers, Updated, Worker, Applies
<1>17. ASSUME NEW n \in Natives, NativeEnds(n) PROVE WorkerInOrder'
  BY <1>17 DEF NativeEnds
<1>18. ASSUME NEW k \in Kinds, Outage(k) PROVE WorkerInOrder'
  BY <1>18 DEF Outage, AfterOutage
<1>19. ASSUME NEW k \in Kinds, Restart(k) PROVE WorkerInOrder'
  BY <1>19 DEF Restart
<1>20. ASSUME AgentRestart PROVE WorkerInOrder'
  BY <1>20 DEF AgentRestart, Recovered, Idle
<1>21. ASSUME UNCHANGED vars PROVE WorkerInOrder'
  BY <1>21 DEF vars, jobVars, worker, natives, counts
<1>22. ASSUME PollUnreadable PROVE WorkerInOrder'
  BY <1>22 DEF PollUnreadable, Unreadable, Failed, Updated, Idle, Applies
<1>23. ASSUME ForwardUnreadable PROVE WorkerInOrder'
  BY <1>23 DEF ForwardUnreadable, Unreadable, CancelAnswers, Failed, Updated, Idle, Applies
<1> QED
  BY <1>1, <1>2, <1>3, <1>4, <1>5, <1>6, <1>7, <1>8, <1>9, <1>10, <1>11, <1>12, <1>13, <1>14, <1>15, <1>16, <1>17, <1>18, <1>19, <1>20, <1>21, <1>22, <1>23
     DEF Next, Work, Post, Forward, AllSettled

\* The worker holds on to jobs that exist.
LEMMA KnowsStep == QueueInv /\ [Next]_vars => WorkerKnows'
<1> SUFFICES ASSUME QueueInv, [Next]_vars PROVE WorkerKnows'
  OBVIOUS
<1> USE SizesAssumption DEF QueueInv, TypeOK, WorkerKnows, Jobs, Natives, Kinds, NoJob, NoNative, Pending, PendingStatus, Terminal, Running, jobVars, worker, natives, counts
<1>1. ASSUME NEW j \in Jobs, Enqueue(j) PROVE WorkerKnows'
  BY <1>1 DEF Enqueue
<1>2. ASSUME NEW j \in Jobs, Cancel(j) PROVE WorkerKnows'
  BY <1>2 DEF Cancel
<1>3. ASSUME NEW j \in Jobs, BackoffEnds(j) PROVE WorkerKnows'
  BY <1>3 DEF BackoffEnds
<1>4. ASSUME Select PROVE WorkerKnows'
  BY <1>4, NextJobsFacts DEF Select
<1>5. ASSUME Look PROVE WorkerKnows'
  BY <1>5 DEF Look, Updated, Worker, Idle, Applies
<1>6. ASSUME Dispatch PROVE WorkerKnows'
  BY <1>6 DEF Dispatch, Updated, Worker, Applies
<1>7. ASSUME Prepared PROVE WorkerKnows'
  BY <1>7 DEF Prepared, Worker, Idle
<1>8. ASSUME NotPrepared PROVE WorkerKnows'
  BY <1>8 DEF NotPrepared, Refused, Updated, Idle, Applies
<1>9. ASSUME PostAccepted PROVE WorkerKnows'
  BY <1>9 DEF PostAccepted, Refused, Unreadable, Failed, Updated, Idle, Applies
<1>10. ASSUME PostRefused PROVE WorkerKnows'
  BY <1>10 DEF PostRefused, Refused, Updated, Idle, Applies
<1>11. ASSUME PostRejected PROVE WorkerKnows'
  BY <1>11 DEF PostRejected, Failed, Updated, Idle, Applies
<1>12. ASSUME Record PROVE WorkerKnows'
  BY <1>12 DEF Record, Updated, Applies
<1>13. ASSUME Poll PROVE WorkerKnows'
  BY <1>13 DEF Poll, Unanswered, Failed, Updated, Worker, Idle, Applies
<1>14. ASSUME ForwardInVain PROVE WorkerKnows'
  BY <1>14 DEF ForwardInVain, Worker
<1>15. ASSUME ForwardUnknown PROVE WorkerKnows'
  BY <1>15 DEF ForwardUnknown, Updated, Idle, Applies
<1>16. ASSUME ForwardCancel PROVE WorkerKnows'
  BY <1>16 DEF ForwardCancel, CancelAnswers, Updated, Worker, Applies
<1>17. ASSUME NEW n \in Natives, NativeEnds(n) PROVE WorkerKnows'
  BY <1>17 DEF NativeEnds
<1>18. ASSUME NEW k \in Kinds, Outage(k) PROVE WorkerKnows'
  BY <1>18 DEF Outage, AfterOutage
<1>19. ASSUME NEW k \in Kinds, Restart(k) PROVE WorkerKnows'
  BY <1>19 DEF Restart
<1>20. ASSUME AgentRestart PROVE WorkerKnows'
  BY <1>20 DEF AgentRestart, Recovered, Idle
<1>21. ASSUME UNCHANGED vars PROVE WorkerKnows'
  BY <1>21 DEF vars, jobVars, worker, natives, counts
<1>22. ASSUME PollUnreadable PROVE WorkerKnows'
  BY <1>22 DEF PollUnreadable, Unreadable, Failed, Updated, Idle, Applies
<1>23. ASSUME ForwardUnreadable PROVE WorkerKnows'
  BY <1>23 DEF ForwardUnreadable, Unreadable, CancelAnswers, Failed, Updated, Idle, Applies
<1> QED
  BY <1>1, <1>2, <1>3, <1>4, <1>5, <1>6, <1>7, <1>8, <1>9, <1>10, <1>11, <1>12, <1>13, <1>14, <1>15, <1>16, <1>17, <1>18, <1>19, <1>20, <1>21, <1>22, <1>23
     DEF Next, Work, Post, Forward, AllSettled

\* Native ids keep pointing back.
LEMMA OwnedStep == QueueInv /\ [Next]_vars => NativesOwned'
<1> SUFFICES ASSUME QueueInv, [Next]_vars PROVE NativesOwned'
  OBVIOUS
<1> USE SizesAssumption DEF QueueInv, TypeOK, NativesOwned, Owns, WorkerKnows, Enqueued, Jobs, Natives, Kinds, NoJob, NoNative, Pending, PendingStatus, Terminal, Running, jobVars, worker, natives, counts
<1>1. ASSUME NEW j \in Jobs, Enqueue(j) PROVE NativesOwned'
  BY <1>1 DEF Enqueue
<1>2. ASSUME NEW j \in Jobs, Cancel(j) PROVE NativesOwned'
  BY <1>2 DEF Cancel
<1>3. ASSUME NEW j \in Jobs, BackoffEnds(j) PROVE NativesOwned'
  BY <1>3 DEF BackoffEnds
<1>4. ASSUME Select PROVE NativesOwned'
  BY <1>4, NextJobsFacts DEF Select
<1>5. ASSUME Look PROVE NativesOwned'
  BY <1>5 DEF Look, Updated, Worker, Idle, Applies
<1>6. ASSUME Dispatch PROVE NativesOwned'
  BY <1>6 DEF Dispatch, Updated, Worker, Applies
<1>7. ASSUME Prepared PROVE NativesOwned'
  BY <1>7 DEF Prepared, Worker, Idle
<1>8. ASSUME NotPrepared PROVE NativesOwned'
  BY <1>8 DEF NotPrepared, Refused, Updated, Idle, Applies
<1>9. ASSUME PostAccepted PROVE NativesOwned'
  BY <1>9 DEF PostAccepted, Refused, Unreadable, Failed, Updated, Idle, Applies
<1>10. ASSUME PostRefused PROVE NativesOwned'
  BY <1>10 DEF PostRefused, Refused, Updated, Idle, Applies
<1>11. ASSUME PostRejected PROVE NativesOwned'
  BY <1>11 DEF PostRejected, Failed, Updated, Idle, Applies
<1>12. ASSUME Record PROVE NativesOwned'
  BY <1>12 DEF Record, Updated, Applies
<1>13. ASSUME Poll PROVE NativesOwned'
  BY <1>13 DEF Poll, Unanswered, Failed, Updated, Worker, Idle, Applies
<1>14. ASSUME ForwardInVain PROVE NativesOwned'
  BY <1>14 DEF ForwardInVain, Worker
<1>15. ASSUME ForwardUnknown PROVE NativesOwned'
  BY <1>15 DEF ForwardUnknown, Updated, Idle, Applies
<1>16. ASSUME ForwardCancel PROVE NativesOwned'
  BY <1>16 DEF ForwardCancel, CancelAnswers, Updated, Worker, Applies
<1>17. ASSUME NEW n \in Natives, NativeEnds(n) PROVE NativesOwned'
  BY <1>17 DEF NativeEnds
<1>18. ASSUME NEW k \in Kinds, Outage(k) PROVE NativesOwned'
  BY <1>18 DEF Outage, AfterOutage
<1>19. ASSUME NEW k \in Kinds, Restart(k) PROVE NativesOwned'
  BY <1>19 DEF Restart
<1>20. ASSUME AgentRestart PROVE NativesOwned'
  BY <1>20 DEF AgentRestart, Recovered, Idle
<1>21. ASSUME UNCHANGED vars PROVE NativesOwned'
  BY <1>21 DEF vars, jobVars, worker, natives, counts
<1>22. ASSUME PollUnreadable PROVE NativesOwned'
  BY <1>22 DEF PollUnreadable, Unreadable, Failed, Updated, Idle, Applies
<1>23. ASSUME ForwardUnreadable PROVE NativesOwned'
  BY <1>23 DEF ForwardUnreadable, Unreadable, CancelAnswers, Failed, Updated, Idle, Applies
<1> QED
  BY <1>1, <1>2, <1>3, <1>4, <1>5, <1>6, <1>7, <1>8, <1>9, <1>10, <1>11, <1>12, <1>13, <1>14, <1>15, <1>16, <1>17, <1>18, <1>19, <1>20, <1>21, <1>22, <1>23
     DEF Next, Work, Post, Forward, AllSettled

\* The invariant holds initially: nothing was enqueued.
LEMMA InitQueue == Init => QueueInv
  BY SizesAssumption, KindsAssumption
     DEF Init, QueueInv, TypeOK, Enqueued, WorkerAlone, WorkerInOrder, WorkerKnows, NativesOwned,
         HandingOver, InFlight, Pending, PendingStatus, Jobs, Natives, NoJob, NoNative

\* The invariant is inductive and therefore holds always.
THEOREM QueueInvariant == Safe => []QueueInv
<1>1. QueueInv /\ [Next]_vars => QueueInv'
  BY TypeStep, EnqueuedStep, AloneStep, OrderStep, KnowsStep, OwnedStep DEF QueueInv
<1> QED
  BY <1>1, InitQueue, PTL DEF Safe

\* Type correctness of the queue, its worker and the native jobs.
THEOREM QueueTypes == Safe => []TypeOK
<1>1. QueueInv => TypeOK
  BY DEF QueueInv
<1> QED
  BY <1>1, QueueInvariant, PTL

----------------------------------------------------------------------------
(* What a step may never do *)

\* A native job is created by PostAccepted alone, for the job the worker has.
LEMMA CreatedByPost == \A n \in Natives : QueueInv /\ [Next]_vars /\ nativeFor'[n] # nativeFor[n]
                                           => pc = "post" /\ nativeFor'[n] = cur
<1> SUFFICES ASSUME NEW n \in Natives, QueueInv, [Next]_vars, nativeFor'[n] # nativeFor[n]
             PROVE  pc = "post" /\ nativeFor'[n] = cur
  OBVIOUS
<1>1. PostAccepted \/ UNCHANGED nativeFor
  BY DEF Next, Work, Post, Forward, AllSettled, vars, natives, Enqueue, Cancel, BackoffEnds, Select,
         Look, Dispatch, Prepared, NotPrepared, PostRefused, PostRejected, Record, Poll, PollUnreadable,
         ForwardInVain, ForwardUnknown, ForwardCancel, ForwardUnreadable, NativeEnds, Outage, Restart, AgentRestart
<1> QED
  BY <1>1 DEF PostAccepted, QueueInv, TypeOK

\* No job is handed over while the queue follows another native job, whatever
\* is cancelled, refused or restarted meanwhile (_next_job_id).
THEOREM SingleFollower == Safe => FollowsWhatItKnows
<1>1. QueueInv /\ [Next]_vars =>
        [(\E n \in Natives : nativeFor'[n] # nativeFor[n])
           => \A j \in Jobs : Pending(j) => nativeOf[j] = NoNative]_vars
  BY CreatedByPost DEF QueueInv, WorkerAlone, HandingOver, InFlight
<1> QED
  BY <1>1, QueueInvariant, PTL DEF Safe, FollowsWhatItKnows

\* Jobs of one kind are handed over in the order of their created_at, but for
\* those stored after the worker had chosen.
THEOREM FirstInFirstOut == Safe => HandedOverInOrder
<1>1. QueueInv /\ [Next]_vars =>
        [\A n \in Natives : nativeFor'[n] # nativeFor[n] =>
           \A i \in Jobs : /\ i < nativeFor'[n] /\ KindOf[i] = KindOf[nativeFor'[n]]
                           => ~Pending(i) \/ i \in late]_vars
  BY CreatedByPost DEF QueueInv, WorkerInOrder, HandingOver
<1> QED
  BY <1>1, QueueInvariant, PTL DEF Safe, HandedOverInOrder

----------------------------------------------------------------------------
(* How a job ends *)

\* The changes of a status that the code makes: _update spares terminal jobs.
Change(j) == \/ status'[j] = status[j]
             \/ status[j] = "absent" /\ status'[j] = "queued"
             \/ status[j] \in Terminal /\ status'[j] = "pruned"
             \/ Pending(j) /\ status'[j] # "completed"
             \/ /\ Pending(j) /\ status'[j] = "completed"
                /\ cur = j /\ pc \in {"poll", "forward"}
                /\ nativeState'[nativeOf[j]] = "completed"

\* Every step changes the status of a job in one of these ways.
LEMMA StatusStep == \A j \in Jobs : QueueInv /\ [Next]_vars => Change(j)
<1> SUFFICES ASSUME NEW j \in Jobs, QueueInv, [Next]_vars PROVE Change(j)
  OBVIOUS
<1> USE SizesAssumption, KindsAssumption
    DEF QueueInv, TypeOK, Change, Updated, Applies, Pending, PendingStatus, Terminal, Running,
        jobVars, natives
<1>1. ASSUME NEW i \in Jobs, Enqueue(i) PROVE Change(j)
  BY <1>1 DEF Enqueue, Finished
<1>2. ASSUME NEW i \in Jobs, Cancel(i) PROVE Change(j)
  BY <1>2 DEF Cancel
<1>3. CASE Look
  BY <1>3 DEF Look
<1>4. CASE Dispatch
  BY <1>4 DEF Dispatch
<1>5. CASE NotPrepared \/ PostRefused
  BY <1>5 DEF NotPrepared, PostRefused, Refused
<1>6. CASE PostAccepted
  BY <1>6 DEF PostAccepted, Refused, Unreadable, Failed
<1>7. CASE PostRejected
  BY <1>7 DEF PostRejected, Failed
<1>8. CASE Record
  BY <1>8 DEF Record
<1>9. CASE Poll
  BY <1>9 DEF Poll, Unanswered, Failed
<1>10. CASE ForwardUnknown
  BY <1>10 DEF ForwardUnknown
<1>11. CASE ForwardCancel
  <2> PICK state \in CancelAnswers :
           /\ nativeState' = [nativeState EXCEPT ![nativeOf[cur]] = state]
           /\ IF state \in Terminal THEN Updated(cur, state) ELSE UNCHANGED status
    BY <1>11 DEF ForwardCancel
  <2>1. pc = "forward" /\ cur \in Jobs /\ nativeOf[cur] \in Natives
    BY <1>11 DEF ForwardCancel, WorkerKnows
  <2>2. nativeState'[nativeOf[cur]] = state
    BY <2>1
  <2> QED
    BY <2>1, <2>2
<1>12. CASE AgentRestart
  BY <1>12 DEF AgentRestart, Recovered
<1>13. CASE UNCHANGED status
  BY <1>13
<1>14. CASE PollUnreadable \/ ForwardUnreadable
  BY <1>14 DEF PollUnreadable, ForwardUnreadable, Unreadable, Failed
<1> QED
  BY <1>1, <1>2, <1>3, <1>4, <1>5, <1>6, <1>7, <1>8, <1>9, <1>10, <1>11, <1>12, <1>13, <1>14
     DEF Next, Work, Post, Forward, AllSettled, vars, BackoffEnds, Select, Prepared,
         ForwardInVain, NativeEnds, Outage, Restart

\* A job stays as it ended, whatever answers, cancels or restarts come later.
THEOREM TerminalStays == Safe => TerminalIsFinal
<1>1. QueueInv /\ [Next]_vars =>
        [\A j \in Jobs : status[j] \in Terminal => status'[j] \in {status[j], "pruned"}]_vars
  BY StatusStep DEF Change, Pending, PendingStatus, Terminal
<1> QED
  BY <1>1, QueueInvariant, PTL DEF Safe, TerminalIsFinal

\* A job completes only with the native job that was created for it.
THEOREM CompletedOnlyByItsNative == Safe => CompletedByItsNative
<1>1. QueueInv /\ [Next]_vars =>
        [\A j \in Jobs : status[j] # "completed" /\ status'[j] = "completed" =>
           \E n \in Natives : /\ nativeOf[j] = n /\ nativeFor[n] = j
                              /\ nativeState'[n] = "completed"]_vars
  <2> SUFFICES ASSUME QueueInv, [Next]_vars, NEW j \in Jobs,
                      status[j] # "completed", status'[j] = "completed"
               PROVE  \E n \in Natives : /\ nativeOf[j] = n /\ nativeFor[n] = j
                                         /\ nativeState'[n] = "completed"
    OBVIOUS
  <2>1. /\ cur = j /\ pc \in {"poll", "forward"}
        /\ nativeState'[nativeOf[j]] = "completed"
    BY StatusStep DEF Change
  <2>2. nativeOf[j] # NoNative /\ Owns(j, nativeOf[j])
    BY <2>1 DEF QueueInv, WorkerKnows, NativesOwned
  <2> QED
    BY <2>1, <2>2 DEF Owns
<1> QED
  BY <1>1, QueueInvariant, PTL DEF Safe, CompletedByItsNative

----------------------------------------------------------------------------
(* How often a job is generated *)

Repeats(j) == {n \in Natives : nativeFor[n] = j}

\* A job that may still be handed over: one that waits, was not enqueued yet, or
\* is on its way although it was cancelled meanwhile.
MayPost(j) == \/ /\ nativeOf[j] = NoNative
                 /\ status[j] = "absent" \/ Pending(j)
                 /\ ~(pc = "record" /\ cur = j)
              \/ cur = j /\ pc \in {"dispatch", "drain", "post"}

\* Such a job has lost every native job that was created for it.
RepeatsInv ==
  \A j \in Jobs : /\ Cardinality(Repeats(j)) <= 1 + lost + crashes
                  /\ MayPost(j) => Cardinality(Repeats(j)) <= lost + crashes

LEMMA RepeatsFinite == \A j \in Jobs : IsFiniteSet(Repeats(j)) /\ Cardinality(Repeats(j)) \in Nat
<1> SUFFICES ASSUME NEW j \in Jobs
             PROVE  IsFiniteSet(Repeats(j)) /\ Cardinality(Repeats(j)) \in Nat
  OBVIOUS
<1>1. IsFiniteSet(Natives)
  BY SizesAssumption, FS_Interval DEF Natives
<1>2. Repeats(j) \in SUBSET Natives
  BY DEF Repeats
<1> QED
  BY <1>1, <1>2, FS_Subset, FS_CardinalityType

\* An accepted POST adds one native job to one queue job.
LEMMA RepeatsOfPost ==
  ASSUME QueueInv, NEW n \in Natives, nativeFor' = [nativeFor EXCEPT ![n] = cur], cur \in Jobs,
         NEW j \in Jobs
  PROVE  /\ Cardinality(Repeats(j)') \in Nat
         /\ Cardinality(Repeats(j)') <= Cardinality(Repeats(j)) + 1
         /\ j # cur => Cardinality(Repeats(j)') <= Cardinality(Repeats(j))
<1>1. IsFiniteSet(Repeats(j)) /\ Cardinality(Repeats(j)) \in Nat
  BY RepeatsFinite
<1>2. /\ IsFiniteSet(Repeats(j) \cup {n})
      /\ Cardinality(Repeats(j) \cup {n}) <= Cardinality(Repeats(j)) + 1
      /\ Cardinality(Repeats(j) \cup {n}) \in Nat
  <2>1. IsFiniteSet(Repeats(j) \cup {n})
    BY <1>1, FS_AddElement
  <2>2. Cardinality(Repeats(j) \cup {n})
          = IF n \in Repeats(j) THEN Cardinality(Repeats(j)) ELSE Cardinality(Repeats(j)) + 1
    BY <1>1, FS_AddElement
  <2> QED BY <1>1, <2>1, <2>2
<1>3. Repeats(j)' \in SUBSET (Repeats(j) \cup {n})
  BY DEF QueueInv, TypeOK, Repeats
<1>4. j # cur => Repeats(j)' \in SUBSET Repeats(j)
  BY DEF QueueInv, TypeOK, Repeats
<1>5. IsFiniteSet(Repeats(j)') /\ Cardinality(Repeats(j)') <= Cardinality(Repeats(j) \cup {n})
  BY <1>2, <1>3, FS_Subset
<1>6. Cardinality(Repeats(j)') \in Nat
  BY <1>5, FS_CardinalityType
<1>7. j # cur => Cardinality(Repeats(j)') <= Cardinality(Repeats(j))
  BY <1>1, <1>4, FS_Subset
<1> QED
  BY <1>1, <1>2, <1>5, <1>6, <1>7

\* No other step creates a native job, and none but a restart lets a job be
\* handed over that could not be before.
LEMMA OtherSteps ==
  QueueInv /\ [Next]_vars =>
    \/ PostAccepted
    \/ AgentRestart
    \/ /\ UNCHANGED <<nativeFor, crashes>> /\ lost' \in {lost, lost + 1}
       /\ \A j \in Jobs : MayPost(j)' => MayPost(j)
<1> DEFINE Quiet == /\ UNCHANGED <<nativeFor, crashes>> /\ lost' \in {lost, lost + 1}
                    /\ \A j \in Jobs : MayPost(j)' => MayPost(j)
<1> SUFFICES ASSUME QueueInv, [Next]_vars
             PROVE  PostAccepted \/ AgentRestart \/ Quiet
  OBVIOUS
<1> USE SizesAssumption
    DEF QueueInv, TypeOK, MayPost, Updated, Applies, Pending, PendingStatus, Terminal, Running,
        Worker, Idle, NoJob, NoNative, WorkerKnows, Jobs, Natives, jobVars, worker, natives, counts
<1>1. ASSUME NEW i \in Jobs, Enqueue(i) PROVE Quiet
  BY <1>1 DEF Enqueue, Finished
<1>2. ASSUME NEW i \in Jobs, Cancel(i) PROVE Quiet
  BY <1>2 DEF Cancel
<1>3. ASSUME NEW i \in Jobs, BackoffEnds(i) PROVE Quiet
  BY <1>3 DEF BackoffEnds
<1>4. CASE Select
  BY <1>4 DEF Select
<1>5. CASE Look
  BY <1>5 DEF Look
<1>6. CASE Dispatch
  BY <1>6 DEF Dispatch
<1>7. CASE Prepared
  BY <1>7 DEF Prepared
<1>8. CASE NotPrepared
  BY <1>8 DEF NotPrepared, Refused
<1>9. CASE PostRefused
  BY <1>9 DEF PostRefused, Refused
<1>10. CASE PostRejected
  BY <1>10 DEF PostRejected, Failed
<1>11. CASE Record
  BY <1>11 DEF Record, NativesOwned, Owns
<1>12. CASE Poll
  BY <1>12 DEF Poll, Unanswered, Failed
<1>13. CASE ForwardInVain
  BY <1>13 DEF ForwardInVain
<1>14. CASE ForwardUnknown
  BY <1>14 DEF ForwardUnknown
<1>15. CASE ForwardCancel
  BY <1>15 DEF ForwardCancel
<1>16. ASSUME NEW n \in Natives, NativeEnds(n) PROVE Quiet
  BY <1>16 DEF NativeEnds
<1>17. ASSUME NEW k \in Kinds, Outage(k) PROVE Quiet
  BY <1>17 DEF Outage
<1>18. ASSUME NEW k \in Kinds, Restart(k) PROVE Quiet
  BY <1>18 DEF Restart
<1>19. CASE UNCHANGED vars
  BY <1>19 DEF vars
<1>20. CASE PollUnreadable
  BY <1>20 DEF PollUnreadable, Unreadable, Failed
<1>21. CASE ForwardUnreadable
  BY <1>21 DEF ForwardUnreadable, Unreadable, Failed
<1> HIDE DEF Quiet
<1> QED
  BY <1>1, <1>2, <1>3, <1>4, <1>5, <1>6, <1>7, <1>8, <1>9, <1>10, <1>11, <1>12, <1>13, <1>14, <1>15, <1>16, <1>17, <1>18, <1>19,
     <1>20, <1>21
     DEF Next, Work, Post, Forward, AllSettled

LEMMA RepeatsStep == QueueInv /\ RepeatsInv /\ [Next]_vars => RepeatsInv'
<1> SUFFICES ASSUME QueueInv, RepeatsInv, [Next]_vars, NEW j \in Jobs
             PROVE  /\ Cardinality(Repeats(j)') <= 1 + lost' + crashes'
                    /\ MayPost(j)' => Cardinality(Repeats(j)') <= lost' + crashes'
  BY DEF RepeatsInv
<1>1. /\ Cardinality(Repeats(j)) \in Nat /\ lost \in Nat /\ crashes \in Nat
      /\ Cardinality(Repeats(j)) <= 1 + lost + crashes
      /\ MayPost(j) => Cardinality(Repeats(j)) <= lost + crashes
  BY SizesAssumption, RepeatsFinite DEF QueueInv, TypeOK, RepeatsInv
<1>2. CASE PostAccepted
  <2>1. PICK n \in Natives : /\ nativeFor' = [nativeFor EXCEPT ![n] = cur]
                             /\ \/ /\ pc' = "record" /\ UNCHANGED <<cur, lost, jobVars>>
                                \/ lost' = lost + 1
    BY <1>2 DEF PostAccepted, Unreadable
  <2>2. cur \in Jobs /\ pc = "post" /\ crashes' = crashes
    BY <1>2 DEF PostAccepted, QueueInv, TypeOK
  <2>3. /\ Cardinality(Repeats(j)') \in Nat
        /\ Cardinality(Repeats(j)') <= Cardinality(Repeats(j)) + 1
        /\ j # cur => Cardinality(Repeats(j)') <= Cardinality(Repeats(j))
    BY <2>1, <2>2, RepeatsOfPost
  <2>4. cur = j => MayPost(j)
    BY <2>2 DEF MayPost
  <2>5. CASE lost' = lost + 1
    BY <1>1, <2>2, <2>3, <2>4, <2>5
  <2>6. CASE pc' = "record" /\ UNCHANGED <<cur, lost, jobVars>>
    <3>1. MayPost(j)' => MayPost(j) /\ j # cur
      BY <2>6 DEF MayPost, Pending, jobVars
    <3> QED BY <1>1, <2>2, <2>3, <2>4, <2>6, <3>1
  <2> QED BY <2>1, <2>5, <2>6
<1>3. CASE AgentRestart
  BY <1>1, <1>3 DEF AgentRestart, Repeats, natives
<1>4. CASE /\ UNCHANGED <<nativeFor, crashes>> /\ lost' \in {lost, lost + 1}
           /\ \A i \in Jobs : MayPost(i)' => MayPost(i)
  BY <1>1, <1>4 DEF Repeats
<1> QED
  BY <1>2, <1>3, <1>4, OtherSteps

\* Every job is generated once, and once more at most for each lost answer and
\* each restart of the agent, whatever is cancelled, refused or forgotten.
THEOREM NoJobRepeated == Safe => []RepeatedOnlyAfterLoss
<1>1. Init => RepeatsInv
  <2> SUFFICES ASSUME Init, NEW j \in Jobs
               PROVE  /\ Cardinality(Repeats(j)) <= 1 + lost + crashes
                      /\ MayPost(j) => Cardinality(Repeats(j)) <= lost + crashes
    BY DEF RepeatsInv
  <2>1. Repeats(j) = {} /\ lost = 0 /\ crashes = 0
    BY DEF Init, Repeats, NoJob, Jobs
  <2> QED BY <2>1, FS_EmptySet
<1>2. Safe => []RepeatsInv
  BY <1>1, RepeatsStep, QueueInvariant, PTL DEF Safe
<1>3. RepeatsInv => RepeatedOnlyAfterLoss
  BY DEF RepeatsInv, Repeats, RepeatedOnlyAfterLoss
<1> QED
  BY <1>2, <1>3, PTL

----------------------------------------------------------------------------
(* When generations do not overlap *)

\* No answer to POST /jobs was lost, the agent did not restart and nobody cancelled.
Undisturbed == lost = 0 /\ crashes = 0 /\ \A j \in Jobs : ~cancelReq[j]

\* The worker is about to hand its job over, or has just done so.
Posting == \/ pc \in {"dispatch", "drain", "post", "record"}
           \/ pc = "look" /\ nativeOf[cur] = NoNative

\* The queue knows of a native job, or is about to store its id.
Followed(n) == \/ pc = "record" /\ reply = n
               \/ \E j \in InFlight : nativeOf[j] = n

\* One job at most is followed, and undisturbed it is every one that runs.
Alone == \A i, j \in InFlight : i = j
AllFollowed == /\ \A n \in Natives : nativeState[n] \in Running => Followed(n)
               /\ Posting => Pending(cur)
FollowInv == Alone /\ (Undisturbed => AllFollowed)

LEMMA UndisturbedStep == QueueInv /\ [Next]_vars /\ Undisturbed' => Undisturbed /\ ~AgentRestart
<1> SUFFICES ASSUME QueueInv, [Next]_vars, Undisturbed' PROVE Undisturbed /\ ~AgentRestart
  OBVIOUS
<1>1. lost \in Nat /\ crashes \in Nat /\ lost' = 0 /\ crashes' = 0
  BY SizesAssumption DEF QueueInv, TypeOK, Undisturbed
<1>2. (lost' = lost \/ lost' = lost + 1) /\ (crashes' = crashes \/ crashes' = crashes + 1)
  BY DEF Next, Work, Post, Forward, AllSettled, vars, counts, Enqueue, Cancel, BackoffEnds, Select,
         Look, Dispatch, Prepared, NotPrepared, PostAccepted, PostRefused, PostRejected, Record, Poll, PollUnreadable,
         ForwardInVain, ForwardUnknown, ForwardCancel, ForwardUnreadable, NativeEnds, Outage, Restart, AgentRestart, Unreadable
<1>3. \A j \in Jobs : cancelReq[j] => cancelReq'[j]
  <2>1. CASE \E j \in Jobs : Cancel(j)
    BY <2>1 DEF Cancel, QueueInv, TypeOK
  <2>2. CASE ~\E j \in Jobs : Cancel(j)
    BY <2>2 DEF Next, Work, Post, Forward, AllSettled, vars, jobVars, Enqueue, BackoffEnds, Select, Look,
           Dispatch, Prepared, NotPrepared, PostAccepted, PostRefused, PostRejected, Record, Poll, PollUnreadable,
           ForwardInVain, ForwardUnknown, ForwardCancel, ForwardUnreadable, NativeEnds, Outage, Restart, AgentRestart,
           Refused, Failed, Unreadable, Unanswered
  <2> QED BY <2>1, <2>2
<1>4. AgentRestart => crashes' = crashes + 1
  BY DEF AgentRestart
<1>5. lost = 0 /\ crashes = 0 /\ ~AgentRestart
  BY <1>1, <1>2, <1>4
<1> QED
  BY <1>3, <1>5 DEF Undisturbed

\* Native ids are stored by Record only.
LEMMA NativeOfStep == [Next]_vars => Record \/ UNCHANGED nativeOf
  BY DEF Next, Work, Post, Forward, AllSettled, vars, jobVars, Enqueue, Cancel, BackoffEnds, Select,
         Look, Dispatch, Prepared, NotPrepared, PostAccepted, PostRefused, PostRejected, Poll, PollUnreadable,
         ForwardInVain, ForwardUnknown, ForwardCancel, ForwardUnreadable, NativeEnds, Outage, Restart, AgentRestart,
         Refused, Failed, Unreadable, Unanswered

\* A job joins those that are followed only when there are none.
LEMMA SoleStep == QueueInv /\ Alone /\ [Next]_vars => Alone'
<1> SUFFICES ASSUME QueueInv, Alone, [Next]_vars PROVE Alone'
  OBVIOUS
<1>1. CASE Record
  <2>1. InFlight = {} /\ cur \in Jobs
    BY <1>1 DEF Record, QueueInv, WorkerAlone, TypeOK
  <2>2. \A j \in Jobs : j # cur => status'[j] = status[j] /\ nativeOf'[j] = nativeOf[j]
    BY <1>1 DEF Record, Updated, QueueInv, TypeOK
  <2>3. \A j \in InFlight' : j = cur
    BY <2>1, <2>2 DEF InFlight, Pending
  <2> QED
    BY <2>3 DEF Alone
<1>2. CASE UNCHANGED nativeOf
  <2>1. \A j \in Jobs : Pending(j)' /\ nativeOf[j] # NoNative => Pending(j)
    BY StatusStep DEF Change, Pending, PendingStatus, Terminal, QueueInv, Enqueued
  <2>2. InFlight' \in SUBSET InFlight
    BY <1>2, <2>1 DEF InFlight
  <2> QED
    BY <2>2 DEF Alone
<1> QED
  BY <1>1, <1>2, NativeOfStep

\* A job is followed as long as its native job runs.
LEMMA StaysFollowed ==
  ASSUME QueueInv, [Next]_vars, ~AgentRestart, ~Record, lost' # lost + 1, NEW j \in InFlight, ~cancelReq'[j],
         nativeState'[nativeOf[j]] \in Running
  PROVE  j \in InFlight' /\ nativeOf'[j] = nativeOf[j]
<1>1. UNCHANGED nativeOf
  BY NativeOfStep
<1>2. j \in Jobs /\ Pending(j) /\ nativeOf[j] # NoNative /\ nativeOf[j] \in Natives
  BY DEF InFlight, QueueInv, NativesOwned, Owns
<1> SUFFICES Pending(j)'
  BY <1>1, <1>2 DEF InFlight
<1> USE <1>2 DEF QueueInv, TypeOK, Updated, Applies, Pending, PendingStatus, Terminal, Running, jobVars, natives
<1>3. ASSUME NEW i \in Jobs, Enqueue(i) PROVE Pending(j)'
  BY <1>3 DEF Enqueue, Finished
<1>4. ASSUME NEW i \in Jobs, Cancel(i) PROVE Pending(j)'
  BY <1>4 DEF Cancel
<1>5. CASE Look
  BY <1>5 DEF Look
<1>6. CASE Dispatch
  BY <1>6 DEF Dispatch
<1>7. CASE NotPrepared \/ PostRefused \/ PostAccepted
  BY <1>7 DEF NotPrepared, PostRefused, PostAccepted, Refused, Unreadable
<1>8. CASE PostRejected
  BY <1>8 DEF PostRejected, Failed, WorkerAlone, HandingOver
<1>9. CASE Poll
  <2>1. nativeState'[nativeOf[j]] = nativeState[nativeOf[j]]
    BY <1>9 DEF Poll
  <2>2. cur = j => UNCHANGED status
    BY <1>9, <2>1 DEF Poll, Unanswered
  <2>3. cur # j => status'[j] = status[j]
    BY <1>9 DEF Poll, Unanswered, Failed
  <2> QED
    BY <2>2, <2>3
<1>10. CASE ForwardUnknown
  BY <1>10 DEF ForwardUnknown
<1>11. CASE ForwardCancel
  <2> PICK state \in CancelAnswers :
           /\ nativeState' = [nativeState EXCEPT ![nativeOf[cur]] = state]
           /\ IF state \in Terminal THEN Updated(cur, state) ELSE UNCHANGED status
    BY <1>11 DEF ForwardCancel
  <2>1. cur = j => nativeState'[nativeOf[j]] = state
    OBVIOUS
  <2>2. cur = j => UNCHANGED status
    BY <2>1
  <2> QED
    BY <2>2
<1>12. CASE UNCHANGED status
  BY <1>12
<1>13. ~PollUnreadable /\ ~ForwardUnreadable
  BY DEF PollUnreadable, ForwardUnreadable, Unreadable
<1> QED
  BY <1>3, <1>4, <1>5, <1>6, <1>7, <1>8, <1>9, <1>10, <1>11, <1>12, <1>13
     DEF Next, Work, Post, Forward, AllSettled, vars, BackoffEnds, Select, Prepared, ForwardInVain,
         NativeEnds, Outage, Restart

\* A native job starts with an answer to POST /jobs, and an answer waits for Record.
LEMMA RunsOn ==
  QueueInv /\ [Next]_vars /\ ~PostAccepted /\ ~AgentRestart /\ ~Record =>
    /\ \A n \in Natives : nativeState'[n] \in Running => nativeState[n] \in Running
    /\ pc = "record" => UNCHANGED <<pc, reply>>
<1> DEFINE Same == pc = "record" => UNCHANGED <<pc, reply>>
           Old == \A n \in Natives : nativeState'[n] \in Running => nativeState[n] \in Running
<1> SUFFICES ASSUME QueueInv, [Next]_vars, ~PostAccepted, ~AgentRestart, ~Record
             PROVE  Old /\ Same
  OBVIOUS
<1>1. Same
  BY DEF Next, Work, Post, Forward, AllSettled, vars, worker, Enqueue, Cancel, BackoffEnds, Select,
         Look, Dispatch, Prepared, NotPrepared, PostRefused, PostRejected, Poll, PollUnreadable, ForwardInVain,
         ForwardUnknown, ForwardCancel, ForwardUnreadable, NativeEnds, Outage, Restart
<1>2. CASE ForwardCancel \/ ForwardUnreadable
  BY <1>1, <1>2 DEF ForwardCancel, ForwardUnreadable, CancelAnswers, QueueInv, TypeOK, Running
<1>3. CASE \E n \in Natives : NativeEnds(n)
  BY <1>1, <1>3 DEF NativeEnds, QueueInv, TypeOK, Terminal, Running
<1>4. CASE \E k \in Kinds : Outage(k)
  BY <1>1, <1>4 DEF Outage, AfterOutage, Running
<1>5. CASE UNCHANGED nativeState
  BY <1>1, <1>5
<1> QED
  BY <1>1, <1>2, <1>3, <1>4, <1>5
  DEF Next, Work, Post, Forward, AllSettled, vars, natives, Enqueue, Cancel, BackoffEnds, Select,
         Look, Dispatch, Prepared, NotPrepared, PostRefused, PostRejected, Poll, PollUnreadable, ForwardInVain,
         ForwardUnknown, Restart

LEMMA RunningFollowed ==
  ASSUME QueueInv, AllFollowed, [Next]_vars, Undisturbed', ~AgentRestart,
         NEW n \in Natives, nativeState'[n] \in Running
  PROVE  Followed(n)'
<1>1. CASE Record
  <2>1. /\ pc = "record" /\ cur \in Jobs /\ InFlight = {} /\ Pending(cur)
        /\ nativeState[n] \in Running /\ reply # NoNative
    BY <1>1, SizesAssumption
       DEF Record, QueueInv, WorkerAlone, TypeOK, AllFollowed, Posting, natives, NativesOwned, Owns,
           NoNative, Natives
  <2>2. reply = n
    BY <2>1 DEF AllFollowed, Followed
  <2>3. nativeOf'[cur] = n /\ status'[cur] = "active"
    BY <1>1, <2>1, <2>2 DEF Record, Updated, Applies, QueueInv, TypeOK
  <2> QED
    BY <2>1, <2>2, <2>3 DEF Followed, InFlight, Pending, PendingStatus
<1>2. CASE PostAccepted
  <2>1. pc = "post" /\ InFlight = {}
    BY <1>2 DEF PostAccepted, QueueInv, WorkerAlone, HandingOver
  <2>2. nativeState[n] \notin Running
    BY <2>1 DEF AllFollowed, Followed
  <2>3. PICK m \in Natives : /\ nativeState' = [nativeState EXCEPT ![m] = "active"]
                             /\ (pc' = "record" /\ reply' = m) \/ lost' = lost + 1
    BY <1>2 DEF PostAccepted, Unreadable
  <2>4. m = n
    BY <2>2, <2>3
  <2>5. lost' # lost + 1
    BY SizesAssumption DEF Undisturbed, QueueInv, TypeOK
  <2> QED
    BY <2>3, <2>4, <2>5 DEF Followed
<1>3. CASE ~Record /\ ~PostAccepted
  <2>1. nativeState[n] \in Running /\ (pc = "record" => UNCHANGED <<pc, reply>>)
    BY <1>3, RunsOn
  <2>2. CASE pc = "record" /\ reply = n
    BY <2>1, <2>2 DEF Followed
  <2>3. ASSUME NEW j \in InFlight, nativeOf[j] = n PROVE Followed(n)'
    <3>1. ~cancelReq'[j]
      BY DEF Undisturbed, InFlight
    <3>2. lost' # lost + 1
      BY SizesAssumption DEF Undisturbed, QueueInv, TypeOK
    <3>3. j \in InFlight' /\ nativeOf'[j] = nativeOf[j]
      BY <1>3, <2>3, <3>1, <3>2, StaysFollowed
    <3> QED
      BY <2>3, <3>3 DEF Followed
  <2> QED
    BY <2>1, <2>2, <2>3 DEF AllFollowed, Followed
<1> QED
  BY <1>1, <1>2, <1>3

\* What the worker hands over waits for it.
LEMMA PostingPending ==
  ASSUME QueueInv, AllFollowed, [Next]_vars, Undisturbed', ~AgentRestart, Posting'
  PROVE  Pending(cur)'
<1> USE DEF QueueInv, TypeOK, AllFollowed, Undisturbed, Posting, Updated, Applies, Pending, PendingStatus,
        Terminal, Worker, Idle, jobVars, worker
<1>1. ASSUME NEW i \in Jobs, Enqueue(i) PROVE Pending(cur)'
  BY <1>1 DEF Enqueue, Finished
<1>2. ASSUME NEW i \in Jobs, Cancel(i) PROVE Pending(cur)'
  BY <1>2 DEF Cancel
<1>3. ASSUME NEW i \in Jobs, BackoffEnds(i) PROVE Pending(cur)'
  BY <1>3 DEF BackoffEnds
<1>4. CASE Select
  BY <1>4, NextJobsFacts DEF Select
<1>5. CASE Look
  BY <1>5 DEF Look
<1>6. CASE Dispatch
  BY <1>6 DEF Dispatch
<1>7. CASE Prepared
  BY <1>7 DEF Prepared
<1>8. CASE NotPrepared
  BY <1>8 DEF NotPrepared, Refused
<1>9. CASE PostAccepted
  BY <1>9 DEF PostAccepted, Refused, Unreadable, Failed
<1>10. CASE PostRefused
  BY <1>10 DEF PostRefused, Refused
<1>11. CASE PostRejected
  BY <1>11 DEF PostRejected, Failed
<1>12. CASE Record
  BY <1>12 DEF Record, NativesOwned, Owns, WorkerKnows
<1>13. CASE Poll
  BY <1>13 DEF Poll, Unanswered, Failed, WorkerKnows
<1>14. CASE ForwardInVain
  BY <1>14 DEF ForwardInVain, WorkerKnows
<1>15. CASE ForwardUnknown
  BY <1>15 DEF ForwardUnknown
<1>16. CASE ForwardCancel
  BY <1>16 DEF ForwardCancel, CancelAnswers, WorkerKnows
<1>17. ASSUME NEW n \in Natives, NativeEnds(n) PROVE Pending(cur)'
  BY <1>17 DEF NativeEnds
<1>18. ASSUME NEW k \in Kinds, Outage(k) PROVE Pending(cur)'
  BY <1>18 DEF Outage, AfterOutage
<1>19. ASSUME NEW k \in Kinds, Restart(k) PROVE Pending(cur)'
  BY <1>19 DEF Restart
<1>20. CASE UNCHANGED vars
  BY <1>20 DEF vars
<1>21. CASE PollUnreadable \/ ForwardUnreadable
  BY <1>21 DEF PollUnreadable, ForwardUnreadable, Unreadable, Failed
<1> QED
  BY <1>1, <1>2, <1>3, <1>4, <1>5, <1>6, <1>7, <1>8, <1>9, <1>10, <1>11, <1>12, <1>13, <1>14, <1>15, <1>16, <1>17, <1>18, <1>19, <1>20, <1>21
     DEF Next, Work, Post, Forward, AllSettled

LEMMA FollowStep == QueueInv /\ FollowInv /\ [Next]_vars => FollowInv'
<1> SUFFICES ASSUME QueueInv, FollowInv, [Next]_vars PROVE FollowInv'
  OBVIOUS
<1>1. Alone'
  BY SoleStep DEF FollowInv
<1>2. ASSUME Undisturbed' PROVE AllFollowed'
  <2>1. Undisturbed /\ ~AgentRestart /\ AllFollowed
    BY <1>2, UndisturbedStep DEF FollowInv
  <2>2. \A n \in Natives : nativeState'[n] \in Running => Followed(n)'
    BY <1>2, <2>1, RunningFollowed
  <2>3. Posting' => Pending(cur)'
    BY <1>2, <2>1, PostingPending
  <2> QED
    BY <2>2, <2>3 DEF AllFollowed, Natives
<1> QED
  BY <1>1, <1>2 DEF FollowInv

\* The documented promise of one native generation at a time holds until an answer
\* to POST /jobs is lost, the agent restarts or a user cancels: refusals, restarts
\* of the services and jobs they forget do not break it.
THEOREM OneGenerationUndisturbed == Safe => [](Undisturbed => OneNativeAtATime)
<1>1. Init => FollowInv
  <2> SUFFICES ASSUME Init PROVE FollowInv
    OBVIOUS
  <2>1. InFlight = {} /\ ~Posting /\ \A n \in Natives : nativeState[n] \notin Running
    BY DEF Init, InFlight, Pending, PendingStatus, Posting, Running
  <2> QED
    BY <2>1 DEF FollowInv, Alone, AllFollowed
<1>2. Safe => []FollowInv
  BY <1>1, FollowStep, QueueInvariant, PTL DEF Safe
<1>3. QueueInv /\ FollowInv => (Undisturbed => OneNativeAtATime)
  <2> SUFFICES ASSUME QueueInv, FollowInv, Undisturbed, NEW m \in Natives, NEW n \in Natives,
                      nativeState[m] \in Running, nativeState[n] \in Running
               PROVE  m = n
    BY DEF OneNativeAtATime
  <2>1. Followed(m) /\ Followed(n) /\ Alone
    BY DEF FollowInv, AllFollowed
  <2>2. pc = "record" => InFlight = {}
    BY DEF QueueInv, WorkerAlone
  <2> QED
    BY <2>1, <2>2 DEF Followed, Alone
<1> QED
  BY <1>2, <1>3, QueueInvariant, PTL

===========================================================================
