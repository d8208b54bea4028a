------------------------ MODULE ModelHandoffProofs ------------------------
(***************************************************************************)
(* Safety of the handoff for any jobs of every kind, any services that are *)
(* offline, and any number of settling samples and speech requests.        *)
(***************************************************************************)
EXTENDS ModelHandoff, TLAPS

\* Jobs that keep the lease while they work.
Coordinated == MediaJobs \cup ChatJobs

InLease(j) == \/ pc[j] \in HandoffStages \cup {"restore", "release"}
              \/ pc[j] \in {"modelLock", "run"} /\ j \in Coordinated

\* The lease belongs to the job that is inside, and to no other.
HolderInv == \A j \in Jobs : InLease(j) <=> holder = j

Releasing == {"probe", "unload", "verify"}

\* Where the jobs of a kind can be, and which of them can be cancelled.
PlaceInv == \A j \in Jobs :
  /\ pc[j] \in {"queued", "measure", "chatStop", "settle", "admit", "restore"} => j \in MediaJobs
  /\ pc[j] = "modelLock" => j \in ChatJobs \cup EnsureJobs
  /\ pc[j] = "finish" => j \in MediaJobs \cup EditJobs
  /\ pc[j] \in Releasing /\ peer[j] = "video" => j \in ImageJobs
  /\ j \in EditJobs => pc[j] \in {"idle", "run", "finish", "done"}
  /\ cancelled[j] => j \in Coordinated

\* A job on the image or video service has its slot until it has ended.
SlotInv == \A j \in MediaJobs \cup EditJobs :
  pc[j] \notin {"idle", "done"} => slot[ServiceOf(j)] = j

\* Image weights are there while a job computes with them.
WeightsInv == \A j \in ImageJobs \cup EditJobs : pc[j] = "run" => imageLoaded

\* Nothing was released since the snapshot on which the job will be admitted.
FreshInv == \A j \in MediaJobs :
  /\ \/ pc[j] \in {"chatStop", "settle", "admit", "run"}
     \/ pc[j] \in {"probe", "unload"} /\ peer[j] \in Optional
     => ~ctx[j].stale
  /\ pc[j] = "run" => ~Crowded(ctx[j].sample)

HandoffInv == TypeOK /\ HolderInv /\ PlaceInv /\ SlotInv /\ WeightsInv /\ FreshInv

----------------------------------------------------------------------------
(* Types *)

LEMMA FreshTypes == \A j \in Jobs : FreshContext(j) \in Contexts
  BY BoundsAssumption DEF FreshContext, Contexts, Samples

LEMMA InitTypes == Init => TypeOK
<1> SUFFICES ASSUME Init PROVE TypeOK
  OBVIOUS
<1>1. StageTypes
  BY DEF Init, StageTypes, Stages, Peers
<1>2. ContextTypes
  BY FreshTypes DEF Init, ContextTypes
<1>3. RecordTypes
  BY DEF Init, RecordTypes, Outcomes
<1>4. LockTypes
  BY DEF Init, LockTypes
<1>5. WeightTypes
  <2>1. chatUp \in BOOLEAN /\ imageLoaded \in BOOLEAN
    BY Zenon DEF Init
  <2>2. optional \in [Optional -> {"cold", "warm", "busy"}]
    BY DEF Init
  <2> QED
    BY <2>1, <2>2, Zenon DEF WeightTypes
<1>6. speechLeft \in 0..MaxSpeech
  BY BoundsAssumption DEF Init
<1> QED
  BY <1>1, <1>2, <1>3, <1>4, <1>5, <1>6 DEF TypeOK

LEMMA StageStep == StageTypes /\ [Next]_vars => StageTypes'
<1> SUFFICES ASSUME StageTypes, [Next]_vars PROVE StageTypes'
  OBVIOUS
<1> USE DEF StageTypes, Goto, Visit, Fail
<1>1. ASSUME NEW j \in Jobs, Submit(j) PROVE StageTypes'
  BY <1>1 DEF Submit, SubmitMedia, SubmitChat, SubmitEdit, Stages
<1>2. ASSUME NEW j \in Jobs, StartWorker(j) \/ GrantLease(j) \/ StopWaiting(j)
      PROVE  StageTypes'
  BY <1>2 DEF StartWorker, GrantLease, StopWaiting, Stages, Peers
<1>3. ASSUME NEW j \in Jobs, ReleaseLease(j) \/ Finish(j) PROVE StageTypes'
  BY <1>3 DEF ReleaseLease, Finish, Stages
<1>4. ASSUME NEW j \in Jobs, NEW r, AfterPeer(j, r) PROVE StageTypes'
  BY <1>4 DEF AfterPeer, Stages, Peers, Optional
<1>5. ASSUME NEW j \in Jobs, Probe(j) \/ Unload(j) PROVE StageTypes'
  BY <1>5, <1>4 DEF Probe, Unload, Stages
<1>6. ASSUME NEW j \in Jobs, Verify(j) PROVE StageTypes'
  BY <1>6, <1>4 DEF Verify, Stages
<1>7. ASSUME NEW j \in Jobs, Measure(j) PROVE StageTypes'
  BY <1>7 DEF Measure, Stages, Peers, Optional
<1>8. ASSUME NEW j \in Jobs, ChatStop(j) \/ Settle(j) \/ Admit(j) \/ TakeModelLock(j)
      PROVE  StageTypes'
  BY <1>8 DEF ChatStop, Settle, Admit, TakeModelLock, Stages
<1>9. ASSUME NEW j \in Jobs, Work(j) \/ RestoreChat(j) PROVE StageTypes'
  BY <1>9 DEF Work, MediaWork, ChatWork, EditWork, RestoreChat, Stages
<1>10. ASSUME NEW j \in Jobs, Cancel(j) \/ Crash(j) PROVE StageTypes'
  BY <1>10 DEF Cancel, Crash, Stages
<1>11. ASSUME NEW s \in Optional, SpeechRequest(s) \/ SpeechAnswer(s) PROVE StageTypes'
  BY <1>11 DEF SpeechRequest, SpeechAnswer
<1>12. CASE UNCHANGED vars
  BY <1>12 DEF vars
<1> QED
  BY <1>1, <1>2, <1>3, <1>5, <1>6, <1>7, <1>8, <1>9, <1>10, <1>11, <1>12 DEF Next, Advance, AllDone

LEMMA ContextStep == ContextTypes /\ [Next]_vars => ContextTypes'
<1> SUFFICES ASSUME ContextTypes, [Next]_vars PROVE ContextTypes'
  OBVIOUS
<1>1. ASSUME NEW j \in Jobs, NEW c \in Contexts, Set(j, c) PROVE ContextTypes'
  BY <1>1 DEF ContextTypes, Set
<1>2. \A j \in Jobs : ctx[j] \in Contexts
  BY DEF ContextTypes
<1>3. CASE UNCHANGED ctx
  BY <1>3 DEF ContextTypes
<1>4. ASSUME NEW j \in Jobs, Probe(j) PROVE ContextTypes'
  <2>1. /\ [ctx[j] EXCEPT !.keep = @ /\ Loaded(peer[j])] \in Contexts
        /\ [ctx[j] EXCEPT !.keep = FALSE] \in Contexts
    BY <1>2 DEF Contexts
  <2> QED
    BY <1>4, <1>1, <1>3, <2>1 DEF Probe
<1>5. ASSUME NEW j \in Jobs, Unload(j) PROVE ContextTypes'
  <2>1. [ctx[j] EXCEPT !.stale = TRUE] \in Contexts
    BY <1>2 DEF Contexts
  <2> QED
    BY <1>5, <1>1, <1>3, <2>1 DEF Unload
<1>6. ASSUME NEW j \in Jobs, Verify(j) PROVE ContextTypes'
  <2>1. /\ [ctx[j] EXCEPT !.released = TRUE] \in Contexts
        /\ \A s \in Samples : [Sampled(j, s) EXCEPT !.released = TRUE,
                                                    !.relief = NeedsRelief(s)] \in Contexts
    BY <1>2 DEF Contexts, Sampled, NeedsRelief
  <2> QED
    BY <1>6, <1>1, <1>3, <2>1 DEF Verify
<1>7. ASSUME NEW j \in Jobs, Measure(j) PROVE ContextTypes'
  <2>1. \A s \in Samples, drop \in BOOLEAN :
          [Sampled(j, s) EXCEPT !.relief = NeedsRelief(s), !.keep = @ /\ ~drop] \in Contexts
    BY <1>2 DEF Contexts, Sampled, NeedsRelief
  <2> QED
    BY <1>7, <1>1, <1>3, <2>1 DEF Measure
<1>8. ASSUME NEW j \in Jobs, ChatStop(j) PROVE ContextTypes'
  <2>1. \A s \in Samples : [Sampled(j, s) EXCEPT !.released = TRUE] \in Contexts
    BY <1>2 DEF Contexts, Sampled
  <2> QED
    BY <1>8, <1>1, <1>3, <2>1 DEF ChatStop
<1>9. ASSUME NEW j \in Jobs, Settle(j) PROVE ContextTypes'
  <2>1. MaySettle(j) => ctx[j].attempts + 1 \in 0..SettleAttempts
    BY <1>2, BoundsAssumption DEF Contexts, MaySettle
  <2>2. \A s \in Samples : Sampled(j, s) \in Contexts /\ Sampled(j, s).attempts = ctx[j].attempts
    BY <1>2 DEF Contexts, Sampled
  <2>3. MaySettle(j) => \A s \in Samples :
                          [Sampled(j, s) EXCEPT !.attempts = @ + 1] \in Contexts
    BY <2>1, <2>2 DEF Contexts
  <2> QED
    BY <1>9, <1>1, <1>3, <2>3 DEF Settle
<1>10. ASSUME NEW j \in Jobs, MediaWork(j) PROVE ContextTypes'
  <2>1. [ctx[j] EXCEPT !.suppress = TRUE] \in Contexts
    BY <1>2 DEF Contexts
  <2> QED
    BY <1>10, <1>1, <1>3, <2>1 DEF MediaWork
<1>11. ASSUME NEW j \in Jobs, ReleaseLease(j) \/ Crash(j) PROVE ContextTypes'
  BY <1>11, <1>1, FreshTypes DEF ReleaseLease, Crash
<1>12. ASSUME NEW j \in Jobs,
              \/ Submit(j) \/ StartWorker(j) \/ GrantLease(j) \/ StopWaiting(j)
              \/ Admit(j) \/ TakeModelLock(j) \/ ChatWork(j) \/ EditWork(j)
              \/ RestoreChat(j) \/ Finish(j) \/ Cancel(j)
       PROVE  UNCHANGED ctx
  BY <1>12 DEF Submit, SubmitMedia, SubmitChat, SubmitEdit, StartWorker, GrantLease, StopWaiting,
     Admit, TakeModelLock, ChatWork, EditWork, RestoreChat, Finish, Cancel
<1>13. ASSUME NEW s \in Optional, SpeechRequest(s) \/ SpeechAnswer(s) PROVE UNCHANGED ctx
  BY <1>13 DEF SpeechRequest, SpeechAnswer
<1>14. UNCHANGED vars => UNCHANGED ctx
  BY DEF vars
<1> QED
  BY <1>3, <1>4, <1>5, <1>6, <1>7, <1>8, <1>9, <1>10, <1>11, <1>12, <1>13, <1>14
     DEF Next, Advance, Work, AllDone

LEMMA RecordStep == RecordTypes /\ [Next]_vars => RecordTypes'
<1> SUFFICES ASSUME RecordTypes, [Next]_vars PROVE RecordTypes'
  OBVIOUS
<1> USE DEF RecordTypes, Outcomes, Ends, Fail
<1>1. ASSUME NEW j \in Jobs, Submit(j) \/ StartWorker(j) \/ GrantLease(j) \/ StopWaiting(j)
      PROVE  RecordTypes'
  BY <1>1 DEF Submit, SubmitMedia, SubmitChat, SubmitEdit, StartWorker, GrantLease, StopWaiting
<1>2. ASSUME NEW j \in Jobs, ReleaseLease(j) \/ Finish(j) \/ Probe(j) \/ Unload(j)
      PROVE  RecordTypes'
  BY <1>2 DEF ReleaseLease, Finish, Probe, Unload
<1>3. ASSUME NEW j \in Jobs, Verify(j) \/ Measure(j) \/ ChatStop(j) \/ Settle(j)
      PROVE  RecordTypes'
  BY <1>3 DEF Verify, Measure, ChatStop, Settle
<1>4. ASSUME NEW j \in Jobs, Admit(j) \/ TakeModelLock(j) \/ Work(j) \/ RestoreChat(j)
      PROVE  RecordTypes'
  BY <1>4 DEF Admit, TakeModelLock, Work, MediaWork, ChatWork, EditWork, RestoreChat
<1>5. ASSUME NEW j \in Jobs, Cancel(j) \/ Crash(j) PROVE RecordTypes'
  BY <1>5 DEF Cancel, Crash
<1>6. ASSUME NEW s \in Optional, SpeechRequest(s) \/ SpeechAnswer(s) PROVE RecordTypes'
  BY <1>6 DEF SpeechRequest, SpeechAnswer
<1>7. CASE UNCHANGED vars
  BY <1>7 DEF vars
<1> QED
  BY <1>1, <1>2, <1>3, <1>4, <1>5, <1>6, <1>7 DEF Next, Advance, AllDone

LEMMA LockStep == LockTypes /\ [Next]_vars => LockTypes'
<1> SUFFICES ASSUME LockTypes, [Next]_vars PROVE LockTypes'
  OBVIOUS
<1> USE DEF LockTypes, locks
<1>1. ASSUME NEW j \in Jobs, Submit(j) \/ GrantLease(j) \/ ReleaseLease(j) \/ Finish(j) \/ Crash(j)
      PROVE  LockTypes'
  BY <1>1 DEF Submit, SubmitMedia, SubmitChat, SubmitEdit, GrantLease, ReleaseLease, Finish, Crash
<1>2. ASSUME NEW j \in Jobs, TakeModelLock(j) \/ Work(j) PROVE LockTypes'
  BY <1>2 DEF TakeModelLock, Work, MediaWork, ChatWork, EditWork
<1>3. ASSUME NEW j \in Jobs, \/ StartWorker(j) \/ StopWaiting(j) \/ Probe(j) \/ Unload(j)
                             \/ Verify(j) \/ Measure(j) \/ ChatStop(j) \/ Settle(j)
                             \/ Admit(j) \/ RestoreChat(j) \/ Cancel(j)
      PROVE  UNCHANGED locks
  BY <1>3 DEF StartWorker, StopWaiting, Probe, Unload, Verify, Measure, ChatStop, Settle, Admit,
     RestoreChat, Cancel
<1>4. ASSUME NEW s \in Optional, SpeechRequest(s) \/ SpeechAnswer(s) PROVE UNCHANGED locks
  BY <1>4 DEF SpeechRequest, SpeechAnswer
<1>5. UNCHANGED vars => UNCHANGED locks
  BY DEF vars
<1>6. CASE UNCHANGED locks
  BY <1>6
<1> QED
  BY <1>1, <1>2, <1>3, <1>4, <1>5, <1>6 DEF Next, Advance, AllDone

LEMMA WeightStep == WeightTypes /\ [Next]_vars => WeightTypes'
<1> SUFFICES ASSUME WeightTypes, [Next]_vars PROVE WeightTypes'
  OBVIOUS
<1> USE DEF WeightTypes, weights, Fail
<1>1. ASSUME NEW j \in Jobs, SubmitEdit(j) \/ Unload(j) \/ ChatStop(j) \/ Admit(j)
      PROVE  WeightTypes'
  BY <1>1 DEF SubmitEdit, Unload, ChatStop, Admit
<1>2. ASSUME NEW j \in Jobs, Work(j) \/ RestoreChat(j) \/ Crash(j) PROVE WeightTypes'
  BY <1>2 DEF Work, MediaWork, ChatWork, EditWork, RestoreChat, Crash
<1>3. ASSUME NEW s \in Optional, SpeechRequest(s) \/ SpeechAnswer(s) PROVE WeightTypes'
  BY <1>3 DEF SpeechRequest, SpeechAnswer
<1>4. ASSUME NEW j \in Jobs, \/ SubmitMedia(j) \/ SubmitChat(j) \/ StartWorker(j) \/ GrantLease(j)
                             \/ StopWaiting(j) \/ ReleaseLease(j) \/ Finish(j) \/ Probe(j)
                             \/ Verify(j) \/ Measure(j) \/ Settle(j) \/ TakeModelLock(j)
                             \/ Cancel(j)
      PROVE  UNCHANGED weights
  BY <1>4 DEF SubmitMedia, SubmitChat, StartWorker, GrantLease, StopWaiting, ReleaseLease, Finish,
     Probe, Verify, Measure, Settle, TakeModelLock, Cancel
<1>5. UNCHANGED vars => UNCHANGED weights
  BY DEF vars
<1>6. CASE UNCHANGED weights
  BY <1>6
<1> QED
  BY <1>1, <1>2, <1>3, <1>4, <1>5, <1>6 DEF Next, Submit, Advance, AllDone

LEMMA SpeechStep == speechLeft \in 0..MaxSpeech /\ [Next]_vars => speechLeft' \in 0..MaxSpeech
<1> SUFFICES ASSUME speechLeft \in 0..MaxSpeech, [Next]_vars PROVE speechLeft' \in 0..MaxSpeech
  OBVIOUS
<1>1. ASSUME NEW s \in Optional, SpeechRequest(s) PROVE speechLeft' \in 0..MaxSpeech
  BY <1>1, BoundsAssumption DEF SpeechRequest
<1>2. ASSUME NEW s \in Optional, SpeechAnswer(s) PROVE UNCHANGED speechLeft
  BY <1>2 DEF SpeechAnswer, world
<1>3. ASSUME NEW j \in Jobs, \/ SubmitMedia(j) \/ SubmitChat(j) \/ SubmitEdit(j) \/ StartWorker(j)
                             \/ GrantLease(j) \/ StopWaiting(j) \/ ReleaseLease(j) \/ Finish(j)
                             \/ Probe(j) \/ Unload(j) \/ Verify(j) \/ Measure(j)
      PROVE  UNCHANGED speechLeft
  BY <1>3 DEF SubmitMedia, SubmitChat, SubmitEdit, StartWorker, GrantLease, StopWaiting,
     ReleaseLease, Finish, Probe, Unload, Verify, Measure, world
<1>4. ASSUME NEW j \in Jobs, \/ ChatStop(j) \/ Settle(j) \/ Admit(j) \/ TakeModelLock(j)
                             \/ Work(j) \/ RestoreChat(j) \/ Cancel(j) \/ Crash(j)
      PROVE  UNCHANGED speechLeft
  BY <1>4 DEF ChatStop, Settle, Admit, TakeModelLock, Work, MediaWork, ChatWork, EditWork,
     RestoreChat, Cancel, Crash, world
<1>5. UNCHANGED vars => UNCHANGED speechLeft
  BY DEF vars, world
<1> QED
  BY <1>1, <1>2, <1>3, <1>4, <1>5 DEF Next, Submit, Advance, AllDone

LEMMA TypeStep == TypeOK /\ [Next]_vars => TypeOK'
  BY StageStep, ContextStep, RecordStep, LockStep, WeightStep, SpeechStep DEF TypeOK

----------------------------------------------------------------------------
(* The stages of the jobs and the lease *)

LEMMA InitInv == Init => HandoffInv
<1> SUFFICES ASSUME Init PROVE HandoffInv
  OBVIOUS
<1>1. \A j \in Jobs : pc[j] = "idle" /\ ~cancelled[j]
  BY Zenon DEF Init
<1>2. holder = NoJob
  BY DEF Init
<1>3. PlaceInv /\ SlotInv /\ WeightsInv /\ FreshInv
  BY <1>1 DEF PlaceInv, SlotInv, WeightsInv, FreshInv, Releasing, Jobs, MediaJobs
<1>4. HolderInv
  BY <1>1, <1>2, JobsAssumption DEF HolderInv, InLease, HandoffStages
<1> QED
  BY <1>3, <1>4, InitTypes DEF HandoffInv

LEMMA AfterPeerCases ==
  ASSUME StageTypes, NEW j \in Jobs, j \notin EditJobs, peer[j] = "video" => j \in ImageJobs,
         NEW r, AfterPeer(j, r)
  PROVE  \/ j \in MediaJobs /\ peer[j] \notin Optional /\ Goto(j, "measure") /\ UNCHANGED peer
         \/ j \in MediaJobs /\ peer[j] \in Optional /\ Goto(j, "chatStop") /\ UNCHANGED peer
         \/ j \notin MediaJobs /\ Visit(j, "speech")
         \/ peer[j] = "speech" /\ Visit(j, "musetalk")
         \/ j \in EnsureJobs /\ Goto(j, "release") /\ UNCHANGED peer
         \/ j \in ChatJobs /\ Goto(j, "modelLock") /\ UNCHANGED peer
<1>1. peer[j] \in Peers
  BY DEF StageTypes
<1>2. j \in MediaJobs \/ j \in ChatJobs \/ j \in EnsureJobs
  BY DEF Jobs, MediaJobs
<1>3. CASE j \in MediaJobs
  BY <1>1, <1>3, KindsAssumption DEF AfterPeer, Peers, Optional
<1>4. CASE j \in ChatJobs
  BY <1>1, <1>4, KindsAssumption DEF AfterPeer, Peers, Optional, MediaJobs
<1>5. CASE j \in EnsureJobs
  BY <1>1, <1>5, KindsAssumption DEF AfterPeer, Peers, Optional, MediaJobs
<1> QED
  BY <1>2, <1>3, <1>4, <1>5

LEMMA PlaceStep == StageTypes /\ PlaceInv /\ [Next]_vars => PlaceInv'
<1> SUFFICES ASSUME StageTypes, PlaceInv, [Next]_vars PROVE PlaceInv'
  OBVIOUS
<1> USE DEF PlaceInv, Releasing, Goto, StageTypes
<1>1. ASSUME NEW j \in Jobs, Submit(j) PROVE PlaceInv'
  BY <1>1, KindsAssumption DEF Submit, SubmitMedia, SubmitChat, SubmitEdit, MediaJobs
<1>2. ASSUME NEW j \in Jobs, StartWorker(j) \/ StopWaiting(j) PROVE PlaceInv'
  BY <1>2, KindsAssumption DEF StartWorker, StopWaiting, MediaJobs
<1>3. ASSUME NEW j \in Jobs, GrantLease(j) PROVE PlaceInv'
  BY <1>3, KindsAssumption DEF GrantLease, Visit
<1>4. ASSUME NEW j \in Jobs, ReleaseLease(j) \/ Finish(j) PROVE PlaceInv'
  BY <1>4, KindsAssumption DEF ReleaseLease, Finish, MediaJobs
<1>5. ASSUME NEW j \in Jobs, NEW r, AfterPeer(j, r), pc[j] \in Releasing, UNCHANGED cancelled
      PROVE  PlaceInv'
  BY <1>5, AfterPeerCases, KindsAssumption DEF Visit, MediaJobs
<1>6. ASSUME NEW j \in Jobs, Fail(j, "ended") \/ Fail(j, "offline") \/ Fail(j, "stopFailed"),
             pc[j] \notin {"idle", "run", "finish", "done"}, UNCHANGED cancelled
      PROVE  PlaceInv'
  BY <1>6 DEF Fail
<1>7. ASSUME NEW j \in Jobs, Probe(j) PROVE PlaceInv'
  BY <1>7, <1>5, <1>6 DEF Probe
<1>8. ASSUME NEW j \in Jobs, Unload(j) PROVE PlaceInv'
  BY <1>8, <1>6 DEF Unload
<1>9. ASSUME NEW j \in Jobs, Verify(j) PROVE PlaceInv'
  BY <1>9, <1>5, <1>6 DEF Verify
<1>10. ASSUME NEW j \in Jobs, Measure(j) PROVE PlaceInv'
  BY <1>10, <1>6, KindsAssumption DEF Measure, Visit, MediaJobs
<1>11. ASSUME NEW j \in Jobs, ChatStop(j) \/ Settle(j) PROVE PlaceInv'
  BY <1>11, <1>6 DEF ChatStop, Settle
<1>12. ASSUME NEW j \in Jobs, Admit(j) \/ RestoreChat(j) PROVE PlaceInv'
  BY <1>12, KindsAssumption DEF Admit, RestoreChat, MediaJobs
<1>13. ASSUME NEW j \in Jobs, TakeModelLock(j) PROVE PlaceInv'
  BY <1>13, <1>6, KindsAssumption DEF TakeModelLock, MediaJobs
<1>14. ASSUME NEW j \in Jobs, Work(j) PROVE PlaceInv'
  BY <1>14, KindsAssumption DEF Work, MediaWork, ChatWork, EditWork, MediaJobs
<1>15. ASSUME NEW j \in Jobs, Cancel(j) \/ Crash(j) PROVE PlaceInv'
  <2>1. CASE Cancel(j)
    BY <1>15, <2>1 DEF Cancel, Coordinated
  <2>2. CASE Crash(j)
    BY <2>2 DEF Crash
  <2> QED
    BY <1>15, <2>1, <2>2
<1>16. ASSUME NEW s \in Optional, SpeechRequest(s) \/ SpeechAnswer(s) PROVE PlaceInv'
  BY <1>16 DEF SpeechRequest, SpeechAnswer
<1>17. CASE UNCHANGED vars
  BY <1>17 DEF vars
<1> QED
  BY <1>1, <1>2, <1>3, <1>4, <1>7, <1>8, <1>9, <1>10, <1>11, <1>12, <1>13, <1>14, <1>15, <1>16,
     <1>17 DEF Next, Advance, AllDone

\* A step in the lease leaves it to the job.
Inside(j) == /\ UNCHANGED holder
             /\ \E st : Goto(j, st)
             /\ InLease(j) /\ InLease(j)'

\* A step outside the lease neither enters nor leaves it.
Outside(j) == /\ UNCHANGED holder
              /\ \E st : Goto(j, st)
              /\ ~InLease(j) /\ ~InLease(j)'

LEMMA HolderStep == StageTypes /\ PlaceInv /\ HolderInv /\ [Next]_vars => HolderInv'
<1> SUFFICES ASSUME StageTypes, PlaceInv, HolderInv, [Next]_vars PROVE HolderInv'
  OBVIOUS
<1>1. ASSUME NEW j \in Jobs, Inside(j) \/ Outside(j) PROVE HolderInv'
  BY <1>1 DEF HolderInv, Inside, Outside, InLease, Goto, StageTypes
<1>2. CASE UNCHANGED <<pc, holder>>
  BY <1>2 DEF HolderInv, InLease
<1>3. ASSUME NEW j \in Jobs, GrantLease(j) PROVE HolderInv'
  BY <1>3, JobsAssumption DEF HolderInv, GrantLease, LeaseFree, InLease, HandoffStages, Goto, Visit,
     StageTypes
<1>4. ASSUME NEW j \in Jobs, ReleaseLease(j) PROVE HolderInv'
  BY <1>4, JobsAssumption, KindsAssumption DEF HolderInv, ReleaseLease, InLease, HandoffStages, Goto,
     StageTypes, Coordinated
<1>5. ASSUME NEW j \in Jobs, Crash(j) PROVE HolderInv'
  BY <1>5, JobsAssumption DEF HolderInv, Crash, InLease, HandoffStages, Goto, StageTypes
<1> USE DEF InLease, HandoffStages, Coordinated, Goto, StageTypes
<1>6. ASSUME NEW j \in Jobs, Submit(j) PROVE Outside(j)
  <2>1. CASE SubmitMedia(j) \/ SubmitChat(j)
    BY <2>1 DEF SubmitMedia, SubmitChat, Outside, locks
  <2>2. CASE SubmitEdit(j)
    <3>1. j \notin MediaJobs \cup ChatJobs
      BY <2>2, KindsAssumption DEF SubmitEdit
    <3> QED
      BY <2>2, <3>1 DEF SubmitEdit, Outside
  <2> QED
    BY <1>6, <2>1, <2>2 DEF Submit
<1>7. ASSUME NEW j \in Jobs, StartWorker(j) \/ StopWaiting(j) \/ Finish(j) PROVE Outside(j)
  BY <1>7 DEF StartWorker, StopWaiting, Finish, Outside, locks
<1>8. ASSUME NEW j \in Jobs, NEW r, AfterPeer(j, r), pc[j] \in Releasing, UNCHANGED holder
      PROVE  Inside(j)
  <2>1. j \notin EditJobs /\ (peer[j] = "video" => j \in ImageJobs)
    BY <1>8 DEF PlaceInv, Releasing
  <2> QED
    BY <1>8, <2>1, AfterPeerCases DEF Inside, Releasing, Visit
<1>9. ASSUME NEW j \in Jobs, Fail(j, "ended") \/ Fail(j, "offline") \/ Fail(j, "stopFailed"),
             InLease(j), UNCHANGED holder
      PROVE  Inside(j)
  BY <1>9 DEF Inside, Fail
<1>10. ASSUME NEW j \in Jobs, Probe(j) PROVE Inside(j)
  <2>1. InLease(j) /\ UNCHANGED holder /\ pc[j] \in Releasing
    BY <1>10 DEF Probe, locks, Releasing
  <2>2. Goto(j, "unload") => Inside(j)
    BY <2>1 DEF Inside
  <2> HIDE DEF InLease, HandoffStages, Coordinated, Goto, StageTypes
  <2> QED
    BY <1>10, <1>8, <1>9, <2>1, <2>2 DEF Probe
<1>11. ASSUME NEW j \in Jobs, Unload(j) PROVE Inside(j)
  BY <1>11 DEF Unload, Inside, locks, Fail
<1>12. ASSUME NEW j \in Jobs, Verify(j) PROVE Inside(j)
  <2>1. InLease(j) /\ UNCHANGED holder /\ pc[j] \in Releasing
    BY <1>12 DEF Verify, locks, Releasing
  <2> HIDE DEF InLease, HandoffStages, Coordinated, Goto, StageTypes
  <2> QED
    BY <1>12, <1>8, <1>9, <2>1 DEF Verify
<1>13. ASSUME NEW j \in Jobs, Measure(j) PROVE Inside(j)
  BY <1>13 DEF Measure, Inside, locks, Fail, Visit
<1>14. ASSUME NEW j \in Jobs, ChatStop(j) \/ Settle(j) PROVE \/ Inside(j)
                                                             \/ UNCHANGED <<pc, holder>>
  BY <1>14 DEF ChatStop, Settle, Inside, locks, Fail
<1>15. ASSUME NEW j \in Jobs, Admit(j) \/ RestoreChat(j) PROVE Inside(j)
  BY <1>15 DEF Admit, RestoreChat, Inside, locks, PlaceInv
<1>16. ASSUME NEW j \in Jobs, TakeModelLock(j) PROVE Inside(j) \/ Outside(j)
  <2>1. CASE j \in Coordinated
    BY <1>16, <2>1 DEF TakeModelLock, Inside, Fail
  <2>2. CASE j \notin Coordinated
    BY <1>16, <2>2 DEF TakeModelLock, Outside, PlaceInv
  <2> QED
    BY <2>1, <2>2
<1>17. ASSUME NEW j \in Jobs, MediaWork(j) PROVE Inside(j)
  BY <1>17 DEF MediaWork, Inside, locks
<1>18. ASSUME NEW j \in Jobs, ChatWork(j) PROVE Inside(j) \/ Outside(j) \/ UNCHANGED <<pc, holder>>
  BY <1>18, KindsAssumption DEF ChatWork, Inside, Outside, MediaJobs
<1>19. ASSUME NEW j \in Jobs, EditWork(j) PROVE Outside(j)
  BY <1>19, KindsAssumption DEF EditWork, Outside, locks, MediaJobs
<1>20. ASSUME NEW j \in Jobs, Cancel(j) PROVE UNCHANGED <<pc, holder>>
  BY <1>20 DEF Cancel, locks
<1>21. ASSUME NEW s \in Optional, SpeechRequest(s) \/ SpeechAnswer(s) PROVE UNCHANGED <<pc, holder>>
  BY <1>21 DEF SpeechRequest, SpeechAnswer, locks
<1>22. UNCHANGED vars => UNCHANGED <<pc, holder>>
  BY DEF vars, locks
<1> QED
  BY <1>1, <1>2, <1>3, <1>4, <1>5, <1>6, <1>7, <1>10, <1>11, <1>12, <1>13, <1>14, <1>15, <1>16,
     <1>17, <1>18, <1>19, <1>20, <1>21, <1>22 DEF Next, Advance, Work, AllDone

----------------------------------------------------------------------------
(* The slots of the services and their weights *)

LEMMA ServiceTypes == \A j \in Jobs : ServiceOf(j) \in {"image", "video"}
  BY DEF ServiceOf

LEMMA SlotStep == TypeOK /\ PlaceInv /\ SlotInv /\ [Next]_vars => SlotInv'
<1> SUFFICES ASSUME TypeOK, PlaceInv, SlotInv, [Next]_vars PROVE SlotInv'
  OBVIOUS
<1> USE DEF Goto, TypeOK, StageTypes, LockTypes
<1>1. MediaJobs \cup EditJobs \subseteq Jobs
  BY DEF Jobs, MediaJobs
<1>2. ASSUME NEW j \in Jobs, UNCHANGED slot, pc[j] \notin {"idle", "done"},
             \E st : Goto(j, st)
      PROVE  SlotInv'
  BY <1>1, <1>2 DEF SlotInv, ServiceOf
<1>3. ASSUME NEW j \in Jobs, SubmitMedia(j) \/ SubmitEdit(j) PROVE SlotInv'
  BY <1>1, <1>3, JobsAssumption, ServiceTypes, KindsAssumption
     DEF SlotInv, SubmitMedia, SubmitEdit, ServiceOf, MediaJobs
<1>4. ASSUME NEW j \in Jobs, SubmitChat(j) PROVE SlotInv'
  BY <1>1, <1>4, KindsAssumption DEF SlotInv, SubmitChat, ServiceOf, locks
<1>5. ASSUME NEW j \in Jobs, Finish(j) \/ Crash(j) PROVE SlotInv'
  BY <1>1, <1>5, ServiceTypes DEF SlotInv, PlaceInv, Finish, Crash, ServiceOf
<1>6. CASE UNCHANGED <<pc, slot>>
  BY <1>6 DEF SlotInv, ServiceOf
<1> HIDE DEF Goto, TypeOK, StageTypes, LockTypes
<1>7. ASSUME NEW j \in Jobs, NEW r, AfterPeer(j, r) PROVE \E st : Goto(j, st)
  BY <1>7 DEF AfterPeer, Visit
<1>8. ASSUME NEW j \in Jobs, Probe(j) \/ Verify(j) PROVE \E st : Goto(j, st)
  BY <1>7, <1>8 DEF Probe, Verify, Fail
<1>9. ASSUME NEW j \in Jobs, Probe(j) \/ Verify(j) PROVE SlotInv'
  BY <1>2, <1>8, <1>9 DEF Probe, Verify, locks
<1>10. ASSUME NEW j \in Jobs, StartWorker(j) \/ GrantLease(j) \/ StopWaiting(j) \/ ReleaseLease(j)
       PROVE  SlotInv'
  BY <1>2, <1>10 DEF StartWorker, GrantLease, StopWaiting, ReleaseLease, Visit, locks
<1>11. ASSUME NEW j \in Jobs, Unload(j) \/ Measure(j) PROVE SlotInv'
  BY <1>2, <1>11 DEF Unload, Measure, Visit, Fail, locks
<1>12. ASSUME NEW j \in Jobs, ChatStop(j) \/ Settle(j) PROVE SlotInv'
  BY <1>2, <1>6, <1>12 DEF ChatStop, Settle, Fail, locks
<1>13. ASSUME NEW j \in Jobs, Admit(j) \/ TakeModelLock(j) \/ RestoreChat(j) PROVE SlotInv'
  BY <1>2, <1>13 DEF Admit, TakeModelLock, RestoreChat, Fail, locks
<1>14. ASSUME NEW j \in Jobs, Work(j) PROVE SlotInv'
  BY <1>2, <1>6, <1>14 DEF Work, MediaWork, ChatWork, EditWork, locks
<1>15. ASSUME NEW j \in Jobs, Cancel(j) PROVE UNCHANGED <<pc, slot>>
  BY <1>15 DEF Cancel, locks
<1>16. ASSUME NEW s \in Optional, SpeechRequest(s) \/ SpeechAnswer(s) PROVE UNCHANGED <<pc, slot>>
  BY <1>16 DEF SpeechRequest, SpeechAnswer, locks
<1>17. UNCHANGED vars => UNCHANGED <<pc, slot>>
  BY DEF vars, locks
<1> QED
  BY <1>3, <1>4, <1>5, <1>6, <1>9, <1>10, <1>11, <1>12, <1>13, <1>14, <1>15, <1>16, <1>17
     DEF Next, Submit, Advance, AllDone

LEMMA WeightsStep == HandoffInv /\ [Next]_vars => WeightsInv'
<1> SUFFICES ASSUME HandoffInv, [Next]_vars PROVE WeightsInv'
  OBVIOUS
<1>1. StageTypes /\ LockTypes /\ PlaceInv /\ SlotInv /\ WeightsInv
  BY DEF HandoffInv, TypeOK
<1>2. ASSUME NEW j \in Jobs, NEW st, Goto(j, st),
             st # "run" \/ j \notin ImageJobs \cup EditJobs,
             imageLoaded => imageLoaded'
      PROVE  WeightsInv'
  BY <1>1, <1>2 DEF WeightsInv, Goto, StageTypes
<1>3. ImageJobs \cup EditJobs \subseteq Jobs \ {NoJob}
  BY JobsAssumption DEF Jobs
\* One job computes on the image service at a time.
<1>4. ASSUME NEW j \in ImageJobs \cup EditJobs, pc[j] \notin {"idle", "done"},
             NEW k \in ImageJobs \cup EditJobs, pc[k] = "run"
      PROVE  j = k
  BY <1>1, <1>4, KindsAssumption DEF SlotInv, ServiceOf, MediaJobs
<1>5. ASSUME NEW j \in Jobs, Unload(j) PROVE WeightsInv'
  <2>1. CASE UNCHANGED imageLoaded
    BY <1>2, <1>5, <2>1 DEF Unload, Fail
  <2>2. CASE slot["image"] = NoJob
    <3>1. \A k \in ImageJobs \cup EditJobs : pc[k] # "run"
      BY <1>1, <1>3, <2>2, KindsAssumption DEF SlotInv, ServiceOf, MediaJobs
    <3>2. ASSUME NEW st, st # "run", Goto(j, st) PROVE WeightsInv'
      BY <1>1, <3>1, <3>2 DEF WeightsInv, Goto, StageTypes
    <3> QED
      BY <1>5, <3>2 DEF Unload, Fail
  <2> QED
    BY <1>5, <2>1, <2>2 DEF Unload, UnloadConflict, weights
<1>6. ASSUME NEW j \in Jobs, NEW st \in {"restore", "finish", "done"}, Goto(j, st),
             pc[j] \notin {"idle", "done"}, j \in ImageJobs \cup EditJobs
      PROVE  WeightsInv'
  BY <1>1, <1>4, <1>6 DEF WeightsInv, Goto, StageTypes
<1>7. ASSUME NEW j \in Jobs, MediaWork(j) PROVE WeightsInv'
  <2>1. CASE j \in ImageJobs
    BY <1>6, <1>7, <2>1 DEF MediaWork
  <2>2. CASE j \notin ImageJobs
    BY <1>2, <1>7, <2>2, JobsAssumption DEF MediaWork
  <2> QED
    BY <2>1, <2>2
<1>8. ASSUME NEW j \in Jobs, EditWork(j) PROVE WeightsInv'
  BY <1>6, <1>8 DEF EditWork
<1>9. ASSUME NEW j \in Jobs, Crash(j) PROVE WeightsInv'
  <2>1. CASE j \in ImageJobs
    BY <1>6, <1>9, <2>1 DEF Crash
  <2>2. CASE j \notin ImageJobs
    BY <1>2, <1>9, <2>2 DEF Crash
  <2> QED
    BY <2>1, <2>2
<1>10. ASSUME NEW j \in Jobs, Admit(j) PROVE WeightsInv'
  <2>1. j \notin EditJobs
    BY <1>1, <1>10 DEF Admit, PlaceInv
  <2>2. CASE Goto(j, "restore") /\ UNCHANGED imageLoaded
    BY <1>2, <2>2
  <2>3. CASE Goto(j, "run") /\ imageLoaded' = (imageLoaded \/ j \in ImageJobs)
    <3>1. CASE j \in ImageJobs
      BY <2>3, <3>1 DEF WeightsInv
    <3>2. CASE j \notin ImageJobs
      BY <1>2, <2>1, <2>3, <3>2
    <3> QED
      BY <3>1, <3>2
  <2> QED
    BY <1>10, <2>2, <2>3 DEF Admit
<1>11. ASSUME NEW j \in Jobs, SubmitEdit(j) PROVE WeightsInv'
  BY <1>11 DEF SubmitEdit, WeightsInv
<1>12. CASE UNCHANGED <<pc, imageLoaded>>
  BY <1>1, <1>12 DEF WeightsInv
<1>13. ASSUME NEW j \in Jobs, SubmitMedia(j) \/ SubmitChat(j) \/ StartWorker(j) \/ GrantLease(j)
       PROVE  WeightsInv'
  BY <1>2, <1>13 DEF SubmitMedia, SubmitChat, StartWorker, GrantLease, Visit, weights
<1>14. ASSUME NEW j \in Jobs, StopWaiting(j) \/ ReleaseLease(j) \/ Finish(j) PROVE WeightsInv'
  BY <1>2, <1>14 DEF StopWaiting, ReleaseLease, Finish, weights
<1>15. ASSUME NEW j \in Jobs, NEW r, AfterPeer(j, r), UNCHANGED imageLoaded PROVE WeightsInv'
  BY <1>2, <1>15 DEF AfterPeer, Visit
<1>16. ASSUME NEW j \in Jobs, Probe(j) \/ Verify(j) PROVE WeightsInv'
  <2>1. UNCHANGED imageLoaded
    BY <1>16 DEF Probe, Verify, weights
  <2>2. CASE Probe(j)
    BY <1>2, <1>15, <2>1, <2>2 DEF Probe, Fail
  <2>3. CASE Verify(j)
    BY <1>2, <1>15, <2>1, <2>3 DEF Verify, Fail
  <2> QED
    BY <1>16, <2>2, <2>3
<1>17. ASSUME NEW j \in Jobs, Measure(j) PROVE WeightsInv'
  BY <1>2, <1>17 DEF Measure, Fail, Visit, weights
<1>18. ASSUME NEW j \in Jobs, ChatStop(j) \/ Settle(j) PROVE WeightsInv'
  BY <1>2, <1>12, <1>18 DEF ChatStop, Settle, Fail, weights
<1>19. ASSUME NEW j \in Jobs, TakeModelLock(j) PROVE WeightsInv'
  <2>1. j \notin ImageJobs \cup EditJobs
    BY <1>1, <1>19, KindsAssumption DEF TakeModelLock, PlaceInv, MediaJobs
  <2> QED
    BY <1>2, <1>19, <2>1 DEF TakeModelLock, Fail, weights
<1>20. ASSUME NEW j \in Jobs, ChatWork(j) \/ RestoreChat(j) PROVE WeightsInv'
  BY <1>2, <1>12, <1>20 DEF ChatWork, RestoreChat
<1>21. ASSUME NEW j \in Jobs, Cancel(j) PROVE UNCHANGED <<pc, imageLoaded>>
  BY <1>21 DEF Cancel, weights
<1>22. ASSUME NEW s \in Optional, SpeechRequest(s) \/ SpeechAnswer(s)
       PROVE  UNCHANGED <<pc, imageLoaded>>
  BY <1>22 DEF SpeechRequest, SpeechAnswer
<1>23. UNCHANGED vars => UNCHANGED <<pc, imageLoaded>>
  BY DEF vars, weights
<1> QED
  BY <1>5, <1>7, <1>8, <1>9, <1>10, <1>11, <1>12, <1>13, <1>14, <1>16, <1>17, <1>18, <1>19, <1>20,
     <1>21, <1>22, <1>23 DEF Next, Submit, Advance, Work, AllDone

----------------------------------------------------------------------------
(* The snapshots *)

\* A stage in which the snapshot of a media job is fresh if its peer is p.
Fresh(st, p) == \/ st \in {"chatStop", "settle", "admit", "run"}
                \/ st \in {"probe", "unload"} /\ p \in Optional

LEMMA FreshStep == HandoffInv /\ [Next]_vars => FreshInv'
<1> SUFFICES ASSUME HandoffInv, [Next]_vars PROVE FreshInv'
  OBVIOUS
<1>1. StageTypes /\ ContextTypes /\ PlaceInv /\ FreshInv
  BY DEF HandoffInv, TypeOK
<1> USE DEF Goto, Set
\* A step that leads to a stage in which nothing is claimed.
<1>2. ASSUME NEW j \in Jobs, NEW st, Goto(j, st), ~Fresh(st, peer'[j]),
             \A k \in Jobs \ {j} : ctx'[k] = ctx[k] /\ peer'[k] = peer[k]
      PROVE  FreshInv'
  BY <1>1, <1>2 DEF FreshInv, Fresh, StageTypes, Jobs, MediaJobs
\* A step that keeps a fresh snapshot.
<1>3. ASSUME NEW j \in Jobs, NEW st, Goto(j, st), st # "run",
             j \in MediaJobs => ~ctx'[j].stale,
             \A k \in Jobs \ {j} : ctx'[k] = ctx[k] /\ peer'[k] = peer[k]
      PROVE  FreshInv'
  BY <1>1, <1>3 DEF FreshInv, Fresh, StageTypes, Jobs, MediaJobs
<1>4. CASE UNCHANGED <<pc, peer, ctx>>
  BY <1>1, <1>4 DEF FreshInv
<1>5. ASSUME NEW j \in Jobs, UNCHANGED ctx \/ \E c : Set(j, c),
             UNCHANGED peer \/ \E p : peer' = [peer EXCEPT ![j] = p]
      PROVE  \A k \in Jobs \ {j} : ctx'[k] = ctx[k] /\ peer'[k] = peer[k]
  BY <1>1, <1>5 DEF ContextTypes, StageTypes
<1>6. ASSUME NEW j \in Jobs, j \notin MediaJobs, UNCHANGED pc \/ \E st : Goto(j, st),
             \A k \in Jobs \ {j} : ctx'[k] = ctx[k] /\ peer'[k] = peer[k]
      PROVE  FreshInv'
  BY <1>1, <1>6 DEF FreshInv, StageTypes, Jobs, MediaJobs
<1>7. ASSUME NEW j \in Jobs, NEW s \in Samples
      PROVE  Sampled(j, s) \in Contexts /\ ~Sampled(j, s).stale
  BY <1>1 DEF ContextTypes, Contexts, Sampled
<1>8. \A j \in Jobs : \A c : Set(j, c) => ctx'[j] = c
  BY <1>1 DEF ContextTypes
<1>9. \A j \in MediaJobs : j \in Jobs /\ j \notin ChatJobs \cup EnsureJobs \cup EditJobs
  BY KindsAssumption DEF Jobs, MediaJobs
<1> HIDE DEF Set, Goto
<1>10. ASSUME NEW j \in Jobs, SubmitMedia(j) \/ SubmitChat(j) \/ StartWorker(j) \/ StopWaiting(j)
       PROVE  FreshInv'
  BY <1>2, <1>5, <1>10 DEF SubmitMedia, SubmitChat, StartWorker, StopWaiting, Fresh
<1>11. ASSUME NEW j \in Jobs, GrantLease(j) PROVE FreshInv'
  <2>1. peer'[j] \notin Optional
    BY <1>1, <1>11 DEF GrantLease, Visit, StageTypes, Optional
  <2> QED
    BY <1>2, <1>5, <1>11, <2>1 DEF GrantLease, Visit, Fresh
<1>12. ASSUME NEW j \in Jobs, ReleaseLease(j) \/ Finish(j) \/ Crash(j) PROVE FreshInv'
  BY <1>2, <1>5, <1>12 DEF ReleaseLease, Finish, Crash, Fresh
<1>13. ASSUME NEW j \in Jobs, Cancel(j) PROVE FreshInv'
  BY <1>4, <1>13 DEF Cancel
<1>14. ASSUME NEW j \in Jobs, SubmitEdit(j) \/ TakeModelLock(j) \/ ChatWork(j) \/ EditWork(j)
       PROVE  FreshInv'
  <2>1. j \notin MediaJobs
    BY <1>1, <1>9, <1>14 DEF SubmitEdit, TakeModelLock, ChatWork, EditWork, PlaceInv
  <2> QED
    BY <1>5, <1>6, <1>14, <2>1 DEF SubmitEdit, TakeModelLock, ChatWork, EditWork, Fail
<1>15. ASSUME NEW j \in Jobs, MediaWork(j) \/ RestoreChat(j) PROVE FreshInv'
  BY <1>2, <1>5, <1>15 DEF MediaWork, RestoreChat, Fresh
<1>16. ASSUME NEW j \in Jobs, NEW how, Fail(j, how), UNCHANGED ctx PROVE FreshInv'
  BY <1>2, <1>5, <1>16 DEF Fail, Fresh
<1>17. ASSUME NEW j \in Jobs, Unload(j) PROVE FreshInv'
  BY <1>2, <1>5, <1>16, <1>17 DEF Unload, Fresh
<1>18. ASSUME NEW j \in Jobs, Admit(j) PROVE FreshInv'
  <2>1. CASE Goto(j, "restore")
    BY <1>2, <1>5, <1>18, <2>1 DEF Admit, Fresh
  <2>2. CASE Goto(j, "run") /\ ~Crowded(ctx[j].sample)
    BY <1>1, <1>18, <2>2 DEF Admit, FreshInv, Goto, StageTypes
  <2> QED
    BY <1>18, <2>1, <2>2 DEF Admit
\* The order of the peers: a fresh snapshot stays fresh, image weights lead to a
\* new one.
<1>19. ASSUME NEW j \in Jobs, NEW r, AfterPeer(j, r), UNCHANGED ctx \/ \E c : Set(j, c),
              peer[j] \in Optional /\ j \in MediaJobs => ~ctx'[j].stale, pc[j] \in Releasing
       PROVE  FreshInv'
  <2>1. j \notin EditJobs /\ (peer[j] = "video" => j \in ImageJobs)
    BY <1>1, <1>19 DEF PlaceInv, Releasing
  <2>2. \A k \in Jobs \ {j} : ctx'[k] = ctx[k] /\ peer'[k] = peer[k]
    BY <1>5, <1>19, <2>1, <1>1, AfterPeerCases DEF Visit
  <2>3. CASE j \notin MediaJobs
    BY <1>1, <1>6, <1>19, <2>1, <2>2, <2>3, AfterPeerCases DEF Visit
  <2>4. CASE j \in MediaJobs /\ peer[j] \in Optional
    BY <1>1, <1>3, <1>9, <1>19, <2>1, <2>2, <2>4, AfterPeerCases DEF Visit
  <2>5. CASE j \in MediaJobs /\ peer[j] \notin Optional
    BY <1>1, <1>2, <1>9, <1>19, <2>1, <2>2, <2>5, AfterPeerCases DEF Visit, Fresh, Optional
  <2> QED
    BY <2>3, <2>4, <2>5
<1>20. ASSUME NEW j \in Jobs, Probe(j) PROVE FreshInv'
  <2>1. pc[j] = "probe" /\ pc[j] \in Releasing
    BY <1>20 DEF Probe, Releasing
  <2>2. /\ [ctx[j] EXCEPT !.keep = @ /\ Loaded(peer[j])].stale = ctx[j].stale
        /\ [ctx[j] EXCEPT !.keep = FALSE].stale = ctx[j].stale
    BY <1>1 DEF ContextTypes, Contexts
  <2>3. (UNCHANGED ctx \/ \E c : Set(j, c)) /\ ctx'[j].stale = ctx[j].stale
    BY <1>8, <1>20, <2>2 DEF Probe
  <2>4. peer[j] \in Optional /\ j \in MediaJobs => ~ctx'[j].stale
    BY <1>1, <2>1, <2>3 DEF FreshInv
  <2>5. ASSUME Goto(j, "unload"), UNCHANGED peer PROVE FreshInv'
    <3>1. CASE peer[j] \in Optional
      BY <1>3, <1>5, <2>3, <2>4, <2>5, <3>1
    <3>2. CASE peer[j] \notin Optional
      BY <1>2, <1>5, <2>3, <2>5, <3>2 DEF Fresh
    <3> QED
      BY <3>1, <3>2
  <2> QED
    BY <1>16, <1>19, <1>20, <2>1, <2>3, <2>4, <2>5 DEF Probe
<1>21. ASSUME NEW j \in Jobs, Verify(j) PROVE FreshInv'
  <2>1. pc[j] \in Releasing
    BY <1>21 DEF Verify, Releasing
  <2>2. \A s \in Samples :
          ~[Sampled(j, s) EXCEPT !.released = TRUE, !.relief = NeedsRelief(s)].stale
    BY <1>7 DEF Contexts
  <2>3. ASSUME NEW s \in Samples, NEW r, AfterPeer(j, r),
               Set(j, [Sampled(j, s) EXCEPT !.released = TRUE, !.relief = NeedsRelief(s)])
        PROVE  FreshInv'
    BY <1>8, <1>19, <2>1, <2>2, <2>3
  <2>4. ASSUME NEW c, NEW r, AfterPeer(j, r), Set(j, c), ~(j \in MediaJobs /\ peer[j] \in Optional)
        PROVE  FreshInv'
    BY <1>19, <2>1, <2>4
  <2> QED
    BY <1>16, <1>21, <2>3, <2>4 DEF Verify
<1>22. ASSUME NEW j \in Jobs, Measure(j) PROVE FreshInv'
  <2>1. ASSUME NEW s \in Samples, NEW drop \in BOOLEAN,
               Set(j, [Sampled(j, s) EXCEPT !.relief = NeedsRelief(s), !.keep = @ /\ ~drop]),
               \/ Visit(j, "image") \/ Visit(j, "speech")
               \/ Goto(j, "chatStop") /\ UNCHANGED peer
        PROVE  FreshInv'
    <3>1. ~[Sampled(j, s) EXCEPT !.relief = NeedsRelief(s), !.keep = @ /\ ~drop].stale
      BY <1>7 DEF Contexts
    <3> QED
      BY <1>3, <1>5, <1>8, <2>1, <3>1 DEF Visit
  <2> QED
    BY <1>16, <1>22, <2>1 DEF Measure
<1>23. ASSUME NEW j \in Jobs, ChatStop(j) PROVE FreshInv'
  <2>1. j \in MediaJobs /\ ~ctx[j].stale
    BY <1>1, <1>23 DEF ChatStop, PlaceInv, FreshInv
  <2>2. ASSUME NEW s \in Samples, Set(j, [Sampled(j, s) EXCEPT !.released = TRUE]),
               Goto(j, "settle"), UNCHANGED peer
        PROVE  FreshInv'
    <3>1. ~[Sampled(j, s) EXCEPT !.released = TRUE].stale
      BY <1>7 DEF Contexts
    <3> QED
      BY <1>3, <1>5, <1>8, <2>2, <3>1
  <2>3. ASSUME Goto(j, "settle"), UNCHANGED <<peer, ctx>> PROVE FreshInv'
    BY <1>3, <1>5, <2>1, <2>3
  <2> QED
    BY <1>16, <1>23, <2>2, <2>3 DEF ChatStop
<1>24. ASSUME NEW j \in Jobs, Settle(j) PROVE FreshInv'
  <2>1. j \in MediaJobs /\ ~ctx[j].stale
    BY <1>1, <1>24 DEF Settle, PlaceInv, FreshInv
  <2>2. ASSUME NEW s \in Samples, Set(j, [Sampled(j, s) EXCEPT !.attempts = @ + 1]),
               UNCHANGED <<pc, peer>>
        PROVE  FreshInv'
    <3>1. ~[Sampled(j, s) EXCEPT !.attempts = @ + 1].stale
      BY <1>7 DEF Contexts
    <3>2. Goto(j, "settle")
      BY <1>1, <1>24, <2>2 DEF Settle, Goto, StageTypes
    <3> QED
      BY <1>3, <1>5, <1>8, <2>2, <3>1, <3>2
  <2>3. ASSUME Goto(j, "admit"), UNCHANGED <<peer, ctx>> PROVE FreshInv'
    BY <1>3, <1>5, <2>1, <2>3
  <2> QED
    BY <1>16, <1>24, <2>2, <2>3 DEF Settle
<1>25. ASSUME NEW s \in Optional, SpeechRequest(s) \/ SpeechAnswer(s) PROVE UNCHANGED <<pc, peer, ctx>>
  BY <1>25 DEF SpeechRequest, SpeechAnswer
<1>26. UNCHANGED vars => UNCHANGED <<pc, peer, ctx>>
  BY DEF vars
<1> QED
  BY <1>4, <1>10, <1>11, <1>12, <1>13, <1>14, <1>15, <1>17, <1>18, <1>20, <1>21, <1>22, <1>23,
     <1>24, <1>25, <1>26 DEF Next, Submit, Advance, Work, AllDone

----------------------------------------------------------------------------
LEMMA HandoffInvariant == Safe => []HandoffInv
<1>1. HandoffInv /\ [Next]_vars => HandoffInv'
  <2> SUFFICES ASSUME HandoffInv, [Next]_vars PROVE HandoffInv'
    OBVIOUS
  <2>1. TypeOK'
    BY TypeStep DEF HandoffInv
  <2>2. PlaceInv' /\ HolderInv'
    BY PlaceStep, HolderStep DEF HandoffInv, TypeOK
  <2>3. SlotInv'
    BY SlotStep DEF HandoffInv
  <2> QED
    BY <2>1, <2>2, <2>3, WeightsStep, FreshStep DEF HandoffInv
<1> QED
  BY InitInv, <1>1, PTL DEF Safe

\* The variables keep their types, whatever jobs, peers and samples there are.
THEOREM HandoffTypeCorrect == Safe => []TypeOK
  BY HandoffInvariant, PTL DEF HandoffInv

\* A media job loads its model on a snapshot that is not crowded and that nothing
\* was released after, on every path through image, speech, MuseTalk and chat
\* and with any number of settling samples.
THEOREM AdmittedOnFreshSample == Safe => []AdmissionOnFreshSample
<1>1. HandoffInv => AdmissionOnFreshSample
  BY DEF HandoffInv, FreshInv, AdmissionOnFreshSample
<1> QED
  BY <1>1, HandoffInvariant, PTL

\* Nobody's unload takes the image weights from a job that computes with them.
THEOREM WeightsStayUnderWork == Safe => NoUnloadUnderWork
<1>1. HandoffInv' => (\A j \in ImageJobs \cup EditJobs : pc[j] = "run" /\ pc'[j] = "run" => imageLoaded')
  BY DEF HandoffInv, WeightsInv
<1> QED
  BY <1>1, HandoffInvariant, PTL DEF Safe, NoUnloadUnderWork

----------------------------------------------------------------------------
(* The jobs use the lease as its callers may. *)

Waiting == {j \in Jobs : pc[j] = "wait"}

\* A step of job j that has nothing to do with the lease.
LEMMA LeaseStutter ==
  ASSUME StageTypes, NEW j \in Jobs, NEW st, Goto(j, st), pc[j] # "wait", st # "wait",
         UNCHANGED holder
  PROVE  UNCHANGED <<Waiting, holder>>
  BY DEF Goto, StageTypes, Waiting

LEMMA LeaseStep == HandoffInv /\ [Next]_vars => [Lease!LeaseNext]_<<Waiting, holder>>
<1> SUFFICES ASSUME HandoffInv, [Next]_vars PROVE [Lease!LeaseNext]_<<Waiting, holder>>
  OBVIOUS
<1> DEFINE Step == [Lease!LeaseNext]_<<Waiting, holder>>
<1>1. StageTypes /\ LockTypes /\ HolderInv /\ PlaceInv
  BY DEF HandoffInv, TypeOK
<1>2. ASSUME NEW j \in Jobs, Goto(j, "wait"), pc[j] # "wait", ~InLease(j), UNCHANGED holder
      PROVE  Step
  <2>1. Lease!Ask(j)
    BY <1>1, <1>2 DEF Lease!Ask, Waiting, Goto, StageTypes, HolderInv
  <2> QED
    BY <2>1 DEF Lease!LeaseNext
<1>3. ASSUME NEW j \in Jobs, GrantLease(j) PROVE Step
  <2>1. Lease!Grant(j)
    BY <1>1, <1>3 DEF Lease!Grant, GrantLease, LeaseFree, Visit, Waiting, Goto, StageTypes
  <2> QED
    BY <2>1 DEF Lease!LeaseNext
<1>4. ASSUME NEW j \in Jobs, pc[j] = "wait", NEW st, st # "wait", Goto(j, st), UNCHANGED holder
      PROVE  Step
  <2>1. Lease!StopWaiting(j)
    BY <1>1, <1>4 DEF Lease!StopWaiting, Waiting, Goto, StageTypes
  <2> QED
    BY <2>1 DEF Lease!LeaseNext
<1>5. ASSUME NEW j \in Jobs, ReleaseLease(j) PROVE Step
  <2>1. UNCHANGED Waiting
    BY <1>1, <1>5 DEF ReleaseLease, Waiting, Goto, StageTypes
  <2>2. holder = j
    BY <1>1, <1>5 DEF ReleaseLease, HolderInv, InLease
  <2>3. Lease!GiveBack(j)
    BY <1>5, <2>1, <2>2 DEF Lease!GiveBack, ReleaseLease, Waiting
  <2> QED
    BY <2>3 DEF Lease!LeaseNext
<1>6. ASSUME NEW j \in Jobs, Crash(j) PROVE Step
  <2>1. Waiting' = Waiting \ {j}
    BY <1>1, <1>6 DEF Crash, Waiting, Goto, StageTypes
  <2>2. holder' = IF holder \in {j} THEN NoJob ELSE holder
    BY <1>6 DEF Crash
  <2>3. Lease!Vanish({j})
    BY <2>1, <2>2 DEF Lease!Vanish, Waiting
  <2> QED
    BY <2>3 DEF Lease!LeaseNext
<1>7. ASSUME NEW j \in Jobs, NEW st, Goto(j, st), pc[j] # "wait", st # "wait", UNCHANGED holder
      PROVE  Step
  BY <1>1, <1>7, LeaseStutter
<1>8. CASE UNCHANGED <<pc, holder>>
  BY <1>8 DEF Waiting
<1>9. ASSUME NEW j \in Jobs, SubmitMedia(j) \/ SubmitEdit(j) \/ Finish(j) PROVE Step
  BY <1>7, <1>9 DEF SubmitMedia, SubmitEdit, Finish
<1>10. ASSUME NEW j \in Jobs, SubmitChat(j) \/ StartWorker(j) PROVE Step
  <2>1. ~InLease(j)
    BY <1>10 DEF SubmitChat, StartWorker, InLease, HandoffStages
  <2> QED
    BY <1>2, <1>7, <1>10, <2>1 DEF SubmitChat, StartWorker, locks
<1>11. ASSUME NEW j \in Jobs, StopWaiting(j) PROVE Step
  BY <1>4, <1>11 DEF StopWaiting, locks
<1>12. ASSUME NEW j \in Jobs, NEW r, AfterPeer(j, r), pc[j] \in Releasing, UNCHANGED holder
       PROVE  Step
  BY <1>7, <1>12 DEF AfterPeer, Visit, Releasing
<1>13. ASSUME NEW j \in Jobs, Probe(j) \/ Unload(j) \/ Verify(j) PROVE Step
  <2>1. pc[j] \in Releasing /\ UNCHANGED holder
    BY <1>13 DEF Probe, Unload, Verify, Releasing, locks
  <2>2. pc[j] # "wait"
    BY <2>1 DEF Releasing
  <2>3. CASE Probe(j)
    BY <1>7, <1>12, <2>1, <2>2, <2>3 DEF Probe, Fail
  <2>4. CASE Unload(j)
    BY <1>7, <2>1, <2>2, <2>4 DEF Unload, Fail
  <2>5. CASE Verify(j)
    BY <1>7, <1>12, <2>1, <2>2, <2>5 DEF Verify, Fail
  <2> QED
    BY <1>13, <2>3, <2>4, <2>5
<1>14. ASSUME NEW j \in Jobs, Measure(j) \/ ChatStop(j) \/ Settle(j) PROVE Step
  BY <1>7, <1>8, <1>14 DEF Measure, ChatStop, Settle, Fail, Visit, locks
<1>15. ASSUME NEW j \in Jobs, Admit(j) \/ TakeModelLock(j) \/ RestoreChat(j) PROVE Step
  BY <1>7, <1>15 DEF Admit, TakeModelLock, RestoreChat, Fail, locks
<1>16. ASSUME NEW j \in Jobs, Work(j) PROVE Step
  BY <1>7, <1>8, <1>16 DEF Work, MediaWork, ChatWork, EditWork, locks
<1>17. ASSUME NEW j \in Jobs, Cancel(j) PROVE UNCHANGED <<pc, holder>>
  BY <1>17 DEF Cancel, locks
<1>18. ASSUME NEW s \in Optional, SpeechRequest(s) \/ SpeechAnswer(s) PROVE UNCHANGED <<pc, holder>>
  BY <1>18 DEF SpeechRequest, SpeechAnswer, locks
<1>19. UNCHANGED vars => UNCHANGED <<pc, holder>>
  BY DEF vars, locks
<1> QED
  BY <1>3, <1>5, <1>6, <1>8, <1>9, <1>10, <1>11, <1>13, <1>14, <1>15, <1>16, <1>17, <1>18, <1>19
     DEF Next, Submit, Advance, AllDone

\* Together with Refinement of RuntimeLeaseProofs: what the handoff relies on is
\* what the lease of the code provides.
THEOREM HandoffUsesLease == Safe => UsesLease
<1>1. Init => Lease!LeaseInit
  <2> SUFFICES ASSUME Init PROVE Lease!LeaseInit
    OBVIOUS
  <2>1. \A j \in Jobs : pc[j] = "idle"
    BY Zenon DEF Init
  <2>2. holder = NoJob
    BY DEF Init
  <2> QED
    BY <2>1, <2>2 DEF Lease!LeaseInit
<1>2. HandoffInv /\ [Next]_vars => [Lease!LeaseNext]_Lease!leaseVars
  BY LeaseStep DEF Lease!leaseVars, Waiting
<1> QED
  BY <1>1, <1>2, HandoffInvariant, PTL DEF Safe, UsesLease, Lease!LeaseSpec

----------------------------------------------------------------------------
(* Exclusive media jobs *)

\* Every job that loads weights takes the lease for it.
AllCoordinated == EnsureJobs \cup EditJobs = {}

\* Image weights are gone, and chat is down, from the step that made it so until
\* the job has worked.
Cleared(st, p) == \/ st \in {"measure", "chatStop", "settle", "admit", "run"}
                  \/ st \in Releasing /\ p \in Optional

ClearInv(j) == /\ ~ctx[j].keep
               /\ pc[j] \in {"settle", "admit", "run"} => ~chatUp
               /\ j \in VideoJobs /\ Cleared(pc[j], peer[j]) => ~imageLoaded

ExclusiveInv == AllCoordinated => \A j \in MediaJobs \cap Exclusive : ClearInv(j)

LEMMA InitExclusive == Init => ExclusiveInv
<1> SUFFICES ASSUME Init PROVE ExclusiveInv
  OBVIOUS
<1>1. \A j \in MediaJobs : pc[j] = "idle" /\ ctx[j] = FreshContext(j)
  <2>1. MediaJobs \subseteq Jobs
    BY DEF Jobs, MediaJobs
  <2>2. pc = [j \in Jobs |-> "idle"] /\ ctx = [j \in Jobs |-> FreshContext(j)]
    BY DEF Init
  <2> QED
    BY <2>1, <2>2
<1>2. \A j \in MediaJobs \cap Exclusive : ClearInv(j)
  <2> TAKE j \in MediaJobs \cap Exclusive
  <2>1. pc[j] = "idle" /\ ctx[j] = FreshContext(j)
    BY <1>1
  <2>2. ~ctx[j].keep
    <3>1. ~FreshContext(j).keep
      BY DEF FreshContext
    <3> QED
      BY <2>1, <3>1
  <2> QED
    BY <2>1, <2>2 DEF ClearInv, Cleared, Releasing
<1> QED
  BY <1>2 DEF ExclusiveInv

\* A step of a job changes nothing of another one.
LEMMA OthersStay ==
  ASSUME StageTypes, ContextTypes, NEW j \in Jobs, NEW k \in Jobs, k # j,
         Submit(k) \/ Advance(k) \/ Cancel(k) \/ Crash(k)
  PROVE  pc'[j] = pc[j] /\ peer'[j] = peer[j] /\ ctx'[j] = ctx[j]
<1> DEFINE Same == pc'[j] = pc[j] /\ peer'[j] = peer[j] /\ ctx'[j] = ctx[j]
<1>1. ASSUME UNCHANGED pc \/ \E st : Goto(k, st),
             UNCHANGED peer \/ \E p : peer' = [peer EXCEPT ![k] = p],
             UNCHANGED ctx \/ \E c : Set(k, c)
      PROVE  Same
  <2>1. pc'[j] = pc[j]
    BY <1>1 DEF Goto, StageTypes
  <2>2. peer'[j] = peer[j]
    BY <1>1 DEF StageTypes
  <2>3. ctx'[j] = ctx[j]
    BY <1>1 DEF Set, ContextTypes
  <2> QED
    BY <2>1, <2>2, <2>3
<1> SUFFICES Same
  OBVIOUS
<1> HIDE DEF Same
<1>2. CASE Submit(k) \/ StartWorker(k) \/ GrantLease(k) \/ StopWaiting(k)
  BY <1>1, <1>2 DEF Submit, SubmitMedia, SubmitChat, SubmitEdit, StartWorker, GrantLease, StopWaiting,
     Visit
<1>3. CASE ReleaseLease(k) \/ Finish(k) \/ Cancel(k) \/ Crash(k)
  BY <1>1, <1>3 DEF ReleaseLease, Finish, Cancel, Crash
<1>4. ASSUME NEW r, AfterPeer(k, r), UNCHANGED ctx \/ \E c : Set(k, c) PROVE Same
  BY <1>1, <1>4 DEF AfterPeer, Visit
<1>5. CASE Probe(k)
  BY <1>1, <1>4, <1>5 DEF Probe, Fail
<1>6. CASE Verify(k)
  BY <1>1, <1>4, <1>6 DEF Verify, Fail
<1>7. CASE Unload(k) \/ Measure(k)
  BY <1>1, <1>7 DEF Unload, Measure, Fail, Visit
<1>8. CASE ChatStop(k) \/ Settle(k) \/ Admit(k)
  BY <1>1, <1>8 DEF ChatStop, Settle, Admit, Fail
<1>9. CASE TakeModelLock(k) \/ RestoreChat(k) \/ Work(k)
  BY <1>1, <1>9 DEF TakeModelLock, RestoreChat, Work, MediaWork, ChatWork, EditWork, Fail
<1> QED
  BY <1>2, <1>3, <1>5, <1>6, <1>7, <1>8, <1>9 DEF Advance

LEMMA OthersClear ==
  ASSUME HandoffInv, AllCoordinated, NEW j \in MediaJobs \cap Exclusive, ClearInv(j),
         NEW k \in Jobs, k # j, Submit(k) \/ Advance(k) \/ Cancel(k) \/ Crash(k)
  PROVE  ClearInv(j)'
<1>1. StageTypes /\ ContextTypes /\ HolderInv /\ j \in Jobs
  BY DEF HandoffInv, TypeOK, Jobs, MediaJobs
<1>2. k \in Coordinated /\ k \notin EditJobs /\ k \notin EnsureJobs
  BY DEF AllCoordinated, Coordinated, Jobs, MediaJobs
<1>3. pc'[j] = pc[j] /\ peer'[j] = peer[j] /\ ctx'[j] = ctx[j]
  BY <1>1, OthersStay
<1>4. CASE InLease(k)
  <2>1. ~InLease(j)
    BY <1>1, <1>4 DEF HolderInv
  <2>2. pc[j] \notin {"settle", "admit", "run"} /\ ~Cleared(pc[j], peer[j])
    BY <2>1 DEF InLease, HandoffStages, Cleared, Releasing, Coordinated
  <2> QED
    BY <1>3, <2>2 DEF ClearInv
<1>5. CASE ~InLease(k)
  <2>1. \/ SubmitMedia(k) \/ SubmitChat(k) \/ StartWorker(k) \/ GrantLease(k) \/ StopWaiting(k)
        \/ Finish(k) \/ Cancel(k) \/ Crash(k)
    <3>1. pc[k] \notin HandoffStages \cup {"restore", "release", "modelLock", "run"}
      BY <1>2, <1>5 DEF InLease
    <3>2. ~(Probe(k) \/ Unload(k) \/ Verify(k) \/ Measure(k) \/ ChatStop(k) \/ Settle(k) \/ Admit(k))
      BY <3>1 DEF Probe, Unload, Verify, Measure, ChatStop, Settle, Admit, HandoffStages
    <3>3. ~(TakeModelLock(k) \/ Work(k) \/ RestoreChat(k) \/ ReleaseLease(k) \/ SubmitEdit(k))
      BY <1>2, <3>1 DEF TakeModelLock, Work, MediaWork, ChatWork, EditWork, RestoreChat,
         ReleaseLease, SubmitEdit
    <3> QED
      BY <3>2, <3>3 DEF Submit, Advance
  <2>2. UNCHANGED chatUp /\ (imageLoaded' => imageLoaded)
    <3>1. CASE Crash(k)
      BY <3>1, Zenon DEF Crash
    <3>2. CASE ~Crash(k)
      <4>1. UNCHANGED weights
        BY <2>1, <3>2 DEF SubmitMedia, SubmitChat, StartWorker, GrantLease, StopWaiting, Finish, Cancel
      <4> QED
        BY <4>1, Zenon DEF weights
    <3> QED
      BY <3>1, <3>2
  <2> QED
    BY <1>3, <2>2 DEF ClearInv
<1> QED
  BY <1>4, <1>5

\* What the job itself does.
LEMMA JobClears ==
  ASSUME HandoffInv, AllCoordinated, NEW j \in MediaJobs \cap Exclusive, ClearInv(j),
         Submit(j) \/ Advance(j) \/ Cancel(j) \/ Crash(j)
  PROVE  ClearInv(j)'
<1>1. StageTypes /\ ContextTypes /\ PlaceInv /\ j \in Jobs
  BY DEF HandoffInv, TypeOK, Jobs, MediaJobs
<1>2. /\ j \notin ChatJobs \cup EnsureJobs \cup EditJobs
      /\ j \in VideoJobs => j \notin ImageJobs
  BY KindsAssumption
<1>3. \A st : Goto(j, st) => pc'[j] = st
  BY <1>1 DEF Goto, StageTypes
<1>4. \A c : Set(j, c) => ctx'[j] = c
  BY <1>1 DEF Set, ContextTypes
<1>5. UNCHANGED pc => pc'[j] = pc[j]
  OBVIOUS
\* Nothing is claimed of the next stage.
<1>6. ASSUME NEW st, Goto(j, st), st \notin {"settle", "admit", "run"}, ~Cleared(st, peer'[j]),
             ~ctx'[j].keep
      PROVE  ClearInv(j)'
  BY <1>3, <1>6 DEF ClearInv
<1>7. ~ctx[j].keep /\ ctx[j] \in Contexts /\ (UNCHANGED ctx => ~ctx'[j].keep)
  BY <1>1 DEF ClearInv, ContextTypes
<1>8. ~FreshContext(j).keep
  BY DEF FreshContext
<1>9. CASE SubmitMedia(j) \/ StartWorker(j) \/ StopWaiting(j) \/ Finish(j)
  BY <1>6, <1>7, <1>9 DEF SubmitMedia, StartWorker, StopWaiting, Finish, Cleared, Releasing
<1>10. CASE GrantLease(j)
  <2>1. peer'[j] \notin Optional
    BY <1>1, <1>10 DEF GrantLease, Visit, StageTypes, Optional
  <2> QED
    BY <1>6, <1>7, <1>10, <2>1 DEF GrantLease, Visit, Cleared, Releasing
<1>11. CASE ReleaseLease(j) \/ Crash(j)
  BY <1>4, <1>6, <1>8, <1>11 DEF ReleaseLease, Crash, Cleared, Releasing
<1>12. ASSUME NEW how, Fail(j, how), ~ctx'[j].keep PROVE ClearInv(j)'
  BY <1>6, <1>12 DEF Fail, Cleared, Releasing
<1>13. ASSUME Goto(j, "unload") \/ Goto(j, "verify"), UNCHANGED peer, ~ctx'[j].keep,
              pc[j] \in Releasing, imageLoaded' => imageLoaded
       PROVE  ClearInv(j)'
  BY <1>1, <1>3, <1>13 DEF ClearInv, Cleared, Releasing, StageTypes
\* Through with a peer: image weights are gone, by the probe or the unload.
<1>14. ASSUME NEW r, AfterPeer(j, r), ~ctx'[j].keep, pc[j] \in Releasing, UNCHANGED weights,
              peer[j] = "image" => ~imageLoaded
       PROVE  ClearInv(j)'
  <2>1. peer[j] = "video" => j \in ImageJobs
    BY <1>1, <1>14 DEF PlaceInv
  <2>2. peer[j] \in Peers
    BY <1>1 DEF StageTypes
  <2>3. j \in VideoJobs => ~imageLoaded
    BY <1>2, <1>14, <2>1, <2>2 DEF ClearInv, Cleared, Peers
  <2>4. \/ Goto(j, "measure") \/ Goto(j, "chatStop") \/ Visit(j, "musetalk")
    BY <1>1, <1>2, <1>14, <2>1, AfterPeerCases
  <2> QED
    BY <1>3, <1>14, <2>3, <2>4 DEF ClearInv, Visit, weights
<1>15. CASE Probe(j)
  <2>1. pc[j] \in Releasing /\ UNCHANGED weights
    BY <1>15 DEF Probe, Releasing
  <2>2. /\ ~[ctx[j] EXCEPT !.keep = @ /\ Loaded(peer[j])].keep
        /\ ~[ctx[j] EXCEPT !.keep = FALSE].keep
    BY <1>7 DEF Contexts
  <2>3. ~ctx'[j].keep
    BY <1>4, <1>7, <1>15, <2>2 DEF Probe
  <2>4. peer[j] = "image" => (Loaded(peer[j]) <=> imageLoaded)
    BY DEF Loaded, Optional
  <2>5. imageLoaded' => imageLoaded
    BY <2>1 DEF weights
  <2> QED
    BY <1>7, <1>12, <1>13, <1>14, <1>15, <2>1, <2>3, <2>4, <2>5 DEF Probe, Optional
<1>16. CASE Unload(j)
  <2>1. pc[j] \in Releasing /\ (imageLoaded' => imageLoaded)
    BY <1>16 DEF Unload, Releasing, weights
  <2>2. ~[ctx[j] EXCEPT !.stale = TRUE].keep
    BY <1>7 DEF Contexts
  <2>3. ~ctx'[j].keep
    BY <1>4, <1>7, <1>16, <2>2 DEF Unload
  <2> QED
    BY <1>12, <1>13, <1>16, <2>1, <2>3 DEF Unload
<1>17. CASE Verify(j)
  <2>1. pc[j] \in Releasing /\ UNCHANGED weights
    BY <1>17 DEF Verify, Releasing
  <2>2. /\ ~[ctx[j] EXCEPT !.released = TRUE].keep
        /\ \A s : ~[Sampled(j, s) EXCEPT !.released = TRUE, !.relief = NeedsRelief(s)].keep
    BY <1>7 DEF Contexts, Sampled
  <2>3. ~ctx'[j].keep
    BY <1>4, <1>7, <1>17, <2>2 DEF Verify
  <2>4. peer[j] = "image" => (Loaded(peer[j]) <=> imageLoaded)
    BY DEF Loaded, Optional
  <2> QED
    BY <1>12, <1>14, <1>17, <2>1, <2>3, <2>4 DEF Verify
<1>18. CASE Measure(j)
  <2>1. pc[j] = "measure" /\ UNCHANGED weights
    BY <1>18 DEF Measure
  <2>2. \A s, drop : ~[Sampled(j, s) EXCEPT !.relief = NeedsRelief(s), !.keep = @ /\ ~drop].keep
    BY <1>7 DEF Contexts, Sampled
  <2>3. ~ctx'[j].keep
    BY <1>4, <1>7, <1>18, <2>2 DEF Measure
  <2>4. j \in VideoJobs => ~imageLoaded'
    BY <2>1 DEF ClearInv, Cleared, weights
  <2>5. ASSUME Visit(j, "speech") \/ Goto(j, "chatStop") PROVE ClearInv(j)'
    BY <1>3, <2>3, <2>4, <2>5 DEF ClearInv, Visit
  <2> QED
    BY <1>7, <1>12, <1>18, <2>3, <2>5 DEF Measure
<1>19. CASE ChatStop(j)
  <2>1. ~ctx'[j].keep
    <3>1. \A s : ~[Sampled(j, s) EXCEPT !.released = TRUE].keep
      BY <1>7 DEF Contexts, Sampled
    <3> QED
      BY <1>4, <1>7, <1>19, <3>1 DEF ChatStop
  <2>2. j \in VideoJobs => ~imageLoaded'
    BY <1>19 DEF ChatStop, ClearInv, Cleared
  <2>3. WantsChatStop(j)
    BY DEF WantsChatStop
  <2>4. ASSUME Goto(j, "settle"), ~chatUp' PROVE ClearInv(j)'
    BY <1>3, <2>1, <2>2, <2>4 DEF ClearInv
  <2>5. \/ \E how : Fail(j, how)
        \/ Goto(j, "settle") /\ ~chatUp'
    BY <1>19, <2>3 DEF ChatStop
  <2> QED
    BY <1>12, <2>1, <2>4, <2>5
<1>20. CASE Settle(j)
  <2>1. ~ctx'[j].keep
    <3>1. \A s : ~[Sampled(j, s) EXCEPT !.attempts = @ + 1].keep
      BY <1>7 DEF Contexts, Sampled
    <3> QED
      BY <1>4, <1>7, <1>20, <3>1 DEF Settle
  <2>2. (j \in VideoJobs => ~imageLoaded') /\ ~chatUp'
    BY <1>20 DEF Settle, ClearInv, Cleared, weights
  <2> QED
    BY <2>1, <2>2 DEF ClearInv
<1>21. CASE Admit(j)
  <2>1. (j \in VideoJobs => ~imageLoaded') /\ ~chatUp'
    <3>1. ~chatUp /\ (j \in VideoJobs => ~imageLoaded)
      BY <1>21 DEF Admit, ClearInv, Cleared
    <3>2. UNCHANGED chatUp /\ (imageLoaded' => imageLoaded \/ j \in ImageJobs)
      <4>1. CASE UNCHANGED imageLoaded
        BY <1>21, <4>1 DEF Admit
      <4>2. CASE imageLoaded' = (imageLoaded \/ j \in ImageJobs)
        BY <1>21, <4>2 DEF Admit
      <4> QED
        BY <1>21, <4>1, <4>2 DEF Admit
    <3> QED
      BY <1>2, <3>1, <3>2
  <2>2. ~ctx'[j].keep
    BY <1>7, <1>21 DEF Admit
  <2> QED
    BY <2>1, <2>2 DEF ClearInv
<1>22. CASE MediaWork(j)
  <2>1. ~[ctx[j] EXCEPT !.suppress = TRUE].keep
    BY <1>7 DEF Contexts
  <2> QED
    BY <1>4, <1>6, <1>7, <1>22, <2>1 DEF MediaWork, Cleared, Releasing
<1>23. CASE RestoreChat(j)
  BY <1>6, <1>7, <1>23 DEF RestoreChat, Cleared, Releasing
<1>24. CASE Cancel(j)
  BY <1>24 DEF Cancel, ClearInv, Cleared, weights
<1>25. ~(SubmitChat(j) \/ SubmitEdit(j) \/ TakeModelLock(j) \/ ChatWork(j) \/ EditWork(j))
  BY <1>1, <1>2 DEF SubmitChat, SubmitEdit, TakeModelLock, ChatWork, EditWork, PlaceInv
<1> QED
  BY <1>9, <1>10, <1>11, <1>15, <1>16, <1>17, <1>18, <1>19, <1>20, <1>21, <1>22, <1>23, <1>24, <1>25
     DEF Submit, Advance, Work

LEMMA ExclusiveStep == HandoffInv /\ ExclusiveInv /\ [Next]_vars => ExclusiveInv'
<1> SUFFICES ASSUME HandoffInv, AllCoordinated, [Next]_vars, NEW j \in MediaJobs \cap Exclusive,
                    ClearInv(j)
             PROVE  ClearInv(j)'
  BY DEF ExclusiveInv
<1>1. ASSUME NEW k \in Jobs, Submit(k) \/ Advance(k) \/ Cancel(k) \/ Crash(k) PROVE ClearInv(j)'
  BY <1>1, OthersClear, JobClears
<1>2. ASSUME NEW s \in Optional, SpeechRequest(s) \/ SpeechAnswer(s) PROVE ClearInv(j)'
  BY <1>2 DEF SpeechRequest, SpeechAnswer, ClearInv
<1>3. UNCHANGED vars => ClearInv(j)'
  BY DEF vars, weights, ClearInv
<1> QED
  BY <1>1, <1>2, <1>3 DEF Next, AllDone

\* If nothing loads weights outside the lease, then no exclusive media job shares
\* the memory with chat or with another job, and no exclusive video job with image
\* weights, however many jobs there are.
THEOREM ExclusiveJobsAlone == Safe => [](AllCoordinated => NoWeightsBesideExclusiveJob)
<1>1. HandoffInv /\ ExclusiveInv /\ AllCoordinated => NoWeightsBesideExclusiveJob
  <2> SUFFICES ASSUME HandoffInv, ExclusiveInv, AllCoordinated, NEW j \in MediaJobs \cap Exclusive,
                      pc[j] = "run"
               PROVE  /\ ~chatUp
                      /\ j \in VideoJobs => ~imageLoaded
                      /\ \A k \in Jobs \ {j} : pc[k] # "run"
    BY DEF NoWeightsBesideExclusiveJob
  <2>1. ~chatUp /\ (j \in VideoJobs => ~imageLoaded)
    BY DEF ExclusiveInv, ClearInv, Cleared
  <2>2. \A k \in Jobs : k \in Coordinated
    BY DEF AllCoordinated, Coordinated, Jobs, MediaJobs
  <2>3. \A k \in Jobs : pc[k] = "run" => holder = k
    BY <2>2 DEF HandoffInv, HolderInv, InLease
  <2>4. j \in Jobs
    BY DEF Jobs, MediaJobs
  <2> QED
    BY <2>1, <2>3, <2>4
<1> QED
  BY <1>1, InitExclusive, ExclusiveStep, HandoffInvariant, PTL DEF Safe
===========================================================================
