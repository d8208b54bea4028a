------------------------- MODULE AutomationsProofs -------------------------
(***************************************************************************)
(* Theorems about Automations for every value of its constants.  The       *)
(* argument: a worker between its creation and its report knows the status *)
(* of its run without looking at it, because nobody else writes to a run   *)
(* that has a worker; the recovery writes to runs only while there is no   *)
(* worker at all; and an active run is the newest one of its automation.   *)
(***************************************************************************)
EXTENDS Automations, FiniteSetTheorems, TLAPS

\* A worker that was created or started finds its run queued, and running once
\* it works; nobody works while the recovery does.
WorkersMatch ==
  /\ \A r \in Runs : RowExists(r) =>
       /\ worker[r].pc \in {"thread", "claimed", "start"} => run[r].status = "queued"
       /\ worker[r].pc \in {"work", "finish"} => run[r].status = "running"
  /\ agent = "booting" => \A r \in Runs : worker[r].pc = "none"

\* Runs are created in the order of their ids, and an active one is the newest
\* of its automation.
Ordered == \A r, s \in Runs : run[r].status = "none" /\ r < s => run[s].status = "none"
ActiveIsNewest ==
  \A r, s \in Runs : run[r].status \in Active /\ RowExists(s) /\ run[s].auto = run[r].auto => s <= r

\* What is told and reported while no write has failed, and what a worker
\* relies on when it tells it.
Agreement ==
  faults = 0 =>
    /\ \A r \in Runs : run[r].told # "none" => run[r].told = run[r].status
    /\ \A r \in Runs : RowExists(r) =>
         /\ worker[r].pc = "notify" => run[r].status = worker[r].outcome /\ run[r].told = "none"
         /\ worker[r].pc = "failing" => run[r].status = "running"
         /\ worker[r].pc = "telling" => run[r].status = "failed"
    /\ \A a \in Autos, r \in Runs :
         /\ RowExists(r) /\ run[r].auto = a
         /\ \A s \in Runs : RowExists(s) /\ run[s].auto = a => s <= r
         => auto[a].last = run[r].status

IInv == TypeOK /\ WorkersMatch /\ Ordered /\ ActiveIsNewest /\ Agreement

LEMMA FaultTypes == TypeOK /\ Fault => /\ now' = now /\ edits' = edits /\ restarts' = restarts
                                       /\ faults' \in Nat /\ faults' # 0
                                       /\ edits' + restarts' + faults' <= MaxEvents
  BY NumbersAssumption DEF TypeOK, Fault, MayHappen

\* What the assignments to a run and a worker leave in each field.
LEMMA ReportedTypes ==
  ASSUME TypeOK, NEW r \in Runs, NEW status \in Active \cup Outcomes, Reported(r, status)
  PROVE  /\ run' \in [Runs -> RunRecord] /\ auto' \in [Autos -> AutoRecord]
         /\ run'[r].status = status /\ run'[r].auto = run[r].auto /\ run'[r].told = run[r].told
         /\ \A s \in Runs \ {r} : run'[s] = run[s]
         /\ \A a \in Autos : auto'[a].row = auto[a].row /\ auto'[a].next = auto[a].next
         /\ \A a \in Autos : auto'[a].last = IF a = run[r].auto THEN status ELSE auto[a].last
<1>1. run \in [Runs -> RunRecord] /\ auto \in [Autos -> AutoRecord]
  BY DEF TypeOK
<1>2. status \in {"none", "gone"} \cup Active \cup Outcomes /\ status \in {"none"} \cup Active \cup Outcomes
  OBVIOUS
<1>3. run' = [run EXCEPT ![r].status = status] /\ auto' = [auto EXCEPT ![run[r].auto].last = status]
  BY DEF Reported
<1>4. run' \in [Runs -> RunRecord]
  BY <1>1, <1>2, <1>3 DEF RunRecord
<1>5. auto' \in [Autos -> AutoRecord]
  BY <1>1, <1>2, <1>3 DEF AutoRecord
<1>6. /\ run'[r].status = status /\ run'[r].auto = run[r].auto /\ run'[r].told = run[r].told
      /\ \A s \in Runs \ {r} : run'[s] = run[s]
  BY <1>1, <1>3 DEF RunRecord
<1>7. \A a \in Autos : /\ auto'[a].row = auto[a].row /\ auto'[a].next = auto[a].next
                        /\ auto'[a].last = IF a = run[r].auto THEN status ELSE auto[a].last
  BY <1>1, <1>3 DEF AutoRecord
<1> QED BY <1>4, <1>5, <1>6, <1>7

LEMMA ToldTypes ==
  ASSUME TypeOK, NEW r \in Runs, NEW status \in Outcomes, Told(r, status)
  PROVE  /\ run' \in [Runs -> RunRecord]
         /\ run'[r].status = run[r].status /\ run'[r].auto = run[r].auto
         /\ run'[r].told = IF run[r].told = "none" THEN status ELSE run[r].told
         /\ \A s \in Runs \ {r} : run'[s] = run[s]
  BY DEF TypeOK, Told, RunRecord

LEMMA WorkerTypes ==
  ASSUME TypeOK, NEW r \in Runs
  PROVE  /\ \A pc \in {"start", "work", "notify", "telling"} : Goto(r, pc) =>
              /\ worker' \in [Runs -> WorkerRecord] /\ worker'[r].pc = pc
              /\ worker'[r].outcome = worker[r].outcome
              /\ \A s \in Runs \ {r} : worker'[s] = worker[s]
         /\ Errs(r) => /\ worker' \in [Runs -> WorkerRecord] /\ worker'[r].pc = "failing"
                       /\ \A s \in Runs \ {r} : worker'[s] = worker[s]
         /\ Stops(r) => /\ worker' \in [Runs -> WorkerRecord] /\ worker'[r].pc = "none"
                        /\ \A s \in Runs \ {r} : worker'[s] = worker[s]
<1>1. worker \in [Runs -> WorkerRecord] /\ NoWorker \in WorkerRecord
  BY DEF TypeOK, NoWorker, WorkerRecord, Outcomes
<1>2. ASSUME NEW pc \in {"start", "work", "notify", "telling"}, Goto(r, pc)
      PROVE  /\ worker' \in [Runs -> WorkerRecord] /\ worker'[r].pc = pc
             /\ worker'[r].outcome = worker[r].outcome
             /\ \A s \in Runs \ {r} : worker'[s] = worker[s]
  BY <1>1, <1>2 DEF Goto, WorkerRecord
<1>3. ASSUME Errs(r)
      PROVE  /\ worker' \in [Runs -> WorkerRecord] /\ worker'[r].pc = "failing"
             /\ \A s \in Runs \ {r} : worker'[s] = worker[s]
  BY <1>1, <1>3 DEF Errs, NoWorker, WorkerRecord
<1>4. ASSUME Stops(r)
      PROVE  /\ worker' \in [Runs -> WorkerRecord] /\ worker'[r].pc = "none"
             /\ \A s \in Runs \ {r} : worker'[s] = worker[s]
  BY <1>1, <1>4 DEF Stops, NoWorker
<1> QED BY <1>2, <1>3, <1>4

\* The runs that a user or the scheduler creates: the rows and threads of the
\* automations in D are new, the others are left alone.
NewRuns(D, ids, pc, rows, threads) ==
  /\ rows \in [Runs -> RunRecord]
  /\ threads \in [Runs -> WorkerRecord]
  /\ \A a \in D : /\ ids[a] \in Runs /\ run[ids[a]].status = "none"
                  /\ rows[ids[a]].auto = a /\ rows[ids[a]].status = "queued" /\ rows[ids[a]].told = "none"
                  /\ threads[ids[a]].pc = pc
  /\ \A r \in Runs : (\A a \in D : ids[a] # r) => rows[r] = run[r] /\ threads[r] = worker[r]

LEMMA CreatedTypes ==
  ASSUME TypeOK, NEW D \in SUBSET Autos, NEW ids \in [D -> Unused], NextIds(ids),
         NEW scheduled \in BOOLEAN, NEW pc \in {"thread", "claimed"}
  PROVE  /\ NewRuns(D, ids, pc, Created(ids, scheduled), Threads(ids, pc))
         /\ \A b \in D : Created(ids, scheduled)[ids[b]].slot = IF scheduled THEN auto[b].next ELSE NoSlot
<1> DEFINE a(r) == CHOOSE b \in DOMAIN ids : ids[b] = r
<1>1. DOMAIN ids = D
  OBVIOUS
<1>2. \A b \in D : ids[b] \in Runs /\ run[ids[b]].status = "none"
  BY DEF Unused, Status
<1>3. \A r \in Runs : (\E b \in D : ids[b] = r) => a(r) \in D /\ ids[a(r)] = r
  BY <1>1
<1>4. \A b \in D : a(ids[b]) = b
  BY <1>1, <1>2, <1>3 DEF NextIds
<1>5. \A b \in D : auto[b].next \in Slots
  BY DEF TypeOK, AutoRecord
<1>6. NoSlot \in Slots
  BY NumbersAssumption DEF Slots, NoSlot
<1>7. \A b \in D : LET n == NewRun(b, IF scheduled THEN auto[b].next ELSE NoSlot)
                   IN  n \in RunRecord /\ n.auto = b /\ n.status = "queued" /\ n.told = "none"
  BY <1>5, <1>6 DEF NewRun, RunRecord, Active, Outcomes
<1>8. LET w == [NoWorker EXCEPT !.pc = pc] IN w \in WorkerRecord /\ w.pc = pc
  BY DEF NoWorker, WorkerRecord, Outcomes
<1>9. \A r \in Runs : run[r] \in RunRecord /\ worker[r] \in WorkerRecord
  BY DEF TypeOK
<1>10. \A r \in Runs : Created(ids, scheduled)[r] =
         IF \E b \in D : ids[b] = r THEN NewRun(a(r), IF scheduled THEN auto[a(r)].next ELSE NoSlot) ELSE run[r]
  BY <1>1 DEF Created
<1>11. \A r \in Runs : Threads(ids, pc)[r] = IF \E b \in D : ids[b] = r THEN [NoWorker EXCEPT !.pc = pc] ELSE worker[r]
  BY <1>1 DEF Threads
<1> HIDE DEF a
<1>12. Created(ids, scheduled) \in [Runs -> RunRecord]
  <2>1. \A r \in Runs : Created(ids, scheduled)[r] \in RunRecord
    BY <1>3, <1>7, <1>9, <1>10
  <2> QED BY <2>1 DEF Created
<1>13. Threads(ids, pc) \in [Runs -> WorkerRecord]
  <2>1. \A r \in Runs : Threads(ids, pc)[r] \in WorkerRecord
    BY <1>8, <1>9, <1>11
  <2> QED BY <2>1 DEF Threads
<1>14. ASSUME NEW b \in D
       PROVE  Created(ids, scheduled)[ids[b]] = NewRun(b, IF scheduled THEN auto[b].next ELSE NoSlot)
  <2>1. ids[b] \in Runs /\ a(ids[b]) = b /\ \E c \in D : ids[c] = ids[b]
    BY <1>2, <1>4
  <2> QED BY <2>1, <1>10
<1>15. ASSUME NEW b \in D
       PROVE  /\ ids[b] \in Runs /\ run[ids[b]].status = "none"
              /\ Created(ids, scheduled)[ids[b]].auto = b
              /\ Created(ids, scheduled)[ids[b]].status = "queued"
              /\ Created(ids, scheduled)[ids[b]].told = "none"
              /\ Threads(ids, pc)[ids[b]].pc = pc
  <2>1. Created(ids, scheduled)[ids[b]] = NewRun(b, IF scheduled THEN auto[b].next ELSE NoSlot)
    BY <1>14
  <2>2. Threads(ids, pc)[ids[b]] = [NoWorker EXCEPT !.pc = pc]
    BY <1>2, <1>11
  <2> QED BY <1>2, <1>7, <1>8, <2>1, <2>2
<1>16. ASSUME NEW r \in Runs, \A b \in D : ids[b] # r
       PROVE  Created(ids, scheduled)[r] = run[r] /\ Threads(ids, pc)[r] = worker[r]
  BY <1>10, <1>11, <1>16
<1>17. ASSUME NEW b \in D
       PROVE  Created(ids, scheduled)[ids[b]].slot = IF scheduled THEN auto[b].next ELSE NoSlot
  <2>1. NewRun(b, IF scheduled THEN auto[b].next ELSE NoSlot).slot = IF scheduled THEN auto[b].next ELSE NoSlot
    BY DEF NewRun
  <2> QED BY <1>14, <2>1
<1> QED BY <1>12, <1>13, <1>15, <1>16, <1>17 DEF NewRuns
----------------------------------------------------------------------------
(* Types *)

LEMMA TypeInit == Init => TypeOK
  BY NumbersAssumption DEF Init, TypeOK, AutoRecord, RunRecord, WorkerRecord, EditorRecord, NoRun, NoWorker,
     NoEditor, NoSlot, Slots, Active, Outcomes

LEMMA NextSlots == ASSUME TypeOK
                   PROVE  \A n \in 0..1 : NextRunAt(now + n) \in Slots
  BY NumbersAssumption DEF TypeOK, NextRunAt, Slots, NoSlot

LEMMA TypeStep ==
  ASSUME TypeOK, [Next]_vars
  PROVE  TypeOK'
<1>1. ASSUME NEW a \in Autos, CreateAutomation(a)
      PROVE  TypeOK'
  <2>1. \A n \in {NoSlot, NextRunAt(now)} : n \in Slots
    BY NumbersAssumption DEF TypeOK, NextRunAt, Slots, NoSlot
  <2>2. PICK n \in {NoSlot, NextRunAt(now)} : auto' = [auto EXCEPT ![a].row = "there", ![a].next = n]
    BY <1>1 DEF CreateAutomation
  <2>3. auto' \in [Autos -> AutoRecord]
    BY <2>1, <2>2 DEF TypeOK, AutoRecord
  <2> QED BY <1>1, <2>3 DEF TypeOK, CreateAutomation, counters
<1>2. ASSUME NEW a \in Autos, ReadForUpdate(a)
      PROVE  TypeOK'
  BY <1>2, NumbersAssumption DEF TypeOK, ReadForUpdate, EditorRecord, MayHappen
<1>3. ASSUME WriteUpdate
      PROVE  TypeOK'
  <2>1. \A n \in {NoSlot, NextRunAt(editor.at)} : n \in Slots
    BY NumbersAssumption DEF TypeOK, EditorRecord, NextRunAt, Slots, NoSlot
  <2>2. PICK n \in {NoSlot, NextRunAt(editor.at)} :
          auto' = [a \in Autos |-> IF a = editor.auto /\ There(a) THEN [auto[a] EXCEPT !.next = n] ELSE auto[a]]
    BY <1>3 DEF WriteUpdate
  <2>3. auto' \in [Autos -> AutoRecord]
    BY <2>1, <2>2 DEF TypeOK, AutoRecord
  <2>4. editor' \in EditorRecord
    BY <1>3, NumbersAssumption DEF WriteUpdate, EditorRecord, NoEditor
  <2> QED BY <1>3, <2>3, <2>4 DEF TypeOK, WriteUpdate, counters
<1>4. ASSUME NEW a \in Autos, DeleteAutomation(a)
      PROVE  TypeOK'
  <2>1. auto' \in [Autos -> AutoRecord]
    BY <1>4, NumbersAssumption DEF DeleteAutomation, TypeOK, AutoRecord, Slots, NoSlot
  <2>2. NoRun \in RunRecord
    BY NumbersAssumption DEF NoRun, RunRecord, Slots, NoSlot
  <2>3. run' \in [Runs -> RunRecord]
    BY <1>4, <2>2 DEF DeleteAutomation, TypeOK
  <2> QED BY <1>4, <2>1, <2>3 DEF TypeOK, DeleteAutomation, counters
<1>5. ASSUME NEW a \in Autos, RunNow(a)
      PROVE  TypeOK'
  <2>1. PICK ids \in [{a} -> Unused] : NextIds(ids) /\ run' = Created(ids, FALSE) /\ worker' = Threads(ids, "thread")
    BY <1>5 DEF RunNow
  <2>2. run' \in [Runs -> RunRecord] /\ worker' \in [Runs -> WorkerRecord]
    <3>1. {a} \in SUBSET Autos /\ FALSE \in BOOLEAN /\ "thread" \in {"thread", "claimed"}
      OBVIOUS
    <3>2. Created(ids, FALSE) \in [Runs -> RunRecord] /\ Threads(ids, "thread") \in [Runs -> WorkerRecord]
      BY <2>1, <3>1, CreatedTypes DEF NewRuns
    <3> QED BY <2>1, <3>2
  <2>3. auto' \in [Autos -> AutoRecord]
    BY <1>5 DEF RunNow, TypeOK, AutoRecord, Active
  <2> QED BY <1>5, <2>2, <2>3 DEF TypeOK, RunNow, counters
<1>6. ASSUME Claim
      PROVE  TypeOK'
  <2>0. PICK rows \in (SUBSET Autos) \ {{}} :
          \E skipped \in [rows -> 0..1] :
            /\ \E ids \in [{a \in rows : Claimable(a)} -> Unused] :
                 NextIds(ids) /\ run' = Created(ids, TRUE) /\ worker' = Threads(ids, "claimed")
            /\ auto' = [a \in Autos |->
                         [auto[a] EXCEPT !.next = IF a \in Advanced(rows) THEN NextRunAt(now + skipped[a]) ELSE @,
                                         !.last = IF a \in rows /\ Claimable(a) THEN "queued" ELSE @]]
    BY <1>6 DEF Claim
  <2>1. PICK skipped \in [rows -> 0..1] :
          /\ \E ids \in [{a \in rows : Claimable(a)} -> Unused] :
               NextIds(ids) /\ run' = Created(ids, TRUE) /\ worker' = Threads(ids, "claimed")
          /\ auto' = [a \in Autos |->
                       [auto[a] EXCEPT !.next = IF a \in Advanced(rows) THEN NextRunAt(now + skipped[a]) ELSE @,
                                       !.last = IF a \in rows /\ Claimable(a) THEN "queued" ELSE @]]
    BY <2>0
  <2>2. run' \in [Runs -> RunRecord] /\ worker' \in [Runs -> WorkerRecord]
    <3> DEFINE D == {a \in rows : Claimable(a)}
    <3>1. D \in SUBSET Autos /\ TRUE \in BOOLEAN /\ "claimed" \in {"thread", "claimed"}
      OBVIOUS
    <3>2. PICK ids \in [D -> Unused] :
            NextIds(ids) /\ run' = Created(ids, TRUE) /\ worker' = Threads(ids, "claimed")
      BY <2>1
    <3> HIDE DEF D
    <3>3. Created(ids, TRUE) \in [Runs -> RunRecord] /\ Threads(ids, "claimed") \in [Runs -> WorkerRecord]
      BY <3>1, <3>2, CreatedTypes DEF NewRuns
    <3> QED BY <3>2, <3>3
  <2>3. \A a \in rows : NextRunAt(now + skipped[a]) \in Slots
    BY NextSlots
  <2>4. auto' \in [Autos -> AutoRecord]
    <3> DEFINE n(a) == IF a \in Advanced(rows) THEN NextRunAt(now + skipped[a]) ELSE auto[a].next
               last(a) == IF a \in rows /\ Claimable(a) THEN "queued" ELSE auto[a].last
               New(a) == [auto[a] EXCEPT !.next = n(a), !.last = last(a)]
    <3>1. auto' = [a \in Autos |-> New(a)]
      BY <2>1
    <3>2. ASSUME NEW a \in Autos
          PROVE  New(a) \in AutoRecord
      <4>1. n(a) \in Slots
        BY <2>3 DEF TypeOK, AutoRecord, Advanced
      <4>2. last(a) \in {"queued", auto[a].last}
        OBVIOUS
      <4> HIDE DEF n, last
      <4> QED BY <4>1, <4>2 DEF TypeOK, AutoRecord, Active
    <3> HIDE DEF New
    <3> QED BY <3>1, <3>2
  <2> QED BY <1>6, <2>2, <2>4 DEF TypeOK, Claim, counters
<1>7. ASSUME NEW r \in Runs, StartWorker(r)
      PROVE  TypeOK'
  BY <1>7 DEF StartWorker, TypeOK, WorkerRecord, counters
<1>8. ASSUME NEW r \in Runs, StartFails(r)
      PROVE  TypeOK'
  <2>1. worker' \in [Runs -> WorkerRecord]
    BY <1>8 DEF StartFails, TypeOK, WorkerRecord, NoWorker, Outcomes
  <2>2. Fault
    BY <1>8 DEF StartFails
  <2> QED BY <1>8, <2>1, <2>2, FaultTypes DEF StartFails, TypeOK
<1>9. ASSUME NEW r \in Runs, Execute(r)
      PROVE  TypeOK'
  <2>1. CASE Raises(r) /\ OnlyWorker
    BY <2>1, FaultTypes, WorkerTypes DEF Raises, OnlyWorker, TypeOK, Unfaulted, counters
  <2>2. ASSUME Unfaulted, OnlyWorker, worker' \in [Runs -> WorkerRecord],
               NEW status \in Active \cup Outcomes, Reported(r, status)
        PROVE  TypeOK'
    BY <2>2, ReportedTypes DEF TypeOK, OnlyWorker, Unfaulted, counters
  <2>9. ASSUME OnlyWorker, NEW status \in Active \cup Outcomes, AnswerFails(r, status)
        PROVE  TypeOK'
    BY <2>9, ReportedTypes, FaultTypes, WorkerTypes DEF AnswerFails, TypeOK, OnlyWorker
  <2>3. CASE Start(r)
    <3>1. CASE Unfaulted /\ Goto(r, "work") /\ UNCHANGED <<auto, run>>
      BY <2>3, <3>1, WorkerTypes DEF Start, TypeOK, OnlyWorker, Unfaulted, counters
    <3> QED BY <2>1, <2>2, <2>3, <2>9, <3>1, WorkerTypes DEF Start, Active
  <2>4. CASE Work(r)
    BY <2>4, ResultsAssumption DEF Work, Errs, NoWorker, OnlyWorker, TypeOK, WorkerRecord, Outcomes, counters
  <2>5. CASE Finish(r)
    <3>1. worker[r].outcome \in Outcomes
      BY DEF TypeOK, WorkerRecord
    <3> QED BY <2>1, <2>2, <2>5, <2>9, <3>1, WorkerTypes DEF Finish
  <2>6. CASE Notify(r)
    <3>1. worker[r].outcome \in Outcomes
      BY DEF TypeOK, WorkerRecord
    <3>2. CASE UNCHANGED run /\ Unfaulted /\ Stops(r)
      BY <2>6, <3>2, WorkerTypes DEF Notify, OnlyWorker, TypeOK, Unfaulted, counters
    <3>3. CASE Told(r, worker[r].outcome) /\ Unfaulted /\ Stops(r)
      BY <2>6, <3>1, <3>3, WorkerTypes, ToldTypes DEF Notify, OnlyWorker, TypeOK, Unfaulted, counters
    <3>4. CASE Told(r, worker[r].outcome) /\ Fault /\ Errs(r)
      BY <2>6, <3>1, <3>4, WorkerTypes, ToldTypes, FaultTypes DEF Notify, OnlyWorker, TypeOK
    <3> QED BY <2>1, <2>6, <3>2, <3>3, <3>4 DEF Notify
  <2>7. CASE Failing(r)
    <3>1. CASE UNCHANGED <<auto, run>>
      BY <2>7, <3>1, WorkerTypes, FaultTypes DEF Failing, OnlyWorker, TypeOK, Unfaulted, counters
    <3> QED BY <2>2, <2>7, <3>1, WorkerTypes DEF Failing, Outcomes
  <2>8. CASE Telling(r)
    <3>1. CASE UNCHANGED run
      BY <2>8, <3>1, WorkerTypes, FaultTypes DEF Telling, OnlyWorker, TypeOK, Unfaulted, counters
    <3>2. CASE Told(r, "failed") /\ Unfaulted
      BY <2>8, <3>2, WorkerTypes, ToldTypes DEF Telling, OnlyWorker, TypeOK, Unfaulted, counters, Outcomes
    <3> QED BY <2>8, <3>1, <3>2 DEF Telling
  <2> QED BY <1>9, <2>3, <2>4, <2>5, <2>6, <2>7, <2>8 DEF Execute
<1>10. CASE Serve
  BY <1>10, FaultTypes DEF Serve, TypeOK, Unfaulted, counters
<1>11. ASSUME NEW r \in Runs, Recover(r)
       PROVE  TypeOK'
  <2>1. auto' \in [Autos -> AutoRecord]
    BY ZenonT(40), <1>11 DEF Recover, TypeOK, AutoRecord, Outcomes
  <2>2. PICK told \in {run[r].told} \cup (IF run[r].told = "none" THEN {"failed"} ELSE {}) :
          run' = [run EXCEPT ![r].status = "failed", ![r].told = told]
    BY <1>11 DEF Recover
  <2>3. told \in {"none"} \cup Outcomes
    BY DEF TypeOK, RunRecord, Outcomes
  <2>4. run' \in [Runs -> RunRecord]
    BY ZenonT(40), <2>2, <2>3 DEF TypeOK, RunRecord, Outcomes
  <2> QED BY <1>11, <2>1, <2>4 DEF Recover, TypeOK, counters
<1>12. CASE Restart
  <2>1. NoWorker \in WorkerRecord /\ NoEditor \in EditorRecord
    BY NumbersAssumption DEF NoWorker, WorkerRecord, NoEditor, EditorRecord, Outcomes
  <2> QED BY <1>12, <2>1, NumbersAssumption DEF Restart, TypeOK, MayHappen
<1>13. CASE Tick
  BY <1>13, NumbersAssumption DEF Tick, TypeOK
<1>14. CASE UNCHANGED vars
  BY <1>14 DEF vars, counters, TypeOK
<1> QED BY <1>1, <1>2, <1>3, <1>4, <1>5, <1>6, <1>7, <1>8, <1>9, <1>10, <1>11, <1>12, <1>13, <1>14 DEF Next, Boot

\* Every variable keeps its type, for any number of automations, runs, updates,
\* restarts and faults.
THEOREM AutomationsTypeCorrect == Safe => []TypeOK
  BY TypeInit, TypeStep, PTL DEF Safe
----------------------------------------------------------------------------
(* The inductive invariant *)

LEMMA InvInit == Init => IInv
  BY TypeInit DEF Init, IInv, WorkersMatch, Ordered, ActiveIsNewest, Agreement, RowExists, Status, NoRun, NoWorker, Active

\* Steps that leave the runs and what is said of them alone.
QuietStep ==
  /\ run' = run /\ (faults' = faults \/ faults' # 0)
  /\ \A a \in Autos : auto'[a].last = auto[a].last
  /\ agent' # "booting" \/ \A r \in Runs : worker'[r].pc = "none"
  /\ \A r \in Runs : \/ worker'[r] = worker[r]
                     \/ worker'[r].pc = "none"
                     \/ worker[r].pc \in {"thread", "claimed"} /\ worker'[r].pc = "start"

LEMMA Quiet == ASSUME IInv, TypeOK', QuietStep
               PROVE  IInv'
  BY DEF QuietStep, IInv, WorkersMatch, Ordered, ActiveIsNewest, Agreement, RowExists, Status

\* The runs of a user or the scheduler are new, and the newest.
LEMMA Creation ==
  ASSUME IInv, TypeOK', NEW D \in SUBSET Autos, NEW ids \in [D -> Unused], NextIds(ids),
         NEW scheduled \in BOOLEAN, NEW pc \in {"thread", "claimed"},
         run' = Created(ids, scheduled), worker' = Threads(ids, pc),
         \A a \in D : ~HasActiveRun(a) /\ auto'[a].last = "queued",
         \A a \in Autos \ D : auto'[a].last = auto[a].last,
         agent = "up", agent' = "up", faults' = faults
  PROVE  IInv'
<1>0. NewRuns(D, ids, pc, run', worker')
  <2>1. TypeOK
    BY DEF IInv
  <2>2. NewRuns(D, ids, pc, Created(ids, scheduled), Threads(ids, pc))
    BY <2>1, CreatedTypes
  <2> QED BY <2>2
<1>1. \A a \in D : /\ ids[a] \in Runs /\ run[ids[a]].status = "none"
                    /\ run'[ids[a]].auto = a /\ run'[ids[a]].status = "queued"
                    /\ run'[ids[a]].told = "none" /\ worker'[ids[a]].pc = pc
  BY <1>0 DEF NewRuns
<1>2. \A r \in Runs : (\A a \in D : ids[a] # r) => run'[r] = run[r] /\ worker'[r] = worker[r]
  BY <1>0 DEF NewRuns
<1>3. \A a, b \in D : ids[a] = ids[b] => a = b
  BY DEF NextIds
<1>4. \A a \in D, r \in Runs : run[r].status = "none" /\ r < ids[a] => \E b \in D : ids[b] = r
  BY DEF NextIds, Unused, Status
<1>5. \A a \in D, r \in Runs : RowExists(r) => r < ids[a] /\ \A b \in D : ids[b] # r
  <2> SUFFICES ASSUME NEW a \in D, NEW r \in Runs, RowExists(r), ~(r < ids[a])
               PROVE  FALSE
    BY <1>1 DEF RowExists, Status
  <2>1. ids[a] < r \/ ids[a] = r
    BY <1>1 DEF Runs
  <2> QED BY <1>1, <2>1 DEF IInv, Ordered, RowExists, Status
<1>6. Ordered'
  <2> SUFFICES ASSUME NEW r \in Runs, NEW s \in Runs, run'[r].status = "none", r < s
               PROVE  run'[s].status = "none"
    BY DEF Ordered
  <2>1. run[r].status = "none" /\ \A a \in D : ids[a] # r
    BY <1>1, <1>2
  <2>2. \A a \in D : ids[a] # s
    BY <1>4, <2>1
  <2> QED BY <1>2, <2>1, <2>2 DEF IInv, Ordered
<1>7. \A r \in Runs : RowExists(r) => run'[r] = run[r] /\ worker'[r] = worker[r]
  BY <1>2, <1>5
<1>8. \A r \in Runs : RowExists(r)' => RowExists(r) \/ \E a \in D : ids[a] = r
  BY <1>2 DEF RowExists, Status
<1>9. ActiveIsNewest'
  <2> SUFFICES ASSUME NEW r \in Runs, NEW s \in Runs, run'[r].status \in Active, RowExists(s)',
                      run'[s].auto = run'[r].auto
               PROVE  s <= r
    BY DEF ActiveIsNewest
  <2>0. RowExists(r)'
    BY DEF RowExists, Status, Active
  <2>1. CASE \E a \in D : ids[a] = r
    <3>1. PICK a \in D : ids[a] = r
      BY <2>1
    <3>2. CASE RowExists(s)
      BY <1>5, <3>1, <3>2 DEF Runs
    <3>3. CASE \E b \in D : ids[b] = s
      BY <1>1, <3>1, <3>3 DEF Runs
    <3> QED BY <1>8, <3>2, <3>3
  <2>2. CASE RowExists(r)
    <3>1. run'[r] = run[r]
      BY <1>7, <2>2
    <3>2. ~(\E b \in D : ids[b] = s)
      <4> SUFFICES ASSUME NEW b \in D, ids[b] = s
                   PROVE  FALSE
        OBVIOUS
      <4>1. run[r].auto = b
        BY <1>1, <3>1
      <4> QED BY <2>2, <3>1, <4>1 DEF HasActiveRun, RunsOf, Status
    <3>3. RowExists(s) /\ run'[s] = run[s]
      BY <1>7, <1>8, <3>2
    <3> QED BY <3>1, <3>3 DEF IInv, ActiveIsNewest
  <2> QED BY <1>8, <2>0, <2>1, <2>2
<1>10. WorkersMatch'
  <2>1. ASSUME NEW r \in Runs, RowExists(r)'
        PROVE  /\ worker'[r].pc \in {"thread", "claimed", "start"} => run'[r].status = "queued"
               /\ worker'[r].pc \in {"work", "finish"} => run'[r].status = "running"
    <3>1. CASE RowExists(r)
      BY <1>7, <3>1 DEF IInv, WorkersMatch
    <3>2. CASE \E a \in D : ids[a] = r
      BY <1>1, <3>2
    <3> QED BY <1>8, <2>1, <3>1, <3>2
  <2>2. agent' # "booting"
    OBVIOUS
  <2> QED BY <2>1, <2>2 DEF WorkersMatch
<1>11. Agreement'
  <2> SUFFICES ASSUME faults = 0
               PROVE  /\ \A r \in Runs : run'[r].told # "none" => run'[r].told = run'[r].status
                      /\ \A r \in Runs : RowExists(r)' =>
                           /\ worker'[r].pc = "notify" => run'[r].status = worker'[r].outcome /\ run'[r].told = "none"
                           /\ worker'[r].pc = "failing" => run'[r].status = "running"
                           /\ worker'[r].pc = "telling" => run'[r].status = "failed"
                      /\ \A a \in Autos, r \in Runs :
                           /\ RowExists(r)' /\ run'[r].auto = a
                           /\ \A s \in Runs : RowExists(s)' /\ run'[s].auto = a => s <= r
                           => auto'[a].last = run'[r].status
    BY DEF Agreement
  <2>1. ASSUME NEW r \in Runs
        PROVE  run'[r].told # "none" => run'[r].told = run'[r].status
    BY <1>1, <1>2 DEF IInv, Agreement
  <2>2. ASSUME NEW r \in Runs, RowExists(r)'
        PROVE  /\ worker'[r].pc = "notify" => run'[r].status = worker'[r].outcome /\ run'[r].told = "none"
               /\ worker'[r].pc = "failing" => run'[r].status = "running"
               /\ worker'[r].pc = "telling" => run'[r].status = "failed"
    BY <1>1, <1>7, <1>8, <2>2 DEF IInv, Agreement
  <2>3. ASSUME NEW a \in Autos, NEW r \in Runs, RowExists(r)', run'[r].auto = a,
               \A s \in Runs : RowExists(s)' /\ run'[s].auto = a => s <= r
        PROVE  auto'[a].last = run'[r].status
    <3>1. CASE a \in D
      <4>1. ids[a] <= r /\ ids[a] \in Runs
        BY <1>1, <2>3, <3>1 DEF RowExists, Status
      <4>2. ~RowExists(r)
        BY <1>5, <3>1, <4>1 DEF Runs
      <4>3. ids[a] = r
        BY <1>1, <1>8, <2>3, <4>2
      <4> QED BY <1>1, <3>1, <4>3
    <3>2. CASE a \notin D
      <4>1. RowExists(r) /\ run'[r] = run[r]
        BY <1>1, <1>7, <1>8, <2>3, <3>2
      <4>2. \A s \in Runs : RowExists(s) /\ run[s].auto = a => s <= r
        BY <1>7, <2>3 DEF RowExists, Status
      <4> QED BY <2>3, <3>2, <4>1, <4>2 DEF IInv, Agreement
    <3> QED BY <3>1, <3>2
  <2> QED BY <2>1, <2>2, <2>3
<1> QED BY <1>6, <1>9, <1>10, <1>11 DEF IInv

\* The worker of r reports or tells, or does neither; or the recovery does.
WorkersStep(r) ==
  /\ agent' = "booting" => \A s \in Runs : worker'[s].pc = "none"
  /\ \A s \in Runs \ {r} : run'[s] = run[s] /\ worker'[s] = worker[s]
  /\ run'[r].auto = run[r].auto
  /\ (RowExists(r)' <=> RowExists(r))
  /\ run'[r].status \notin {"none", "gone"} \/ run'[r] = run[r]
  /\ run'[r].status = run[r].status \/ run[r].status \in Active \/ faults' # 0
  /\ (run'[r].status \in Active => run[r].status \in Active)
  /\ (RowExists(r) =>
        /\ worker'[r].pc \notin {"thread", "claimed", "start"}
        /\ worker'[r].pc \in {"work", "finish"} => run'[r].status = "running")
  /\ (faults' = 0 =>
        /\ faults = 0
        /\ run'[r].told # "none" => run'[r].told = run'[r].status
        /\ RowExists(r) =>
             /\ worker'[r].pc = "notify" => run'[r].status = worker'[r].outcome /\ run'[r].told = "none"
             /\ worker'[r].pc = "failing" => run'[r].status = "running"
             /\ worker'[r].pc = "telling" => run'[r].status = "failed"
        /\ \A a \in Autos : auto'[a].last = IF a = run[r].auto /\ run'[r].status # run[r].status
                                            THEN run'[r].status ELSE auto[a].last)

LEMMA WorkerStep ==
  ASSUME IInv, TypeOK', NEW r \in Runs, WorkersStep(r)
  PROVE  IInv'
<1>1. \A s \in Runs : /\ (RowExists(s)' <=> RowExists(s))
                       /\ run'[s].auto = run[s].auto
                       /\ (run'[s].status \in Active => run[s].status \in Active)
                       /\ (run'[s].status = "none" <=> run[s].status = "none")
  <2> SUFFICES ASSUME NEW s \in Runs
               PROVE  /\ (RowExists(s)' <=> RowExists(s))
                      /\ run'[s].auto = run[s].auto
                      /\ (run'[s].status \in Active => run[s].status \in Active)
                      /\ (run'[s].status = "none" <=> run[s].status = "none")
    OBVIOUS
  <2>1. CASE s = r
    BY <2>1 DEF WorkersStep, RowExists, Status
  <2>2. CASE s # r
    BY <2>2 DEF WorkersStep, RowExists, Status
  <2> QED BY <2>1, <2>2
<1>2. Ordered' /\ ActiveIsNewest'
  BY <1>1 DEF IInv, Ordered, ActiveIsNewest
<1>3. WorkersMatch'
  <2>1. ASSUME NEW s \in Runs, RowExists(s)'
        PROVE  /\ worker'[s].pc \in {"thread", "claimed", "start"} => run'[s].status = "queued"
               /\ worker'[s].pc \in {"work", "finish"} => run'[s].status = "running"
    BY <1>1, <2>1 DEF WorkersStep, IInv, WorkersMatch
  <2>2. agent' = "booting" => \A s \in Runs : worker'[s].pc = "none"
    BY DEF WorkersStep
  <2> QED BY <2>1, <2>2 DEF WorkersMatch
<1>4. Agreement'
  <2> SUFFICES ASSUME faults' = 0
               PROVE  /\ \A s \in Runs : run'[s].told # "none" => run'[s].told = run'[s].status
                      /\ \A s \in Runs : RowExists(s)' =>
                           /\ worker'[s].pc = "notify" => run'[s].status = worker'[s].outcome /\ run'[s].told = "none"
                           /\ worker'[s].pc = "failing" => run'[s].status = "running"
                           /\ worker'[s].pc = "telling" => run'[s].status = "failed"
                      /\ \A a \in Autos, s \in Runs :
                           /\ RowExists(s)' /\ run'[s].auto = a
                           /\ \A t \in Runs : RowExists(t)' /\ run'[t].auto = a => t <= s
                           => auto'[a].last = run'[s].status
    BY DEF Agreement
  <2>1. \A s \in Runs : run'[s].told # "none" => run'[s].told = run'[s].status
    BY DEF WorkersStep, IInv, Agreement
  <2>2. ASSUME NEW s \in Runs, RowExists(s)'
        PROVE  /\ worker'[s].pc = "notify" => run'[s].status = worker'[s].outcome /\ run'[s].told = "none"
               /\ worker'[s].pc = "failing" => run'[s].status = "running"
               /\ worker'[s].pc = "telling" => run'[s].status = "failed"
    BY <1>1, <2>2 DEF WorkersStep, IInv, Agreement
  <2>3. ASSUME NEW a \in Autos, NEW s \in Runs, RowExists(s)', run'[s].auto = a,
               \A t \in Runs : RowExists(t)' /\ run'[t].auto = a => t <= s
        PROVE  auto'[a].last = run'[s].status
    <3>1. RowExists(s) /\ run[s].auto = a /\ \A t \in Runs : RowExists(t) /\ run[t].auto = a => t <= s
      BY <1>1, <2>3
    <3>2. auto[a].last = run[s].status
      BY <3>1 DEF WorkersStep, IInv, Agreement
    <3>3. CASE run'[r].status = run[r].status
      BY <3>2, <3>3 DEF WorkersStep
    <3>4. CASE run'[r].status # run[r].status
      <4>1. run[r].status \in Active
        BY <3>4 DEF WorkersStep
      <4>2. CASE run[r].auto = a
        <5>1. s <= r /\ RowExists(r)
          BY <3>1, <4>1, <4>2 DEF IInv, ActiveIsNewest, RowExists, Status, Active
        <5>2. r <= s
          BY <3>1, <4>2, <5>1
        <5>3. r = s
          BY <5>1, <5>2 DEF Runs
        <5> QED BY <3>4, <4>2, <5>3 DEF WorkersStep
      <4>3. CASE run[r].auto # a
        BY <3>1, <3>2, <4>3 DEF WorkersStep
      <4> QED BY <4>2, <4>3
    <3> QED BY <3>3, <3>4
  <2> QED BY <2>1, <2>2, <2>3
<1> QED BY <1>2, <1>3, <1>4 DEF IInv

LEMMA InvStep ==
  ASSUME IInv, [Next]_vars
  PROVE  IInv'
<1>1. TypeOK /\ TypeOK'
  BY TypeStep DEF IInv
<1>2. agent = "booting" => \A r \in Runs : At(r, "none")
  BY DEF IInv, WorkersMatch, At
<1>3. ASSUME NEW a \in Autos, CreateAutomation(a)
      PROVE  IInv'
  <2>1. \A b \in Autos : auto'[b].last = auto[b].last
    BY <1>1, <1>3 DEF CreateAutomation, TypeOK, AutoRecord
  <2>2. UNCHANGED <<run, worker, agent, faults>>
    BY <1>3 DEF CreateAutomation, counters
  <2> QED BY <1>1, <1>2, <2>1, <2>2, Quiet DEF At, QuietStep
<1>4. ASSUME NEW a \in Autos, ReadForUpdate(a)
      PROVE  IInv'
  <2>1. UNCHANGED <<auto, run, worker, agent, faults>>
    BY <1>4 DEF ReadForUpdate
  <2> QED BY <1>1, <1>2, <2>1, Quiet DEF At, QuietStep
<1>5. CASE WriteUpdate
  <2>1. \A b \in Autos : auto'[b].last = auto[b].last
    BY <1>1, <1>5 DEF WriteUpdate, TypeOK, AutoRecord
  <2>2. UNCHANGED <<run, worker, agent, faults>>
    BY <1>5 DEF WriteUpdate, counters
  <2> QED BY <1>1, <1>2, <2>1, <2>2, Quiet DEF At, QuietStep
<1>6. ASSUME NEW a \in Autos, DeleteAutomation(a)
      PROVE  IInv'
  <2>1. /\ UNCHANGED <<worker, agent, faults>>
        /\ \A b \in Autos \ {a} : auto'[b] = auto[b]
        /\ \A r \in Runs : run'[r] = IF RowExists(r) /\ run[r].auto = a THEN NoRun ELSE run[r]
    BY <1>1, <1>6 DEF DeleteAutomation, counters, TypeOK, RunsOf
  <2>2. \A r \in Runs : /\ (RowExists(r)' <=> RowExists(r) /\ run[r].auto # a)
                         /\ (RowExists(r)' => run'[r] = run[r])
                         /\ (run'[r].status = "none" <=> run[r].status = "none")
                         /\ (run'[r].told # "none" => run'[r] = run[r])
    BY <2>1 DEF RowExists, Status, NoRun
  <2>3. Ordered'
    BY <2>2 DEF IInv, Ordered
  <2>4. ActiveIsNewest'
    <3> SUFFICES ASSUME NEW r \in Runs, NEW s \in Runs, run'[r].status \in Active, RowExists(s)',
                        run'[s].auto = run'[r].auto
                 PROVE  s <= r
      BY DEF ActiveIsNewest
    <3>1. RowExists(r)'
      BY DEF RowExists, Status, Active
    <3> QED BY <2>2, <3>1 DEF IInv, ActiveIsNewest
  <2>5. WorkersMatch'
    BY <2>1, <2>2 DEF IInv, WorkersMatch
  <2>6. Agreement'
    <3> SUFFICES ASSUME faults = 0
                 PROVE  /\ \A r \in Runs : run'[r].told # "none" => run'[r].told = run'[r].status
                        /\ \A r \in Runs : RowExists(r)' =>
                             /\ worker'[r].pc = "notify" => run'[r].status = worker'[r].outcome /\ run'[r].told = "none"
                             /\ worker'[r].pc = "failing" => run'[r].status = "running"
                             /\ worker'[r].pc = "telling" => run'[r].status = "failed"
                        /\ \A b \in Autos, r \in Runs :
                             /\ RowExists(r)' /\ run'[r].auto = b
                             /\ \A s \in Runs : RowExists(s)' /\ run'[s].auto = b => s <= r
                             => auto'[b].last = run'[r].status
      BY <2>1 DEF Agreement
    <3>1. \A r \in Runs : run'[r].told # "none" => run'[r].told = run'[r].status
      BY <2>2 DEF IInv, Agreement
    <3>2. \A r \in Runs : RowExists(r)' =>
            /\ worker'[r].pc = "notify" => run'[r].status = worker'[r].outcome /\ run'[r].told = "none"
            /\ worker'[r].pc = "failing" => run'[r].status = "running"
            /\ worker'[r].pc = "telling" => run'[r].status = "failed"
      BY <2>1, <2>2 DEF IInv, Agreement
    <3>3. ASSUME NEW b \in Autos, NEW r \in Runs, RowExists(r)', run'[r].auto = b,
                 \A s \in Runs : RowExists(s)' /\ run'[s].auto = b => s <= r
          PROVE  auto'[b].last = run'[r].status
      <4>1. RowExists(r) /\ run[r].auto = b /\ b # a /\ run'[r] = run[r]
        BY <2>2, <3>3
      <4>2. \A s \in Runs : RowExists(s) /\ run[s].auto = b => s <= r
        BY <2>2, <3>3, <4>1
      <4>3. auto[b].last = run[r].status
        BY <4>1, <4>2 DEF IInv, Agreement
      <4> QED BY <2>1, <4>1, <4>3
    <3> QED BY <3>1, <3>2, <3>3
  <2> QED BY <1>1, <2>3, <2>4, <2>5, <2>6 DEF IInv
<1>7. ASSUME NEW a \in Autos, RunNow(a)
      PROVE  IInv'
  <2>1. PICK ids \in [{a} -> Unused] : NextIds(ids) /\ run' = Created(ids, FALSE) /\ worker' = Threads(ids, "thread")
    BY <1>7 DEF RunNow
  <2>2. /\ ~HasActiveRun(a) /\ agent = "up" /\ agent' = "up" /\ faults' = faults
        /\ auto'[a].last = "queued" /\ \A b \in Autos \ {a} : auto'[b].last = auto[b].last
    BY <1>1, <1>7 DEF RunNow, Up, counters, TypeOK, AutoRecord
  <2>3. {a} \in SUBSET Autos /\ FALSE \in BOOLEAN /\ "thread" \in {"thread", "claimed"}
    OBVIOUS
  <2> QED BY <1>1, <2>1, <2>2, <2>3, Creation
<1>8. CASE Claim
  <2>0. PICK rows \in (SUBSET Autos) \ {{}} :
          \E skipped \in [rows -> 0..1] :
            /\ \E ids \in [{a \in rows : Claimable(a)} -> Unused] :
                 NextIds(ids) /\ run' = Created(ids, TRUE) /\ worker' = Threads(ids, "claimed")
            /\ auto' = [a \in Autos |->
                         [auto[a] EXCEPT !.next = IF a \in Advanced(rows) THEN NextRunAt(now + skipped[a]) ELSE @,
                                         !.last = IF a \in rows /\ Claimable(a) THEN "queued" ELSE @]]
    BY <1>8 DEF Claim
  <2>1. PICK skipped \in [rows -> 0..1] :
          /\ \E ids \in [{a \in rows : Claimable(a)} -> Unused] :
               NextIds(ids) /\ run' = Created(ids, TRUE) /\ worker' = Threads(ids, "claimed")
          /\ auto' = [a \in Autos |->
                       [auto[a] EXCEPT !.next = IF a \in Advanced(rows) THEN NextRunAt(now + skipped[a]) ELSE @,
                                       !.last = IF a \in rows /\ Claimable(a) THEN "queued" ELSE @]]
    BY <2>0
  <2> DEFINE D == {a \in rows : Claimable(a)}
  <2>2. PICK ids \in [D -> Unused] : NextIds(ids) /\ run' = Created(ids, TRUE) /\ worker' = Threads(ids, "claimed")
    BY <2>1
  <2>3. \A a \in Autos : auto'[a].last = IF a \in D THEN "queued" ELSE auto[a].last
    BY <1>1, <2>1 DEF TypeOK, AutoRecord
  <2>4. D \in SUBSET Autos /\ \A a \in D : ~HasActiveRun(a)
    BY DEF Claimable
  <2>5. agent = "up" /\ agent' = "up" /\ faults' = faults
    BY <1>8 DEF Claim, Up, counters
  <2>6. TRUE \in BOOLEAN /\ "claimed" \in {"thread", "claimed"}
    OBVIOUS
  <2> HIDE DEF D
  <2>7. /\ \A a \in D : ~HasActiveRun(a) /\ auto'[a].last = "queued"
        /\ \A a \in Autos \ D : auto'[a].last = auto[a].last
    BY <2>3, <2>4
  <2> QED BY <1>1, <2>2, <2>4, <2>5, <2>6, <2>7, Creation
<1>9. ASSUME NEW r \in Runs, StartWorker(r)
      PROVE  IInv'
  <2>1. UNCHANGED <<auto, run, agent, faults>> /\ worker[r].pc \in {"thread", "claimed"}
    BY <1>9 DEF StartWorker, counters, At
  <2>2. worker'[r].pc = "start" /\ \A s \in Runs \ {r} : worker'[s] = worker[s]
    BY <1>1, <1>9 DEF StartWorker, TypeOK, WorkerRecord
  <2>3. agent' # "booting"
    BY <1>2, <2>1 DEF At
  <2> QED BY <1>1, <2>1, <2>2, <2>3, Quiet DEF QuietStep
<1>10. ASSUME NEW r \in Runs, StartFails(r)
       PROVE  IInv'
  <2>1. UNCHANGED <<auto, run, agent>> /\ worker[r].pc \in {"thread", "claimed"} /\ faults' # 0
    BY <1>1, <1>10, FaultTypes DEF StartFails, At
  <2>2. \A s \in Runs : worker'[s] = worker[s] \/ worker'[s].pc = "none"
    BY <1>1, <1>10 DEF StartFails, TypeOK, NoWorker
  <2>3. agent' # "booting"
    BY <1>2, <2>1 DEF At
  <2> QED BY <1>1, <2>1, <2>2, <2>3, Quiet DEF QuietStep
<1>11. ASSUME NEW r \in Runs, Execute(r)
       PROVE  IInv'
  <2>0. /\ worker[r].pc # "none" /\ agent = "up" /\ agent' = "up"
        /\ worker[r].outcome \in Outcomes
    BY <1>1, <1>2, <1>11 DEF Execute, Start, Work, Finish, Notify, Failing, Telling, At, OnlyWorker, TypeOK, WorkerRecord
  <2>1. /\ RowExists(r) =>
             /\ At(r, "start") => run[r].status = "queued"
             /\ worker[r].pc \in {"work", "finish"} => run[r].status = "running"
        /\ faults = 0 =>
             /\ run[r].told # "none" => run[r].told = run[r].status
             /\ RowExists(r) =>
                  /\ At(r, "notify") => run[r].status = worker[r].outcome /\ run[r].told = "none"
                  /\ At(r, "failing") => run[r].status = "running"
                  /\ At(r, "telling") => run[r].status = "failed"
    BY DEF IInv, WorkersMatch, Agreement, At
  <2>2. ASSUME NEW status \in {"running"} \cup Outcomes, RowExists(r), Unfaulted, Reported(r, status),
               \A s \in Runs \ {r} : worker'[s] = worker[s],
               \/ At(r, "start") /\ status = "running" /\ worker'[r].pc = "work"
               \/ At(r, "finish") /\ status = worker[r].outcome /\ worker'[r].pc = "notify"
                  /\ worker'[r].outcome = worker[r].outcome
               \/ At(r, "failing") /\ status = "failed" /\ worker'[r].pc = "telling"
        PROVE  IInv'
    <3>1. /\ run'[r].status = status /\ run'[r].auto = run[r].auto /\ run'[r].told = run[r].told
          /\ \A s \in Runs \ {r} : run'[s] = run[s]
          /\ \A a \in Autos : auto'[a].last = IF a = run[r].auto THEN status ELSE auto[a].last
      BY <1>1, <2>2, ReportedTypes DEF Active
    <3>2. faults' = faults /\ status \notin {"none", "gone"} /\ RowExists(r)'
      BY <2>2, <3>1 DEF Unfaulted, counters, RowExists, Status, Outcomes
    <3>3. faults' = 0 => /\ run[r].status \in Active /\ run[r].status # status
                         /\ (run[r].told # "none" => run[r].told = run[r].status)
      BY <2>0, <2>1, <2>2, <3>2 DEF Active, Outcomes, At
    <3>4. run[r].told = "none" \/ faults' # 0
      <4>1. run[r].told \in {"none"} \cup Outcomes
        BY <1>1 DEF TypeOK, RunRecord
      <4> QED BY <3>3, <4>1 DEF Active, Outcomes
    <3>5. status \in Active => run[r].status \in Active
      BY <2>1, <2>2 DEF Active, Outcomes, At
    <3>6. run[r].status \in Active \/ faults' # 0
      BY <3>3
    <3>7. WorkersStep(r)
      BY <2>0, <2>1, <2>2, <3>1, <3>2, <3>3, <3>4, <3>5, <3>6 DEF WorkersStep, At
    <3> QED BY <1>1, <3>7, WorkerStep
  <2>3. ASSUME \/ UNCHANGED run
               \/ RowExists(r) /\ At(r, "notify") /\ Told(r, worker[r].outcome)
               \/ RowExists(r) /\ At(r, "telling") /\ Told(r, "failed"),
               UNCHANGED <<auto, agent>>, \A s \in Runs \ {r} : worker'[s] = worker[s],
               \/ faults' # 0 /\ worker'[r].pc \in {"none", "failing", "telling"}
               \/ faults' = faults /\ worker'[r].pc = "none"
               \/ faults' = faults /\ ~RowExists(r) /\ worker'[r].pc \in {"failing", "telling"}
               \/ faults' = faults /\ At(r, "work") /\ worker'[r].pc \in {"finish", "failing"}
        PROVE  IInv'
    <3>1. /\ run'[r].status = run[r].status /\ run'[r].auto = run[r].auto
          /\ \A s \in Runs \ {r} : run'[s] = run[s]
      BY <1>1, <2>0, <2>3, ToldTypes DEF Outcomes
    <3>2. (RowExists(r)' <=> RowExists(r)) /\ (run'[r].status \notin {"none", "gone"} \/ run'[r] = run[r])
      BY <2>3, <3>1 DEF RowExists, Status
    <3>3. faults' = 0 => (run'[r].told # "none" => run'[r].told = run'[r].status)
      <4>1. CASE UNCHANGED run
        BY <2>1, <2>3, <4>1
      <4>2. CASE RowExists(r) /\ At(r, "notify") /\ Told(r, worker[r].outcome)
        BY <1>1, <2>0, <2>1, <2>3, <4>2, ToldTypes
      <4>3. CASE RowExists(r) /\ At(r, "telling") /\ Told(r, "failed")
        BY <1>1, <2>1, <2>3, <4>3, ToldTypes DEF Outcomes
      <4> QED BY <2>3, <4>1, <4>2, <4>3
    <3>4. \A a \in Autos : auto'[a].last = IF a = run[r].auto /\ run'[r].status # run[r].status
                                            THEN run'[r].status ELSE auto[a].last
      BY <2>3, <3>1
    <3>5. RowExists(r) =>
            /\ worker'[r].pc \notin {"thread", "claimed", "start"}
            /\ worker'[r].pc \in {"work", "finish"} => run'[r].status = "running"
      BY <2>1, <2>3, <3>1 DEF At
    <3>6. faults' = 0 /\ RowExists(r) =>
            /\ worker'[r].pc = "notify" => run'[r].status = worker'[r].outcome /\ run'[r].told = "none"
            /\ worker'[r].pc = "failing" => run'[r].status = "running"
            /\ worker'[r].pc = "telling" => run'[r].status = "failed"
      BY <2>1, <2>3, <3>1 DEF At
    <3>7. WorkersStep(r)
      <4>1. faults' = 0 => faults = 0
        BY <2>3
      <4> QED BY <2>0, <2>3, <3>1, <3>2, <3>3, <3>4, <3>5, <3>6, <4>1 DEF WorkersStep
    <3> QED BY <1>1, <3>7, WorkerStep
  <2>4. ASSUME Raises(r), OnlyWorker
        PROVE  IInv'
    <3>1. UNCHANGED <<auto, run, agent>> /\ worker'[r].pc = "failing" /\ \A s \in Runs \ {r} : worker'[s] = worker[s]
      BY <1>1, <2>4, WorkerTypes DEF Raises, OnlyWorker
    <3>2. faults' # 0 \/ (faults' = faults /\ ~RowExists(r))
      BY <1>1, <2>4, FaultTypes DEF Raises, Unfaulted, counters
    <3> QED BY <2>3, <3>1, <3>2
  <2>11. ASSUME NEW status \in {"running"} \cup Outcomes, AnswerFails(r, status), worker[r].pc \in {"start", "finish"}
         PROVE  IInv'
    <3>1. /\ run'[r].status = status /\ run'[r].auto = run[r].auto
          /\ \A s \in Runs \ {r} : run'[s] = run[s]
      BY <1>1, <2>11, ReportedTypes DEF AnswerFails, Active
    <3>2. /\ RowExists(r) /\ run[r].status \in Active /\ faults' # 0
          /\ worker'[r].pc = "failing" /\ \A s \in Runs \ {r} : worker'[s] = worker[s]
      BY <1>1, <2>1, <2>11, FaultTypes, WorkerTypes DEF AnswerFails, Active, At
    <3>3. status \notin {"none", "gone"}
      BY DEF Outcomes
    <3>4. RowExists(r)'
      BY <3>1, <3>3 DEF RowExists, Status
    <3>5. WorkersStep(r)
      BY <2>0, <3>1, <3>2, <3>3, <3>4 DEF WorkersStep
    <3> QED BY <1>1, <3>5, WorkerStep
  <2>5. CASE Start(r)
    <3>1. CASE RowExists(r) /\ Unfaulted
      <4>1. run[r].status = "queued" /\ At(r, "start")
        BY <2>1, <2>5, <3>1 DEF Start
      <4>2. CASE Raises(r)
        BY <2>4, <2>5, <4>2 DEF Start
      <4>3. CASE Reported(r, "running") /\ Goto(r, "work")
        <5>1. worker'[r].pc = "work" /\ \A s \in Runs \ {r} : worker'[s] = worker[s]
          BY <1>1, <4>3, WorkerTypes
        <5> QED BY <2>2, <3>1, <4>1, <4>3, <5>1
      <4>4. CASE AnswerFails(r, "running")
        BY <2>11, <4>1, <4>4 DEF At
      <4> QED BY <2>5, <4>1, <4>2, <4>3, <4>4 DEF Start, Status
    <3>2. CASE Raises(r)
      BY <2>4, <2>5, <3>2 DEF Start
    <3>3. CASE AnswerFails(r, "running")
      BY <2>5, <2>11, <3>3 DEF Start, At
    <3> QED BY <2>5, <3>1, <3>2, <3>3 DEF Start
  <2>6. CASE Work(r)
    <3>1. UNCHANGED <<auto, run, agent, faults>> /\ At(r, "work")
      BY <2>6 DEF Work, OnlyWorker, counters
    <3>2. worker'[r].pc \in {"finish", "failing"} /\ \A s \in Runs \ {r} : worker'[s] = worker[s]
      BY <1>1, <2>6 DEF Work, Errs, NoWorker, TypeOK, WorkerRecord
    <3> QED BY <2>3, <3>1, <3>2
  <2>7. CASE Finish(r)
    <3>1. CASE RowExists(r) /\ Unfaulted /\ Reported(r, worker[r].outcome) /\ Goto(r, "notify")
      <4>1. /\ worker'[r].pc = "notify" /\ worker'[r].outcome = worker[r].outcome
            /\ \A s \in Runs \ {r} : worker'[s] = worker[s]
        BY <1>1, <3>1, WorkerTypes
      <4>2. At(r, "finish")
        BY <2>7 DEF Finish
      <4> QED BY <2>0, <2>2, <3>1, <4>1, <4>2
    <3>2. CASE AnswerFails(r, worker[r].outcome)
      BY <2>0, <2>7, <2>11, <3>2 DEF Finish, At
    <3> QED BY <2>4, <2>7, <3>1, <3>2 DEF Finish
  <2>8. CASE Notify(r)
    <3>1. At(r, "notify") /\ UNCHANGED <<auto, agent>>
      BY <2>8 DEF Notify, OnlyWorker
    <3>2. CASE Stops(r) /\ Unfaulted /\ (UNCHANGED run \/ (RowExists(r) /\ Told(r, worker[r].outcome)))
      BY <1>1, <2>3, <3>1, <3>2, WorkerTypes DEF Unfaulted, counters
    <3>3. CASE Fault /\ Errs(r) /\ RowExists(r) /\ Told(r, worker[r].outcome)
      BY <1>1, <2>3, <3>1, <3>3, WorkerTypes, FaultTypes
    <3>4. CASE Raises(r)
      BY <2>4, <2>8, <3>4 DEF Notify
    <3> QED BY <2>8, <3>2, <3>3, <3>4 DEF Notify
  <2>9. CASE Failing(r)
    <3>1. At(r, "failing") /\ worker'[r].pc = "telling" /\ \A s \in Runs \ {r} : worker'[s] = worker[s]
      BY <1>1, <2>9, WorkerTypes DEF Failing
    <3>2. CASE RowExists(r) /\ Unfaulted /\ Reported(r, "failed")
      BY <2>2, <3>1, <3>2 DEF Outcomes
    <3>3. CASE UNCHANGED <<auto, run>> /\ (Fault \/ (~RowExists(r) /\ Unfaulted))
      <4>1. faults' # 0 \/ (faults' = faults /\ ~RowExists(r))
        BY <1>1, <3>3, FaultTypes DEF Unfaulted, counters
      <4> QED BY <2>3, <2>9, <3>1, <3>3, <4>1 DEF Failing, OnlyWorker
    <3> QED BY <2>9, <3>2, <3>3 DEF Failing
  <2>10. CASE Telling(r)
    <3>1. At(r, "telling") /\ worker'[r].pc = "none" /\ \A s \in Runs \ {r} : worker'[s] = worker[s]
      BY <1>1, <2>10, WorkerTypes DEF Telling
    <3>2. faults' # 0 \/ faults' = faults
      BY <1>1, <2>10, FaultTypes DEF Telling, Unfaulted, counters
    <3>3. UNCHANGED run \/ (RowExists(r) /\ Told(r, "failed"))
      BY <2>10 DEF Telling
    <3>4. UNCHANGED <<auto, agent>>
      BY <2>10 DEF Telling, OnlyWorker
    <3> QED BY <2>3, <3>1, <3>2, <3>3, <3>4
  <2> QED BY <1>11, <2>5, <2>6, <2>7, <2>8, <2>9, <2>10 DEF Execute
<1>12. CASE Serve
  <2>1. UNCHANGED <<auto, run, worker>> /\ agent' = "up"
    BY <1>12 DEF Serve
  <2>2. faults' = faults \/ faults' # 0
    BY <1>1, <1>12, FaultTypes DEF Serve, Unfaulted, counters
  <2> QED BY <1>1, <2>1, <2>2, Quiet DEF QuietStep
<1>13. ASSUME NEW r \in Runs, Recover(r)
       PROVE  IInv'
  <2>1. /\ UNCHANGED <<worker, agent, faults>> /\ \A s \in Runs : worker[s].pc = "none"
        /\ RowExists(r) /\ run[r].status \in Active
    BY <1>2, <1>13 DEF Recover, At, counters, Stale, Scanned, Status
  <2>2. PICK told \in {run[r].told} \cup (IF run[r].told = "none" THEN {"failed"} ELSE {}) :
          run' = [run EXCEPT ![r].status = "failed", ![r].told = told]
    BY <1>13 DEF Recover
  <2>3. /\ run'[r].status = "failed" /\ run'[r].told = told /\ run'[r].auto = run[r].auto
        /\ \A s \in Runs \ {r} : run'[s] = run[s]
    BY <1>1, <2>2 DEF TypeOK, RunRecord
  <2>4. faults' = 0 => told \in {"none", "failed"}
    <3>1. run[r].told \in {"none"} \cup Outcomes
      BY <1>1 DEF TypeOK, RunRecord
    <3>2. faults = 0 => (run[r].told # "none" => run[r].told = run[r].status)
      BY DEF IInv, Agreement
    <3> QED BY <2>1, <3>1, <3>2 DEF Active, Outcomes
  <2>5. \A a \in Autos : auto'[a].last = IF a = run[r].auto /\ run'[r].status # run[r].status
                                          THEN run'[r].status ELSE auto[a].last
    BY <1>1, <1>13, <2>1, <2>3 DEF Recover, TypeOK, AutoRecord, Active
  <2>6. WorkersStep(r)
    BY <2>1, <2>3, <2>4, <2>5 DEF WorkersStep, RowExists, Status, Active
  <2> QED BY <1>1, <2>6, WorkerStep
<1>14. CASE Restart
  <2>1. UNCHANGED <<auto, run, faults>> /\ \A r \in Runs : worker'[r].pc = "none"
    BY <1>14 DEF Restart, NoWorker
  <2> QED BY <1>1, <2>1, Quiet DEF QuietStep
<1>15. CASE Tick \/ UNCHANGED vars
  <2>1. UNCHANGED <<auto, run, worker, agent, faults>>
    BY <1>15 DEF Tick, vars, counters
  <2> QED BY <1>1, <1>2, <2>1, Quiet DEF At, QuietStep
<1> QED BY <1>3, <1>4, <1>5, <1>6, <1>7, <1>8, <1>9, <1>10, <1>11, <1>12, <1>13, <1>14, <1>15 DEF Next, Boot

LEMMA InvAlways == Safe => []IInv
  BY InvInit, InvStep, PTL DEF Safe

\* An automation has at most one active run, and a worker executes a run only
\* while the run says that it is running, whatever is edited, deleted, restarted
\* or fails.
THEOREM AutomationsOneExecution == Safe => []OneExecution
<1>1. IInv => OneExecution
  <2> SUFFICES ASSUME IInv
               PROVE  OneExecution
    OBVIOUS
  <2>1. ASSUME NEW r \in Runs, NEW s \in Runs, Status(r, Active), Status(s, Active), run[r].auto = run[s].auto
        PROVE  r = s
    <3>1. RowExists(r) /\ RowExists(s)
      BY <2>1 DEF RowExists, Status, Active
    <3>2. r <= s /\ s <= r
      BY <2>1, <3>1 DEF IInv, ActiveIsNewest, Status
    <3> QED BY <3>2 DEF Runs
  <2>2. ASSUME NEW r \in Runs, Executing(r)
        PROVE  Status(r, {"running"})
    BY <2>2 DEF IInv, WorkersMatch, Executing, Status
  <2> QED BY <2>1, <2>2 DEF OneExecution
<1> QED BY <1>1, InvAlways, PTL

\* Without a failed write, what is told of a run and the last status of its
\* automation agree with the runs, for any number of restarts and deletions.
THEOREM AutomationsReportsAgree == Safe => []ReportsAgree
<1>1. IInv => ReportsAgree
  BY DEF IInv, Agreement, ReportsAgree, RunsOf
<1> QED BY <1>1, InvAlways, PTL

\* A run that ended stays as it ended, or its own worker fails it, although
\* neither the workers nor the store look before they write.
THEOREM AutomationsEndedRunsStay == Safe => EndedRunsStay
<1> DEFINE Stays == \A r \in Runs : Status(r, Outcomes) =>
                      \/ run'[r].status \in {run[r].status, "gone"}
                      \/ run'[r].status = "failed" /\ At(r, "failing")
<1>1. ASSUME IInv, [Next]_vars
      PROVE  Stays
  <2> SUFFICES ASSUME NEW r \in Runs, Status(r, Outcomes)
               PROVE  \/ run'[r].status \in {run[r].status, "gone"}
                      \/ run'[r].status = "failed" /\ At(r, "failing")
    OBVIOUS
  <2>0. TypeOK /\ run[r].status \in Outcomes /\ RowExists(r)
    BY <1>1 DEF IInv, Status, RowExists, Outcomes
  <2>1. CASE \/ UNCHANGED run
             \/ \E s \in Runs : /\ Told(s, "failed") \/ Told(s, worker[s].outcome)
    <3>1. \A s \in Runs : worker[s].outcome \in Outcomes /\ "failed" \in Outcomes
      BY <2>0 DEF TypeOK, WorkerRecord, Outcomes
    <3>2. ASSUME NEW s \in Runs, NEW o \in Outcomes, Told(s, o)
          PROVE  run'[r].status = run[r].status
      BY <2>0, <3>2, ToldTypes
    <3> QED BY <2>1, <3>1, <3>2
  <2>2. ASSUME NEW D \in SUBSET Autos, NEW ids \in [D -> Unused], NextIds(ids),
               NEW scheduled \in BOOLEAN, run' = Created(ids, scheduled)
        PROVE  run'[r] = run[r]
    <3>1. NewRuns(D, ids, "thread", Created(ids, scheduled), Threads(ids, "thread"))
      BY <2>0, <2>2, CreatedTypes
    <3>2. \A a \in D : ids[a] # r
      BY <2>0, <3>1 DEF NewRuns, Outcomes
    <3> QED BY <2>2, <3>1, <3>2 DEF NewRuns
  <2>3. ASSUME NEW a \in Autos, DeleteAutomation(a)
        PROVE  run'[r].status \in {run[r].status, "gone"}
    BY <2>0, <2>3 DEF DeleteAutomation, NoRun, TypeOK
  <2>4. ASSUME NEW a \in Autos, RunNow(a)
        PROVE  run'[r] = run[r]
    <3>1. PICK ids \in [{a} -> Unused] : NextIds(ids) /\ run' = Created(ids, FALSE)
      BY <2>4 DEF RunNow
    <3>2. {a} \in SUBSET Autos /\ FALSE \in BOOLEAN
      OBVIOUS
    <3> QED BY <2>2, <3>1, <3>2
  <2>5. ASSUME Claim
        PROVE  run'[r] = run[r]
    <3>1. PICK rows \in (SUBSET Autos) \ {{}} :
            \E ids \in [{a \in rows : Claimable(a)} -> Unused] : NextIds(ids) /\ run' = Created(ids, TRUE)
      BY <2>5 DEF Claim
    <3> DEFINE D == {a \in rows : Claimable(a)}
    <3>2. PICK ids \in [D -> Unused] : NextIds(ids) /\ run' = Created(ids, TRUE)
      BY <3>1
    <3>3. D \in SUBSET Autos /\ TRUE \in BOOLEAN
      OBVIOUS
    <3> HIDE DEF D
    <3> QED BY <2>2, <3>2, <3>3
  <2>6. ASSUME NEW s \in Runs, NEW status \in Active \cup Outcomes, Reported(s, status), s # r
        PROVE  run'[r] = run[r]
    BY <2>0, <2>6, ReportedTypes
  <2>7. ASSUME NEW s \in Runs, Execute(s)
        PROVE  \/ run'[r].status \in {run[r].status, "gone"}
               \/ run'[r].status = "failed" /\ At(r, "failing")
    <3>1. worker[s].outcome \in Outcomes
      BY <2>0 DEF TypeOK, WorkerRecord
    <3>2. /\ At(r, "start") => run[r].status = "queued"
          /\ At(r, "finish") => run[r].status = "running"
      BY <1>1, <2>0 DEF IInv, WorkersMatch, At
    <3>3. CASE Start(s)
      BY <2>0, <2>1, <2>6, <3>2, <3>3 DEF Start, AnswerFails, Raises, Active, Outcomes
    <3>4. CASE Finish(s)
      BY <2>0, <2>1, <2>6, <3>1, <3>2, <3>4 DEF Finish, AnswerFails, Raises, Active, Outcomes
    <3>5. CASE Failing(s)
      <4>1. "failed" \in Active \cup Outcomes
        BY DEF Outcomes
      <4>2. CASE s = r /\ Reported(s, "failed")
        BY <2>0, <3>5, <4>1, <4>2, ReportedTypes DEF Failing
      <4> QED BY <2>1, <2>6, <3>5, <4>1, <4>2 DEF Failing
    <3>6. CASE Work(s)
      <4>1. UNCHANGED run
        BY <3>6 DEF Work
      <4> QED BY <2>1, <4>1
    <3>7. CASE Notify(s)
      BY <2>1, <3>7 DEF Notify, Raises
    <3>8. CASE Telling(s)
      BY <2>1, <3>8 DEF Telling
    <3> QED BY <2>7, <3>3, <3>4, <3>5, <3>6, <3>7, <3>8 DEF Execute
  <2>8. ASSUME NEW s \in Runs, Recover(s)
        PROVE  run'[r] = run[r]
    <3>1. s # r
      BY <2>0, <2>8 DEF Recover, Stale, Status, Active, Outcomes
    <3> QED BY <2>0, <2>8, <3>1 DEF Recover, TypeOK
  <2>9. CASE UNCHANGED run
    BY <2>9
  <2> QED BY <1>1, <2>3, <2>4, <2>5, <2>7, <2>8, <2>9
          DEF Next, CreateAutomation, ReadForUpdate, WriteUpdate, StartWorker, StartFails, Boot, Serve, Restart, Tick, vars
<1>2. [][Stays]_vars <=> EndedRunsStay
  BY DEF EndedRunsStay
<1> QED BY <1>1, <1>2, InvAlways, PTL DEF Safe

----------------------------------------------------------------------------
(* How often a slot is claimed *)

Claims(a, n) == {r \in RunsOf(a) : run[r].slot = n}

\* The scheduler may still claim the slot n of the automation a, or the editor
\* may still put the automation back to it.
Unclaimed(a, n) == There(a) /\ auto[a].next # NoSlot /\ auto[a].next <= n
Rewound(a, n) == editor.pc = "write" /\ editor.auto = a /\ NextRunAt(editor.at) <= n
One(b) == IF b THEN 1 ELSE 0

\* Each of the two is paid for before it happens: by the creation of the
\* automation, and by the update when it reads the clock.
ClaimsInv ==
  /\ \A r \in Runs : RowExists(r) => run[r].auto \in Autos /\ There(run[r].auto)
  /\ editor.pc = "write" => edits # 0
  /\ \A a \in Autos, n \in Slots \ {NoSlot} :
       Cardinality(Claims(a, n)) + One(Unclaimed(a, n)) + One(Rewound(a, n)) <= 1 + edits

LEMMA ClaimsFinite ==
  ASSUME NEW a \in Autos, NEW n \in Slots
  PROVE  IsFiniteSet(Claims(a, n)) /\ Cardinality(Claims(a, n)) \in Nat
<1>1. IsFiniteSet(Runs)
  BY NumbersAssumption, FS_Interval DEF Runs
<1>2. Claims(a, n) \in SUBSET Runs
  BY DEF Claims, RunsOf
<1> QED BY <1>1, <1>2, FS_Subset, FS_CardinalityType

\* What a step that adds at most the run x makes of the number of claims.
LEMMA OneMoreClaim ==
  ASSUME NEW a \in Autos, NEW n \in Slots, NEW x, Claims(a, n)' \subseteq Claims(a, n) \cup {x}
  PROVE  Cardinality(Claims(a, n)') \in Nat /\ Cardinality(Claims(a, n)') <= Cardinality(Claims(a, n)) + 1
<1>1. IsFiniteSet(Claims(a, n)) /\ Cardinality(Claims(a, n)) \in Nat
  BY ClaimsFinite
<1>2. IsFiniteSet(Claims(a, n) \cup {x})
  BY <1>1, FS_AddElement
<1>3. Cardinality(Claims(a, n) \cup {x}) = IF x \in Claims(a, n) THEN Cardinality(Claims(a, n))
                                                                 ELSE Cardinality(Claims(a, n)) + 1
  BY <1>1, FS_AddElement
<1>4. IsFiniteSet(Claims(a, n)') /\ Cardinality(Claims(a, n)') <= Cardinality(Claims(a, n) \cup {x})
  BY <1>2, FS_Subset
<1>5. Cardinality(Claims(a, n)') \in Nat
  BY <1>4, FS_CardinalityType
<1> QED BY <1>1, <1>3, <1>4, <1>5

LEMMA NoMoreClaims ==
  ASSUME NEW a \in Autos, NEW n \in Slots, Claims(a, n)' \subseteq Claims(a, n)
  PROVE  Cardinality(Claims(a, n)') \in Nat /\ Cardinality(Claims(a, n)') <= Cardinality(Claims(a, n))
  BY ClaimsFinite, FS_Subset, FS_CardinalityType

\* A run stays with its automation and its slot.
RunsKept == \A r \in Runs : RowExists(r)' => /\ RowExists(r)
                                             /\ run'[r].auto = run[r].auto
                                             /\ run'[r].slot = run[r].slot

LEMMA KeptClaims ==
  ASSUME RunsKept, NEW a \in Autos, NEW n \in Slots
  PROVE  Cardinality(Claims(a, n)') \in Nat /\ Cardinality(Claims(a, n)') <= Cardinality(Claims(a, n))
<1>1. Claims(a, n)' \subseteq Claims(a, n)
  BY DEF RunsKept, Claims, RunsOf
<1> QED BY <1>1, NoMoreClaims

\* The steps of workers and of the recovery, and those that touch no run.
LEMMA ReportsKeepRuns ==
  ASSUME TypeOK, NEW r \in Runs, NEW status \in Active \cup Outcomes, RowExists(r),
         Reported(r, status) \/ Told(r, status)
  PROVE  RunsKept
  BY DEF TypeOK, RunRecord, Reported, Told, RunsKept, RowExists, Status

LEMMA ExecuteKeepsRuns ==
  ASSUME TypeOK, NEW r \in Runs, Execute(r)
  PROVE  /\ RunsKept
         /\ \A a \in Autos : auto'[a].row = auto[a].row /\ auto'[a].next = auto[a].next
<1>1. worker[r].outcome \in Outcomes
  BY DEF TypeOK, WorkerRecord
<1>2. ASSUME UNCHANGED run
      PROVE  RunsKept
  BY <1>2 DEF RunsKept, RowExists, Status
<1>3. /\ "running" \in Active \cup Outcomes /\ "failed" \in Active \cup Outcomes
      /\ worker[r].outcome \in Active \cup Outcomes
  BY <1>1 DEF Active, Outcomes
<1>4. \/ UNCHANGED <<auto, run>>
      \/ \E status \in Active \cup Outcomes :
           /\ RowExists(r)
           /\ Reported(r, status) \/ (Told(r, status) /\ UNCHANGED auto)
  <2>1. CASE Start(r)
    BY <1>3, <2>1 DEF Start, AnswerFails, Raises
  <2>2. CASE Work(r)
    BY <2>2 DEF Work
  <2>3. CASE Finish(r)
    BY <1>3, <2>3 DEF Finish, AnswerFails, Raises
  <2>4. CASE Notify(r)
    BY <1>3, <2>4 DEF Notify, Raises
  <2>5. CASE Failing(r)
    BY <1>3, <2>5 DEF Failing
  <2>6. CASE Telling(r)
    BY <1>3, <2>6 DEF Telling
  <2> QED BY <2>1, <2>2, <2>3, <2>4, <2>5, <2>6 DEF Execute
<1>5. CASE UNCHANGED <<auto, run>>
  BY <1>2, <1>5
<1>6. ASSUME NEW status \in Active \cup Outcomes, RowExists(r),
             Reported(r, status) \/ (Told(r, status) /\ UNCHANGED auto)
      PROVE  /\ RunsKept
             /\ \A a \in Autos : auto'[a].row = auto[a].row /\ auto'[a].next = auto[a].next
  BY <1>6, ReportsKeepRuns, ReportedTypes
<1> QED BY <1>4, <1>5, <1>6

\* Steps that leave schedules, the editor and the slots of runs alone.
LEMMA ClaimsQuiet ==
  ASSUME TypeOK, ClaimsInv, RunsKept, edits' = edits, editor' = editor \/ editor'.pc # "write",
         \A a \in Autos : auto'[a].row = auto[a].row /\ auto'[a].next = auto[a].next
  PROVE  ClaimsInv'
<1>1. \A r \in Runs : RowExists(r)' => run'[r].auto \in Autos /\ auto'[run'[r].auto].row = "there"
  BY DEF ClaimsInv, RunsKept, There
<1>2. ASSUME NEW a \in Autos, NEW n \in Slots \ {NoSlot}
      PROVE  Cardinality(Claims(a, n)') + One(Unclaimed(a, n)') + One(Rewound(a, n)') <= 1 + edits'
  <2>1. Cardinality(Claims(a, n)') \in Nat /\ Cardinality(Claims(a, n)') <= Cardinality(Claims(a, n))
    BY KeptClaims
  <2>2. Cardinality(Claims(a, n)) \in Nat
    BY ClaimsFinite
  <2>3. Unclaimed(a, n)' => Unclaimed(a, n)
    BY DEF Unclaimed, There
  <2>4. Rewound(a, n)' => Rewound(a, n)
    BY DEF Rewound
  <2>5. /\ One(Unclaimed(a, n)') \in 0..1 /\ One(Unclaimed(a, n)) \in 0..1
        /\ One(Unclaimed(a, n)') <= One(Unclaimed(a, n))
        /\ One(Rewound(a, n)') \in 0..1 /\ One(Rewound(a, n)) \in 0..1
        /\ One(Rewound(a, n)') <= One(Rewound(a, n))
    BY <2>3, <2>4 DEF One
  <2>6. Cardinality(Claims(a, n)) + One(Unclaimed(a, n)) + One(Rewound(a, n)) <= 1 + edits /\ edits \in Nat
    BY DEF ClaimsInv, TypeOK
  <2> QED BY <2>1, <2>2, <2>5, <2>6
<1>3. (editor.pc = "write" => edits # 0)'
  BY DEF ClaimsInv
<1> QED BY <1>1, <1>2, <1>3 DEF ClaimsInv, There

\* The sum that ClaimsInv bounds, for one automation and one slot.
Paid(a, n) == Cardinality(Claims(a, n)) + One(Unclaimed(a, n)) + One(Rewound(a, n)) <= 1 + edits

LEMMA PaidArithmetic ==
  ASSUME NEW c \in Nat, NEW d \in Nat, NEW e \in Nat, NEW f \in Nat,
         NEW u \in BOOLEAN, NEW v \in BOOLEAN, NEW w \in BOOLEAN, NEW x \in BOOLEAN,
         c + One(u) + One(w) <= 1 + e,
         \/ d <= c /\ (v => u) /\ (x => w) /\ e <= f
         \/ d <= c /\ (v => u \/ w) /\ ~x /\ e <= f
         \/ d <= c /\ (v => u) /\ ~w /\ f = e + 1
         \/ d <= c + 1 /\ u /\ ~v /\ (x => w) /\ f = e
         \/ d = 0 /\ (x => f # 0)
  PROVE  d + One(v) + One(x) <= 1 + f
  BY DEF One

\* One step of the argument: how the claims, and the two chances of one more,
\* may change.
LEMMA PaidStep ==
  ASSUME TypeOK, TypeOK', ClaimsInv, NEW a \in Autos, NEW n \in Slots \ {NoSlot},
         Cardinality(Claims(a, n)') \in Nat,
         LET c == Cardinality(Claims(a, n))
             d == Cardinality(Claims(a, n)')
         IN  \/ d <= c /\ (Unclaimed(a, n)' => Unclaimed(a, n)) /\ (Rewound(a, n)' => Rewound(a, n)) /\ edits <= edits'
             \/ /\ d <= c /\ (Unclaimed(a, n)' => Unclaimed(a, n) \/ Rewound(a, n))
                /\ ~Rewound(a, n)' /\ edits <= edits'
             \/ d <= c /\ (Unclaimed(a, n)' => Unclaimed(a, n)) /\ ~Rewound(a, n) /\ edits' = edits + 1
             \/ /\ d <= c + 1 /\ Unclaimed(a, n) /\ ~Unclaimed(a, n)'
                /\ (Rewound(a, n)' => Rewound(a, n)) /\ edits' = edits
             \/ d = 0 /\ (Rewound(a, n)' => edits' # 0)
  PROVE  Paid(a, n)'
<1>1. Cardinality(Claims(a, n)) \in Nat
  BY ClaimsFinite
<1>2. /\ Unclaimed(a, n) \in BOOLEAN /\ Unclaimed(a, n)' \in BOOLEAN
      /\ Rewound(a, n) \in BOOLEAN /\ Rewound(a, n)' \in BOOLEAN
  BY DEF Unclaimed, Rewound
<1>3. edits \in Nat /\ edits' \in Nat
  BY DEF TypeOK
<1>4. Paid(a, n)
  BY DEF ClaimsInv, Paid
<1> QED BY SMTT(30), <1>1, <1>2, <1>3, <1>4, PaidArithmetic DEF Paid

\* An automation without runs.
LEMMA NoClaims ==
  ASSUME NEW a \in Autos, NEW n \in Slots, \A r \in Runs : RowExists(r)' => run'[r].auto # a
  PROVE  Cardinality(Claims(a, n)') = 0
<1>1. Claims(a, n)' = {}
  BY DEF Claims, RunsOf
<1> QED BY <1>1, FS_EmptySet

\* New runs claim the slots their automations were due at.
LEMMA CreatedClaims ==
  ASSUME TypeOK, ClaimsInv, NEW D \in SUBSET Autos, NEW ids \in [D -> Unused], NextIds(ids),
         NEW scheduled \in BOOLEAN, run' = Created(ids, scheduled),
         NEW a \in Autos, NEW n \in Slots \ {NoSlot}
  PROVE  /\ Cardinality(Claims(a, n)') \in Nat
         /\ Cardinality(Claims(a, n)') <= Cardinality(Claims(a, n)) + 1
         /\ \/ scheduled /\ a \in D /\ auto[a].next = n
            \/ Cardinality(Claims(a, n)') <= Cardinality(Claims(a, n))
<1>1. /\ NewRuns(D, ids, "thread", run', Threads(ids, "thread"))
      /\ \A b \in D : run'[ids[b]].slot = IF scheduled THEN auto[b].next ELSE NoSlot
  BY CreatedTypes
<1>2. \A r \in Runs : \/ run'[r] = run[r]
                      \/ \E b \in D : ids[b] = r
  BY <1>1 DEF NewRuns
<1>3. \A r \in Claims(a, n)' : \/ r \in Claims(a, n)
                               \/ scheduled /\ a \in D /\ auto[a].next = n /\ r = ids[a]
  <2> SUFFICES ASSUME NEW r \in Runs, RowExists(r)', run'[r].auto = a, run'[r].slot = n
               PROVE  \/ r \in Claims(a, n)
                      \/ scheduled /\ a \in D /\ auto[a].next = n /\ r = ids[a]
    BY DEF Claims, RunsOf
  <2>1. CASE run'[r] = run[r]
    <3>1. RowExists(r)
      BY <2>1 DEF RowExists, Status
    <3> QED BY <2>1, <3>1 DEF Claims, RunsOf
  <2>2. ASSUME NEW b \in D, ids[b] = r
        PROVE  scheduled /\ a \in D /\ auto[a].next = n /\ r = ids[a]
    <3>1. b = a
      BY <1>1, <2>2 DEF NewRuns
    <3>2. n = IF scheduled THEN auto[a].next ELSE NoSlot
      BY <1>1, <2>2, <3>1
    <3> QED BY <2>2, <3>1, <3>2
  <2> QED BY <1>2, <2>1, <2>2
<1>4. Claims(a, n)' \subseteq Claims(a, n) \cup {ids[a]}
  BY <1>3
<1>5. Cardinality(Claims(a, n)') \in Nat /\ Cardinality(Claims(a, n)') <= Cardinality(Claims(a, n)) + 1
  BY <1>4, OneMoreClaim
<1>6. ASSUME ~(scheduled /\ a \in D /\ auto[a].next = n)
      PROVE  Cardinality(Claims(a, n)') <= Cardinality(Claims(a, n))
  <2>1. Claims(a, n)' \subseteq Claims(a, n)
    BY <1>3, <1>6
  <2> QED BY <2>1, NoMoreClaims
<1> QED BY <1>5, <1>6

\* Every run, old or new, belongs to an automation that exists.
LEMMA CreatedRows ==
  ASSUME TypeOK, ClaimsInv, NEW D \in SUBSET Autos, NEW ids \in [D -> Unused], NextIds(ids),
         NEW scheduled \in BOOLEAN, run' = Created(ids, scheduled), \A a \in D : There(a),
         \A a \in Autos : auto'[a].row = auto[a].row
  PROVE  \A r \in Runs : RowExists(r)' => run'[r].auto \in Autos /\ auto'[run'[r].auto].row = "there"
<1>1. NewRuns(D, ids, "thread", run', Threads(ids, "thread"))
  BY CreatedTypes
<1> SUFFICES ASSUME NEW r \in Runs, RowExists(r)'
             PROVE  run'[r].auto \in Autos /\ auto'[run'[r].auto].row = "there"
  OBVIOUS
<1>2. CASE run'[r] = run[r]
  <2>1. RowExists(r)
    BY <1>2 DEF RowExists, Status
  <2> QED BY <1>2, <2>1 DEF ClaimsInv, There
<1>3. ASSUME NEW b \in D, ids[b] = r
      PROVE  run'[r].auto \in Autos /\ auto'[run'[r].auto].row = "there"
  BY <1>1, <1>3 DEF NewRuns, There
<1> QED BY <1>1, <1>2, <1>3 DEF NewRuns

\* What a step has to leave, conjunct by conjunct.
ClaimsNext ==
  /\ \A r \in Runs : RowExists(r)' => run'[r].auto \in Autos /\ auto'[run'[r].auto].row = "there"
  /\ editor'.pc = "write" => edits' # 0
  /\ \A a \in Autos, n \in Slots \ {NoSlot} : Paid(a, n)'

LEMMA ClaimsParts == ClaimsNext => ClaimsInv'
  BY DEF ClaimsNext, ClaimsInv, Paid, There

LEMMA ClaimsStep ==
  ASSUME TypeOK, TypeOK', ClaimsInv, [Next]_vars
  PROVE  ClaimsInv'
<1>0. /\ \A r \in Runs : RowExists(r) => run[r].auto \in Autos /\ There(run[r].auto)
      /\ editor.pc = "write" => edits # 0
      /\ edits \in Nat /\ edits' \in Nat
  BY DEF ClaimsInv, TypeOK
<1>1. ASSUME UNCHANGED run
      PROVE  RunsKept
  BY <1>1 DEF RunsKept, RowExists, Status
<1>2. ASSUME UNCHANGED run
      PROVE  \A a \in Autos, n \in Slots \ {NoSlot} :
               /\ Cardinality(Claims(a, n)') \in Nat
               /\ Cardinality(Claims(a, n)') <= Cardinality(Claims(a, n))
  BY <1>1, <1>2, KeptClaims
<1>3. ASSUME NEW b \in Autos, CreateAutomation(b)
      PROVE  ClaimsNext
  <2>1. UNCHANGED <<run, editor, edits>> /\ ~There(b)
    BY <1>3 DEF CreateAutomation, counters, There
  <2>2. \A a \in Autos \ {b} : auto'[a] = auto[a]
    BY <1>3 DEF CreateAutomation, TypeOK
  <2>3. auto'[b].row = "there"
    BY <1>3 DEF CreateAutomation, TypeOK, AutoRecord
  <2>4. \A r \in Runs : RowExists(r)' => RowExists(r) /\ run'[r] = run[r]
    BY <2>1 DEF RowExists, Status
  <2>5. \A r \in Runs : RowExists(r)' => run'[r].auto \in Autos /\ auto'[run'[r].auto].row = "there"
    BY <1>0, <2>2, <2>3, <2>4 DEF There
  <2>6. ASSUME NEW a \in Autos, NEW n \in Slots \ {NoSlot}
        PROVE  Paid(a, n)'
    <3>1. /\ Cardinality(Claims(a, n)') \in Nat
          /\ Cardinality(Claims(a, n)') <= Cardinality(Claims(a, n))
      BY <1>2, <2>1
    <3>2. CASE a = b
      <4>1. Cardinality(Claims(a, n)') = 0
        BY <1>0, <2>1, <2>4, <3>2, NoClaims
      <4>2. Rewound(a, n)' => edits' # 0
        BY <1>0, <2>1 DEF Rewound
      <4> QED BY <3>1, <4>1, <4>2, PaidStep
    <3>3. CASE a # b
      <4>1. (Unclaimed(a, n)' => Unclaimed(a, n)) /\ (Rewound(a, n)' => Rewound(a, n))
        BY <2>1, <2>2, <3>3 DEF Unclaimed, Rewound, There
      <4>2. edits <= edits'
        BY <1>0, <2>1
      <4> QED BY <3>1, <4>1, <4>2, PaidStep
    <3> QED BY <3>2, <3>3
  <2> QED BY <1>0, <2>1, <2>5, <2>6 DEF ClaimsNext
<1>4. ASSUME NEW b \in Autos, ReadForUpdate(b)
      PROVE  ClaimsNext
  <2>1. UNCHANGED <<run, auto>> /\ editor.pc = "idle" /\ edits' = edits + 1
    BY <1>4 DEF ReadForUpdate
  <2>2. ASSUME NEW a \in Autos, NEW n \in Slots \ {NoSlot}
        PROVE  Paid(a, n)'
    <3>1. (Unclaimed(a, n)' => Unclaimed(a, n)) /\ ~Rewound(a, n)
      BY <2>1 DEF Unclaimed, Rewound, There
    <3> QED BY <1>2, <2>1, <3>1, PaidStep
  <2>3. \A r \in Runs : RowExists(r)' => run'[r].auto \in Autos /\ auto'[run'[r].auto].row = "there"
    BY <1>0, <1>1, <2>1 DEF RunsKept, There
  <2> QED BY <1>0, <2>1, <2>2, <2>3 DEF ClaimsNext
<1>5. ASSUME WriteUpdate
      PROVE  ClaimsNext
  <2>1. PICK next \in {NoSlot, NextRunAt(editor.at)} :
          auto' = [a \in Autos |-> IF a = editor.auto /\ There(a) THEN [auto[a] EXCEPT !.next = next] ELSE auto[a]]
    BY <1>5 DEF WriteUpdate
  <2>2. UNCHANGED <<run, edits>> /\ editor.pc = "write" /\ editor'.pc = "idle"
    BY <1>5 DEF WriteUpdate, counters, NoEditor
  <2>3. \A a \in Autos : /\ auto'[a].row = auto[a].row
                         /\ \/ auto'[a].next = auto[a].next
                            \/ a = editor.auto /\ auto'[a].next = next
    BY <2>1 DEF TypeOK, AutoRecord
  <2>4. ASSUME NEW a \in Autos, NEW n \in Slots \ {NoSlot}
        PROVE  Paid(a, n)'
    <3>1. Unclaimed(a, n)' => Unclaimed(a, n) \/ Rewound(a, n)
      BY <2>1, <2>2, <2>3 DEF Unclaimed, Rewound, There
    <3>2. ~Rewound(a, n)' /\ edits <= edits'
      BY <1>0, <2>2 DEF Rewound
    <3> QED BY <1>2, <2>2, <3>1, <3>2, PaidStep
  <2>5. \A r \in Runs : RowExists(r)' => run'[r].auto \in Autos /\ auto'[run'[r].auto].row = "there"
    BY <1>0, <1>1, <2>2, <2>3 DEF RunsKept, There
  <2> QED BY <1>0, <2>2, <2>4, <2>5 DEF ClaimsNext
<1>6. ASSUME NEW b \in Autos, DeleteAutomation(b)
      PROVE  ClaimsNext
  <2>1. UNCHANGED <<editor, edits>>
    BY <1>6 DEF DeleteAutomation, counters
  <2>2. /\ \A a \in Autos \ {b} : auto'[a] = auto[a]
        /\ \A r \in Runs : run'[r] = IF RowExists(r) /\ run[r].auto = b THEN NoRun ELSE run[r]
    BY <1>6 DEF DeleteAutomation, TypeOK, RunsOf
  <2>3. auto'[b].row = "deleted"
    BY <1>6 DEF DeleteAutomation, TypeOK
  <2>4. \A r \in Runs : RowExists(r)' => RowExists(r) /\ run'[r] = run[r] /\ run[r].auto # b
    BY <2>2 DEF RowExists, Status, NoRun
  <2>5. RunsKept
    BY <2>4 DEF RunsKept
  <2>6. ASSUME NEW a \in Autos, NEW n \in Slots \ {NoSlot}
        PROVE  Paid(a, n)'
    <3>1. (Unclaimed(a, n)' => Unclaimed(a, n)) /\ (Rewound(a, n)' => Rewound(a, n))
      BY <2>1, <2>2, <2>3 DEF Unclaimed, Rewound, There
    <3>2. edits <= edits'
      BY <1>0, <2>1
    <3> QED BY <2>5, <3>1, <3>2, KeptClaims, PaidStep
  <2>7. \A r \in Runs : RowExists(r)' => run'[r].auto \in Autos /\ auto'[run'[r].auto].row = "there"
    BY <1>0, <2>2, <2>4 DEF There
  <2> QED BY <1>0, <2>1, <2>6, <2>7 DEF ClaimsNext
<1>7. ASSUME NEW b \in Autos, RunNow(b)
      PROVE  ClaimsNext
  <2>1. PICK ids \in [{b} -> Unused] : NextIds(ids) /\ run' = Created(ids, FALSE)
    BY <1>7 DEF RunNow
  <2>2. UNCHANGED <<editor, edits>> /\ There(b)
    BY <1>7 DEF RunNow, counters
  <2>3. \A a \in Autos : auto'[a].row = auto[a].row /\ auto'[a].next = auto[a].next
    BY <1>7 DEF RunNow, TypeOK, AutoRecord
  <2>4. {b} \in SUBSET Autos /\ FALSE \in BOOLEAN /\ \A a \in {b} : There(a)
    BY <2>2
  <2>5. ASSUME NEW a \in Autos, NEW n \in Slots \ {NoSlot}
        PROVE  Paid(a, n)'
    <3>1. (Unclaimed(a, n)' => Unclaimed(a, n)) /\ (Rewound(a, n)' => Rewound(a, n))
      BY <2>2, <2>3 DEF Unclaimed, Rewound, There
    <3>2. edits <= edits'
      BY <1>0, <2>2
    <3>3. /\ Cardinality(Claims(a, n)') \in Nat
          /\ Cardinality(Claims(a, n)') <= Cardinality(Claims(a, n))
      BY <2>1, <2>4, CreatedClaims
    <3> QED BY <3>1, <3>2, <3>3, PaidStep
  <2>6. \A r \in Runs : RowExists(r)' => run'[r].auto \in Autos /\ auto'[run'[r].auto].row = "there"
    BY <2>1, <2>3, <2>4, CreatedRows
  <2> QED BY <1>0, <2>2, <2>5, <2>6 DEF ClaimsNext
<1>8. ASSUME Claim
      PROVE  ClaimsNext
  <2>0. PICK rows \in (SUBSET Autos) \ {{}} :
          \E skipped \in [rows -> 0..1] :
            /\ IsBatch(rows)
            /\ \E ids \in [{a \in rows : Claimable(a)} -> Unused] : NextIds(ids) /\ run' = Created(ids, TRUE)
            /\ auto' = [a \in Autos |->
                         [auto[a] EXCEPT !.next = IF a \in Advanced(rows) THEN NextRunAt(now + skipped[a]) ELSE @,
                                         !.last = IF a \in rows /\ Claimable(a) THEN "queued" ELSE @]]
    BY <1>8 DEF Claim
  <2>1. PICK skipped \in [rows -> 0..1] :
          /\ IsBatch(rows)
          /\ \E ids \in [{a \in rows : Claimable(a)} -> Unused] : NextIds(ids) /\ run' = Created(ids, TRUE)
          /\ auto' = [a \in Autos |->
                       [auto[a] EXCEPT !.next = IF a \in Advanced(rows) THEN NextRunAt(now + skipped[a]) ELSE @,
                                       !.last = IF a \in rows /\ Claimable(a) THEN "queued" ELSE @]]
    BY <2>0
  <2> DEFINE D == {a \in rows : Claimable(a)}
  <2>2. PICK ids \in [D -> Unused] : NextIds(ids) /\ run' = Created(ids, TRUE)
    BY <2>1
  <2>3. UNCHANGED <<editor, edits>>
    BY <1>8 DEF Claim, counters
  <2>4. D \in SUBSET Autos /\ D \subseteq rows /\ \A a \in rows : Due(a)
    BY <2>1 DEF IsBatch
  <2> HIDE DEF D
  <2>5. \A a \in Autos : /\ auto'[a].row = auto[a].row
                         /\ auto'[a].next = IF a \in rows THEN NextRunAt(now + skipped[a]) ELSE auto[a].next
    BY ZenonT(40), <2>1 DEF TypeOK, AutoRecord, Advanced
  <2>6. \A a \in rows : There(a) /\ auto[a].next # NoSlot /\ auto[a].next <= now /\ now < auto'[a].next
    <3>1. now \in Nat /\ \A a \in rows : skipped[a] \in Nat /\ now < NextRunAt(now + skipped[a])
      BY DEF TypeOK, NextRunAt
    <3>2. rows \subseteq Autos
      OBVIOUS
    <3> QED BY <2>4, <2>5, <3>1, <3>2 DEF Due
  <2>7. ASSUME NEW a \in Autos, NEW n \in Slots \ {NoSlot}
        PROVE  Paid(a, n)'
    <3>1. /\ auto[a].next \in Nat /\ auto'[a].next \in Nat /\ n \in Nat /\ now \in Nat
          /\ edits' = edits /\ edits <= edits'
      BY <1>0, <2>3 DEF TypeOK, AutoRecord, Slots, NoSlot
    <3>2. (Unclaimed(a, n)' => Unclaimed(a, n)) /\ (Rewound(a, n)' => Rewound(a, n))
      BY <2>3, <2>5, <2>6, <3>1 DEF Unclaimed, Rewound, There
    <3>3. /\ Cardinality(Claims(a, n)') \in Nat
          /\ Cardinality(Claims(a, n)') <= Cardinality(Claims(a, n)) + 1
          /\ (a \in D /\ auto[a].next = n) \/ Cardinality(Claims(a, n)') <= Cardinality(Claims(a, n))
      BY <2>2, <2>4, CreatedClaims
    <3>4. CASE a \in D /\ auto[a].next = n
      <4>1. Unclaimed(a, n) /\ ~Unclaimed(a, n)'
        BY <2>4, <2>6, <3>1, <3>4 DEF Unclaimed
      <4> QED BY <3>1, <3>2, <3>3, <4>1, PaidStep
    <3>5. CASE Cardinality(Claims(a, n)') <= Cardinality(Claims(a, n))
      BY <3>1, <3>2, <3>3, <3>5, PaidStep
    <3> QED BY <3>3, <3>4, <3>5
  <2>8. \A r \in Runs : RowExists(r)' => run'[r].auto \in Autos /\ auto'[run'[r].auto].row = "there"
    BY <2>2, <2>4, <2>5, <2>6, CreatedRows
  <2> QED BY <1>0, <2>3, <2>7, <2>8 DEF ClaimsNext
<1>9. ASSUME NEW r \in Runs, Execute(r)
      PROVE  ClaimsInv'
  <2>1. UNCHANGED <<editor, edits>>
    BY <1>9 DEF Execute, Start, Work, Finish, Notify, Failing, Telling, AnswerFails, Raises, OnlyWorker, Unfaulted,
                  counters, Fault
  <2> QED BY <1>9, <2>1, ExecuteKeepsRuns, ClaimsQuiet
<1>10. ASSUME NEW r \in Runs, Recover(r)
       PROVE  ClaimsInv'
  <2>1. RunsKept
    BY <1>10 DEF Recover, Stale, Scanned, RunsKept, RowExists, Status, TypeOK, RunRecord
  <2>2. \A a \in Autos : auto'[a].row = auto[a].row /\ auto'[a].next = auto[a].next
    BY <1>10 DEF Recover, TypeOK, AutoRecord
  <2>3. UNCHANGED <<editor, edits>>
    BY <1>10 DEF Recover, counters
  <2> QED BY <2>1, <2>2, <2>3, ClaimsQuiet
<1>11. ASSUME UNCHANGED <<run, auto, edits>>, editor' = editor \/ editor'.pc # "write"
       PROVE  ClaimsInv'
  BY <1>1, <1>11, ClaimsQuiet
<1>12. ASSUME NEW r \in Runs, StartWorker(r) \/ StartFails(r)
       PROVE  ClaimsInv'
  BY <1>11, <1>12 DEF StartWorker, StartFails, Fault, counters
<1>13. CASE Serve \/ Restart \/ Tick
  BY <1>11, <1>13 DEF Serve, Restart, Tick, Fault, Unfaulted, counters, NoEditor
<1>14. CASE UNCHANGED vars
  BY <1>11, <1>14 DEF vars, counters
<1> QED
  BY <1>3, <1>4, <1>5, <1>6, <1>7, <1>8, <1>9, <1>10, <1>12, <1>13, <1>14, ClaimsParts DEF Next, Boot

\* A slot of an automation is claimed once, and once more at most for each update
\* of a definition, whatever is deleted, restarted, recovered or fails.
THEOREM AutomationsClaimedOnce == Safe => []RepeatedOnlyAfterEdit
<1>1. Init => ClaimsInv
  <2> SUFFICES ASSUME Init
               PROVE  ClaimsInv
    OBVIOUS
  <2>1. (\A r \in Runs : ~RowExists(r)) /\ editor.pc = "idle" /\ edits = 0 /\ \A a \in Autos : ~There(a)
    BY DEF Init, RowExists, Status, NoRun, NoEditor, There
  <2>2. ASSUME NEW a \in Autos, NEW n \in Slots \ {NoSlot}
        PROVE  Cardinality(Claims(a, n)) + One(Unclaimed(a, n)) + One(Rewound(a, n)) <= 1 + edits
    <3>1. Claims(a, n) = {} /\ ~Unclaimed(a, n) /\ ~Rewound(a, n)
      BY <2>1 DEF Claims, RunsOf, Unclaimed, Rewound
    <3> QED BY <2>1, <3>1, FS_EmptySet DEF One
  <2> QED BY <2>1, <2>2 DEF ClaimsInv
<1>2. Safe => []TypeOK
  BY AutomationsTypeCorrect
<1>3. Safe => []ClaimsInv
  BY <1>1, <1>2, ClaimsStep, PTL DEF Safe
<1>4. TypeOK /\ ClaimsInv => RepeatedOnlyAfterEdit
  <2> SUFFICES ASSUME TypeOK, ClaimsInv, NEW a \in Autos, NEW n \in Slots \ {NoSlot}
               PROVE  Cardinality(Claims(a, n)) <= 1 + edits
    BY DEF RepeatedOnlyAfterEdit, Claims
  <2>1. Cardinality(Claims(a, n)) \in Nat /\ edits \in Nat
    BY ClaimsFinite DEF TypeOK
  <2>2. One(Unclaimed(a, n)) \in 0..1 /\ One(Rewound(a, n)) \in 0..1
    BY DEF One
  <2>3. Cardinality(Claims(a, n)) + One(Unclaimed(a, n)) + One(Rewound(a, n)) <= 1 + edits
    BY DEF ClaimsInv
  <2> QED BY <2>1, <2>2, <2>3
<1> QED BY <1>2, <1>3, <1>4, PTL
=============================================================================
