---------------------------- MODULE Automations ----------------------------
(***************************************************************************)
(* Automations: schedules and their runs in one SQLite database            *)
(* (agent/automations.py), the scheduler, workers and recovery of the      *)
(* agent (agent/automation_routes.py) and the notifications of a run       *)
(* (agent/automation_notifications.py).  Every function of the store runs  *)
(* under one lock in a transaction of its own and is one step here; the    *)
(* scheduler, a worker per run, a user who edits and the recovery at the   *)
(* start of the agent take their steps in any order.                       *)
(*                                                                         *)
(* Time is counted in slots: an automation with a schedule is due once in  *)
(* each, and a run remembers the slot it was claimed for.  A disabled or   *)
(* manual automation has no next slot.  What a run does, the text of a     *)
(* notification, its delivery and whether it was read are left out.        *)
(***************************************************************************)
EXTENDS Naturals, FiniteSets

CONSTANTS
  Autos,        \* automations, each created at most once: ids are random
  NoAuto,
  Results,      \* how a run that raises no error ends
  MaxRuns,      \* bound on runs
  Limit,        \* automations claimed at a time
  Recent,       \* runs that the recovery looks at
  MaxTime,      \* bound on the clock
  MaxEvents     \* bound on updates of a definition, restarts of the agent, and
                \* failed writes or threads that cannot start, taken together

ASSUME AutosAssumption == NoAuto \notin Autos
ASSUME ResultsAssumption == Results \subseteq {"completed", "failed", "needs_approval", "cancelled"}
ASSUME NumbersAssumption == /\ MaxRuns \in Nat /\ Limit \in Nat /\ Recent \in Nat
                            /\ MaxTime \in Nat /\ MaxEvents \in Nat

VARIABLES
  auto,    \* rows of automations: see AutoRecord
  run,     \* rows of automation_runs, in the order of creation: see RunRecord
  worker,  \* the thread of a run: see WorkerRecord
  editor,  \* an update between its read and its write: see EditorRecord
  agent,   \* "booting" until the recovery is done
  now, edits, restarts, faults

counters == <<now, edits, restarts, faults>>
vars == <<auto, run, worker, editor, agent, counters>>

Runs == 1..MaxRuns
Active == {"queued", "running"}
Outcomes == {"completed", "failed", "needs_approval", "cancelled"}
NoSlot == 0
Slots == NoSlot..(MaxTime + 2)

\* next: next_run_at, or NoSlot.  last: last_status.
AutoRecord == [row : {"absent", "there", "deleted"}, next : Slots,
               last : {"none"} \cup Active \cup Outcomes]
\* slot: the slot it was claimed for, NoSlot if a user started it.  told: the
\* status that its notification reports.
RunRecord == [auto : Autos \cup {NoAuto}, slot : Slots, status : {"none", "gone"} \cup Active \cup Outcomes,
              told : {"none"} \cup Outcomes]
\* thread and claimed: the run exists, the thread of the worker does not yet.
WorkerRecord == [pc : {"none", "thread", "claimed", "start", "work", "finish", "notify", "failing", "telling"},
                 outcome : Outcomes]
EditorRecord == [pc : {"idle", "write"}, auto : Autos \cup {NoAuto}, at : 0..MaxTime]

Status(r, statuses) == run[r].status \in statuses
RowExists(r) == ~Status(r, {"none", "gone"})
There(a) == auto[a].row = "there"
RunsOf(a) == {r \in Runs : RowExists(r) /\ run[r].auto = a}
Unused == {r \in Runs : Status(r, {"none"})}
HasActiveRun(a) == \E r \in RunsOf(a) : Status(r, Active)
NoRun == [auto |-> NoAuto, slot |-> NoSlot, status |-> "gone", told |-> "none"]
NoEditor == [pc |-> "idle", auto |-> NoAuto, at |-> 0]
NoWorker == [pc |-> "none", outcome |-> "failed"]
At(r, pc) == worker[r].pc = pc
Up == agent = "up"

MayHappen == edits + restarts + faults < MaxEvents
\* A write that fails, for want of space or time, or a thread that cannot start.
Fault == MayHappen /\ faults' = faults + 1 /\ UNCHANGED <<now, edits, restarts>>

----------------------------------------------------------------------------
Init ==
  /\ auto = [a \in Autos |-> [row |-> "absent", next |-> NoSlot, last |-> "none"]]
  /\ run = [r \in Runs |-> [NoRun EXCEPT !.status = "none"]]
  /\ editor = NoEditor
  /\ worker = [r \in Runs |-> NoWorker]
  /\ agent = "up"
  /\ now = 0 /\ edits = 0 /\ restarts = 0 /\ faults = 0

----------------------------------------------------------------------------
(* Definitions *)

\* The first slot after a time: never the one that has begun.
ThisSlot(t) == t
TwoSkipped(t) == t + 3
NextRunAt(t) == t + 1

CreateAutomation(a) ==
  /\ Up /\ auto[a].row = "absent"
  /\ \E n \in {NoSlot, NextRunAt(now)} : auto' = [auto EXCEPT ![a].row = "there", ![a].next = n]
  /\ UNCHANGED <<run, worker, editor, agent, counters>>

\* update_automation reads the row and the clock ...
ReadForUpdate(a) ==
  /\ Up /\ There(a) /\ editor.pc = "idle" /\ MayHappen
  /\ editor' = [pc |-> "write", auto |-> a, at |-> now]
  /\ edits' = edits + 1
  /\ UNCHANGED <<auto, run, worker, agent, now, restarts, faults>>

\* ... and writes under the lock, whatever happened in between.
WriteUpdate ==
  /\ editor.pc = "write"
  /\ \E n \in {NoSlot, NextRunAt(editor.at)} :
       auto' = [a \in Autos |-> IF a = editor.auto /\ There(a) THEN [auto[a] EXCEPT !.next = n] ELSE auto[a]]
  /\ editor' = NoEditor
  /\ UNCHANGED <<run, worker, agent, counters>>

\* The runs and notifications of the automation go with it, its worker does not.
DeleteAutomation(a) ==
  /\ Up /\ There(a)
  /\ auto' = [auto EXCEPT ![a] = [row |-> "deleted", next |-> NoSlot, last |-> "none"]]
  /\ run' = [r \in Runs |-> IF r \in RunsOf(a) THEN NoRun ELSE run[r]]
  /\ UNCHANGED <<worker, editor, agent, counters>>

----------------------------------------------------------------------------
(* Runs are created by a user or by the scheduler *)

NewRun(a, slot) == [auto |-> a, slot |-> slot, status |-> "queued", told |-> "none"]
\* ids maps the automations in the order of their slots to the next run ids.
NextIds(ids) ==
  /\ \A a, b \in DOMAIN ids : ids[a] = ids[b] => a = b
  /\ \A a, b \in DOMAIN ids : auto[a].next < auto[b].next => ids[a] < ids[b]
  /\ \A a \in DOMAIN ids, r \in Unused : r < ids[a] => \E b \in DOMAIN ids : ids[b] = r
Created(ids, scheduled) ==
  [r \in Runs |-> IF \E a \in DOMAIN ids : ids[a] = r
                  THEN LET a == CHOOSE b \in DOMAIN ids : ids[b] = r
                       IN  NewRun(a, IF scheduled THEN auto[a].next ELSE NoSlot)
                  ELSE run[r]]
Threads(ids, pc) == [r \in Runs |-> IF \E a \in DOMAIN ids : ids[a] = r
                                    THEN [NoWorker EXCEPT !.pc = pc] ELSE worker[r]]

\* automation_run_now: 409 while a run of the automation is active.
RunNow(a) ==
  /\ Up /\ There(a) /\ ~HasActiveRun(a)
  /\ \E ids \in [{a} -> Unused] :
       /\ NextIds(ids)
       /\ run' = Created(ids, FALSE)
       /\ worker' = Threads(ids, "thread")
  /\ auto' = [auto EXCEPT ![a].last = "queued"]
  /\ UNCHANGED <<editor, agent, counters>>

Due(a) == There(a) /\ auto[a].next # NoSlot /\ auto[a].next <= now
\* ORDER BY next_run_at LIMIT.
IsBatch(rows) ==
  /\ \A a \in rows : Due(a)
  /\ Cardinality(rows) <= Limit
  /\ \A b \in Autos \ rows : Due(b) =>
       /\ Cardinality(rows) = Limit
       /\ \A a \in rows : auto[a].next <= auto[b].next
Claimed == {r \in Runs : At(r, "claimed")}

Regardless(a) == TRUE
Claimable(a) == ~HasActiveRun(a)
\* What is advanced: every automation of the batch, also one that still runs.
OnlyClaimable(rows) == {a \in rows : Claimable(a)}
Advanced(rows) == rows

\* claim_due.  It looks for the next slot of each automation from one second later
\* on, which may be in the next slot of that automation already.
Claim ==
  /\ Up /\ Claimed = {}
  /\ \E rows \in (SUBSET Autos) \ {{}} : \E skipped \in [rows -> 0..1] :
       /\ IsBatch(rows)
       /\ \E ids \in [{a \in rows : Claimable(a)} -> Unused] :
            /\ NextIds(ids)
            /\ run' = Created(ids, TRUE)
            /\ worker' = Threads(ids, "claimed")
       /\ auto' = [a \in Autos |->
                    [auto[a] EXCEPT !.next = IF a \in Advanced(rows) THEN NextRunAt(now + skipped[a]) ELSE @,
                                    !.last = IF a \in rows /\ Claimable(a) THEN "queued" ELSE @]]
  /\ UNCHANGED <<editor, agent, counters>>

\* _start_worker, for the claimed runs one after the other.
StartWorker(r) ==
  /\ At(r, "thread") \/ (At(r, "claimed") /\ \A s \in Claimed : r <= s)
  /\ worker' = [worker EXCEPT ![r].pc = "start"]
  /\ UNCHANGED <<auto, run, editor, agent, counters>>

\* If one cannot be started, the rest of the claimed runs are not started either.
StartFails(r) ==
  /\ At(r, "thread") \/ (At(r, "claimed") /\ \A s \in Claimed : r <= s)
  /\ Fault
  /\ LET dropped == IF At(r, "thread") THEN {r} ELSE Claimed
     IN  worker' = [s \in Runs |-> IF s \in dropped THEN NoWorker ELSE worker[s]]
  /\ UNCHANGED <<auto, run, editor, agent>>

----------------------------------------------------------------------------
(* The worker of a run: _execute_automation *)

Goto(r, pc) == worker' = [worker EXCEPT ![r].pc = pc]
Errs(r) == worker' = [worker EXCEPT ![r] = [NoWorker EXCEPT !.pc = "failing"]]
Stops(r) == worker' = [worker EXCEPT ![r] = NoWorker]
Reported(r, status) ==
  /\ run' = [run EXCEPT ![r].status = status]
  /\ auto' = [auto EXCEPT ![run[r].auto].last = status]
OnlyWorker == UNCHANGED <<editor, agent>>
Unfaulted == UNCHANGED counters

\* An error, or the row is gone: the run is reported as failed.
Raises(r) ==
  /\ (Unfaulted /\ ~RowExists(r)) \/ Fault
  /\ Errs(r)
  /\ UNCHANGED <<auto, run>>

\* The row is written, but reading it again for the answer fails.
AnswerFails(r, status) == RowExists(r) /\ Fault /\ Reported(r, status) /\ Errs(r)

\* start_run: a run that is no longer queued is left alone.
Start(r) ==
  /\ At(r, "start")
  /\ \/ /\ RowExists(r) /\ Unfaulted
        /\ IF Status(r, {"queued"}) THEN Reported(r, "running") ELSE UNCHANGED <<auto, run>>
        /\ Goto(r, "work")
     \/ Status(r, {"queued"}) /\ AnswerFails(r, "running")
     \/ Raises(r)
  /\ OnlyWorker

Work(r) ==
  /\ At(r, "work")
  /\ \/ \E o \in Results : worker' = [worker EXCEPT ![r].pc = "finish", ![r].outcome = o]
     \/ Errs(r)
  /\ UNCHANGED <<auto, run, counters>> /\ OnlyWorker

\* finish_run looks for the row, not at its status.
Finish(r) ==
  /\ At(r, "finish")
  /\ \/ RowExists(r) /\ Unfaulted /\ Reported(r, worker[r].outcome) /\ Goto(r, "notify")
     \/ AnswerFails(r, worker[r].outcome)
     \/ Raises(r)
  /\ OnlyWorker

\* At most one notification of a run: INSERT OR IGNORE.
Told(r, status) == run' = [run EXCEPT ![r].told = IF @ = "none" THEN status ELSE @]
MayTell(r) == worker[r].outcome # "cancelled"
MaySkip(r) == worker[r].outcome \in {"completed", "cancelled"}
Notify(r) ==
  /\ At(r, "notify")
  /\ \/ MaySkip(r) /\ Unfaulted /\ UNCHANGED run /\ Stops(r)
     \/ /\ MayTell(r) /\ RowExists(r)
        /\ Told(r, worker[r].outcome)
        /\ \/ Unfaulted /\ Stops(r)
           \/ Fault /\ Errs(r)  \* the delivery cannot be recorded
     \/ MayTell(r) /\ Raises(r)
  /\ UNCHANGED auto /\ OnlyWorker

\* The handler of an error swallows those of its own.
Failing(r) ==
  /\ At(r, "failing")
  /\ \/ RowExists(r) /\ Unfaulted /\ Reported(r, "failed")
     \/ ~RowExists(r) /\ Unfaulted /\ UNCHANGED <<auto, run>>
     \/ Fault /\ UNCHANGED <<auto, run>>
  /\ Goto(r, "telling")
  /\ OnlyWorker

Telling(r) ==
  /\ At(r, "telling")
  /\ \/ RowExists(r) /\ Unfaulted /\ Told(r, "failed")
     \/ ~RowExists(r) /\ Unfaulted /\ UNCHANGED run
     \/ Fault /\ UNCHANGED run
  /\ Stops(r)
  /\ UNCHANGED auto /\ OnlyWorker

----------------------------------------------------------------------------
(* The agent ends and starts again *)

Restart ==
  /\ MayHappen
  /\ agent' = "booting"
  /\ worker' = [r \in Runs |-> NoWorker]
  /\ editor' = NoEditor
  /\ restarts' = restarts + 1
  /\ UNCHANGED <<auto, run, now, edits, faults>>

\* The newest runs, active or not.
Newer(r) == {s \in Runs : RowExists(s) /\ s > r}
Scanned(r) == RowExists(r) /\ Cardinality(Newer(r)) < Recent
RunningOnly(r) == Scanned(r) /\ Status(r, {"running"})
AnyRun(r) == Scanned(r) /\ ~Status(r, {"failed"})
Stale(r) == Scanned(r) /\ Status(r, Active)

\* _recover_stale_runs, one run; the notification may be lost.
Recover(r) ==
  /\ agent = "booting" /\ Stale(r)
  /\ \E told \in {run[r].told} \cup (IF run[r].told = "none" THEN {"failed"} ELSE {}) :
       run' = [run EXCEPT ![r].status = "failed", ![r].told = told]
  /\ auto' = [auto EXCEPT ![run[r].auto].last = "failed"]
  /\ UNCHANGED <<worker, editor, agent, counters>>

\* A run that cannot be recovered is skipped.
Serve ==
  /\ agent = "booting"
  /\ \/ (\A r \in Runs : ~Stale(r)) /\ Unfaulted
     \/ (\E r \in Runs : Stale(r)) /\ Fault
  /\ agent' = "up"
  /\ UNCHANGED <<auto, run, worker, editor>>

Tick == now < MaxTime /\ now' = now + 1 /\ UNCHANGED <<auto, run, worker, editor, agent, edits, restarts, faults>>

Execute(r) == Start(r) \/ Work(r) \/ Finish(r) \/ Notify(r) \/ Failing(r) \/ Telling(r)
Boot == Serve \/ \E r \in Runs : Recover(r)

Next == \/ \E a \in Autos : CreateAutomation(a) \/ ReadForUpdate(a) \/ DeleteAutomation(a) \/ RunNow(a)
        \/ WriteUpdate
        \/ Claim
        \/ \E r \in Runs : StartWorker(r) \/ StartFails(r) \/ Execute(r)
        \/ Boot
        \/ Restart
        \/ Tick

Safe == Init /\ [][Next]_vars

\* Threads run and the scheduler keeps ticking; clocks and users are free.
Spec == Safe /\ WF_vars(Claim) /\ WF_vars(Boot)
             /\ \A r \in Runs : WF_vars(StartWorker(r) \/ Execute(r))

----------------------------------------------------------------------------
(* Properties *)

\* Every variable has its type.
TypeOK == /\ auto \in [Autos -> AutoRecord]
          /\ run \in [Runs -> RunRecord]
          /\ worker \in [Runs -> WorkerRecord]
          /\ editor \in EditorRecord
          /\ agent \in {"booting", "up"}
          /\ now \in 0..MaxTime
          /\ edits \in Nat /\ restarts \in Nat /\ faults \in Nat
          /\ edits + restarts + faults <= MaxEvents

\* "Only one queued/running run per automation is allowed"
\* (docs/AUTOMATIONS.md:19), and an automation is executed by one worker at a
\* time, whose run says so: the workers themselves look at nobody
\* (automations.py:406, 439, 475).
Executing(r) == worker[r].pc \in {"work", "finish"} /\ RowExists(r)
OneExecution ==
  /\ \A r, s \in Runs : Status(r, Active) /\ Status(s, Active) /\ run[r].auto = run[s].auto => r = s
  /\ \A r \in Runs : Executing(r) => Status(r, {"running"})

\* A slot is claimed once, but for an update that was reading the clock while
\* its slot was claimed (automations.py:328, 459).
RepeatedOnlyAfterEdit ==
  \A a \in Autos : \A n \in Slots \ {NoSlot} :
    Cardinality({r \in RunsOf(a) : run[r].slot = n}) <= 1 + edits

\* As long as no write fails, a notification and the last status of an
\* automation say what its runs say, through restarts, recovery and deletions
\* (automations.py:508, automation_routes.py:280).
ReportsAgree ==
  faults = 0 =>
    /\ \A r \in Runs : run[r].told # "none" => run[r].told = run[r].status
    /\ \A a \in Autos : \A r \in RunsOf(a) :
         (\A s \in RunsOf(a) : s <= r) => auto[a].last = run[r].status

\* finish_run overwrites whatever it finds (automations.py:500), yet a run that
\* ended stays as it ended, unless its own worker then runs into an error, and
\* a failed one, also one that the recovery failed, stays failed.
EndedRunsStay ==
  [][\A r \in Runs : Status(r, Outcomes) =>
       \/ run'[r].status \in {run[r].status, "gone"}
       \/ run'[r].status = "failed" /\ At(r, "failing")]_vars

\* Every run ends or is deleted, unless a fault kept its worker from starting or
\* reporting, or the recovery did not look beyond the runs created after it.
Overlooked(r) ==
  \/ faults > 0
  \/ restarts > 0 /\ Cardinality({s \in Runs : s > r /\ ~Status(s, {"none"})}) >= Recent
RunsEnd == \A r \in Runs : Status(r, Active) ~> ~Status(r, Active) \/ Overlooked(r)

\* An automation that is due is claimed or put off, also while a run of another
\* one never ends and the batches are full (automations.py:439-444).
DueIsServed == \A a \in Autos : Due(a) ~> ~Due(a) \/ Cardinality(Unused) < Limit
=============================================================================
