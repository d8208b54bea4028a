--------------------------- MODULE RuntimeLease ---------------------------
(***************************************************************************)
(* The heavy-runtime lease of runtime_coordinator.py (runtime_lease): a    *)
(* re-entrant lock per process (_PROCESS_LOCK), under it one flock on a    *)
(* file that all services share, a nesting depth per thread, and one       *)
(* record per waiting or holding thread in the state directory, which      *)
(* lease_state_snapshot reads and from which it sweeps the records of dead *)
(* pids.                                                                   *)
(*                                                                         *)
(* One action stands for the code between two points at which another      *)
(* thread or process can observe or disturb the caller.  A service that    *)
(* crashes loses its threads and locks; launchd starts it again under a    *)
(* new pid, so the records of the old pid stay behind in "leftover".       *)
(***************************************************************************)
EXTENDS Naturals, FiniteSets

CONSTANTS Threads, Processes,
          ProcessOf,        \* the process every thread belongs to
          NoThread,         \* no owner
          MaxDepth,         \* bound on nested runtime_lease calls
          Unrecorded,       \* bound: threads that may fail to write their record
          MaxLeftover       \* bound: no crash while more records of dead pids lie about

ASSUME ThreadsAssumption == /\ ProcessOf \in [Threads -> Processes]
                            /\ NoThread \notin Threads
ASSUME DepthAssumption == MaxDepth \in Nat \ {0}

VARIABLES
  pc,          \* where a thread stands in runtime_lease
  rlock,       \* owner of _PROCESS_LOCK, per process (its count is the depth)
  flock,       \* the thread whose handle holds the flock
  depth,       \* _LEASE_STATE.depth, thread-local
  record,      \* the state file of a thread of the running process
  leftover,    \* the state files of pids that died
  cancelled,   \* cancel_event of the request is set
  limited      \* the request was made with a timeout

vars == <<pc, rlock, flock, depth, record, leftover, cancelled, limited>>

Locations == {"idle", "processLock", "flock", "publish", "held", "unlock", "exit"}
Records == {"absent", "waiting", "active"}

Siblings(p) == {t \in Threads : ProcessOf[t] = p}

----------------------------------------------------------------------------
(* Guards of the code *)

ProcessLockFree(t) == rlock[ProcessOf[t]] = NoThread

FlockFree == flock = NoThread

AnyDepth(t) == TRUE
NestedCall(t) == depth[t] > 1

\* _check_cancelled raises, or waiting() finds the time limit reached.
Abandons(t) == cancelled[t] \/ limited[t]

\* What lease_state_snapshot reports: records of pids that still exist.
ReportedActiveAnyPid == {t \in Threads : record[t] = "active" \/ leftover[t] = "active"}
ReportedActive == {t \in Threads : record[t] = "active"}

----------------------------------------------------------------------------
Init == /\ pc = [t \in Threads |-> "idle"]
        /\ rlock = [p \in Processes |-> NoThread]
        /\ flock = NoThread
        /\ depth = [t \in Threads |-> 0]
        /\ record = [t \in Threads |-> "absent"]
        /\ leftover = [t \in Threads |-> "absent"]
        /\ cancelled = [t \in Threads |-> FALSE]
        /\ limited = [t \in Threads |-> FALSE]

\* _write_lease_state: a write that fails leaves the record as it was
Writes(t, state) ==
  \/ record' = [record EXCEPT ![t] = state]
  \/ t \in Unrecorded /\ UNCHANGED record

\* The outermost call: a request that is already cancelled raises at once and
\* leaves no trace; any other publishes that it waits.
Request(t) == /\ pc[t] = "idle"
              /\ depth[t] = 0
              /\ pc' = [pc EXCEPT ![t] = "processLock"]
              /\ Writes(t, "waiting")
              /\ \E limit \in BOOLEAN : limited' = [limited EXCEPT ![t] = limit]
              /\ UNCHANGED <<rlock, flock, depth, leftover, cancelled>>

\* acquire(blocking=False), or the bounded acquire after waiting(): neither
\* looks at the cancel event when the lock is free.
TakeProcessLock(t) == /\ pc[t] = "processLock"
                      /\ ProcessLockFree(t)
                      /\ rlock' = [rlock EXCEPT ![ProcessOf[t]] = t]
                      /\ pc' = [pc EXCEPT ![t] = "flock"]
                      /\ UNCHANGED <<flock, depth, record, leftover, cancelled, limited>>

\* The flock loop checks the cancel event before every attempt.
TakeFlock(t) == /\ pc[t] = "flock"
                /\ ~cancelled[t]
                /\ FlockFree
                /\ flock' = t
                /\ depth' = [depth EXCEPT ![t] = 1]
                /\ pc' = [pc EXCEPT ![t] = "publish"]
                /\ UNCHANGED <<rlock, record, leftover, cancelled, limited>>

\* waiting() raises CoordinationCancelled or TimeoutError; the flock loop also
\* raises when it is cancelled although the flock is free.
GiveUp(t) == /\ \/ pc[t] = "processLock" /\ ~ProcessLockFree(t) /\ Abandons(t)
                \/ pc[t] = "flock" /\ ~FlockFree /\ Abandons(t)
                \/ pc[t] = "flock" /\ cancelled[t]
             /\ pc' = [pc EXCEPT ![t] = "exit"]
             /\ UNCHANGED <<rlock, flock, depth, record, leftover, cancelled, limited>>

Publish(t) == /\ pc[t] = "publish"
              /\ Writes(t, "active")
              /\ pc' = [pc EXCEPT ![t] = "held"]
              /\ UNCHANGED <<rlock, flock, depth, leftover, cancelled, limited>>

\* A call of the thread that holds the lease: checked for cancellation, then
\* only counted.
Nest(t) == /\ pc[t] = "held"
           /\ ~cancelled[t]
           /\ depth[t] \in 1..(MaxDepth - 1)
           /\ depth' = [depth EXCEPT ![t] = @ + 1]
           /\ UNCHANGED <<pc, rlock, flock, record, leftover, cancelled, limited>>

Unnest(t) == /\ pc[t] = "held"
             /\ NestedCall(t)
             /\ depth' = [depth EXCEPT ![t] = @ - 1]
             /\ UNCHANGED <<pc, rlock, flock, record, leftover, cancelled, limited>>

RetractKeepingRecord(t) == /\ pc[t] = "held"
                           /\ depth[t] = 1
                           /\ depth' = [depth EXCEPT ![t] = 0]
                           /\ pc' = [pc EXCEPT ![t] = "unlock"]
                           /\ UNCHANGED <<rlock, flock, record, leftover, cancelled, limited>>

\* The outermost body ended, by return or exception: the depth is reset and
\* the record removed (which is assumed to work) before the flock is released.
Retract(t) == /\ pc[t] = "held"
              /\ depth[t] = 1
              /\ depth' = [depth EXCEPT ![t] = 0]
              /\ record' = [record EXCEPT ![t] = "absent"]
              /\ pc' = [pc EXCEPT ![t] = "unlock"]
              /\ UNCHANGED <<rlock, flock, leftover, cancelled, limited>>

Unlock(t) == /\ pc[t] = "unlock"
             /\ flock' = NoThread
             /\ pc' = [pc EXCEPT ![t] = "exit"]
             /\ UNCHANGED <<rlock, depth, record, leftover, cancelled, limited>>

ExitKeepingProcessLock(t) == /\ pc[t] = "exit"
                             /\ record' = [record EXCEPT ![t] = "absent"]
                             /\ pc' = [pc EXCEPT ![t] = "idle"]
                             /\ cancelled' = [cancelled EXCEPT ![t] = FALSE]
                             /\ limited' = [limited EXCEPT ![t] = FALSE]
                             /\ UNCHANGED <<rlock, flock, depth, leftover>>

\* The outer finally: clear the record (a second time, or the first one for a
\* request that never held the lease) and release the process lock if taken.
\* The cancel event and the time limit end with the request.
Exit(t) == /\ pc[t] = "exit"
           /\ record' = [record EXCEPT ![t] = "absent"]
           /\ rlock' = [rlock EXCEPT ![ProcessOf[t]] = IF @ = t THEN NoThread ELSE @]
           /\ pc' = [pc EXCEPT ![t] = "idle"]
           /\ cancelled' = [cancelled EXCEPT ![t] = FALSE]
           /\ limited' = [limited EXCEPT ![t] = FALSE]
           /\ UNCHANGED <<flock, depth, leftover>>

----------------------------------------------------------------------------
(* The environment *)

Cancel(t) == /\ pc[t] # "idle"
             /\ ~cancelled[t]
             /\ cancelled' = [cancelled EXCEPT ![t] = TRUE]
             /\ UNCHANGED <<pc, rlock, flock, depth, record, leftover, limited>>

\* The process dies and is started again: the kernel closes its handles, which
\* releases the flock, and nobody removes its records.
DieTogether(p) ==
  /\ Cardinality({t \in Threads : leftover[t] # "absent"}) <= MaxLeftover
  /\ \E t \in Siblings(p) : pc[t] # "idle"
  /\ pc' = [t \in Threads |-> IF t \in Siblings(p) THEN "idle" ELSE pc[t]]
  /\ depth' = [t \in Threads |-> IF t \in Siblings(p) THEN 0 ELSE depth[t]]
  /\ rlock' = [rlock EXCEPT ![p] = NoThread]
  /\ leftover' = [t \in Threads |-> IF t \in Siblings(p) /\ record[t] # "absent"
                                    THEN record[t] ELSE leftover[t]]
  /\ record' = [t \in Threads |-> IF t \in Siblings(p) THEN "absent" ELSE record[t]]
  /\ cancelled' = [t \in Threads |-> IF t \in Siblings(p) THEN FALSE ELSE cancelled[t]]
  /\ limited' = [t \in Threads |-> IF t \in Siblings(p) THEN FALSE ELSE limited[t]]

CrashKeepingFlock(p) == DieTogether(p) /\ UNCHANGED flock

Crash(p) == /\ DieTogether(p)
            /\ flock' = IF flock \in Siblings(p) THEN NoThread ELSE flock

\* lease_state_snapshot, run by waiters and by the diagnostics routes, unlinks
\* the record of a pid that no longer exists.
Sweep(t) == /\ leftover[t] # "absent"
            /\ leftover' = [leftover EXCEPT ![t] = "absent"]
            /\ UNCHANGED <<pc, rlock, flock, depth, record, cancelled, limited>>

----------------------------------------------------------------------------
Acquire(t) == TakeProcessLock(t) \/ TakeFlock(t) \/ GiveUp(t)

Release(t) == Unnest(t) \/ Retract(t) \/ Unlock(t) \/ Exit(t)

Next == \/ \E t \in Threads : \/ Request(t) \/ Acquire(t) \/ Publish(t)
                              \/ Nest(t) \/ Release(t)
                              \/ Cancel(t) \/ Sweep(t)
        \/ \E p \in Processes : Crash(p)

\* A waiter polls until it is through or gives up; a nested call returns; a
\* holder runs a workload that ends after finitely many nested calls (strong
\* fairness of Retract) and unwinds.  Nobody has to ask, cancel, nest or crash.
Fairness == \A t \in Threads : /\ WF_vars(Acquire(t)) /\ WF_vars(Publish(t))
                               /\ WF_vars(Unnest(t)) /\ SF_vars(Retract(t))
                               /\ WF_vars(Unlock(t)) /\ WF_vars(Exit(t))

Safe == Init /\ [][Next]_vars
Spec == Safe /\ Fairness

----------------------------------------------------------------------------
(* Properties *)

\* Every variable of the lease has its type; the depth stays within the bound.
TypeOK == /\ pc \in [Threads -> Locations]
          /\ rlock \in [Processes -> Threads \cup {NoThread}]
          /\ flock \in Threads \cup {NoThread}
          /\ depth \in [Threads -> 0..MaxDepth]
          /\ record \in [Threads -> Records]
          /\ leftover \in [Threads -> Records]
          /\ cancelled \in [Threads -> BOOLEAN]
          /\ limited \in [Threads -> BOOLEAN]

\* No two threads, of one service or of two, are inside the body of the lease
\* (runtime_lease counts a thread in and out with its depth).
MutualExclusion == \A t, u \in Threads : depth[t] > 0 /\ depth[u] > 0 => t = u

\* The owner lease_state_snapshot reports, which recovery and the watchdog act
\* on, really holds the flock: never a service that crashed, and never one
\* that already gave the lease to somebody else.
ReportedOwnerHoldsLease == \A t \in ReportedActive : flock = t

\* The lock order: a thread that holds the flock also holds the re-entrant lock
\* of its process, so that no sibling thread polls the flock meanwhile.
FlockUnderProcessLock == flock # NoThread => rlock[ProcessOf[flock]] = flock

\* A thread that is out of runtime_lease, however it left, keeps no lock and
\* no record: cancelled and timed-out waiters clean up what they took.
NothingLeftBehind == \A t \in Threads : pc[t] = "idle" =>
                       /\ rlock[ProcessOf[t]] # t
                       /\ flock # t
                       /\ record[t] = "absent"

DisturbancesEnd == <>[][/\ \A p \in Processes : ~Crash(p)
                        /\ \A t \in Threads : ~Cancel(t)]_vars

\* Somebody always gets through: while requests wait, some thread enters the
\* lease or the last waiter leaves.  (Services in a crash loop, or requests that
\* are all cancelled in time, can take and drop the locks for ever.)
SomeWaiterGetsThrough ==
  DisturbancesEnd => ((\E t \in Threads : pc[t] \in {"processLock", "flock"})
                        ~> \/ \E t \in Threads : pc[t] = "held"
                           \/ \A t \in Threads : pc[t] \notin {"processLock", "flock"})

\* The abstract lease: a request waits until it has the flock or gives up.
Lease == INSTANCE ExclusiveLease WITH
           Clients <- Threads, Nobody <- NoThread,
           waiting <- {t \in Threads : pc[t] \in {"processLock", "flock"}},
           owner <- flock

\* The locks and files implement the lease that callers rely on.
ImplementsLease == Lease!LeaseSpec
==========================================================================
