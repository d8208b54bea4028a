------------------------ MODULE RuntimeLeaseProofs ------------------------
(***************************************************************************)
(* Proofs about RuntimeLease for any number of services, threads and       *)
(* nested calls.  Mutual exclusion alone is not inductive: it needs that   *)
(* the location of a thread determines which locks it owns and what its    *)
(* record says, which is the invariant LeaseInv.                           *)
(***************************************************************************)
EXTENDS RuntimeLease, TLAPS

InBody == {"publish", "held"}
WithFlock == {"publish", "held", "unlock"}
WithProcessLock == {"flock", "publish", "held", "unlock"}
AtLocks == {"processLock", "flock"}

\* A thread counts itself in exactly while it is inside the lease.
DepthInv == \A t \in Threads : depth[t] > 0 <=> pc[t] \in InBody

\* A thread owns the flock exactly from its acquisition to its release.
FlockInv == \A t \in Threads : flock = t <=> pc[t] \in WithFlock

\* A thread past the first lock owns the re-entrant lock of its process.
ProcessLockInv == \A t \in Threads :
                    pc[t] \in WithProcessLock => rlock[ProcessOf[t]] = t

\* An owner of a re-entrant lock is a thread of that process inside runtime_lease.
OwnerInv == \A t \in Threads, p \in Processes :
              rlock[p] = t => /\ ProcessOf[t] = p
                              /\ pc[t] \in WithProcessLock \cup {"exit"}

\* Only a thread in its body has an active record; an idle one has none.
RecordInv == \A t \in Threads : /\ record[t] = "active" => pc[t] = "held"
                                /\ pc[t] = "idle" => record[t] = "absent"

LeaseInv == TypeOK /\ DepthInv /\ FlockInv /\ ProcessLockInv /\ OwnerInv /\ RecordInv

\* The invariant holds initially: nobody has asked for the lease.
LEMMA InitInv == Init => LeaseInv
  BY ThreadsAssumption, DepthAssumption
     DEF Init, LeaseInv, TypeOK, Locations, Records, DepthInv, FlockInv, ProcessLockInv,
         OwnerInv, RecordInv, InBody, WithFlock, WithProcessLock

\* A thread of one process is a sibling of nobody in another.
LEMMA SiblingsType == \A p \in Processes : Siblings(p) \subseteq Threads
  BY DEF Siblings

\* Every step preserves the types.
LEMMA TypeStep == LeaseInv /\ [Next]_vars => TypeOK'
<1> SUFFICES ASSUME LeaseInv, [Next]_vars PROVE TypeOK'
  OBVIOUS
<1> USE ThreadsAssumption, DepthAssumption DEF LeaseInv, TypeOK, Locations, Records
<1>1. ASSUME NEW t \in Threads, Request(t) PROVE TypeOK'
  BY <1>1 DEF Request, Writes
<1>2. ASSUME NEW t \in Threads, Acquire(t) PROVE TypeOK'
  <2>1. CASE TakeProcessLock(t)
    BY <2>1 DEF TakeProcessLock
  <2>2. CASE TakeFlock(t)
    BY <2>2 DEF TakeFlock
  <2>3. CASE GiveUp(t)
    BY <2>3 DEF GiveUp
  <2> QED BY <1>2, <2>1, <2>2, <2>3 DEF Acquire
<1>3. ASSUME NEW t \in Threads, Publish(t) PROVE TypeOK'
  BY <1>3 DEF Publish, Writes
<1>4. ASSUME NEW t \in Threads, Nest(t) PROVE TypeOK'
  BY <1>4 DEF Nest
<1>5. ASSUME NEW t \in Threads, Release(t) PROVE TypeOK'
  <2>1. CASE Unnest(t)
    BY <2>1 DEF Unnest, NestedCall
  <2>2. CASE Retract(t)
    BY <2>2 DEF Retract
  <2>3. CASE Unlock(t)
    BY <2>3 DEF Unlock
  <2>4. CASE Exit(t)
    BY <2>4 DEF Exit
  <2> QED BY <1>5, <2>1, <2>2, <2>3, <2>4 DEF Release
<1>6. ASSUME NEW t \in Threads, Cancel(t) PROVE TypeOK'
  BY <1>6 DEF Cancel
<1>7. ASSUME NEW t \in Threads, Sweep(t) PROVE TypeOK'
  BY <1>7 DEF Sweep
<1>8. ASSUME NEW p \in Processes, Crash(p) PROVE TypeOK'
  <2>1. pc' \in [Threads -> Locations] /\ depth' \in [Threads -> 0..MaxDepth]
    BY <1>8 DEF Crash, DieTogether
  <2>2. rlock' \in [Processes -> Threads \cup {NoThread}]
    BY <1>8 DEF Crash, DieTogether
  <2>3. flock' \in Threads \cup {NoThread}
    BY <1>8 DEF Crash
  <2>4. record' \in [Threads -> Records] /\ leftover' \in [Threads -> Records]
    BY <1>8 DEF Crash, DieTogether
  <2>5. cancelled' \in [Threads -> BOOLEAN] /\ limited' \in [Threads -> BOOLEAN]
    <3>1. cancelled' = [t \in Threads |-> IF t \in Siblings(p) THEN FALSE ELSE cancelled[t]]
      BY <1>8 DEF Crash, DieTogether
    <3>2. limited' = [t \in Threads |-> IF t \in Siblings(p) THEN FALSE ELSE limited[t]]
      BY <1>8 DEF Crash, DieTogether
    <3> QED BY <3>1, <3>2, Zenon
  <2> QED BY <2>1, <2>2, <2>3, <2>4, <2>5
<1>9. CASE UNCHANGED vars
  BY <1>9 DEF vars
<1> QED BY <1>1, <1>2, <1>3, <1>4, <1>5, <1>6, <1>7, <1>8, <1>9 DEF Next

\* Every step preserves the link between locations, locks and records.
LEMMA LocksStep ==
  LeaseInv /\ [Next]_vars => (DepthInv /\ FlockInv /\ ProcessLockInv /\ OwnerInv /\ RecordInv)'
<1> DEFINE Goal == (DepthInv /\ FlockInv /\ ProcessLockInv /\ OwnerInv /\ RecordInv)'
<1> SUFFICES ASSUME LeaseInv, [Next]_vars PROVE Goal
  OBVIOUS
<1> USE ThreadsAssumption
    DEF LeaseInv, TypeOK, DepthInv, FlockInv, ProcessLockInv, OwnerInv, RecordInv,
        Locations, Records, InBody, WithFlock, WithProcessLock
<1>1. ASSUME NEW t \in Threads, Request(t) PROVE Goal
  BY <1>1 DEF Request, Writes
<1>2. ASSUME NEW t \in Threads, Acquire(t) PROVE Goal
  <2>1. CASE TakeProcessLock(t)
    BY <2>1 DEF TakeProcessLock, ProcessLockFree
  <2>2. CASE TakeFlock(t)
    BY <2>2 DEF TakeFlock, FlockFree
  <2>3. CASE GiveUp(t)
    BY <2>3 DEF GiveUp
  <2> QED BY <1>2, <2>1, <2>2, <2>3 DEF Acquire
<1>3. ASSUME NEW t \in Threads, Publish(t) PROVE Goal
  BY <1>3 DEF Publish, Writes
<1>4. ASSUME NEW t \in Threads, Nest(t) PROVE Goal
  BY <1>4 DEF Nest
<1>5. ASSUME NEW t \in Threads, Release(t) PROVE Goal
  <2>1. CASE Unnest(t)
    BY <2>1 DEF Unnest, NestedCall
  <2>2. CASE Retract(t)
    BY <2>2 DEF Retract
  <2>3. CASE Unlock(t)
    BY <2>3 DEF Unlock
  <2>4. CASE Exit(t)
    BY <2>4 DEF Exit
  <2> QED BY <1>5, <2>1, <2>2, <2>3, <2>4 DEF Release
<1>6. ASSUME NEW t \in Threads, Cancel(t) PROVE Goal
  BY <1>6 DEF Cancel
<1>7. ASSUME NEW t \in Threads, Sweep(t) PROVE Goal
  BY <1>7 DEF Sweep
<1>8. ASSUME NEW p \in Processes, Crash(p) PROVE Goal
  BY <1>8 DEF Crash, DieTogether, Siblings
<1>9. CASE UNCHANGED vars
  BY <1>9 DEF vars
<1> QED BY <1>1, <1>2, <1>3, <1>4, <1>5, <1>6, <1>7, <1>8, <1>9 DEF Next

\* The invariant is inductive, so it holds in every reachable state.
THEOREM LeaseInvariant == Safe => []LeaseInv
<1>1. LeaseInv /\ [Next]_vars => LeaseInv'
  BY TypeStep, LocksStep DEF LeaseInv
<1> QED BY InitInv, <1>1, PTL DEF Safe

\* Type correctness of the lease, for every number of threads and services.
THEOREM TypeCorrect == Safe => []TypeOK
<1>1. LeaseInv => TypeOK
  BY DEF LeaseInv
<1> QED BY <1>1, LeaseInvariant, PTL

\* Mutual exclusion: two threads inside the lease both own the one flock.
THEOREM Exclusive == Safe => []MutualExclusion
<1>1. LeaseInv => MutualExclusion
  BY DEF LeaseInv, DepthInv, FlockInv, InBody, WithFlock, MutualExclusion
<1> QED BY <1>1, LeaseInvariant, PTL

\* The owner that lease_state_snapshot reports holds the flock at that moment.
THEOREM SnapshotIsTruthful == Safe => []ReportedOwnerHoldsLease
<1>1. LeaseInv => ReportedOwnerHoldsLease
  BY DEF LeaseInv, FlockInv, RecordInv, WithFlock, ReportedOwnerHoldsLease, ReportedActive
<1> QED BY <1>1, LeaseInvariant, PTL

\* The flock is only ever owned under the re-entrant lock of its process.
THEOREM LockOrder == Safe => []FlockUnderProcessLock
<1>1. LeaseInv => FlockUnderProcessLock
  BY DEF LeaseInv, TypeOK, FlockInv, ProcessLockInv, WithFlock, WithProcessLock,
         FlockUnderProcessLock
<1> QED BY <1>1, LeaseInvariant, PTL

\* A thread that left runtime_lease, by whatever path, kept nothing.
THEOREM CleanExit == Safe => []NothingLeftBehind
<1>1. LeaseInv => NothingLeftBehind
  BY ThreadsAssumption
     DEF LeaseInv, FlockInv, OwnerInv, RecordInv, WithFlock, WithProcessLock,
         NothingLeftBehind
<1> QED BY <1>1, LeaseInvariant, PTL

\* Every step of the locks is a step of the abstract lease or changes nothing
\* the callers see.
LEMMA StepRefines == LeaseInv /\ [Next]_vars => [Lease!LeaseNext]_(Lease!leaseVars)
<1> SUFFICES ASSUME LeaseInv, [Next]_vars
             PROVE  [Lease!LeaseNext]_(Lease!leaseVars)
  OBVIOUS
<1> DEFINE W == {t \in Threads : pc[t] \in {"processLock", "flock"}}
<1> USE ThreadsAssumption DEF LeaseInv, TypeOK, FlockInv, WithFlock
<1>1. ASSUME NEW t \in Threads, Request(t) PROVE Lease!Ask(t)
  <2>1. t \notin W /\ flock # t
    BY <1>1 DEF Request
  <2>2. W' = W \cup {t}
    BY <1>1 DEF Request
  <2> QED BY <1>1, <2>1, <2>2 DEF Request, Lease!Ask
<1>2. ASSUME NEW t \in Threads, TakeProcessLock(t) PROVE W' = W /\ flock' = flock
  BY <1>2 DEF TakeProcessLock
<1>3. ASSUME NEW t \in Threads, TakeFlock(t) PROVE Lease!Grant(t)
  <2>1. W' = W \ {t}
    BY <1>3 DEF TakeFlock
  <2> QED BY <1>3, <2>1 DEF TakeFlock, FlockFree, Lease!Grant
<1>4. ASSUME NEW t \in Threads, GiveUp(t) PROVE Lease!StopWaiting(t)
  <2>1. W' = W \ {t}
    BY <1>4 DEF GiveUp
  <2> QED BY <1>4, <2>1 DEF GiveUp, Lease!StopWaiting
<1>5. ASSUME NEW t \in Threads, Unlock(t) PROVE Lease!GiveBack(t)
  <2>1. W' = W
    BY <1>5 DEF Unlock
  <2> QED BY <1>5, <2>1 DEF Unlock, Lease!GiveBack
<1>6. ASSUME NEW p \in Processes, Crash(p) PROVE Lease!Vanish(Siblings(p))
  <2>1. W' = W \ Siblings(p)
    BY <1>6 DEF Crash, DieTogether, Siblings
  <2> QED BY <1>6, <2>1 DEF Crash, Lease!Vanish
<1>7. ASSUME NEW t \in Threads,
             \/ Publish(t) \/ Nest(t) \/ Unnest(t) \/ Retract(t) \/ Exit(t)
             \/ Cancel(t) \/ Sweep(t)
      PROVE  W' = W /\ flock' = flock
  BY <1>7 DEF Publish, Nest, Unnest, Retract, Exit, Cancel, Sweep
<1>8. CASE UNCHANGED vars
  BY <1>8 DEF vars, Lease!leaseVars
<1> QED
  BY <1>1, <1>2, <1>3, <1>4, <1>5, <1>6, <1>7, <1>8, SiblingsType
     DEF Next, Acquire, Release, Lease!LeaseNext, Lease!leaseVars

\* The implementation theorem: runtime_lease behaves like the abstract lease.
THEOREM Refinement == Safe => ImplementsLease
<1>1. Init => Lease!LeaseInit
  BY DEF Init, Lease!LeaseInit
<1> QED BY <1>1, StepRefines, LeaseInvariant, PTL
         DEF Safe, ImplementsLease, Lease!LeaseSpec
==========================================================================
