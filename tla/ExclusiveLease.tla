-------------------------- MODULE ExclusiveLease --------------------------
(***************************************************************************)
(* What runtime_coordinator.runtime_lease promises its callers, without    *)
(* the locks and files that implement it: clients ask for the one lease of *)
(* the machine, at most one of them has it, a client may stop waiting, and *)
(* a crash takes a set of clients away together with the lease one of them *)
(* may have.  RuntimeLease and ModelHandoff are shown to implement it.     *)
(***************************************************************************)
CONSTANTS Clients, Nobody

VARIABLES waiting,   \* the clients that asked and were not answered yet
          owner      \* the client that has the lease, or Nobody

leaseVars == <<waiting, owner>>

LeaseTypeOK == /\ waiting \in SUBSET Clients
               /\ owner \in Clients \cup {Nobody}

LeaseInit == /\ waiting = {}
             /\ owner = Nobody

Ask(c) == /\ c \notin waiting
          /\ owner # c
          /\ waiting' = waiting \cup {c}
          /\ UNCHANGED owner

Grant(c) == /\ c \in waiting
            /\ owner = Nobody
            /\ waiting' = waiting \ {c}
            /\ owner' = c

StopWaiting(c) == /\ c \in waiting
                  /\ waiting' = waiting \ {c}
                  /\ UNCHANGED owner

GiveBack(c) == /\ owner = c
               /\ owner' = Nobody
               /\ UNCHANGED waiting

Vanish(C) == /\ waiting' = waiting \ C
             /\ owner' = IF owner \in C THEN Nobody ELSE owner

LeaseNext == \/ \E c \in Clients : \/ Ask(c)
                                   \/ Grant(c)
                                   \/ StopWaiting(c)
                                   \/ GiveBack(c)
             \/ \E C \in SUBSET Clients : Vanish(C)

LeaseSpec == LeaseInit /\ [][LeaseNext]_leaseVars
==========================================================================
