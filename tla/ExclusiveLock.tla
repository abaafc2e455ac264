---------------------------- MODULE ExclusiveLock ----------------------------
(***************************************************************************)
(* What the task lock promises, in the words of pkg/etcd/locker.go: a      *)
(* distributed lock.  At any time at most one execution of the task owns   *)
(* it, and ownership passes from one execution to another only through a   *)
(* state in which nobody owns it.                                          *)
(***************************************************************************)
CONSTANTS
    Run,     \* the executions of one task that compete for its lock
    Free     \* the owner of a lock that nobody owns

VARIABLE owner

Init == owner = Free

\* An execution takes the free lock.
Acquire(r) == owner = Free /\ owner' = r

\* The owner gives the lock back, or loses it to an expired lease.
Release(r) == owner = r /\ owner' = Free

Next == \E r \in Run : Acquire(r) \/ Release(r)

Spec == Init /\ [][Next]_owner
==============================================================================
