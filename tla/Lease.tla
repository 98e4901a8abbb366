------------------------------- MODULE Lease -------------------------------
(***************************************************************************)
(* What a lease promises to those who take one: it is granted while nobody *)
(* has one in force, for no longer than Duration, until its holder returns *)
(* it.  The promise ends when a lease in force is removed by a party whose *)
(* own lease has run out, or by the purge of keys that have expired.       *)
(*                                                                         *)
(* MtaQueue, QueueManager and TaskManager take and return their leases in  *)
(* single steps, as here; LeaseLock shows that the steps of try_lock and   *)
(* remove_lock amount to that.                                             *)
(***************************************************************************)
EXTENDS Integers

CONSTANTS Procs, Duration

VARIABLES
    now,
    granted,    \* granted[p]: when the lease of p ends, 0 if it has none
    broken      \* a lease in force was removed by another party

Init ==
    /\ now = 1
    /\ granted = [p \in Procs |-> 0]
    /\ broken = FALSE

InForce(p) == granted[p] > now

Grant(p) ==
    /\ broken \/ \A q \in Procs : ~InForce(q)
    /\ \E end \in 1..(now + Duration) : granted' = [granted EXCEPT ![p] = end]
    /\ UNCHANGED <<now, broken>>

Return(p) ==
    /\ granted' = [granted EXCEPT ![p] = 0]
    /\ broken' = broken
    /\ UNCHANGED now

\* A holder whose lease has run out removes the lease of another.
ReturnLate(p) ==
    /\ ~InForce(p)
    /\ \E q \in Procs \ {p} : InForce(q)
    /\ granted' = [granted EXCEPT ![p] = 0]
    /\ broken' = TRUE
    /\ UNCHANGED now

\* A key that had expired is purged when it is another lease's.
Purge ==
    /\ \E q \in Procs : InForce(q)
    /\ broken' = TRUE
    /\ UNCHANGED <<now, granted>>

Tick ==
    /\ now' = now + 1
    /\ UNCHANGED <<granted, broken>>

Next ==
    \/ \E p \in Procs : Grant(p) \/ Return(p) \/ ReturnLate(p)
    \/ Purge
    \/ Tick

Spec == Init /\ [][Next]_<<now, granted, broken>>
=============================================================================
