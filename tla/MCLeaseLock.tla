----------------------------- MODULE MCLeaseLock ----------------------------
(* Three processes compete for a lease of two seconds. *)
EXTENDS LeaseLock, TLC

ProcSymmetry == Permutations(Procs)
=============================================================================
