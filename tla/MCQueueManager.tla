--------------------------- MODULE MCQueueManager ---------------------------
(***************************************************************************)
(* Instances of QueueManager for TLC: two events in one virtual queue.     *)
(***************************************************************************)
EXTENDS QueueManager, TLC

CONSTANTS k1, k2, q1

OneQueue == [k \in Events |-> q1]

EventSymmetry == Permutations(Events)
=============================================================================
