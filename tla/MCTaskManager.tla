---------------------------- MODULE MCTaskManager ----------------------------
EXTENDS TaskManager, TLC

AllEnabled == [n \in Nodes |-> Tasks]
NodeSymmetry == Permutations(Nodes)
=============================================================================
