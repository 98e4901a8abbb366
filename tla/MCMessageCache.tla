---------------------------- MODULE MCMessageCache ----------------------------
(* Two requests and two messages, which may be given another thread. *)
EXTENDS MessageCache, TLC

Symmetry == Permutations(Readers) \cup Permutations(Threads)
=============================================================================
