----------------------------- MODULE MCBlobStore -----------------------------
(* Writers of the account of one user and of the queue. *)
EXTENDS BlobStore, TLC

Symmetry == Permutations(Writers)
=============================================================================
