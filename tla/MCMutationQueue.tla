-------------------------- MODULE MCMutationQueue --------------------------
(* Small instances of MutationQueue for TLC.                               *)
EXTENDS MutationQueue
=============================================================================
