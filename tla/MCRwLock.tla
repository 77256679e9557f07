------------------------------- MODULE MCRwLock -------------------------------
(* Readers and writers contending for one lock. *)
EXTENDS RwLock, TLC

Symm == Permutations(Task)
==============================================================================
