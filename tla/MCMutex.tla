------------------------------- MODULE MCMutex -------------------------------
(* Three tasks contending for one mutex. *)
EXTENDS Mutex, TLC

Symm == Permutations(Task)
==============================================================================
