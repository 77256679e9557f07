------------------------------- MODULE Process -------------------------------
(***************************************************************************)
(* The sleeping system calls of processes, side by side: futexes, System V *)
(* semaphores, record locks and flock.  A task is in one call at a time;   *)
(* signals, the scheduler and the wait queue's algorithm are shared.       *)
(***************************************************************************)
EXTENDS Semaphore, RecordLock, Flock

ASSUME QueuesAreApart ==
    SemQueue \notin RecordQueue \cup FlockQueue /\ RecordQueue \cap FlockQueue = {}

vars == <<processVars, semVars, recordVars, flockVars>>

TypeOK == SemTypeOK /\ RecordTypeOK /\ FlockTypeOK

Init == SemInit /\ RecordInit /\ FlockInit

Next ==
    \/ FutexNext /\ UNCHANGED <<semVars, recordVars, flockVars>>
    \/ SemNext /\ UNCHANGED <<recordVars, flockVars>>
    \/ RecordNext /\ UNCHANGED <<semVars, flockVars>>
    \/ FlockNext /\ UNCHANGED <<semVars, recordVars>>

Spec == Init /\ [][Next]_vars
==============================================================================
