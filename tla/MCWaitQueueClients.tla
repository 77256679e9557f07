-------------------------- MODULE MCWaitQueueClients --------------------------
(* Waiters and notifiers on one or two wait queues. *)
EXTENDS WaitQueueClients, TLC

CONSTANTS q1, q2

OneQueue == <<q1>>
TwoQueues == <<q1, q2>>

Notifiers == Permutations(Agent \ Task)
==============================================================================
