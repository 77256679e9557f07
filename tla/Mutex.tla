-------------------------------- MODULE Mutex --------------------------------
(***************************************************************************)
(* The sleeping mutex of modules/axsync/src/mutex.rs: RawMutex::lock,      *)
(* try_lock and unlock over one wait queue, with tasks that are preempted  *)
(* and woken by signals at any point where the kernel allows it.           *)
(***************************************************************************)
EXTENDS WaitQueue

CONSTANT wq    \* RawMutex::wq

ASSUME WqIsQueue == wq \in Queue

VARIABLES
    owner_id,   \* RawMutex::owner_id: a task, or None for 0
    pc          \* [Task -> Pc] where a task is in lock, try_lock and unlock

vars == <<state, in_wait_queue, queue, wq_lock, npc, nq, hand, owner_id, pc>>

Pc == {"idle",    \* no mutex call in progress, the mutex not held
       "cas",     \* lock: about to compare-exchange owner_id
       "until",   \* wait_until: top of the loop
       "enqueue", \* wait_until: the mutex was seen locked, wq's lock held
       "cancel",  \* wait_until: the mutex was seen free
       "held",    \* lock or try_lock has returned, the guard is alive
       "notify",  \* unlock: owner_id cleared, about to notify
       "notified"}\* unlock: inside notify_one

Waiting == {"cas", "until", "enqueue", "cancel"}

TypeOK ==
    /\ WQTypeOK
    /\ owner_id \in Task \cup {None}
    /\ pc \in [Task -> Pc]

Init ==
    /\ WQInit
    /\ owner_id = None
    /\ pc = [t \in Task |-> "idle"]

Goto(t, l) == pc' = [pc EXCEPT ![t] = l]

is_locked == owner_id # None
------------------------------------------------------------------------------
lock(t) ==
    /\ Executing(t)
    /\ pc[t] = "idle"
    /\ Goto(t, "cas")
    /\ UNCHANGED <<wqVars, owner_id>>

(* A faulty lock that stores its id without comparing. *)
BlindLockCas(t) ==
    /\ Executing(t)
    /\ pc[t] = "cas"
    /\ owner_id' = t
    /\ Goto(t, "held")
    /\ UNCHANGED wqVars

(* The compare_exchange_weak of lock.  It may fail although owner_id is 0, *)
(* and lock then retries at once.                                          *)
LockCas(t) ==
    /\ Executing(t)
    /\ pc[t] = "cas"
    /\ \/ /\ ~is_locked
          /\ owner_id' = t
          /\ Goto(t, "held")
       \/ /\ is_locked
          /\ Goto(t, "until")
          /\ UNCHANGED owner_id
    /\ UNCHANGED wqVars

(* wait_until: take the queue's lock and evaluate the condition. *)
WaitUntilTest(t) ==
    /\ Executing(t)
    /\ pc[t] = "until"
    /\ wq_lock[wq] = None
    /\ IF is_locked
       THEN LockQueue(t, wq) /\ Goto(t, "enqueue")
       ELSE UNCHANGED wq_lock /\ Goto(t, "cancel")
    /\ UNCHANGED <<state, in_wait_queue, queue, npc, nq, hand, owner_id>>

WaitUntilBlock(t) ==
    /\ Executing(t)
    /\ pc[t] = "enqueue"
    /\ blocked_resched(t, wq)
    /\ Goto(t, "until")
    /\ UNCHANGED owner_id

(* A faulty wait_until that goes on looping when the condition holds. *)
CancelAndLoop(t) ==
    /\ Executing(t)
    /\ pc[t] = "cancel"
    /\ cancel_events(t, wq)
    /\ Goto(t, "until")
    /\ UNCHANGED owner_id

WaitUntilCancel(t) ==
    /\ Executing(t)
    /\ pc[t] = "cancel"
    /\ cancel_events(t, wq)
    /\ Goto(t, "cas")
    /\ UNCHANGED owner_id

(* try_lock: a strong compare-exchange; a failure changes nothing. *)
try_lock(t) ==
    /\ Executing(t)
    /\ pc[t] = "idle"
    /\ ~is_locked
    /\ owner_id' = t
    /\ Goto(t, "held")
    /\ UNCHANGED wqVars

(* unlock: swap owner_id with 0, ... *)
unlock(t) ==
    /\ Executing(t)
    /\ pc[t] = "held"
    /\ owner_id' = None
    /\ Goto(t, "notify")
    /\ UNCHANGED wqVars

(* A faulty unlock that skips notify_one when the list looks empty. *)
NotifyIfQueued(t) ==
    /\ pc[t] = "notify"
    /\ IF queue[wq] = <<>>
       THEN UNCHANGED wqVars /\ Goto(t, "idle")
       ELSE notify_one(t, wq) /\ Goto(t, "notified")
    /\ UNCHANGED owner_id

(* ... then notify one waiter. *)
UnlockNotify(t) ==
    /\ pc[t] = "notify"
    /\ notify_one(t, wq)
    /\ Goto(t, "notified")
    /\ UNCHANGED owner_id

UnlockReturn(t) ==
    /\ pc[t] = "notified"
    /\ NotifyReturn(t)
    /\ Goto(t, "idle")
    /\ UNCHANGED owner_id
------------------------------------------------------------------------------
Step(t) ==
    \/ LockCas(t)
    \/ WaitUntilTest(t)
    \/ WaitUntilBlock(t)
    \/ WaitUntilCancel(t)
    \/ unlock(t)
    \/ UnlockNotify(t)
    \/ UnlockReturn(t)
    \/ NotifyStep(t) /\ UNCHANGED <<owner_id, pc>>

Call(t) == lock(t) \/ try_lock(t)

Schedule(t) ==
    /\ Dispatch(t) \/ Preempt(t) \/ interrupt_task(t)
    /\ UNCHANGED <<owner_id, pc>>

Next == \E t \in Task : Call(t) \/ Step(t) \/ Schedule(t)

Spec == Init /\ [][Next]_vars

Run(t) == Dispatch(t) /\ UNCHANGED <<owner_id, pc>>

(* The scheduler runs every Ready task again and again, for long enough to *)
(* take a step between two preemptions, and a critical section ends.       *)
Fairness == \A t \in Task : SF_vars(Step(t)) /\ WF_vars(Run(t))

FairSpec == Spec /\ Fairness
------------------------------------------------------------------------------
(* owner_id names the one task that holds the guard: two tasks never hold  *)
(* the mutex together, unlock never finds it unlocked, and lock never meets*)
(* its own id (the assertions of lock and unlock).                         *)
MutualExclusion == \A t \in Task : owner_id = t <=> pc[t] = "held"

(* Asleep(t): t sleeps in lock's wait_until. *)
Asleep(t) == pc[t] = "until" /\ state[t] = "Blocked"

(* Someone will look at the mutex again: a task on its way through lock, or *)
(* an unlock that has not chosen its waiter or is about to unblock it.      *)
Awake(t) ==
    \/ pc[t] \in Waiting /\ state[t] # "Blocked"
    \/ pc[t] = "notify"
    \/ npc[t] \in {"pop", "consume", "stale"}
    \/ npc[t] \in {"clear_one", "cas_one"} /\ Asleep(Head(hand[t]))

(* No lost wake-up: the mutex is never free with a task asleep on it and   *)
(* nobody left to wake it, whatever way unlock, wait_until's test-then-    *)
(* enqueue, signals and preemption interleave.                             *)
NoLostWakeup ==
    ~is_locked /\ (\E t \in Task : Asleep(t)) => \E t \in Task : Awake(t)

(* A task that sleeps in lock is in the wait queue, or an unlock has it in *)
(* hand: cancel_events and the stale-entry rule of notify_one never drop a *)
(* sleeping task.                                                          *)
SleeperIsQueued ==
    \A t \in Task : Asleep(t) =>
        \/ t \in Entries(wq)
        \/ \E a \in Task : /\ npc[a] \in {"clear_one", "cas_one"}
                           /\ hand[a] = <<t>>

(* A free mutex with a sleeper is taken again: the hand-over never stalls. *)
HandOver == ~is_locked /\ (\E t \in Task : Asleep(t)) ~> is_locked
==============================================================================
