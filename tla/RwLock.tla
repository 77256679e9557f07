-------------------------------- MODULE RwLock --------------------------------
(***************************************************************************)
(* The sleeping reader-writer lock of modules/axsync/src/rwlock.rs: read,  *)
(* write, try_read, try_write and the two guard drops, over one wait queue. *)
(* A reader reads `state` and `waiting_writers` one after the other, so    *)
(* that a writer may come in between.                                      *)
(*                                                                         *)
(* A weak compare-exchange that fails for no reason is left out: read and  *)
(* try_read then load the same value again, and write finds its condition  *)
(* true as it does when the lock is released just after a failure.         *)
(***************************************************************************)
EXTENDS WaitQueue, Integers

CONSTANTS
    wq,          \* RwLock::wq
    ReadTask,    \* the tasks that call read and try_read
    WriteTask    \* the tasks that call write and try_write

ASSUME WqIsQueue == wq \in Queue
ASSUME TaskIsFinite == IsFiniteSet(Task)

VARIABLES
    rw_state,         \* RwLock::state: -1, 0, or the number of readers
    waiting_writers,  \* RwLock::waiting_writers
    seen,             \* [Task -> Int] the value of rw_state a reader has loaded
    pc                \* [Task -> Pc]

lockVars == <<rw_state, waiting_writers, seen>>
vars == <<state, in_wait_queue, queue, wq_lock, npc, nq, hand,
          rw_state, waiting_writers, seen, pc>>

ReadPc == {"r_load", "r_waiting", "r_cas",                    \* read's loop
           "r_until", "r_until2", "r_enqueue", "r_cancel"}    \* its wait_until
TryPc == {"t_waiting", "t_cas"}                               \* try_read's loop
WritePc == {"w_cas", "w_until", "w_enqueue", "w_cancel"}      \* write's slow path
Pc == {"idle", "reading", "writing",     \* no guard; a guard is alive
       "w_add", "w_sub",                 \* write: count itself in; out
       "notify", "notified"}             \* a guard's drop: notify_all
      \cup ReadPc \cup TryPc \cup WritePc

TypeOK ==
    /\ WQTypeOK
    /\ rw_state \in Int
    /\ waiting_writers \in Int
    /\ seen \in [Task -> Int]
    /\ pc \in [Task -> Pc]

Init ==
    /\ WQInit
    /\ rw_state = 0
    /\ waiting_writers = 0
    /\ seen = [t \in Task |-> 0]
    /\ pc = [t \in Task |-> "idle"]

At(t, l) == Executing(t) /\ pc[t] = l

Goto(t, l) == pc' = [pc EXCEPT ![t] = l]
------------------------------------------------------------------------------
(* read.                                                                   *)

read(t) ==
    /\ At(t, "idle")
    /\ Goto(t, "r_load")
    /\ UNCHANGED <<wqVars, lockVars>>

ReadLoad(t) ==
    /\ At(t, "r_load")
    /\ seen' = [seen EXCEPT ![t] = rw_state]
    /\ Goto(t, "r_waiting")
    /\ UNCHANGED <<wqVars, rw_state, waiting_writers>>

(* A faulty read that does not give way to waiting writers. *)
ReadBarges(t) ==
    /\ At(t, "r_waiting")
    /\ Goto(t, IF seen[t] >= 0 THEN "r_cas" ELSE "r_until")
    /\ UNCHANGED <<wqVars, lockVars>>

(* A faulty read that lets a reader in while a writer holds the lock. *)
ReadIgnoresWriter(t) ==
    /\ At(t, "r_waiting")
    /\ Goto(t, IF waiting_writers = 0 THEN "r_cas" ELSE "r_until")
    /\ UNCHANGED <<wqVars, lockVars>>

ReadWaiting(t) ==
    /\ At(t, "r_waiting")
    /\ Goto(t, IF seen[t] >= 0 /\ waiting_writers = 0 THEN "r_cas" ELSE "r_until")
    /\ UNCHANGED <<wqVars, lockVars>>

ReadCas(t) ==
    /\ At(t, "r_cas")
    /\ IF rw_state = seen[t]
       THEN rw_state' = rw_state + 1 /\ Goto(t, "reading")
       ELSE UNCHANGED rw_state /\ Goto(t, "r_load")
    /\ UNCHANGED <<wqVars, waiting_writers, seen>>

(* wait_until's condition, under the queue's lock: first rw_state, ... *)
ReadUntil(t) ==
    /\ At(t, "r_until")
    /\ LockQueue(t, wq)
    /\ Goto(t, IF rw_state >= 0 THEN "r_until2" ELSE "r_enqueue")
    /\ UNCHANGED <<state, in_wait_queue, queue, npc, nq, hand, lockVars>>

(* ... then waiting_writers. *)
ReadUntil2(t) ==
    /\ At(t, "r_until2")
    /\ IF waiting_writers = 0
       THEN UnlockQueue(t, wq) /\ Goto(t, "r_cancel")
       ELSE UNCHANGED wq_lock /\ Goto(t, "r_enqueue")
    /\ UNCHANGED <<state, in_wait_queue, queue, npc, nq, hand, lockVars>>

(* blocked_resched and cancel_events, for readers and writers. *)
UntilBlock(t) ==
    /\ At(t, "r_enqueue") \/ At(t, "w_enqueue")
    /\ blocked_resched(t, wq)
    /\ Goto(t, IF pc[t] = "r_enqueue" THEN "r_until" ELSE "w_until")
    /\ UNCHANGED lockVars

UntilCancel(t) ==
    /\ At(t, "r_cancel") \/ At(t, "w_cancel")
    /\ cancel_events(t, wq)
    /\ Goto(t, IF pc[t] = "r_cancel" THEN "r_load" ELSE "w_cas")
    /\ UNCHANGED lockVars
------------------------------------------------------------------------------
(* try_read returns None when a writer is active or waiting.               *)

try_read(t) ==
    /\ At(t, "idle")
    /\ seen' = [seen EXCEPT ![t] = rw_state]
    /\ Goto(t, "t_waiting")
    /\ UNCHANGED <<wqVars, rw_state, waiting_writers>>

TryReadWaiting(t) ==
    /\ At(t, "t_waiting")
    /\ Goto(t, IF seen[t] >= 0 /\ waiting_writers = 0 THEN "t_cas" ELSE "idle")
    /\ UNCHANGED <<wqVars, lockVars>>

TryReadCas(t) ==
    /\ At(t, "t_cas")
    /\ IF rw_state = seen[t]
       THEN rw_state' = rw_state + 1 /\ Goto(t, "reading") /\ UNCHANGED seen
       ELSE /\ seen' = [seen EXCEPT ![t] = rw_state]
            /\ Goto(t, "t_waiting")
            /\ UNCHANGED rw_state
    /\ UNCHANGED <<wqVars, waiting_writers>>
------------------------------------------------------------------------------
(* write.                                                                  *)

write(t) ==
    /\ At(t, "idle")
    /\ IF rw_state = 0
       THEN rw_state' = -1 /\ Goto(t, "writing")
       ELSE UNCHANGED rw_state /\ Goto(t, "w_add")
    /\ UNCHANGED <<wqVars, waiting_writers, seen>>

WriteAdd(t) ==
    /\ At(t, "w_add")
    /\ waiting_writers' = waiting_writers + 1
    /\ Goto(t, "w_cas")
    /\ UNCHANGED <<wqVars, rw_state, seen>>

(* A faulty write that enters without counting itself out. *)
WriteStaysCounted(t) ==
    /\ At(t, "w_cas")
    /\ IF rw_state = 0
       THEN rw_state' = -1 /\ Goto(t, "writing")
       ELSE UNCHANGED rw_state /\ Goto(t, "w_until")
    /\ UNCHANGED <<wqVars, waiting_writers, seen>>

WriteCas(t) ==
    /\ At(t, "w_cas")
    /\ IF rw_state = 0
       THEN rw_state' = -1 /\ Goto(t, "w_sub")
       ELSE UNCHANGED rw_state /\ Goto(t, "w_until")
    /\ UNCHANGED <<wqVars, waiting_writers, seen>>

WriteUntil(t) ==
    /\ At(t, "w_until")
    /\ wq_lock[wq] = None
    /\ IF rw_state = 0
       THEN UNCHANGED wq_lock /\ Goto(t, "w_cancel")
       ELSE LockQueue(t, wq) /\ Goto(t, "w_enqueue")
    /\ UNCHANGED <<state, in_wait_queue, queue, npc, nq, hand, lockVars>>

WriteSub(t) ==
    /\ At(t, "w_sub")
    /\ waiting_writers' = waiting_writers - 1
    /\ Goto(t, "writing")
    /\ UNCHANGED <<wqVars, rw_state, seen>>

try_write(t) ==
    /\ At(t, "idle")
    /\ rw_state = 0
    /\ rw_state' = -1
    /\ Goto(t, "writing")
    /\ UNCHANGED <<wqVars, waiting_writers, seen>>
------------------------------------------------------------------------------
(* The guards' drops: release the lock, then notify_all unless readers      *)
(* remain.                                                                  *)

DropReadGuard(t) ==
    /\ At(t, "reading")
    /\ rw_state' = rw_state - 1
    /\ Goto(t, IF rw_state = 1 THEN "notify" ELSE "idle")
    /\ UNCHANGED <<wqVars, waiting_writers, seen>>

DropWriteGuard(t) ==
    /\ At(t, "writing")
    /\ rw_state' = 0
    /\ Goto(t, "notify")
    /\ UNCHANGED <<wqVars, waiting_writers, seen>>

(* A faulty drop that wakes a single waiter. *)
DropNotifiesOne(t) ==
    /\ pc[t] = "notify"
    /\ notify_one(t, wq)
    /\ Goto(t, "notified")
    /\ UNCHANGED lockVars

DropNotify(t) ==
    /\ pc[t] = "notify"
    /\ notify_all(t, wq)
    /\ Goto(t, "notified")
    /\ UNCHANGED lockVars

DropReturn(t) ==
    /\ pc[t] = "notified"
    /\ NotifyReturn(t)
    /\ Goto(t, "idle")
    /\ UNCHANGED lockVars
------------------------------------------------------------------------------
Call(t) ==
    \/ t \in ReadTask /\ (read(t) \/ try_read(t))
    \/ t \in WriteTask /\ (write(t) \/ try_write(t))

Step(t) ==
    \/ ReadLoad(t) \/ ReadWaiting(t) \/ ReadCas(t) \/ ReadUntil(t) \/ ReadUntil2(t)
    \/ TryReadWaiting(t) \/ TryReadCas(t)
    \/ WriteAdd(t) \/ WriteCas(t) \/ WriteUntil(t) \/ WriteSub(t)
    \/ UntilBlock(t) \/ UntilCancel(t)
    \/ DropReadGuard(t) \/ DropWriteGuard(t) \/ DropNotify(t) \/ DropReturn(t)
    \/ NotifyStep(t) /\ UNCHANGED <<lockVars, pc>>

Schedule(t) ==
    /\ Dispatch(t) \/ Preempt(t) \/ interrupt_task(t)
    /\ UNCHANGED <<lockVars, pc>>

Next == \E t \in Task : Call(t) \/ Step(t) \/ Schedule(t)

Spec == Init /\ [][Next]_vars

Run(t) == Dispatch(t) /\ UNCHANGED <<lockVars, pc>>

(* The scheduler runs every Ready task again and again, for long enough to *)
(* take a step between two preemptions, and a guard is dropped some day.   *)
Fairness == \A t \in Task : SF_vars(Step(t)) /\ WF_vars(Run(t))

FairSpec == Spec /\ Fairness
------------------------------------------------------------------------------
Readers == {t \in Task : pc[t] = "reading"}

Writers == {t \in Task : pc[t] \in {"w_sub", "writing"}}

(* The safety invariant written at RwLock::state: -1 is one writer and no   *)
(* reader, any other value is the number of read guards.  The assertions of *)
(* the two drops follow.                                                    *)
ReadersExcludeWriter ==
    /\ \A s, t \in Writers : s = t
    /\ Writers # {} => rw_state = -1 /\ Readers = {}
    /\ Writers = {} => rw_state = Cardinality(Readers)

Waiting == {t \in Task : pc[t] \in WritePc \cup {"w_sub"}}

(* waiting_writers counts the writers between its increment and decrement:  *)
(* a writer that leaves the counter raised would keep every reader out.     *)
WaitersCounted == waiting_writers = Cardinality(Waiting)

(* Asleep(t): t sleeps in the wait_until of read or write, and its condition *)
(* is Wants(t).                                                              *)
Asleep(t) == pc[t] \in {"r_until", "w_until"} /\ state[t] = "Blocked"

Wants(t) ==
    IF pc[t] = "r_until" THEN rw_state >= 0 /\ waiting_writers = 0 ELSE rw_state = 0

(* The tasks a's notify_all has taken out and not yet passed over. *)
Pending(a) == Elems(IF npc[a] = "skip" THEN Tail(hand[a]) ELSE hand[a])

(* No lost wake-up: when the lock is as a sleeping reader or writer wants   *)
(* it, the drop that made it so has not yet called notify_all, or is about  *)
(* to unblock this very task.                                               *)
NoLostWakeup ==
    \A t \in Task : Asleep(t) /\ Wants(t) =>
        \E a \in Task : pc[a] = "notify" \/ t \in Pending(a)

(* A waiting writer is not starved by readers: some writer gets the lock. *)
WriterGetsIn == \A t \in Task : pc[t] \in WritePc ~> rw_state = -1
==============================================================================
