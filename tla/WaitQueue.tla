------------------------------ MODULE WaitQueue ------------------------------
(***************************************************************************)
(* The wait queue of modules/axtask/src/wait_queue.rs: the task list, its  *)
(* spin lock, and the two task attributes it works on (TaskInner::state    *)
(* and TaskInner::in_wait_queue).  The module gives the critical sections  *)
(* of the wait and notify operations as actions; Mutex, RwLock and         *)
(* WaitQueueClients extend it and add the callers.                         *)
(*                                                                         *)
(* One action is one critical section, or one access to an atomic that     *)
(* another CPU may write: notify_one reads TaskInner::state and then       *)
(* compare-exchanges in_wait_queue, and these are two steps.               *)
(*                                                                         *)
(* The scheduler is abstract here: a Ready task becomes Running by         *)
(* Dispatch.  RunQueue models how this comes about on several CPUs.        *)
(***************************************************************************)
EXTENDS Naturals, Sequences, FiniteSets

CONSTANTS
    Task,      \* the tasks
    Agent,     \* what runs kernel code: the tasks and the interrupt handlers
    Queue,     \* the wait queues
    None,      \* no agent
    MaxEntries \* bound: a signal reaches a sleeper only while it has fewer entries

ASSUME TaskIsAgent == Task \subseteq Agent
ASSUME NoneIsNoAgent == None \notin Agent
ASSUME MaxEntriesIsNat == MaxEntries \in Nat

VARIABLES
    state,          \* [Task -> TaskState]      TaskInner::state
    in_wait_queue,  \* [Task -> BOOLEAN]        TaskInner::in_wait_queue
    queue,          \* [Queue -> Seq(Task)]     WaitQueue::queue
    wq_lock,        \* [Queue -> Agent or None] the SpinNoIrq around it
    npc,            \* [Agent -> NotifyPc]      progress of a notify call
    nq,             \* [Agent -> Queue]         the queue it notifies
    hand            \* [Agent -> Seq(Task)]     entries taken out, not yet handled

wqVars == <<state, in_wait_queue, queue, wq_lock, npc, nq, hand>>

notifyVars == <<npc, nq, hand>>

TaskState == {"Running", "Ready", "Blocked"}

NotifyPc == {"none",                                 \* not notifying
             "pop", "consume", "stale",              \* notify_one, lock held
             "clear_one", "cas_one",                 \* unblock_one_task
             "each", "clear_all", "cas_all", "skip", \* notify_all's loop
             "moving",                               \* requeue, between its locks
             "woke", "empty"}                        \* returned true / false

Elems(s) == {s[i] : i \in DOMAIN s}

Entries(q) == Elems(queue[q])

(* A task executes only while it is Running; an interrupt handler always. *)
Executing(a) == a \in Task => state[a] = "Running"

(* VecDeque::retain(|x| x != t): the subsequence of the entries other than t. *)
Retain(s, t) ==
    LET keep      == {i \in DOMAIN s : s[i] # t}
        rank(j)   == Cardinality({k \in keep : k <= j})
    IN  [i \in 1..Cardinality(keep) |-> s[CHOOSE j \in keep : rank(j) = i]]

WQTypeOK ==
    /\ state \in [Task -> TaskState]
    /\ in_wait_queue \in [Task -> BOOLEAN]
    /\ queue \in [Queue -> Seq(Task)]
    /\ wq_lock \in [Queue -> Agent \cup {None}]
    /\ npc \in [Agent -> NotifyPc]
    /\ nq \in [Agent -> Queue]
    /\ hand \in [Agent -> Seq(Task)]

WQInit ==
    /\ state = [t \in Task |-> "Running"]
    /\ in_wait_queue = [t \in Task |-> FALSE]
    /\ queue = [q \in Queue |-> <<>>]
    /\ wq_lock = [q \in Queue |-> None]
    /\ npc = [a \in Agent |-> "none"]
    /\ nq \in [Agent -> Queue]
    /\ hand = [a \in Agent |-> <<>>]
------------------------------------------------------------------------------
(* The waiting side.                                                       *)

LockQueue(t, q) ==
    /\ wq_lock[q] = None
    /\ wq_lock' = [wq_lock EXCEPT ![q] = t]

UnlockQueue(t, q) ==
    /\ wq_lock[q] = t
    /\ wq_lock' = [wq_lock EXCEPT ![q] = None]

(* AxRunQueue::blocked_resched: with the queue's lock held, mark the task  *)
(* Blocked, append it (a task that woke up without being notified is still *)
(* in the queue and gets a second entry), release the lock and switch away.*)
blocked_resched(t, q) ==
    /\ UnlockQueue(t, q)
    /\ state' = [state EXCEPT ![t] = "Blocked"]
    /\ in_wait_queue' = [in_wait_queue EXCEPT ![t] = TRUE]
    /\ queue' = [queue EXCEPT ![q] = Append(@, t)]
    /\ UNCHANGED notifyVars

(* WaitQueue::cancel_events, timer part excepted: drop every entry of t.   *)
(* The flag is cleared after the lock is released; it is read only by a    *)
(* notifier that has an entry of t in hand, so this is one step with it.   *)
cancel_events(t, q) ==
    /\ wq_lock[q] = None
    /\ queue' = [queue EXCEPT ![q] = Retain(@, t)]
    /\ in_wait_queue' = [in_wait_queue EXCEPT ![t] = @ /\ t \notin Entries(q)]
    /\ UNCHANGED <<state, wq_lock>>
    /\ UNCHANGED notifyVars
------------------------------------------------------------------------------
(* The notifying side: WaitQueue::notify_one.                              *)

notify_one(a, q) ==
    /\ Executing(a)
    /\ npc[a] = "none"
    /\ LockQueue(a, q)
    /\ npc' = [npc EXCEPT ![a] = "pop"]
    /\ nq' = [nq EXCEPT ![a] = q]
    /\ UNCHANGED <<state, in_wait_queue, queue, hand>>

(* The loop finds the queue empty: notify_one returns false. *)
NotifyOneEmpty(a) ==
    /\ npc[a] = "pop"
    /\ queue[nq[a]] = <<>>
    /\ UnlockQueue(a, nq[a])
    /\ npc' = [npc EXCEPT ![a] = "empty"]
    /\ UNCHANGED <<state, in_wait_queue, queue, nq, hand>>

(* One iteration of the loop: pop the front entry and branch on its state. *)
(* A Blocked task is the target and ends the loop.                         *)
NotifyOnePop(a) ==
    LET q == nq[a]
        t == Head(queue[q])
    IN  /\ npc[a] = "pop"
        /\ queue[q] # <<>>
        /\ queue' = [queue EXCEPT ![q] = Tail(@)]
        /\ hand' = [hand EXCEPT ![a] = <<t>>]
        /\ npc' = [npc EXCEPT ![a] = CASE state[t] = "Blocked" -> "clear_one"
                                       [] state[t] = "Running" -> "consume"
                                       [] OTHER                -> "stale"]
        /\ wq_lock' = IF state[t] = "Blocked"
                      THEN [wq_lock EXCEPT ![q] = None] ELSE wq_lock
        /\ UNCHANGED <<state, in_wait_queue, nq>>

(* consume_wait_queue_entry on a task seen Running: a compare-exchange of  *)
(* in_wait_queue from true to false.  Success is the notification.         *)
NotifyOneConsume(a) ==
    LET q == nq[a]
        t == Head(hand[a])
    IN  /\ npc[a] = "consume"
        /\ hand' = [hand EXCEPT ![a] = <<>>]
        /\ in_wait_queue' = [in_wait_queue EXCEPT ![t] = FALSE]
        /\ IF in_wait_queue[t]
           THEN /\ npc' = [npc EXCEPT ![a] = "woke"]
                /\ UnlockQueue(a, q)
           ELSE /\ npc' = [npc EXCEPT ![a] = "pop"]
                /\ UNCHANGED wq_lock
        /\ UNCHANGED <<state, queue, nq>>

(* The entry is stale: clear the flag and go on to the next entry. *)
NotifyOneStale(a) ==
    /\ npc[a] = "stale"
    /\ in_wait_queue' = [in_wait_queue EXCEPT ![Head(hand[a])] = FALSE]
    /\ hand' = [hand EXCEPT ![a] = <<>>]
    /\ npc' = [npc EXCEPT ![a] = "pop"]
    /\ UNCHANGED <<state, queue, wq_lock, nq>>
------------------------------------------------------------------------------
(* WaitQueue::notify_all takes the whole list under the lock and then      *)
(* handles the entries one by one without it.                              *)

(* A faulty notify_all, which gives up when somebody holds the lock. *)
NotifyIfUnlocked(a, q) ==
    LET taken == IF wq_lock[q] = None THEN queue[q] ELSE <<>>
    IN  /\ Executing(a)
        /\ npc[a] = "none"
        /\ hand' = [hand EXCEPT ![a] = taken]
        /\ queue' = [queue EXCEPT ![q] = IF wq_lock[q] = None THEN <<>> ELSE @]
        /\ npc' = [npc EXCEPT ![a] = "each"]
        /\ nq' = [nq EXCEPT ![a] = q]
        /\ UNCHANGED <<state, in_wait_queue, wq_lock>>

notify_all(a, q) ==
    /\ Executing(a)
    /\ npc[a] = "none"
    /\ wq_lock[q] = None
    /\ hand' = [hand EXCEPT ![a] = queue[q]]
    /\ queue' = [queue EXCEPT ![q] = <<>>]
    /\ npc' = [npc EXCEPT ![a] = "each"]
    /\ nq' = [nq EXCEPT ![a] = q]
    /\ UNCHANGED <<state, in_wait_queue, wq_lock>>

NotifyAllEach(a) ==
    /\ npc[a] = "each"
    /\ npc' = [npc EXCEPT ![a] = CASE hand[a] = <<>>                    -> "woke"
                                   [] hand[a] # <<>>
                                      /\ state[Head(hand[a])] = "Blocked" -> "clear_all"
                                   [] OTHER                               -> "skip"]
    /\ UNCHANGED <<state, in_wait_queue, queue, wq_lock, nq, hand>>

(* The task was not Blocked: only its flag is cleared. *)
NotifyAllSkip(a) ==
    /\ npc[a] = "skip"
    /\ in_wait_queue' = [in_wait_queue EXCEPT ![Head(hand[a])] = FALSE]
    /\ hand' = [hand EXCEPT ![a] = Tail(@)]
    /\ npc' = [npc EXCEPT ![a] = "each"]
    /\ UNCHANGED <<state, queue, wq_lock, nq>>
------------------------------------------------------------------------------
(* unblock_one_task_locked clears the flag, and put_task_with_state then   *)
(* compare-exchanges the state from Blocked to Ready.                      *)

(* A faulty unblock_one_task, which trusts in_wait_queue and leaves a task  *)
(* alone whose flag another notifier has cleared.                           *)
UnblockIfFlagged(a) ==
    LET skip == ~in_wait_queue[Head(hand[a])]
    IN  /\ npc[a] \in {"clear_one", "clear_all"}
        /\ in_wait_queue' = [in_wait_queue EXCEPT ![Head(hand[a])] = FALSE]
        /\ npc' = [npc EXCEPT ![a] = IF @ = "clear_one"
                                     THEN (IF skip THEN "woke" ELSE "cas_one")
                                     ELSE (IF skip THEN "each" ELSE "cas_all")]
        /\ hand' = IF skip THEN [hand EXCEPT ![a] = Tail(@)] ELSE hand
        /\ UNCHANGED <<state, queue, wq_lock, nq>>

UnblockClear(a) ==
    /\ npc[a] \in {"clear_one", "clear_all"}
    /\ in_wait_queue' = [in_wait_queue EXCEPT ![Head(hand[a])] = FALSE]
    /\ npc' = [npc EXCEPT ![a] = IF @ = "clear_one" THEN "cas_one" ELSE "cas_all"]
    /\ UNCHANGED <<state, queue, wq_lock, nq, hand>>

UnblockCas(a) ==
    LET t == Head(hand[a])
    IN  /\ npc[a] \in {"cas_one", "cas_all"}
        /\ state' = [state EXCEPT ![t] = IF @ = "Blocked" THEN "Ready" ELSE @]
        /\ hand' = [hand EXCEPT ![a] = Tail(@)]
        /\ npc' = [npc EXCEPT ![a] = IF @ = "cas_one" THEN "woke" ELSE "each"]
        /\ UNCHANGED <<in_wait_queue, queue, wq_lock, nq>>

(* WaitQueue::requeue: drain up to `count` entries under the source's lock, *)
(* and append them to the target under the target's lock.                   *)
requeue(a, count, q, target) ==
    LET n == IF count <= Len(queue[q]) THEN count ELSE Len(queue[q])
    IN  /\ Executing(a)
        /\ npc[a] = "none"
        /\ wq_lock[q] = None
        /\ hand' = [hand EXCEPT ![a] = SubSeq(queue[q], 1, n)]
        /\ queue' = [queue EXCEPT ![q] = SubSeq(@, n + 1, Len(@))]
        /\ npc' = [npc EXCEPT ![a] = IF n > 0 THEN "moving" ELSE "woke"]
        /\ nq' = [nq EXCEPT ![a] = target]
        /\ UNCHANGED <<state, in_wait_queue, wq_lock>>

RequeueExtend(a) ==
    /\ Executing(a)
    /\ npc[a] = "moving"
    /\ wq_lock[nq[a]] = None
    /\ queue' = [queue EXCEPT ![nq[a]] = @ \o hand[a]]
    /\ hand' = [hand EXCEPT ![a] = <<>>]
    /\ npc' = [npc EXCEPT ![a] = "woke"]
    /\ UNCHANGED <<state, in_wait_queue, wq_lock, nq>>
------------------------------------------------------------------------------
(* A step of a notify_one or notify_all call in progress. *)
NotifyStep(a) ==
    /\ Executing(a)
    /\ \/ NotifyOneEmpty(a)
       \/ NotifyOnePop(a)
       \/ NotifyOneConsume(a)
       \/ NotifyOneStale(a)
       \/ NotifyAllEach(a)
       \/ NotifyAllSkip(a)
       \/ UnblockClear(a)
       \/ UnblockCas(a)

(* The caller takes notify_one's or notify_all's return value. *)
NotifyReturn(a) ==
    /\ Executing(a)
    /\ npc[a] \in {"woke", "empty"}
    /\ npc' = [npc EXCEPT ![a] = "none"]
    /\ UNCHANGED <<state, in_wait_queue, queue, wq_lock, nq, hand>>
------------------------------------------------------------------------------
(* The scheduler and the other wake-up sources, as a wait queue sees them. *)

Dispatch(t) ==
    /\ state[t] = "Ready"
    /\ state' = [state EXCEPT ![t] = "Running"]
    /\ UNCHANGED <<in_wait_queue, queue, wq_lock>>
    /\ UNCHANGED notifyVars

(* A task is preempted only where no guard disables preemption: it holds no *)
(* wait-queue lock and is not in unblock_one_task or in notify_all's loop.  *)
Preempt(t) ==
    /\ state[t] = "Running"
    /\ \A q \in Queue : wq_lock[q] # t
    /\ npc[t] \in {"none", "clear_one", "moving", "woke", "empty"}
    /\ state' = [state EXCEPT ![t] = "Ready"]
    /\ UNCHANGED <<in_wait_queue, queue, wq_lock>>
    /\ UNCHANGED notifyVars

(* The entries of t, in the queues and in the hands of notifiers. *)
Copies(t) ==
    LET of(s) == {i \in DOMAIN s : s[i] = t}
    IN  Cardinality(UNION {{<<q, i>> : i \in of(queue[q])} : q \in Queue})
        + Cardinality(UNION {{<<a, i>> : i \in of(hand[a])} : a \in Agent})

(* interrupt_task_with_context and wake_task: wake a Blocked task without  *)
(* touching the wait queue it sleeps in.  Each such wake-up may leave one   *)
(* more entry behind, so the number of signals is bounded.                  *)
interrupt_task(t) ==
    /\ state[t] = "Blocked"
    /\ Copies(t) < MaxEntries
    /\ state' = [state EXCEPT ![t] = "Ready"]
    /\ UNCHANGED <<in_wait_queue, queue, wq_lock>>
    /\ UNCHANGED notifyVars
==============================================================================
