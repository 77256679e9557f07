--------------------------- MODULE WaitQueueClients ---------------------------
(***************************************************************************)
(* The blocking operations of modules/axtask/src/wait_queue.rs (wait,      *)
(* wait_until, wait_timeout, wait_timeout_until and                        *)
(* wait_multiple_timeout_until) run by tasks, against notifiers on other   *)
(* CPUs that make a condition true and call notify_one or notify_all,      *)
(* against wake-up timers (timers.rs) and signals.                         *)
(*                                                                         *)
(* Time is abstract: a timed call's deadline passes at an arbitrary point  *)
(* after the call (due).  A timer event belongs to the CPU its call was    *)
(* made on; it cannot fire while the caller is on that CPU with interrupts *)
(* disabled (near), and a task may resume on another CPU.                  *)
(***************************************************************************)
EXTENDS WaitQueue

CONSTANTS
    Op,          \* the blocking operations the tasks call
    NotifyOp,    \* what notifiers call: "one", "all"
    MultiQueues  \* the queue list given to wait_multiple_timeout_until

ASSUME OpAssumption == Op \subseteq {"wait", "wait_until", "wait_timeout",
    "wait_timeout_until", "wait_multiple", "wait_multiple_timeout"}
ASSUME MultiAssumption == MultiQueues \in Seq(Queue) /\ MultiQueues # <<>>

VARIABLES
    pc,       \* [Task -> Pc]
    op,       \* [Task -> Op or None]  the call in progress
    qs,       \* [Task -> Seq(Queue)]  its queues
    idx,      \* [Task -> Nat]         position in a loop over qs
    ret,      \* [Task -> Result]      the call's result, once it is decided
    ready,    \* SUBSET Queue          queues whose condition is true
    todo,     \* [Notifier -> Queue or None] condition set, notification due
    due,      \* [Task -> BOOLEAN]     monotonic_time() >= deadline
    armed,    \* [Task -> BOOLEAN]     a timer event carries the task's ticket
    firing,   \* [Task -> BOOLEAN]     its callback has passed the ticket test
    near,     \* [Task -> BOOLEAN]     the task is on the CPU that holds the event
    credit    \* [Task -> BOOLEAN]     history: a notify_one counted the task's call
              \*   as the one it woke, and the condition was not tested since

clientVars == <<pc, op, qs, idx, ret>>
timerVars == <<due, armed, firing, near>>
vars == <<wqVars, clientVars, timerVars, ready, todo, credit>>

Notifier == Agent \ Task

Pc == {"idle",
       "lock", "block", "resume", "cancel",         \* wait, wait_timeout
       "top", "test", "until_block", "until_cancel",\* wait_until, wait_timeout_until
       "m_top", "m_cond", "m_flag", "m_enroll",     \* wait_multiple_timeout_until
       "m_recheck", "m_block", "m_check", "m_sleep",
       "m_scan", "m_cancel", "m_end", "m_timer"}

Result == {"none", "woken", "timeout", "condition"}

TimedOp == {"wait_timeout", "wait_timeout_until", "wait_multiple_timeout"}

Timed(t) == op[t] \in TimedOp

TypeOK ==
    /\ WQTypeOK
    /\ pc \in [Task -> Pc]
    /\ op \in [Task -> Op \cup {None}]
    /\ qs \in [Task -> Seq(Queue)]
    /\ idx \in [Task -> Nat]
    /\ ret \in [Task -> Result]
    /\ ready \subseteq Queue
    /\ todo \in [Notifier -> Queue \cup {None}]
    /\ {due, armed, firing, near, credit} \subseteq [Task -> BOOLEAN]

Init ==
    /\ WQInit
    /\ nq = [a \in Agent |-> Head(MultiQueues)]
    /\ pc = [t \in Task |-> "idle"]
    /\ op = [t \in Task |-> None]
    /\ qs = [t \in Task |-> <<>>]
    /\ idx = [t \in Task |-> 1]
    /\ ret = [t \in Task |-> "none"]
    /\ ready = {}
    /\ todo = [n \in Notifier |-> None]
    /\ due = [t \in Task |-> FALSE]
    /\ armed = [t \in Task |-> FALSE]
    /\ firing = [t \in Task |-> FALSE]
    /\ near = [t \in Task |-> TRUE]
    /\ credit = [t \in Task |-> FALSE]

(* The queue of a call on a single queue. *)
Q(t) == Head(qs[t])

At(t, l) == Executing(t) /\ pc[t] = l

Goto(t, l) == pc' = [pc EXCEPT ![t] = l]

(* The condition a call waits for: one of its queues is ready. *)
Condition(t) == Elems(qs[t]) \cap ready # {}

(* A step that evaluates the condition sees every notification so far. *)
TestCondition(t) == credit' = [credit EXCEPT ![t] = FALSE]

Decide(t, r) == ret' = [ret EXCEPT ![t] = r]
------------------------------------------------------------------------------
(* A call of operation o on the queues s.  A timed one computes its        *)
(* deadline and calls set_alarm_wakeup first: a new ticket replaces the    *)
(* old one, and the event goes to the timer list of the current CPU.       *)
(* (Bound: no new call while MaxEntries of the task's entries are in hand.)*)
Call(t, o, s, l) ==
    /\ At(t, "idle")
    /\ Copies(t) < MaxEntries
    /\ op' = [op EXCEPT ![t] = o]
    /\ qs' = [qs EXCEPT ![t] = s]
    /\ Goto(t, l)
    /\ armed' = [armed EXCEPT ![t] = o \in TimedOp]
    /\ UNCHANGED <<wqVars, idx, ret, due, firing, near, ready, todo, credit>>

wait(t) == \E q \in Queue : Call(t, "wait", <<q>>, "lock")

wait_timeout(t) == \E q \in Queue : Call(t, "wait_timeout", <<q>>, "lock")

wait_until(t) == \E q \in Queue : Call(t, "wait_until", <<q>>, "top")

wait_timeout_until(t) == \E q \in Queue : Call(t, "wait_timeout_until", <<q>>, "top")

wait_multiple_timeout_until(t) ==
    \E o \in Op \cap {"wait_multiple", "wait_multiple_timeout"} : Call(t, o, MultiQueues, "m_top")

(* The call returns.  A timed one has expired its ticket by then (its last *)
(* cancel_events), so that an event still in a timer list does nothing.    *)
Return(t) ==
    /\ Goto(t, "idle")
    /\ armed' = [armed EXCEPT ![t] = @ /\ ~Timed(t)]
    /\ op' = [op EXCEPT ![t] = None]
    /\ qs' = [qs EXCEPT ![t] = <<>>]
    /\ idx' = [idx EXCEPT ![t] = 1]
    /\ Decide(t, "none")
    /\ due' = [due EXCEPT ![t] = FALSE]
    /\ near' = [near EXCEPT ![t] = TRUE]
    /\ credit' = [credit EXCEPT ![t] = FALSE]
    /\ UNCHANGED <<firing, ready, todo>>
------------------------------------------------------------------------------
(* wait and wait_timeout, under one NoPreemptIrqSave guard.                *)

WaitLock(t) ==
    /\ At(t, "lock")
    /\ LockQueue(t, Q(t))
    /\ Goto(t, "block")
    /\ UNCHANGED <<state, in_wait_queue, queue, notifyVars, op, qs, idx, ret>>
    /\ UNCHANGED <<timerVars, ready, todo, credit>>

WaitBlock(t) ==
    /\ At(t, "block")
    /\ blocked_resched(t, Q(t))
    /\ Goto(t, "resume")
    /\ UNCHANGED <<op, qs, idx, ret, timerVars, ready, todo, credit>>

(* wait_timeout: "still in the wait queue, must have timed out". *)
WaitResume(t) ==
    /\ At(t, "resume")
    /\ wq_lock[Q(t)] = None
    /\ Goto(t, "cancel")
    /\ Decide(t, IF Timed(t) /\ t \in Entries(Q(t)) THEN "timeout" ELSE "woken")
    /\ UNCHANGED <<wqVars, op, qs, idx, timerVars, ready, todo, credit>>

(* A faulty wait that returns without cancel_events. *)
WaitNoCancel(t) ==
    /\ At(t, "cancel")
    /\ Return(t)
    /\ UNCHANGED wqVars

WaitCancel(t) ==
    /\ At(t, "cancel")
    /\ cancel_events(t, Q(t))
    /\ Return(t)
------------------------------------------------------------------------------
(* wait_until and wait_timeout_until.                                      *)

(* Take the guard and look at the clock. *)
UntilTop(t) ==
    /\ At(t, "top")
    /\ IF Timed(t) /\ due[t]
       THEN Goto(t, "until_cancel") /\ Decide(t, "timeout")
       ELSE Goto(t, "test") /\ UNCHANGED ret
    /\ UNCHANGED <<wqVars, op, qs, idx, timerVars, ready, todo, credit>>

(* Take the queue's lock and test the condition. *)
UntilTest(t) ==
    /\ At(t, "test")
    /\ wq_lock[Q(t)] = None
    /\ IF Condition(t)
       THEN Goto(t, "until_cancel") /\ Decide(t, "condition") /\ UNCHANGED wq_lock
       ELSE Goto(t, "until_block") /\ LockQueue(t, Q(t)) /\ UNCHANGED ret
    /\ TestCondition(t)
    /\ UNCHANGED <<state, in_wait_queue, queue, notifyVars>>
    /\ UNCHANGED <<op, qs, idx, timerVars, ready, todo>>

UntilBlock(t) ==
    /\ At(t, "until_block")
    /\ blocked_resched(t, Q(t))
    /\ Goto(t, "top")
    /\ UNCHANGED <<op, qs, idx, ret, timerVars, ready, todo, credit>>

UntilCancel(t) ==
    /\ At(t, "until_cancel")
    /\ cancel_events(t, Q(t))
    /\ Return(t)
------------------------------------------------------------------------------
(* wait_multiple_timeout_until.  Until m_block the task is Running and has *)
(* no guard: it may be preempted, and the condition may take long.         *)

Leave(t, r) == Goto(t, "m_cancel") /\ Decide(t, r) /\ idx' = [idx EXCEPT ![t] = 1]

MultiTop(t) ==
    /\ At(t, "m_top")
    /\ IF Timed(t) /\ due[t]
       THEN Leave(t, "timeout")
       ELSE Goto(t, "m_cond") /\ UNCHANGED <<ret, idx>>
    /\ UNCHANGED <<wqVars, op, qs, timerVars, ready, todo, credit>>

(* The test before enrolling (m_cond) and the second one after it. *)
MultiCondition(t) ==
    /\ At(t, "m_cond") \/ At(t, "m_recheck")
    /\ IF Condition(t)
       THEN Leave(t, "condition")
       ELSE /\ Goto(t, IF pc[t] = "m_cond" THEN "m_flag" ELSE "m_block")
            /\ UNCHANGED <<ret, idx>>
    /\ TestCondition(t)
    /\ UNCHANGED <<wqVars, op, qs, timerVars, ready, todo>>

MultiFlag(t) ==
    /\ At(t, "m_flag")
    /\ in_wait_queue' = [in_wait_queue EXCEPT ![t] = TRUE]
    /\ Goto(t, "m_enroll")
    /\ idx' = [idx EXCEPT ![t] = 1]
    /\ UNCHANGED <<state, queue, wq_lock, notifyVars, op, qs, ret>>
    /\ UNCHANGED <<timerVars, ready, todo, credit>>

(* One queue of the enrolment loop: append the task unless it is there. *)
MultiEnroll(t) ==
    LET q == qs[t][idx[t]]
    IN  /\ At(t, "m_enroll")
        /\ wq_lock[q] = None
        /\ queue' = [queue EXCEPT ![q] = IF t \in Entries(q) THEN @ ELSE Append(@, t)]
        /\ IF idx[t] = Len(qs[t])
           THEN Goto(t, "m_recheck") /\ UNCHANGED idx
           ELSE idx' = [idx EXCEPT ![t] = @ + 1] /\ UNCHANGED pc
        /\ UNCHANGED <<state, in_wait_queue, wq_lock, notifyVars, op, qs, ret>>
        /\ UNCHANGED <<timerVars, ready, todo, credit>>

(* Take the guard and set the state. *)
MultiBlock(t) ==
    /\ At(t, "m_block")
    /\ state' = [state EXCEPT ![t] = "Blocked"]
    /\ Goto(t, "m_check")
    /\ UNCHANGED <<in_wait_queue, queue, wq_lock, notifyVars, op, qs, idx, ret>>
    /\ UNCHANGED <<timerVars, ready, todo, credit>>

(* Still on the CPU, although no longer Running: an entry consumed before   *)
(* the state was set is seen in the flag, and the task goes on if nobody   *)
(* has made it Ready meanwhile.  Otherwise resched_blocked switches away.   *)
MultiCheck(t) ==
    /\ pc[t] = "m_check"
    /\ idx' = [idx EXCEPT ![t] = 1]
    /\ IF ~in_wait_queue[t] /\ state[t] = "Blocked"
       THEN state' = [state EXCEPT ![t] = "Running"] /\ Goto(t, "m_scan")
       ELSE UNCHANGED state /\ Goto(t, "m_sleep")
    /\ UNCHANGED <<in_wait_queue, queue, wq_lock, notifyVars, op, qs, ret>>
    /\ UNCHANGED <<timerVars, ready, todo, credit>>

(* One queue of the search for the one whose notifier took the entry. *)
MultiScan(t) ==
    LET q == qs[t][idx[t]]
    IN  /\ At(t, "m_scan") \/ At(t, "m_sleep")
        /\ wq_lock[q] = None
        /\ CASE t \notin Entries(q)    -> Leave(t, "woken")
             [] t \in Entries(q) /\ idx[t] < Len(qs[t]) ->
                  idx' = [idx EXCEPT ![t] = @ + 1] /\ UNCHANGED <<pc, ret>>
             [] OTHER                  -> Goto(t, "m_top") /\ UNCHANGED <<idx, ret>>
        /\ UNCHANGED <<wqVars, op, qs, timerVars, ready, todo, credit>>

(* A faulty clean-up, of the queue that woke the task only. *)
MultiCancelFirst(t) ==
    /\ At(t, "m_cancel")
    /\ cancel_events(t, Head(qs[t]))
    /\ Goto(t, "m_end")
    /\ UNCHANGED <<op, qs, idx, ret, timerVars, ready, todo, credit>>

(* One queue of the clean-up loop. *)
MultiCancel(t) ==
    /\ At(t, "m_cancel")
    /\ cancel_events(t, qs[t][idx[t]])
    /\ IF idx[t] = Len(qs[t])
       THEN Goto(t, "m_end") /\ UNCHANGED idx
       ELSE idx' = [idx EXCEPT ![t] = @ + 1] /\ UNCHANGED pc
    /\ UNCHANGED <<op, qs, ret, timerVars, ready, todo, credit>>

MultiEnd(t) ==
    /\ At(t, "m_end")
    /\ in_wait_queue' = [in_wait_queue EXCEPT ![t] = FALSE]
    /\ IF Timed(t)
       THEN Goto(t, "m_timer") /\ UNCHANGED <<op, qs, idx, ret, timerVars, ready, todo, credit>>
       ELSE Return(t)
    /\ UNCHANGED <<state, queue, wq_lock, notifyVars>>

(* A timed call expires its ticket with one more cancel_events. *)
MultiTimer(t) ==
    /\ At(t, "m_timer")
    /\ cancel_events(t, Head(qs[t]))
    /\ Return(t)
------------------------------------------------------------------------------
(* Notifiers: make the condition of a queue true, then notify the queue.   *)

Produce(n, q) ==
    /\ npc[n] = "none"
    /\ todo[n] = None
    /\ ready' = ready \cup {q}
    /\ todo' = [todo EXCEPT ![n] = q]
    /\ UNCHANGED <<wqVars, clientVars, timerVars, credit>>

Notify(n) ==
    /\ todo[n] # None
    /\ \/ "one" \in NotifyOp /\ notify_one(n, todo[n])
       \/ "all" \in NotifyOp /\ notify_all(n, todo[n])
    /\ todo' = [todo EXCEPT ![n] = None]
    /\ UNCHANGED <<clientVars, timerVars, ready, credit>>

(* The task notify_one counts as the one it woke, if it decides on it in    *)
(* this step: a Blocked target, or a Running task whose entry it consumes. *)
Counted(n) ==
    {t \in Task : /\ op[t] # None
                  /\ \/ npc[n] = "consume" /\ t = Head(hand[n]) /\ in_wait_queue[t]
                     \/ /\ npc[n] = "pop" /\ queue[nq[n]] # <<>>
                        /\ t = Head(queue[nq[n]]) /\ state[t] = "Blocked"}

Notifying(n) ==
    /\ NotifyStep(n) \/ NotifyReturn(n)
    /\ credit' = [t \in Task |-> credit[t] \/ t \in Counted(n)]
    /\ UNCHANGED <<clientVars, timerVars, ready, todo>>

(* The holder of what a queue announces uses it up. *)
Drain(t, q) ==
    /\ At(t, "idle")
    /\ q \in ready
    /\ ready' = ready \ {q}
    /\ UNCHANGED <<wqVars, clientVars, timerVars, todo, credit>>
------------------------------------------------------------------------------
(* Time and the wake-up timers.                                            *)

(* Faulty: wait_timeout takes its guard only after set_alarm_wakeup. *)
GuardedLate(t) ==
    \/ pc[t] = "m_check"
    \/ state[t] = "Running" /\ pc[t] \in {"resume", "cancel", "test", "until_block", "m_sleep"}

(* Where a running task has interrupts disabled on its CPU. *)
Guarded(t) ==
    \/ pc[t] = "m_check"
    \/ state[t] = "Running" /\ pc[t] \in {"lock", "block", "resume", "cancel",
                                         "test", "until_block", "m_sleep"}

DeadlinePasses(t) ==
    /\ pc[t] # "idle" /\ Timed(t) /\ ~due[t]
    /\ due' = [due EXCEPT ![t] = TRUE]
    /\ UNCHANGED <<wqVars, clientVars, armed, firing, near, ready, todo, credit>>

(* check_events takes the expired event out of its list; the callback finds *)
(* the ticket current.  (An event with an old ticket changes nothing.)      *)
TimerExpires(t) ==
    /\ armed[t] /\ due[t] /\ ~firing[t]
    /\ ~(near[t] /\ Guarded(t))
    /\ armed' = [armed EXCEPT ![t] = FALSE]
    /\ firing' = [firing EXCEPT ![t] = TRUE]
    /\ UNCHANGED <<wqVars, clientVars, due, near, ready, todo, credit>>

(* ... and unblocks the task, if it is Blocked by now. *)
TimerWakes(t) ==
    /\ firing[t]
    /\ firing' = [firing EXCEPT ![t] = FALSE]
    /\ state' = [state EXCEPT ![t] = IF @ = "Blocked" THEN "Ready" ELSE @]
    /\ UNCHANGED <<in_wait_queue, queue, wq_lock, notifyVars, clientVars>>
    /\ UNCHANGED <<due, armed, near, ready, todo, credit>>

(* A task that is switched in runs on any CPU. *)
SwitchIn(t) ==
    /\ pc[t] # "m_check"
    /\ Dispatch(t)
    /\ \E b \in BOOLEAN : near' = [near EXCEPT ![t] = b \/ ~armed[t]]
    /\ UNCHANGED <<clientVars, due, armed, firing, ready, todo, credit>>

SwitchOut(t) ==
    /\ ~Guarded(t)
    /\ Preempt(t)
    /\ UNCHANGED <<clientVars, timerVars, ready, todo, credit>>

Signal(t) ==
    /\ interrupt_task(t)
    /\ UNCHANGED <<clientVars, timerVars, ready, todo, credit>>
------------------------------------------------------------------------------
Start(t) ==
    \/ "wait" \in Op /\ wait(t)
    \/ "wait_timeout" \in Op /\ wait_timeout(t)
    \/ "wait_until" \in Op /\ wait_until(t)
    \/ "wait_timeout_until" \in Op /\ wait_timeout_until(t)
    \/ wait_multiple_timeout_until(t)

Step(t) ==
    \/ WaitLock(t) \/ WaitBlock(t) \/ WaitResume(t) \/ WaitCancel(t)
    \/ UntilTop(t) \/ UntilTest(t) \/ UntilBlock(t) \/ UntilCancel(t)
    \/ MultiTop(t) \/ MultiCondition(t) \/ MultiFlag(t) \/ MultiEnroll(t)
    \/ MultiBlock(t) \/ MultiCheck(t) \/ MultiScan(t)
    \/ MultiCancel(t) \/ MultiEnd(t) \/ MultiTimer(t)

Timer(t) == DeadlinePasses(t) \/ TimerExpires(t) \/ TimerWakes(t)

Next ==
    \/ \E t \in Task : Start(t) \/ Step(t) \/ Timer(t)
    \/ \E t \in Task : SwitchIn(t) \/ SwitchOut(t) \/ Signal(t)
    \/ \E t \in Task, q \in Queue : Drain(t, q)
    \/ \E n \in Notifier, q \in Queue : Produce(n, q)
    \/ \E n \in Notifier : Notify(n) \/ Notifying(n)

Spec == Init /\ [][Next]_vars

(* A running task and a notifier make progress, the scheduler comes back   *)
(* to every Ready task, and not only while a notifier holds a queue's lock, *)
(* time passes and timer interrupts are taken.  A signal, a call, a         *)
(* preemption and a Produce may or may not happen.                          *)
Fairness ==
    /\ \A t \in Task :
         /\ SF_vars(Step(t)) /\ WF_vars(Timer(t))
         /\ SF_vars(SwitchIn(t) /\ \A q \in Queue : wq_lock[q] = None)
    /\ \A n \in Notifier : SF_vars(Notify(n)) /\ WF_vars(Notifying(n))

FairSpec == Spec /\ Fairness
------------------------------------------------------------------------------
(* InHand(t): a notifier has taken t out of a queue and not yet handled it. *)
InHand(t) == \E n \in Notifier : t \in Elems(hand[n])

(* A sleeper hears every queue it waits on: as long as nothing is about to  *)
(* wake it, none of its queues has lost its entry.  A notifier that takes   *)
(* an entry of a task which is just going to sleep therefore wakes it.      *)
SleeperHearsEveryQueue ==
    \A t \in Task : state[t] = "Blocked" /\ pc[t] # "m_check" =>
        (\A q \in Elems(qs[t]) : t \in Entries(q)) \/ InHand(t) \/ firing[t]

(* A call cleans up behind itself: when it has returned, the task is in no *)
(* wait queue, its timer ticket is expired, and in_wait_queue is false (or *)
(* a notifier that already has the task in hand will clear it).            *)
CleanReturn ==
    \A t \in Task : pc[t] = "idle" =>
        /\ \A q \in Queue : t \notin Entries(q)
        /\ ~armed[t]
        /\ in_wait_queue[t] => InHand(t)

(* wait_timeout and the timed loops return true only after the deadline.   *)
TimeoutIsDue ==
    \A t \in Task : ret[t] = "timeout" => due[t]

(* A notification is not swallowed: a call does not end in a timeout when  *)
(* a notify_one has counted its task as the one it woke.                   *)
NoSwallowedNotification ==
    [][\A t \in Task : pc[t] # "idle" /\ pc'[t] = "idle" /\ ret[t] = "timeout"
                          => ~credit[t]]_vars

(* A timed call returns, at the latest once its deadline has passed. *)
TimedCallReturns ==
    \A t \in Task : (pc[t] # "idle" /\ Timed(t)) ~> pc[t] = "idle"

(* A call whose condition stays true returns: making the condition true    *)
(* and then calling notify_all reaches every waiter.                       *)
NotifiedCallReturns ==
    \A t \in Task : pc[t] \in {"top", "m_top"} ~>
                      (pc[t] = "idle" \/ ~Condition(t))
==============================================================================
