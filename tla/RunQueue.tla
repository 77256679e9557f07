------------------------------ MODULE RunQueue ------------------------------
(***************************************************************************)
(* The per-CPU run queues of modules/axtask/src/run_queue.rs: spawning,    *)
(* blocking, waking, yielding, exiting, migrating and idling on several    *)
(* CPUs, the context-switch handshake of TaskInner::switch_state, and the  *)
(* reschedule kick by inter-processor interrupt.                           *)
(*                                                                         *)
(* Each CPU runs with interrupts and preemption disabled from one "run"    *)
(* position to the next, so its code is a sequence of steps; the steps of  *)
(* different CPUs interleave.  One step is one critical section of a       *)
(* scheduler or switch-state lock, or one access to a shared atomic.       *)
(*                                                                         *)
(* Which task a scheduler picks is left open (axsched decides).  A CPU's   *)
(* idle task is None: it is in no queue and never blocks.  The short-lived *)
(* migration task is a position of its CPU.                                *)
(***************************************************************************)
EXTENDS Naturals, FiniteSets

CONSTANTS
    Task,
    Cpu,
    Mask,    \* the affinity masks tasks choose from
    None     \* no task (the idle task), no CPU

ASSUME MaskAssumption == Cpu \in Mask /\ \A m \in Mask : m \subseteq Cpu /\ m # {}
ASSUME NoneAssumption == None \notin Task /\ None \notin Cpu

VARIABLES
    state,      \* [Task -> State]             TaskInner::state
    on_cpu,     \* [Task -> BOOLEAN]           SwitchState::on_cpu
    deferred,   \* [Task -> Cpu or None]       SwitchState::deferred_wake
    cpu_id,     \* [Task -> Cpu]               TaskInner::cpu_id
    cpumask,    \* [Task -> Mask]              TaskInner::cpumask
    moving,     \* [Task -> MovePc]            progress of set_current_affinity
    rq,         \* [Cpu -> [Task -> Nat]]      AxRunQueue::scheduler, as a bag
    current,    \* [Cpu -> Task or None]       the current task
    prev,       \* [Cpu -> Task or None]       PREV_TASK
    need,       \* [Cpu -> BOOLEAN]            need_resched of the current task
    pending,    \* [Cpu -> BOOLEAN]            REMOTE_RESCHEDULE_PENDING
    ipi,        \* [Cpu -> BOOLEAN]            a reschedule callback is queued and signalled
    cpc,        \* [Cpu -> CpuPc]              what the CPU does next
    arg,        \* [Cpu -> Task or None]       the task it does it to
    target      \* [Cpu -> Cpu or None]        the run queue it does it on

taskVars == <<state, on_cpu, deferred, cpu_id, cpumask, moving>>
cpuVars == <<current, prev, need, cpc, arg, target>>
kickVars == <<pending, ipi>>
vars == <<state, on_cpu, deferred, cpu_id, cpumask, moving, rq,
          current, prev, need, pending, ipi, cpc, arg, target>>

State == {"New", "Ready", "Running", "Blocked", "Exited"}
MovePc == {"no", "start", "moved"}
CpuPc == {"run", "wfi",                              \* interrupts enabled; asleep
          "resched", "switch", "finish", "f_enqueue", \* the context switch
          "w_cas", "w_defer", "w_cpu_id", "enqueue",  \* unblock_task, add_task
          "kick", "send",                             \* kick_remote_cpu
          "pull", "pulled", "idle",                   \* idle_wait
          "m_entry", "m_kick",                        \* the migration task
          "ipi"}                                      \* ipi_handler

TypeOK ==
    /\ state \in [Task -> State]
    /\ on_cpu \in [Task -> BOOLEAN]
    /\ deferred \in [Task -> Cpu \cup {None}]
    /\ cpu_id \in [Task -> Cpu]
    /\ cpumask \in [Task -> Mask]
    /\ moving \in [Task -> MovePc]
    /\ rq \in [Cpu -> [Task -> Nat]]
    /\ current \in [Cpu -> Task \cup {None}]
    /\ prev \in [Cpu -> Task \cup {None}]
    /\ need \in [Cpu -> BOOLEAN]
    /\ pending \in [Cpu -> BOOLEAN]
    /\ ipi \in [Cpu -> BOOLEAN]
    /\ cpc \in [Cpu -> CpuPc]
    /\ arg \in [Cpu -> Task \cup {None}]
    /\ target \in [Cpu -> Cpu \cup {None}]

(* Every CPU has been brought up and runs its idle task. *)
Init ==
    /\ state = [t \in Task |-> "New"]
    /\ on_cpu = [t \in Task |-> FALSE]
    /\ deferred = [t \in Task |-> None]
    /\ \E c \in Cpu : cpu_id = [t \in Task |-> c]
    /\ cpumask = [t \in Task |-> Cpu]
    /\ moving = [t \in Task |-> "no"]
    /\ rq = [c \in Cpu |-> [t \in Task |-> 0]]
    /\ current = [c \in Cpu |-> None]
    /\ prev = [c \in Cpu |-> None]
    /\ need = [c \in Cpu |-> FALSE]
    /\ pending = [c \in Cpu |-> FALSE]
    /\ ipi = [c \in Cpu |-> FALSE]
    /\ cpc = [c \in Cpu |-> "run"]
    /\ arg = [c \in Cpu |-> None]
    /\ target = [c \in Cpu |-> None]

Goto(c, l) == cpc' = [cpc EXCEPT ![c] = l]

(* Back to the interrupted or calling code, or on to the next call. *)
Done(c, l) ==
    /\ Goto(c, l)
    /\ arg' = [arg EXCEPT ![c] = None]
    /\ target' = [target EXCEPT ![c] = None]

Call(c, l, t, d) ==
    /\ Goto(c, l)
    /\ arg' = [arg EXCEPT ![c] = t]
    /\ target' = [target EXCEPT ![c] = d]

Queued(c) == {t \in Task : rq[c][t] > 0}

Enqueue(c, t) == rq' = [rq EXCEPT ![c][t] = @ + 1]

Dequeue(c, t) == rq' = [rq EXCEPT ![c][t] = @ - 1]
------------------------------------------------------------------------------
(* What the current task does to itself.  All of it ends in resched.       *)

(* blocked_resched, blocked_resched_woke, sleep_until: the task is Blocked  *)
(* from here on, while its CPU still runs on its stack.                     *)
Block(c) ==
    /\ cpc[c] = "run" /\ current[c] # None /\ moving[current[c]] = "no"
    /\ state' = [state EXCEPT ![current[c]] = "Blocked"]
    /\ Goto(c, "resched")
    /\ UNCHANGED <<on_cpu, deferred, cpu_id, cpumask, moving, rq, current, prev, need, arg, target>>
    /\ UNCHANGED kickVars

exit_current(c) ==
    /\ cpc[c] = "run" /\ current[c] # None /\ moving[current[c]] = "no"
    /\ state' = [state EXCEPT ![current[c]] = "Exited"]
    /\ Goto(c, "resched")
    /\ UNCHANGED <<on_cpu, deferred, cpu_id, cpumask, moving, rq, current, prev, need, arg, target>>
    /\ UNCHANGED kickVars

(* yield_current, when another task is ready, and preempt_resched: put the  *)
(* running task back into this CPU's queue.                                 *)
yield_current(c) ==
    /\ cpc[c] = "run" /\ current[c] # None
    /\ need[c] \/ Queued(c) # {}
    /\ state' = [state EXCEPT ![current[c]] = "Ready"]
    /\ cpu_id' = [cpu_id EXCEPT ![current[c]] = c]
    /\ Enqueue(c, current[c])
    /\ Goto(c, "resched")
    /\ UNCHANGED <<on_cpu, deferred, cpumask, moving, current, prev, need, arg, target>>
    /\ UNCHANGED kickVars

(* set_current_affinity: a task on a CPU outside its new mask goes on to     *)
(* create a migration task, and may be preempted until it has.               *)
set_current_affinity(c, m) ==
    /\ cpc[c] = "run" /\ current[c] # None /\ moving[current[c]] = "no"
    /\ cpumask[current[c]] # m
    /\ cpumask' = [cpumask EXCEPT ![current[c]] = m]
    /\ moving' = [moving EXCEPT ![current[c]] = IF c \in m THEN "no" ELSE "start"]
    /\ UNCHANGED <<state, on_cpu, deferred, cpu_id, rq>>
    /\ UNCHANGED cpuVars /\ UNCHANGED kickVars

(* migrate_current: the task is Ready but in no queue, and its CPU switches  *)
(* straight to the migration task.                                           *)
migrate_current(c) ==
    /\ cpc[c] = "run" /\ current[c] # None /\ moving[current[c]] = "start"
    /\ state' = [state EXCEPT ![current[c]] = "Ready"]
    /\ moving' = [moving EXCEPT ![current[c]] = "moved"]
    /\ prev' = [prev EXCEPT ![c] = current[c]]
    /\ current' = [current EXCEPT ![c] = None]
    /\ Call(c, "finish", current[c], None)
    /\ UNCHANGED <<on_cpu, deferred, cpu_id, cpumask, rq, need>>
    /\ UNCHANGED kickVars

(* The migrated task resumes in set_current_affinity and returns. *)
MigrateReturn(c) ==
    /\ cpc[c] = "run" /\ current[c] # None /\ moving[current[c]] = "moved"
    /\ moving' = [moving EXCEPT ![current[c]] = "no"]
    /\ UNCHANGED <<state, on_cpu, deferred, cpu_id, cpumask, rq>>
    /\ UNCHANGED cpuVars /\ UNCHANGED kickVars

(* wait_multiple_timeout_until, when a notifier took the entry just before:  *)
(* Blocked goes back to Running, if no waker was faster.                     *)
BlockUndone(c) ==
    /\ cpc[c] = "resched" /\ current[c] # None /\ state[current[c]] = "Blocked"
    /\ state' = [state EXCEPT ![current[c]] = "Running"]
    /\ Goto(c, "run")
    /\ UNCHANGED <<on_cpu, deferred, cpu_id, cpumask, moving, rq, current, prev, need, arg, target>>
    /\ UNCHANGED kickVars
------------------------------------------------------------------------------
(* The context switch.                                                      *)

(* resched: the scheduler hands out a queued task, or the CPU goes idle. *)
resched(c, t) ==
    /\ cpc[c] = "resched"
    /\ IF Queued(c) = {} THEN t = None /\ UNCHANGED rq
                         ELSE t \in Queued(c) /\ Dequeue(c, t)
    /\ Call(c, "switch", t, None)
    /\ UNCHANGED <<current, prev, need>>
    /\ UNCHANGED taskVars /\ UNCHANGED kickVars

(* switch_to_inner up to the switch of stacks, with claim_on_cpu.  A task   *)
(* that follows itself just goes on.                                        *)
switch_to(c) ==
    LET next == arg[c]
    IN  /\ cpc[c] = "switch"
        /\ need' = [need EXCEPT ![c] = FALSE]
        /\ state' = [t \in Task |-> IF t = next THEN "Running" ELSE state[t]]
        /\ IF next = current[c]
           THEN Done(c, "run") /\ UNCHANGED <<on_cpu, current, prev>>
           ELSE /\ on_cpu' = [t \in Task |-> t = next \/ on_cpu[t]]
                /\ current' = [current EXCEPT ![c] = next]
                /\ prev' = [prev EXCEPT ![c] = current[c]]
                /\ Done(c, IF current[c] = None THEN "run" ELSE "finish")
        /\ UNCHANGED <<deferred, cpu_id, cpumask, moving, rq>>
        /\ UNCHANGED kickVars

(* A faulty handshake that forgets the wake it was left. *)
FinishDropsWake(c) ==
    LET p == prev[c]
    IN  /\ cpc[c] = "finish"
        /\ prev' = [prev EXCEPT ![c] = None]
        /\ on_cpu' = [on_cpu EXCEPT ![p] = FALSE]
        /\ deferred' = [deferred EXCEPT ![p] = None]
        /\ IF arg[c] # None THEN Call(c, "m_entry", p, None) ELSE Done(c, "run")
        /\ UNCHANGED <<state, cpu_id, cpumask, moving, rq, current, need>>
        /\ UNCHANGED kickVars

(* clear_prev_task_on_cpu on the next task's stack: publish that the context *)
(* is saved, and take over the wake that came too early.                     *)
finish_switch_out(c) ==
    LET p == prev[c]
    IN  /\ cpc[c] = "finish"
        /\ prev' = [prev EXCEPT ![c] = None]
        /\ on_cpu' = [on_cpu EXCEPT ![p] = FALSE]
        /\ deferred' = [deferred EXCEPT ![p] = None]
        /\ CASE deferred[p] # None -> Call(c, "f_enqueue", p, deferred[p])
             [] deferred[p] = None /\ arg[c] # None -> Goto(c, "m_entry") /\ UNCHANGED <<arg, target>>
             [] OTHER -> Done(c, "run")
        /\ UNCHANGED <<state, cpu_id, cpumask, moving, rq, current, need>>
        /\ UNCHANGED kickVars

(* ... and put the woken task into the run queue its waker chose. *)
DeferredEnqueue(c) ==
    /\ cpc[c] = "f_enqueue"
    /\ Enqueue(target[c], arg[c])
    /\ IF target[c] = c
       THEN need' = [need EXCEPT ![c] = current[c] # None] /\ Done(c, "run")
       ELSE Goto(c, "kick") /\ UNCHANGED <<need, arg, target>>
    /\ UNCHANGED <<current, prev>>
    /\ UNCHANGED taskVars /\ UNCHANGED kickVars
------------------------------------------------------------------------------
(* Waking and spawning.                                                     *)

(* A waker holds no lock of the task, so the CPU and the mask it reads here  *)
(* may be old by the time it acts on them.                                   *)
select_wake_run_queue(c, t, d) ==
    /\ cpc[c] = "run" /\ current[c] # t
    /\ state[t] \in {"Ready", "Running", "Blocked"}
    /\ d = IF cpu_id[t] \in cpumask[t] THEN cpu_id[t]
           ELSE IF c \in cpumask[t] THEN c ELSE d
    /\ d \in cpumask[t]
    /\ Call(c, "w_cas", t, d)
    /\ UNCHANGED <<rq, current, prev, need>>
    /\ UNCHANGED taskVars /\ UNCHANGED kickVars

(* A faulty waker that wakes whatever neither runs nor waits for its turn. *)
WakeExited(c) ==
    /\ cpc[c] = "w_cas"
    /\ IF state[arg[c]] \in {"Blocked", "Exited"}
       THEN /\ state' = [state EXCEPT ![arg[c]] = "Ready"]
            /\ Goto(c, "w_defer") /\ UNCHANGED <<arg, target>>
       ELSE Done(c, "run") /\ UNCHANGED state
    /\ UNCHANGED <<on_cpu, deferred, cpu_id, cpumask, moving, rq, current, prev, need>>
    /\ UNCHANGED kickVars

(* Only one waker moves the task from Blocked to Ready. *)
transition_state(c) ==
    /\ cpc[c] = "w_cas"
    /\ IF state[arg[c]] = "Blocked"
       THEN /\ state' = [state EXCEPT ![arg[c]] = "Ready"]
            /\ Goto(c, "w_defer") /\ UNCHANGED <<arg, target>>
       ELSE Done(c, "run") /\ UNCHANGED state
    /\ UNCHANGED <<on_cpu, deferred, cpu_id, cpumask, moving, rq, current, prev, need>>
    /\ UNCHANGED kickVars

(* defer_wake: while a CPU still owns the context, that CPU will enqueue. *)
defer_wake(c) ==
    LET t == arg[c]
    IN  /\ cpc[c] = "w_defer"
        /\ IF on_cpu[t] /\ ~(target[c] = c /\ current[c] = t)
           THEN deferred' = [deferred EXCEPT ![t] = target[c]] /\ Goto(c, "w_cpu_id")
           ELSE UNCHANGED deferred /\ Goto(c, "enqueue")
        /\ UNCHANGED <<state, on_cpu, cpu_id, cpumask, moving, rq, current, prev, need, arg, target>>
        /\ UNCHANGED kickVars

(* The deferring waker records the CPU only after it has let go of the task. *)
DeferredCpuId(c) ==
    /\ cpc[c] = "w_cpu_id"
    /\ cpu_id' = [cpu_id EXCEPT ![arg[c]] = target[c]]
    /\ Done(c, "run")
    /\ UNCHANGED <<state, on_cpu, deferred, cpumask, moving, rq, current, prev, need>>
    /\ UNCHANGED kickVars

(* select_run_queue and the start of add_task, for a new task. *)
spawn(c, t, d) ==
    /\ cpc[c] = "run"
    /\ state[t] = "New" /\ d \in cpumask[t]
    /\ state' = [state EXCEPT ![t] = "Ready"]
    /\ Call(c, "enqueue", t, d)
    /\ UNCHANGED <<on_cpu, deferred, cpu_id, cpumask, moving, rq, current, prev, need>>
    /\ UNCHANGED kickVars

(* The end of put_task_with_state and of add_task: on the own CPU the        *)
(* scheduler decides whether the new task preempts the current one.          *)
enqueue_task(c) ==
    /\ cpc[c] = "enqueue"
    /\ cpu_id' = [cpu_id EXCEPT ![arg[c]] = target[c]]
    /\ Enqueue(target[c], arg[c])
    /\ IF target[c] = c
       THEN /\ \E preempts \in {FALSE, current[c] # None} :
                  need' = [need EXCEPT ![c] = @ \/ preempts]
            /\ Done(c, "run")
       ELSE Goto(c, "kick") /\ UNCHANGED <<need, arg, target>>
    /\ UNCHANGED <<state, on_cpu, deferred, cpumask, moving, current, prev>>
    /\ UNCHANGED kickVars

(* kick_remote_cpu: one kick is enough until the target has taken it. *)
kick_remote_cpu(c) ==
    /\ cpc[c] = "kick"
    /\ IF pending[target[c]]
       THEN Done(c, "run") /\ UNCHANGED pending
       ELSE /\ pending' = [pending EXCEPT ![target[c]] = TRUE]
            /\ Goto(c, "send") /\ UNCHANGED <<arg, target>>
    /\ UNCHANGED <<rq, current, prev, need, ipi>>
    /\ UNCHANGED taskVars

(* run_on_cpu: the callback is queued and the interrupt raised in one      *)
(* critical section of the target's event queue.                           *)
run_on_cpu(c) ==
    /\ cpc[c] = "send"
    /\ ipi' = [ipi EXCEPT ![target[c]] = TRUE]
    /\ Done(c, "run")
    /\ UNCHANGED <<rq, current, prev, need, pending>>
    /\ UNCHANGED taskVars

(* The interrupt reaches a CPU that runs or sleeps with it unmasked. *)
ipi_handler(c) ==
    /\ cpc[c] \in {"run", "wfi"} /\ ipi[c]
    /\ ipi' = [ipi EXCEPT ![c] = FALSE]
    /\ Goto(c, "ipi")
    /\ UNCHANGED <<rq, current, prev, need, arg, target, pending>>
    /\ UNCHANGED taskVars

(* A faulty callback that does not allow the next kick. *)
RescheduleKeepsPending(c) ==
    /\ cpc[c] = "ipi"
    /\ need' = [need EXCEPT ![c] = current[c] # None]
    /\ Goto(c, "run")
    /\ UNCHANGED <<rq, current, prev, arg, target>>
    /\ UNCHANGED taskVars /\ UNCHANGED kickVars

request_current_reschedule(c) ==
    /\ cpc[c] = "ipi"
    /\ pending' = [pending EXCEPT ![c] = FALSE]
    /\ need' = [need EXCEPT ![c] = current[c] # None]
    /\ Goto(c, "run")
    /\ UNCHANGED <<rq, current, prev, arg, target, ipi>>
    /\ UNCHANGED taskVars
------------------------------------------------------------------------------
(* The migration task.                                                      *)

(* A faulty migration that looks at the load only. *)
MigrateAnywhere(c, d) ==
    /\ cpc[c] = "m_entry"
    /\ cpu_id' = [cpu_id EXCEPT ![arg[c]] = d]
    /\ Enqueue(d, arg[c])
    /\ Call(c, "m_kick", None, d)
    /\ UNCHANGED <<state, on_cpu, deferred, cpumask, moving, current, prev, need>>
    /\ UNCHANGED kickVars

(* migrate_entry puts the migrated task into a queue its mask allows. *)
migrate_entry(c, d) ==
    /\ cpc[c] = "m_entry"
    /\ d \in cpumask[arg[c]]
    /\ cpu_id' = [cpu_id EXCEPT ![arg[c]] = d]
    /\ Enqueue(d, arg[c])
    /\ Call(c, "m_kick", None, d)
    /\ UNCHANGED <<state, on_cpu, deferred, cpumask, moving, current, prev, need>>
    /\ UNCHANGED kickVars

(* force_kick_remote_cpu, and the migration task exits. *)
force_kick_remote_cpu(c) ==
    /\ cpc[c] = "m_kick"
    /\ pending' = [pending EXCEPT ![target[c]] = @ \/ target[c] # c]
    /\ ipi' = [ipi EXCEPT ![target[c]] = @ \/ target[c] # c]
    /\ Done(c, "resched")
    /\ UNCHANGED <<rq, current, prev, need>>
    /\ UNCHANGED taskVars
------------------------------------------------------------------------------
(* The idle task: idle_wait, with interrupts off until it sleeps.           *)

idle_wait(c) ==
    /\ cpc[c] = "run" /\ current[c] = None
    /\ Goto(c, IF Queued(c) # {} THEN "resched" ELSE "pull")
    /\ UNCHANGED <<rq, current, prev, need, arg, target>>
    /\ UNCHANGED taskVars /\ UNCHANGED kickVars

(* is_stealable, as counted by account_enqueue. *)
Stealable(d) == {t \in Queued(d) : Cardinality(cpumask[t]) > 1}

(* A faulty search that takes a task whose context is not saved yet. *)
PullTooEarly(c, d, t) ==
    /\ cpc[c] = "pull"
    /\ d # c /\ Stealable(d) # {}
    /\ t \in Queued(d) /\ cpu_id[t] = d /\ c \in cpumask[t]
    /\ Dequeue(d, t)
    /\ Call(c, "pulled", t, None)
    /\ UNCHANGED <<current, prev, need>>
    /\ UNCHANGED taskVars /\ UNCHANGED kickVars

(* pull_next_task detaches a waiting task from another CPU's queue ...      *)
pull_next_task(c, d, t) ==
    /\ cpc[c] = "pull"
    /\ d # c /\ Stealable(d) # {}
    /\ t \in Queued(d) /\ ~on_cpu[t] /\ cpu_id[t] = d /\ c \in cpumask[t]
    /\ Dequeue(d, t)
    /\ Call(c, "pulled", t, None)
    /\ UNCHANGED <<current, prev, need>>
    /\ UNCHANGED taskVars /\ UNCHANGED kickVars

(* ... enqueues it here and picks from what this queue now holds. *)
PullEnqueue(c, t) ==
    LET bag == [rq[c] EXCEPT ![arg[c]] = @ + 1]
    IN  /\ cpc[c] = "pulled"
        /\ cpu_id' = [cpu_id EXCEPT ![arg[c]] = c]
        /\ bag[t] > 0
        /\ rq' = [rq EXCEPT ![c] = [bag EXCEPT ![t] = @ - 1]]
        /\ Call(c, "switch", t, None)
        /\ UNCHANGED <<state, on_cpu, deferred, cpumask, moving, current, prev, need>>
        /\ UNCHANGED kickVars

(* The load counters of the other queues are read without their locks, so   *)
(* the search may miss a task.                                              *)
PullNothing(c) ==
    /\ cpc[c] = "pull"
    /\ Goto(c, "idle")
    /\ UNCHANGED <<rq, current, prev, need, arg, target>>
    /\ UNCHANGED taskVars /\ UNCHANGED kickVars

wait_for_irqs_disabled(c) ==
    /\ cpc[c] = "idle"
    /\ Goto(c, IF Queued(c) # {} THEN "resched" ELSE "wfi")
    /\ UNCHANGED <<rq, current, prev, need, arg, target>>
    /\ UNCHANGED taskVars /\ UNCHANGED kickVars

(* Another interrupt, of a timer or a device, ends the sleep. *)
Interrupt(c) ==
    /\ cpc[c] = "wfi"
    /\ Goto(c, "run")
    /\ UNCHANGED <<rq, current, prev, need, arg, target>>
    /\ UNCHANGED taskVars /\ UNCHANGED kickVars
------------------------------------------------------------------------------
(* What tasks and devices choose to do. *)
Request(c) ==
    \/ Block(c) \/ exit_current(c) \/ BlockUndone(c) \/ Interrupt(c)
    \/ \E m \in Mask : set_current_affinity(c, m)
    \/ \E t \in Task, d \in Cpu : spawn(c, t, d) \/ select_wake_run_queue(c, t, d)

(* What the scheduler goes on to do by itself. *)
Progress(c) ==
    \/ yield_current(c) \/ migrate_current(c) \/ MigrateReturn(c)
    \/ switch_to(c) \/ finish_switch_out(c) \/ DeferredEnqueue(c)
    \/ transition_state(c) \/ defer_wake(c) \/ DeferredCpuId(c) \/ enqueue_task(c)
    \/ kick_remote_cpu(c) \/ run_on_cpu(c) \/ request_current_reschedule(c)
    \/ force_kick_remote_cpu(c) \/ idle_wait(c) \/ PullNothing(c)
    \/ wait_for_irqs_disabled(c)
    \/ \E d \in Cpu : migrate_entry(c, d)
    \/ \E d \in Cpu, t \in Task : pull_next_task(c, d, t)

Pick(c, t) == resched(c, t) \/ (t # None /\ PullEnqueue(c, t))

Next ==
    \E c \in Cpu :
        \/ Request(c) \/ Progress(c) \/ ipi_handler(c)
        \/ \E t \in Task \cup {None} : Pick(c, t)

Spec == Init /\ [][Next]_vars

(* Interrupts are taken but do not keep a CPU from its task for ever, a CPU *)
(* finishes what it has begun and its tick preempts a task that has run for *)
(* its slice; and the policy does not for ever pass over one ready task.    *)
FairSpec ==
    /\ Spec
    /\ \A c \in Cpu :
         /\ WF_vars(Progress(c) \/ \E t \in Task \cup {None} : Pick(c, t))
         /\ SF_vars(yield_current(c) \/ idle_wait(c))
         /\ SF_vars(ipi_handler(c))
    /\ \A t \in Task : SF_vars(\E c \in Cpu : Pick(c, t))
------------------------------------------------------------------------------
(* The CPU executes on the task's stack, or has not left it yet. *)
OnStack(c, t) == current[c] = t \/ prev[c] = t

(* The CPU has taken charge of a Ready task that is in no queue. *)
Holds(c, t) ==
    /\ arg[c] = t
    /\ cpc[c] \in {"switch", "finish", "f_enqueue", "w_defer", "enqueue", "pulled", "m_entry"}

(* The assertions of claim_on_cpu, defer_wake and finish_switch_out never    *)
(* fail: a task is claimed only after its context was saved and its deferred *)
(* wake consumed, at most one wake is deferred, and a context is published   *)
(* once.  No two CPUs ever run on one task's stack.                          *)
ExecutionIsOwned ==
    /\ \A c, d \in Cpu, t \in Task : OnStack(c, t) /\ OnStack(d, t) => c = d
    /\ \A c \in Cpu, t \in Task :
         /\ cpc[c] = "switch" /\ arg[c] = t /\ current[c] # t => ~on_cpu[t] /\ deferred[t] = None
         /\ cpc[c] = "w_defer" /\ arg[c] = t /\ on_cpu[t] => deferred[t] = None
         /\ cpc[c] = "finish" /\ prev[c] = t => on_cpu[t]

(* The places a task that is to run next can be in. *)
Places(t) ==
    {<<"queue", c>> : c \in {d \in Cpu : rq[d][t] > 0}}
      \cup {<<"hand", c>> : c \in {d \in Cpu : Holds(d, t)}}
      \cup {<<"deferred", c>> : c \in {d \in Cpu : deferred[t] = d}}

(* put_task_with_state, pull_next_task, migrate_entry and the deferred wake   *)
(* neither lose nor duplicate a task: a Ready task is in exactly one run      *)
(* queue once, or in the hands of exactly one CPU that will put it there, and *)
(* a task that is not Ready is in none.                                       *)
ReadyIsHeldOnce ==
    \A t \in Task :
        /\ \A c \in Cpu : rq[c][t] <= 1
        /\ Cardinality(Places(t)) = IF state[t] = "Ready" THEN 1 ELSE 0

(* idle_wait never sleeps through work: when a CPU is in WFI and its queue is *)
(* not empty, the interrupt that wakes it is pending or its sender is about   *)
(* to raise it.                                                               *)
NoMissedKick ==
    \A c \in Cpu :
        cpc[c] = "wfi" /\ Queued(c) # {} =>
            \/ ipi[c]
            \/ \E d \in Cpu : cpc[d] \in {"kick", "send", "m_kick"} /\ target[d] = c

(* The assertion at the end of set_current_affinity ("Migration failed"):    *)
(* however often the task is preempted and moved meanwhile, it resumes on a  *)
(* CPU of its mask.                                                           *)
MigrationLands ==
    \A c \in Cpu, t \in Task :
        cpc[c] = "run" /\ current[c] = t /\ moving[t] = "moved" => c \in cpumask[t]

(* The mask holds beyond the call too: a task runs on a CPU of its mask, or   *)
(* is inside the call that moves it there.                                    *)
AffinityRespected ==
    \A c \in Cpu, t \in Task :
        cpc[c] = "run" /\ current[c] = t /\ moving[t] # "start" => c \in cpumask[t]

(* TaskInner::cpu_id names the CPU the task is running on. *)
RunsWhereRecorded ==
    \A c \in Cpu, t \in Task : cpc[c] = "run" /\ current[c] = t => cpu_id[t] = c

(* The switch-state handshake implements the life cycle the rest of the      *)
(* kernel relies on: the CPU that owns the context is the one that runs on   *)
(* its stack.                                                                 *)
Owner == [t \in Task |-> IF on_cpu[t] THEN CHOOSE c \in Cpu : OnStack(c, t) ELSE None]

S == INSTANCE Scheduler WITH owner <- Owner
SchedulerSpec == S!Spec

(* A woken, spawned, preempted or migrated task gets to run, although CPUs    *)
(* sleep, tasks are pulled between queues and kicks are coalesced.            *)
ReadyRuns == \A t \in Task : state[t] = "Ready" ~> state[t] = "Running"
==============================================================================
