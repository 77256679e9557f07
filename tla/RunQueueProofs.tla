--------------------------- MODULE RunQueueProofs ---------------------------
(***************************************************************************)
(* An inductive invariant of RunQueue, for every set of tasks, CPUs and    *)
(* masks, and a lemma for each kind of step: it keeps the invariant.  What *)
(* follows: one CPU at a time runs on a task's stack, a Ready task is held *)
(* exactly once, no kick is missed, a migration lands inside its mask, and *)
(* RunQueue implements Scheduler.                                          *)
(***************************************************************************)
EXTENDS RunQueue, TLAPS

(* Most leaves are first-order; those that count or rewrite functions name SMT. *)
USE ZenonT(60)

(* The current task is on its way out, but its CPU is still on its stack. *)
Leaving == {"resched", "switch"}

(* Positions in which a CPU has taken charge of a task: those of Holds. *)
Hands == {"switch", "finish", "f_enqueue", "w_defer", "enqueue", "pulled", "m_entry"}

(* What the locals of a CPU are at each position. *)
Pos(c) ==
    /\ prev[c] # None <=> cpc[c] = "finish"
    /\ cpc[c] = "finish" => arg[c] = None \/ (arg[c] = prev[c] /\ current[c] = None)
    /\ cpc[c] \in {"f_enqueue", "w_cas", "w_defer", "w_cpu_id", "enqueue", "kick", "send"} =>
         arg[c] \in Task /\ target[c] \in Cpu
    /\ cpc[c] \in {"pulled", "m_entry"} => arg[c] \in Task /\ current[c] = None
    /\ cpc[c] = "m_kick" => target[c] \in Cpu /\ current[c] = None
    /\ cpc[c] \in {"pull", "idle", "wfi"} => current[c] = None

PosInv == \A c \in Cpu : Pos(c)

(* on_cpu says that some CPU is on the task's stack; there is only one. *)
StackInv ==
    \A t \in Task :
        /\ on_cpu[t] <=> \E c \in Cpu : OnStack(c, t)
        /\ \A c, d \in Cpu : OnStack(c, t) /\ OnStack(d, t) => c = d
        /\ \A c \in Cpu : ~(current[c] = t /\ prev[c] = t)

(* The task a CPU runs is Running; the one it leaves has been put off. *)
StateInv ==
    \A c \in Cpu, t \in Task :
        /\ current[c] = t /\ cpc[c] \notin Leaving => state[t] = "Running"
        /\ current[c] = t /\ cpc[c] \in Leaving => state[t] \in {"Ready", "Blocked", "Exited"}
        /\ prev[c] = t => state[t] \in {"Ready", "Blocked", "Exited"}

(* The places of a task, one by one. *)
Nowhere(t) == deferred[t] = None /\ \A d \in Cpu : rq[d][t] = 0 /\ ~Holds(d, t)
InQueue(c, t) ==
    deferred[t] = None /\ \A d \in Cpu : ~Holds(d, t) /\ rq[d][t] = (IF d = c THEN 1 ELSE 0)
InHand(c, t) == deferred[t] = None /\ \A d \in Cpu : rq[d][t] = 0 /\ (Holds(d, t) <=> d = c)
Deferred(t) == deferred[t] # None /\ \A d \in Cpu : rq[d][t] = 0 /\ ~Holds(d, t)

Placed(t) ==
    IF state[t] = "Ready"
    THEN Deferred(t) \/ \E c \in Cpu : InQueue(c, t) \/ InHand(c, t)
    ELSE Nowhere(t)

PlaceInv == \A t \in Task : Placed(t)

(* A task whose context is not saved yet waits in the queue of the CPU that   *)
(* is to save it, is what that CPU goes back to or leaves, or is left to it   *)
(* by its waker.                                                              *)
SavedInv ==
    \A t \in Task :
        /\ \A c \in Cpu : rq[c][t] > 0 /\ on_cpu[t] => OnStack(c, t)
        /\ \A c \in Cpu : Holds(c, t) /\ on_cpu[t] =>
             cpc[c] \in {"w_defer", "finish"} \/ (cpc[c] = "switch" /\ current[c] = t)
        /\ deferred[t] # None => on_cpu[t]

(* From the migration task to the end of set_current_affinity a task is only *)
(* where its mask allows.                                                     *)
MoveInv ==
    \A t \in Task : moving[t] = "moved" =>
        /\ state[t] \in {"Ready", "Running"} /\ deferred[t] = None
        /\ \A c \in Cpu :
             /\ rq[c][t] > 0 \/ current[c] = t => c \in cpumask[t]
             /\ Holds(c, t) => \/ cpc[c] \in {"finish", "m_entry"}
                               \/ cpc[c] \in {"switch", "pulled"} /\ c \in cpumask[t]

(* A CPU that is marked as kicked has the interrupt, takes it, or is about to *)
(* be sent it.                                                                *)
KickInv ==
    \A c \in Cpu : pending[c] =>
        \/ ipi[c] \/ cpc[c] = "ipi"
        \/ \E d \in Cpu : cpc[d] = "send" /\ target[d] = c

IInv ==
    /\ TypeOK /\ PosInv /\ StackInv /\ StateInv /\ PlaceInv /\ SavedInv
    /\ MoveInv /\ KickInv /\ NoMissedKick
------------------------------------------------------------------------------
(* Only the locals of CPU c change. *)
Only(c) ==
    \A d \in Cpu \ {c} :
        /\ cpc'[d] = cpc[d] /\ arg'[d] = arg[d] /\ target'[d] = target[d]
        /\ current'[d] = current[d] /\ prev'[d] = prev[d]

(* The queue gains a task. *)
Grows(d) == ~(Queued(d)' \subseteq Queued(d))

(* What a CPU does next, to which task and on which queue, after Call.       *)
LEMMA CallIs ==
  ASSUME TypeOK, NEW c \in Cpu, NEW l \in CpuPc, NEW t \in Task \cup {None},
         NEW d \in Cpu \cup {None}, Call(c, l, t, d)
  PROVE  /\ cpc' \in [Cpu -> CpuPc] /\ arg' \in [Cpu -> Task \cup {None}]
         /\ target' \in [Cpu -> Cpu \cup {None}]
         /\ cpc'[c] = l /\ arg'[c] = t /\ target'[c] = d
         /\ \A e \in Cpu \ {c} : cpc'[e] = cpc[e] /\ arg'[e] = arg[e] /\ target'[e] = target[e]
BY DEF Call, Goto, TypeOK

(* Done forgets the task and the queue. *)
LEMMA DoneIs ==
  ASSUME TypeOK, NEW c \in Cpu, NEW l \in CpuPc, Done(c, l)
  PROVE  /\ cpc' \in [Cpu -> CpuPc] /\ arg' \in [Cpu -> Task \cup {None}]
         /\ target' \in [Cpu -> Cpu \cup {None}]
         /\ cpc'[c] = l /\ arg'[c] = None /\ target'[c] = None
         /\ \A e \in Cpu \ {c} : cpc'[e] = cpc[e] /\ arg'[e] = arg[e] /\ target'[e] = target[e]
BY DEF Done, Goto, TypeOK

(* Goto changes the position of its CPU only. *)
LEMMA GotoIs ==
  ASSUME TypeOK, NEW c \in Cpu, NEW l \in CpuPc, Goto(c, l)
  PROVE  /\ cpc' \in [Cpu -> CpuPc] /\ cpc'[c] = l
         /\ \A e \in Cpu \ {c} : cpc'[e] = cpc[e]
BY DEF Goto, TypeOK

(* A run queue gains the task once. *)
LEMMA EnqueueIs ==
  ASSUME TypeOK, NEW c \in Cpu, NEW t \in Task, Enqueue(c, t)
  PROVE  /\ rq' \in [Cpu -> [Task -> Nat]] /\ rq'[c][t] = rq[c][t] + 1
         /\ \A d \in Cpu, u \in Task : d # c \/ u # t => rq'[d][u] = rq[d][u]
BY SMT DEF Enqueue, TypeOK

(* A run queue loses the task once. *)
LEMMA DequeueIs ==
  ASSUME TypeOK, NEW c \in Cpu, NEW t \in Task, rq[c][t] > 0, Dequeue(c, t)
  PROVE  /\ rq' \in [Cpu -> [Task -> Nat]] /\ rq'[c][t] = rq[c][t] - 1
         /\ \A d \in Cpu, u \in Task : d # c \/ u # t => rq'[d][u] = rq[d][u]
BY SMT DEF Dequeue, TypeOK

(* Where a task is when one of its places is known. *)
LEMMA PlaceIs ==
  ASSUME TypeOK, PlaceInv, NEW c \in Cpu, NEW t \in Task
  PROVE  /\ Holds(c, t) => state[t] = "Ready" /\ InHand(c, t)
         /\ rq[c][t] > 0 => state[t] = "Ready" /\ InQueue(c, t)
         /\ deferred[t] # None => state[t] = "Ready" /\ Deferred(t)
         /\ state[t] # "Ready" => Nowhere(t)
<1>1. Placed(t)
  BY DEF PlaceInv
<1>2. rq[c][t] \in Nat
  BY DEF TypeOK
<1>3. ASSUME NEW d \in Cpu, InQueue(d, t) PROVE rq[c][t] > 0 => InQueue(c, t)
  BY SMT, <1>2, <1>3 DEF InQueue
<1>4. ASSUME NEW d \in Cpu, InHand(d, t) PROVE rq[c][t] = 0 /\ (Holds(c, t) => InHand(c, t))
  BY <1>4 DEF InHand
<1>5. ASSUME NEW d \in Cpu, InQueue(d, t) PROVE deferred[t] = None /\ ~Holds(c, t)
  BY <1>5 DEF InQueue
<1>6. ASSUME NEW d \in Cpu, InHand(d, t) PROVE deferred[t] = None
  BY <1>6 DEF InHand
<1>7. Nowhere(t) \/ Deferred(t) => ~Holds(c, t) /\ rq[c][t] = 0
  BY DEF Nowhere, Deferred
<1>8. Nowhere(t) => deferred[t] = None
  BY DEF Nowhere
<1> QED BY SMT, <1>1, <1>2, <1>3, <1>4, <1>5, <1>6, <1>7, <1>8 DEF Placed

(* A step that changes no place of a task. *)
LEMMA PlacedKept ==
  ASSUME NEW t \in Task, Placed(t), state'[t] = "Ready" <=> state[t] = "Ready",
         deferred'[t] = deferred[t],
         \A d \in Cpu : rq'[d][t] = rq[d][t] /\ (Holds(d, t)' <=> Holds(d, t))
  PROVE  Placed(t)'
<1>1. (Nowhere(t) => Nowhere(t)') /\ (Deferred(t) => Deferred(t)')
  BY DEF Nowhere, Deferred
<1>2. ASSUME NEW c \in Cpu PROVE (InQueue(c, t) => InQueue(c, t)') /\ (InHand(c, t) => InHand(c, t)')
  BY DEF InQueue, InHand
<1> QED BY <1>1, <1>2 DEF Placed

(* A step of CPU c at a position that is right for its locals. *)
LEMMA PosKept ==
  ASSUME PosInv, NEW c \in Cpu, Only(c), Pos(c)'
  PROVE  PosInv'
BY SMT DEF PosInv, Pos, Only

(* A step of CPU c that takes part in no kick but the one it is about to     *)
(* begin for the task it has just queued.                                     *)
LEMMA KickKept ==
  ASSUME KickInv, NoMissedKick, NEW c \in Cpu, Only(c), UNCHANGED <<pending, ipi>>,
         cpc[c] \notin {"send", "ipi", "kick", "m_kick"}, cpc'[c] # "wfi",
         \A d \in Cpu \ {c} : Grows(d) => cpc'[c] \in {"kick", "m_kick"} /\ target'[c] = d
  PROVE  KickInv' /\ NoMissedKick'
<1>1. KickInv'
  BY SMT DEF KickInv, Only
<1>2. NoMissedKick'
  BY SMT DEF NoMissedKick, Only, Grows
<1> QED BY <1>1, <1>2

(* The same, when no queue changes. *)
LEMMA KickQuiet ==
  ASSUME KickInv, NoMissedKick, NEW c \in Cpu, Only(c), UNCHANGED <<rq, pending, ipi>>,
         cpc[c] \notin {"send", "ipi", "kick", "m_kick"}, cpc'[c] # "wfi"
  PROVE  KickInv' /\ NoMissedKick'
<1>1. \A d \in Cpu : Queued(d)' = Queued(d)
  BY DEF Queued
<1>2. KickInv'
  BY SMT DEF KickInv, Only
<1>3. NoMissedKick'
  BY SMT, <1>1 DEF NoMissedKick, Only
<1> QED BY <1>2, <1>3

(* A step of CPU c that may change the state of task u and moves no task on  *)
(* or off a stack.                                                            *)
LEMMA StateKept ==
  ASSUME StateInv, NEW c \in Cpu, Only(c), UNCHANGED <<current, prev>>, NEW u \in Task,
         \A t \in Task \ {u} : state'[t] = state[t],
         current[c] = u \/ current[c] = None \/ (cpc'[c] \in Leaving <=> cpc[c] \in Leaving),
         \A d \in Cpu : /\ prev[d] = u => state'[u] \in {"Ready", "Blocked", "Exited"}
                        /\ current[d] = u => IF cpc'[d] \in Leaving
                                             THEN state'[u] \in {"Ready", "Blocked", "Exited"}
                                             ELSE state'[u] = "Running"
  PROVE  StateInv'
<1> SUFFICES ASSUME NEW d \in Cpu, NEW t \in Task
             PROVE  /\ current'[d] = t /\ cpc'[d] \notin Leaving => state'[t] = "Running"
                    /\ current'[d] = t /\ cpc'[d] \in Leaving => state'[t] \in {"Ready", "Blocked", "Exited"}
                    /\ prev'[d] = t => state'[t] \in {"Ready", "Blocked", "Exited"}
  BY DEF StateInv
<1>1. CASE t = u
  BY <1>1
<1>2. CASE t # u /\ d # c
  BY SMT, <1>2 DEF StateInv, Only
<1>3. CASE t # u /\ d = c
  BY SMT, <1>3, NoneAssumption DEF StateInv
<1> QED BY <1>1, <1>2, <1>3

(* The same, when no task changes its state. *)
LEMMA StateSame ==
  ASSUME StateInv, NEW c \in Cpu, Only(c), UNCHANGED <<state, current, prev>>,
         current[c] = None \/ (cpc'[c] \in Leaving <=> cpc[c] \in Leaving)
  PROVE  StateInv'
BY SMT, NoneAssumption DEF StateInv, Only

(* A step that changes the places of task u only. *)
LEMMA PlaceStep ==
  ASSUME PlaceInv, NEW u \in Task, Placed(u)',
         \A t \in Task \ {u} :
             /\ state'[t] = state[t] /\ deferred'[t] = deferred[t]
             /\ \A d \in Cpu : rq'[d][t] = rq[d][t] /\ (Holds(d, t)' <=> Holds(d, t))
  PROVE  PlaceInv'
<1>1. ASSUME NEW t \in Task \ {u} PROVE Placed(t)'
  BY PlacedKept DEF PlaceInv
<1> QED BY <1>1 DEF PlaceInv

(* A step of CPU c that has no task in hand, before or after. *)
LEMMA Aside ==
  ASSUME IInv, NEW c \in Cpu, Only(c), UNCHANGED <<state, on_cpu, deferred, rq, current, prev>>,
         cpc[c] \notin Hands \/ arg[c] = None, cpc'[c] \notin Hands \/ arg'[c] = None,
         current[c] = None \/ (cpc'[c] \in Leaving <=> cpc[c] \in Leaving)
  PROVE  /\ StackInv' /\ StateInv' /\ PlaceInv' /\ SavedInv'
         /\ UNCHANGED <<moving, cpumask>> => MoveInv'
<1>1. \A d \in Cpu, t \in Task : Holds(d, t)' <=> Holds(d, t)
  BY NoneAssumption DEF Only, Holds, Hands
<1>2. StackInv'
  BY DEF IInv, StackInv, OnStack
<1>3. StateInv'
  BY StateSame DEF IInv
<1>4. PlaceInv'
  BY <1>1, PlacedKept DEF IInv, PlaceInv
<1>5. ASSUME NEW d \in Cpu, NEW t \in Task, Holds(d, t) PROVE cpc'[d] = cpc[d]
  BY <1>5, NoneAssumption DEF Only, Holds, Hands
<1>6. SavedInv'
  BY <1>1, <1>5 DEF IInv, SavedInv, OnStack
<1>7. UNCHANGED <<moving, cpumask>> => MoveInv'
  BY <1>1, <1>5 DEF IInv, MoveInv
<1> QED BY <1>2, <1>3, <1>4, <1>6, <1>7
------------------------------------------------------------------------------

(* A task chooses its mask: it is Running, not in the middle of a migration. *)
LEMMA AffinityStep ==
  ASSUME IInv, NEW c \in Cpu, NEW m \in Mask, set_current_affinity(c, m) \/ MigrateReturn(c)
  PROVE  IInv'
<1>u. UNCHANGED <<state, on_cpu, deferred, cpu_id, rq, current, prev, need, pending, ipi,
                  cpc, arg, target>>
  BY DEF set_current_affinity, MigrateReturn, cpuVars, kickVars
<1>1. cpc[c] = "run" /\ current[c] \in Task
  BY DEF set_current_affinity, MigrateReturn, IInv, TypeOK
<1>0. TypeOK'
  <2>1. cpumask' \in [Task -> Mask]
    BY DEF set_current_affinity, MigrateReturn, IInv, TypeOK
  <2>2. moving' \in [Task -> MovePc]
    BY DEF set_current_affinity, MigrateReturn, IInv, TypeOK, MovePc
  <2> QED BY <1>u, <2>1, <2>2 DEF IInv, TypeOK
<1>2. \A t \in Task : moving'[t] = "moved" => moving[t] = "moved" /\ cpumask'[t] = cpumask[t]
  BY <1>1 DEF set_current_affinity, MigrateReturn, IInv, TypeOK
<1>3. Only(c)
  BY <1>u DEF Only
<1>4. PosInv' /\ KickInv' /\ NoMissedKick'
  BY <1>u DEF IInv, PosInv, Pos, KickInv, NoMissedKick, Queued
<1>5. StackInv' /\ StateInv' /\ PlaceInv' /\ SavedInv'
  BY <1>u, <1>1, <1>3, Aside DEF Hands
<1>6. \A d \in Cpu, t \in Task : Holds(d, t)' <=> Holds(d, t)
  BY <1>u DEF Holds
<1>7. MoveInv'
  BY <1>u, <1>2, <1>6 DEF IInv, MoveInv
<1> QED BY <1>0, <1>4, <1>5, <1>7 DEF IInv

(* The steps of the idle task, and an interrupt that wakes it. *)
LEMMA IdleStep ==
  ASSUME IInv, NEW c \in Cpu,
         idle_wait(c) \/ PullNothing(c) \/ wait_for_irqs_disabled(c) \/ Interrupt(c)
  PROVE  IInv'
<1>u. UNCHANGED <<state, on_cpu, deferred, cpu_id, cpumask, moving, rq, current, prev, need,
                  pending, ipi, arg, target>>
  BY DEF idle_wait, PullNothing, wait_for_irqs_disabled, Interrupt, taskVars, kickVars
<1>1. PICK l \in {"run", "resched", "pull", "idle", "wfi"} :
          Goto(c, l) /\ (l = "wfi" => Queued(c) = {})
  BY DEF idle_wait, PullNothing, wait_for_irqs_disabled, Interrupt
<1>2. cpc[c] \in {"run", "pull", "idle", "wfi"} /\ current[c] = None
  BY DEF idle_wait, PullNothing, wait_for_irqs_disabled, Interrupt, IInv, PosInv, Pos
<1>t. /\ cpc' \in [Cpu -> CpuPc] /\ cpc'[c] = l
      /\ \A e \in Cpu \ {c} : cpc'[e] = cpc[e]
  BY <1>1, GotoIs DEF IInv, CpuPc
<1>3. Only(c)
  BY <1>u, <1>t DEF Only
<1>0. TypeOK'
  BY <1>u, <1>t DEF IInv, TypeOK
<1>4. PosInv'
  <2>1. Pos(c)
    BY DEF IInv, PosInv
  <2>2. Pos(c)'
    BY <1>u, <1>2, <1>t, <2>1 DEF Pos
  <2> QED BY <1>3, <2>2, PosKept DEF IInv
<1>5. StackInv' /\ StateInv' /\ PlaceInv' /\ SavedInv' /\ MoveInv'
  BY <1>u, <1>2, <1>3, <1>t, Aside DEF Hands
<1>6. KickInv'
  BY SMT, <1>u, <1>2, <1>t DEF IInv, KickInv
<1>7. NoMissedKick'
  BY <1>u, <1>1, <1>2, <1>t DEF IInv, NoMissedKick, Queued
<1> QED BY <1>0, <1>4, <1>5, <1>6, <1>7 DEF IInv

(* The waker looks at the task; the deferring waker records its CPU. *)
LEMMA WakerStep ==
  ASSUME IInv, NEW c \in Cpu, NEW t \in Task, NEW d \in Cpu,
         select_wake_run_queue(c, t, d) \/ DeferredCpuId(c)
  PROVE  IInv'
<1>u. UNCHANGED <<state, on_cpu, deferred, cpumask, moving, rq, current, prev, need,
                  pending, ipi>>
  BY DEF select_wake_run_queue, DeferredCpuId, taskVars, kickVars
<1>1. cpc[c] \in {"run", "w_cpu_id"}
  BY DEF select_wake_run_queue, DeferredCpuId
<1>2. cpu_id' \in [Task -> Cpu]
  BY DEF select_wake_run_queue, DeferredCpuId, taskVars, IInv, TypeOK, PosInv, Pos
<1>t. /\ cpc' \in [Cpu -> CpuPc] /\ arg' \in [Cpu -> Task \cup {None}]
      /\ target' \in [Cpu -> Cpu \cup {None}]
      /\ cpc'[c] = "run" \/ (cpc'[c] = "w_cas" /\ arg'[c] = t /\ target'[c] = d)
      /\ \A e \in Cpu \ {c} : cpc'[e] = cpc[e] /\ arg'[e] = arg[e] /\ target'[e] = target[e]
  <2>1. CASE select_wake_run_queue(c, t, d)
    BY SMT, <2>1, CallIs DEF IInv, CpuPc, select_wake_run_queue
  <2>2. CASE DeferredCpuId(c)
    BY <2>2, DoneIs DEF IInv, CpuPc, DeferredCpuId
  <2> QED BY <2>1, <2>2
<1>3. Only(c)
  BY <1>u, <1>t DEF Only
<1>0. TypeOK'
  BY <1>u, <1>2, <1>t DEF IInv, TypeOK
<1>4. PosInv'
  <2>1. Pos(c)
    BY DEF IInv, PosInv
  <2>2. Pos(c)'
    BY <1>u, <1>1, <1>t, <2>1 DEF Pos
  <2> QED BY <1>3, <2>2, PosKept DEF IInv
<1>5. StackInv' /\ StateInv' /\ PlaceInv' /\ SavedInv' /\ MoveInv'
  BY <1>u, <1>1, <1>3, <1>t, Aside DEF Hands, Leaving
<1>6. KickInv' /\ NoMissedKick'
  <2>1. cpc[c] \notin {"send", "ipi", "kick", "m_kick"} /\ cpc'[c] # "wfi"
    BY <1>1, <1>t
  <2> QED BY <1>u, <1>3, <2>1, KickQuiet DEF IInv
<1> QED BY <1>0, <1>4, <1>5, <1>6 DEF IInv

(* What a step of a kick leaves alone: everything but the kick. *)
LEMMA KickAside ==
  ASSUME IInv, NEW c \in Cpu, NEW l \in {"run", "send", "ipi", "resched"},
         (Done(c, l) /\ l # "send") \/ (Goto(c, l) /\ UNCHANGED <<arg, target>>),
         UNCHANGED <<state, on_cpu, deferred, cpu_id, cpumask, moving, rq, current, prev>>,
         pending' \in [Cpu -> BOOLEAN], ipi' \in [Cpu -> BOOLEAN], need' \in [Cpu -> BOOLEAN],
         cpc[c] \in {"kick", "send", "run", "wfi", "ipi", "m_kick"},
         l = "send" => cpc[c] = "kick", l = "resched" => cpc[c] = "m_kick",
         KickInv', NoMissedKick'
  PROVE  IInv'
<1>p. Pos(c)
  BY DEF IInv, PosInv
<1>t. /\ cpc' \in [Cpu -> CpuPc] /\ arg' \in [Cpu -> Task \cup {None}]
      /\ target' \in [Cpu -> Cpu \cup {None}] /\ cpc'[c] = l
      /\ \A e \in Cpu \ {c} : cpc'[e] = cpc[e] /\ arg'[e] = arg[e] /\ target'[e] = target[e]
  <2>1. TypeOK /\ l \in CpuPc
    BY DEF IInv, CpuPc
  <2>2. CASE Done(c, l)
    BY <2>1, <2>2, DoneIs
  <2>3. CASE Goto(c, l) /\ UNCHANGED <<arg, target>>
    BY <2>1, <2>3, GotoIs DEF TypeOK
  <2> QED BY <2>2, <2>3
<1>2. Only(c)
  BY <1>t DEF Only
<1>0. TypeOK'
  BY <1>t DEF IInv, TypeOK
<1>3. Pos(c)'
  BY <1>p, <1>t DEF Pos
<1>4. PosInv'
  BY <1>2, <1>3, PosKept DEF IInv
<1>5. current[c] = None \/ (cpc'[c] \in Leaving <=> cpc[c] \in Leaving)
  BY <1>p, <1>t DEF Pos, Leaving
<1>6. StackInv' /\ StateInv' /\ PlaceInv' /\ SavedInv' /\ MoveInv'
  BY <1>2, <1>5, <1>t, Aside DEF Hands
<1> QED BY <1>0, <1>4, <1>6 DEF IInv

(* The kick marks its target before it is sent; a target that is marked      *)
(* already has its interrupt, or will have.                                   *)
LEMMA KickRemoteStep ==
  ASSUME IInv, NEW c \in Cpu, kick_remote_cpu(c)
  PROVE  IInv'
<1>u. UNCHANGED <<state, on_cpu, deferred, cpu_id, cpumask, moving, rq, current, prev, need, ipi>>
  BY DEF kick_remote_cpu, taskVars
<1>1. cpc[c] = "kick" /\ target[c] \in Cpu
  BY DEF kick_remote_cpu, IInv, PosInv, Pos
<1>2. CASE pending[target[c]]
  <2>1. Done(c, "run") /\ UNCHANGED pending
    BY <1>2 DEF kick_remote_cpu
  <2>2. cpc'[c] = "run" /\ \A e \in Cpu \ {c} : cpc'[e] = cpc[e] /\ target'[e] = target[e]
    BY <2>1, DoneIs DEF IInv, CpuPc
  <2>3. KickInv'
    BY SMT, <1>u, <1>1, <2>1, <2>2 DEF IInv, KickInv
  <2>4. NoMissedKick'
    BY SMT, <1>u, <1>1, <1>2, <2>1, <2>2 DEF IInv, KickInv, NoMissedKick, Queued
  <2>5. pending' \in [Cpu -> BOOLEAN] /\ ipi' \in [Cpu -> BOOLEAN] /\ need' \in [Cpu -> BOOLEAN]
    BY <1>u, <2>1 DEF IInv, TypeOK
  <2> QED BY <1>u, <1>1, <2>1, <2>3, <2>4, <2>5, KickAside
<1>3. CASE ~pending[target[c]]
  <2>1. /\ Goto(c, "send") /\ UNCHANGED <<arg, target>>
        /\ pending' = [pending EXCEPT ![target[c]] = TRUE]
    BY <1>3 DEF kick_remote_cpu
  <2>2. cpc'[c] = "send" /\ \A e \in Cpu \ {c} : cpc'[e] = cpc[e]
    BY <2>1, GotoIs DEF IInv, CpuPc
  <2>3. KickInv'
    <3>1. \A e \in Cpu \ {target[c]} : pending'[e] = pending[e]
      BY <1>1, <2>1 DEF IInv, TypeOK
    <3> QED BY SMT, <1>u, <1>1, <2>1, <2>2, <3>1 DEF IInv, KickInv
  <2>4. NoMissedKick'
    BY <1>u, <1>1, <2>1, <2>2 DEF IInv, NoMissedKick, Queued
  <2>5. pending' \in [Cpu -> BOOLEAN] /\ ipi' \in [Cpu -> BOOLEAN] /\ need' \in [Cpu -> BOOLEAN]
    BY <1>u, <1>1, <2>1 DEF IInv, TypeOK
  <2> QED BY <1>u, <1>1, <2>1, <2>3, <2>4, <2>5, KickAside
<1> QED BY <1>2, <1>3

(* The interrupt is raised: by a kick, or unconditionally by a migration. *)
LEMMA SendStep ==
  ASSUME IInv, NEW c \in Cpu, run_on_cpu(c) \/ force_kick_remote_cpu(c)
  PROVE  IInv'
<1>u. UNCHANGED <<state, on_cpu, deferred, cpu_id, cpumask, moving, rq, current, prev, need>>
  BY DEF run_on_cpu, force_kick_remote_cpu, taskVars
<1>1. cpc[c] \in {"send", "m_kick"} /\ target[c] \in Cpu
  BY DEF run_on_cpu, force_kick_remote_cpu, IInv, PosInv, Pos
<1>2. PICK l \in {"run", "resched"} : Done(c, l) /\ (l = "resched" => cpc[c] = "m_kick")
  BY DEF run_on_cpu, force_kick_remote_cpu
<1>3. cpc'[c] = l /\ \A e \in Cpu \ {c} : cpc'[e] = cpc[e] /\ target'[e] = target[e]
  BY <1>2, DoneIs DEF IInv, CpuPc
<1>4. /\ pending' \in [Cpu -> BOOLEAN] /\ ipi' \in [Cpu -> BOOLEAN]
      /\ \A e \in Cpu : ipi[e] => ipi'[e]
      /\ cpc[c] = "send" \/ target[c] # c => ipi'[target[c]]
      /\ \A e \in Cpu : pending'[e] => pending[e] \/ ipi'[e]
  <2>1. pending \in [Cpu -> BOOLEAN] /\ ipi \in [Cpu -> BOOLEAN]
    BY DEF IInv, TypeOK
  <2>2. CASE run_on_cpu(c)
    BY <1>1, <2>1, <2>2 DEF run_on_cpu
  <2>3. CASE force_kick_remote_cpu(c)
    <3>1. pending' \in [Cpu -> BOOLEAN] /\ ipi' \in [Cpu -> BOOLEAN]
      BY <2>1, <2>3 DEF force_kick_remote_cpu
    <3>2. CASE target[c] = c
      BY <1>1, <2>1, <2>3, <3>2 DEF force_kick_remote_cpu
    <3>3. CASE target[c] # c
      BY <1>1, <2>1, <2>3, <3>3 DEF force_kick_remote_cpu
    <3> QED BY <2>3, <3>1, <3>2, <3>3
  <2> QED BY <2>2, <2>3
<1>5. KickInv'
  BY SMT, <1>1, <1>3, <1>4 DEF IInv, KickInv
<1>6. NoMissedKick'
  BY SMT, <1>u, <1>1, <1>2, <1>3, <1>4 DEF IInv, NoMissedKick, Queued
<1>7. need' \in [Cpu -> BOOLEAN]
  BY <1>u DEF IInv, TypeOK
<1> QED BY <1>u, <1>1, <1>2, <1>4, <1>5, <1>6, <1>7, KickAside

(* The target takes the interrupt, and lets the next kick be sent. *)
LEMMA HandlerStep ==
  ASSUME IInv, NEW c \in Cpu, ipi_handler(c) \/ request_current_reschedule(c)
  PROVE  IInv'
<1>u. UNCHANGED <<state, on_cpu, deferred, cpu_id, cpumask, moving, rq, current, prev, arg, target>>
  BY DEF ipi_handler, request_current_reschedule, taskVars
<1>1. CASE ipi_handler(c)
  <2>1. Goto(c, "ipi") /\ UNCHANGED <<pending, need>> /\ ipi' = [ipi EXCEPT ![c] = FALSE]
        /\ cpc[c] \in {"run", "wfi"}
    BY <1>1 DEF ipi_handler
  <2>2. cpc'[c] = "ipi" /\ \A e \in Cpu \ {c} : cpc'[e] = cpc[e]
    BY <2>1, GotoIs DEF IInv, CpuPc
  <2>3. \A e \in Cpu \ {c} : ipi'[e] = ipi[e]
    BY <2>1 DEF IInv, TypeOK
  <2>4. KickInv'
    BY SMT, <1>u, <2>1, <2>2, <2>3 DEF IInv, KickInv
  <2>5. NoMissedKick'
    BY <1>u, <2>1, <2>2, <2>3 DEF IInv, NoMissedKick, Queued
  <2>6. pending' \in [Cpu -> BOOLEAN] /\ ipi' \in [Cpu -> BOOLEAN] /\ need' \in [Cpu -> BOOLEAN]
    BY <2>1 DEF IInv, TypeOK
  <2> QED BY <1>u, <2>1, <2>4, <2>5, <2>6, KickAside
<1>2. CASE request_current_reschedule(c)
  <2>1. Goto(c, "run") /\ UNCHANGED ipi /\ pending' = [pending EXCEPT ![c] = FALSE]
        /\ cpc[c] = "ipi"
    BY <1>2 DEF request_current_reschedule
  <2>2. cpc'[c] = "run" /\ \A e \in Cpu \ {c} : cpc'[e] = cpc[e]
    BY <2>1, GotoIs DEF IInv, CpuPc
  <2>3. ~pending'[c] /\ \A e \in Cpu \ {c} : pending'[e] = pending[e]
    BY <2>1 DEF IInv, TypeOK
  <2>4. KickInv'
    BY SMT, <1>u, <2>1, <2>2, <2>3 DEF IInv, KickInv
  <2>5. NoMissedKick'
    BY <1>u, <2>1, <2>2 DEF IInv, NoMissedKick, Queued
  <2>6. pending' \in [Cpu -> BOOLEAN] /\ ipi' \in [Cpu -> BOOLEAN]
    BY <2>1 DEF IInv, TypeOK
  <2>7. need' \in [Cpu -> BOOLEAN]
    BY <1>2 DEF request_current_reschedule, IInv, TypeOK
  <2> QED BY <1>u, <2>1, <2>4, <2>5, <2>6, <2>7, KickAside
<1> QED BY <1>1, <1>2
------------------------------------------------------------------------------

(* The running task stops, and its CPU goes on to pick another; or it takes  *)
(* the decision back.                                                         *)
LEMMA BlockStep ==
  ASSUME IInv, NEW c \in Cpu, Block(c) \/ exit_current(c) \/ BlockUndone(c)
  PROVE  IInv'
<1>u. UNCHANGED <<on_cpu, deferred, cpu_id, cpumask, moving, rq, current, prev, need, arg, target,
                  pending, ipi>>
  BY DEF Block, exit_current, BlockUndone, kickVars
<1>1. PICK u \in Task : u = current[c]
  BY DEF Block, exit_current, BlockUndone, IInv, TypeOK
<1>2. PICK s \in {"Blocked", "Exited", "Running"}, l \in {"run", "resched"} :
          /\ state' = [state EXCEPT ![u] = s] /\ Goto(c, l)
          /\ l = "run" <=> s = "Running"
          /\ s = "Running" => state[u] = "Blocked" /\ cpc[c] = "resched"
          /\ s # "Running" => cpc[c] = "run" /\ moving[u] = "no"
  BY <1>1 DEF Block, exit_current, BlockUndone
<1>t. cpc' \in [Cpu -> CpuPc] /\ cpc'[c] = l /\ \A e \in Cpu \ {c} : cpc'[e] = cpc[e]
  BY <1>2, GotoIs DEF IInv, CpuPc
<1>3. /\ state' \in [Task -> State] /\ state'[u] = s
      /\ \A t \in Task \ {u} : state'[t] = state[t]
  BY <1>1, <1>2 DEF IInv, TypeOK, State
<1>4. state[u] # "Ready"
  BY <1>1, <1>2 DEF IInv, StateInv, Leaving
<1>5. Only(c)
  BY <1>u, <1>t DEF Only
<1>0. TypeOK'
  BY <1>u, <1>3, <1>t DEF IInv, TypeOK
<1>6. PosInv'
  <2>1. Pos(c)
    BY DEF IInv, PosInv
  <2>2. Pos(c)'
    BY <1>u, <1>2, <1>t, <2>1 DEF Pos
  <2> QED BY <1>5, <2>2, PosKept DEF IInv
<1>7. \A d \in Cpu, t \in Task : Holds(d, t)' <=> Holds(d, t)
  BY <1>u, <1>2, <1>t DEF Holds
<1>8. StackInv'
  BY <1>u DEF IInv, StackInv, OnStack
<1>9. StateInv'
  <2>1. \A d \in Cpu : OnStack(d, u) => d = c /\ prev[c] # u
    BY <1>1 DEF IInv, StackInv, OnStack
  <2>2. s # "Running" <=> cpc'[c] \in Leaving
    BY <1>2, <1>t DEF Leaving
  <2> QED BY SMT, <1>u, <1>1, <1>2, <1>3, <1>5, <2>1, <2>2, StateKept DEF IInv, OnStack
<1>10. PlaceInv'
  BY <1>u, <1>2, <1>3, <1>4, <1>7, PlacedKept DEF IInv, PlaceInv
<1>11. SavedInv'
  BY <1>u, <1>2, <1>7, <1>t DEF IInv, SavedInv, OnStack, Holds
<1>12. MoveInv'
  BY <1>u, <1>2, <1>3, <1>7, <1>t DEF IInv, MoveInv, Holds
<1>13. KickInv' /\ NoMissedKick'
  BY <1>u, <1>2, <1>5, <1>t, KickQuiet DEF IInv
<1> QED BY <1>0, <1>6, <1>8, <1>9, <1>10, <1>11, <1>12, <1>13 DEF IInv

(* The running task goes back into its CPU's queue, before it leaves the CPU. *)
LEMMA YieldStep ==
  ASSUME IInv, NEW c \in Cpu, yield_current(c)
  PROVE  IInv'
<1>u. UNCHANGED <<on_cpu, deferred, cpumask, moving, current, prev, need, arg, target, pending, ipi>>
  BY DEF yield_current, kickVars
<1>1. PICK u \in Task : u = current[c] /\ cpc[c] = "run"
  BY DEF yield_current, IInv, TypeOK
<1>t. cpc' \in [Cpu -> CpuPc] /\ cpc'[c] = "resched" /\ \A e \in Cpu \ {c} : cpc'[e] = cpc[e]
  BY GotoIs DEF yield_current, IInv, CpuPc
<1>3. /\ state' \in [Task -> State] /\ state'[u] = "Ready"
      /\ \A t \in Task \ {u} : state'[t] = state[t]
  BY <1>1 DEF yield_current, IInv, TypeOK, State
<1>4. /\ rq' \in [Cpu -> [Task -> Nat]] /\ rq'[c][u] = rq[c][u] + 1
      /\ \A d \in Cpu, t \in Task : d # c \/ t # u => rq'[d][t] = rq[d][t]
  BY <1>1, EnqueueIs DEF yield_current, IInv
<1>5. cpu_id' \in [Task -> Cpu]
  BY <1>1 DEF yield_current, IInv, TypeOK
<1>6. current[c] = u /\ state[u] = "Running" /\ Nowhere(u)
  BY <1>1, PlaceIs DEF IInv, StateInv, Leaving
<1>7. Only(c)
  BY <1>u, <1>t DEF Only
<1>0. TypeOK'
  BY <1>u, <1>3, <1>4, <1>5, <1>t DEF IInv, TypeOK
<1>8. PosInv'
  <2>1. Pos(c)
    BY DEF IInv, PosInv
  <2>2. Pos(c)'
    BY <1>u, <1>1, <1>t, <2>1 DEF Pos
  <2> QED BY <1>7, <2>2, PosKept DEF IInv
<1>9. \A d \in Cpu, t \in Task : Holds(d, t)' <=> Holds(d, t)
  BY <1>u, <1>1, <1>t DEF Holds
<1>10. StackInv'
  BY <1>u DEF IInv, StackInv, OnStack
<1>11. StateInv'
  <2>1. \A d \in Cpu : OnStack(d, u) => d = c /\ prev[c] # u
    BY <1>1, <1>6 DEF IInv, StackInv, OnStack
  <2>2. cpc'[c] \in Leaving
    BY <1>t DEF Leaving
  <2> QED BY SMT, <1>u, <1>1, <1>3, <1>6, <1>7, <2>1, <2>2, StateKept DEF IInv, OnStack
<1>12. PlaceInv'
  <2>1. InQueue(c, u)'
    <3>1. rq'[c][u] = 1 /\ \A d \in Cpu \ {c} : rq'[d][u] = 0
      BY SMT, <1>1, <1>4, <1>6 DEF Nowhere
    <3> QED BY <1>u, <1>6, <1>9, <3>1 DEF Nowhere, InQueue
  <2>2. Placed(u)'
    BY <1>3, <2>1 DEF Placed
  <2> QED BY <1>u, <1>1, <1>3, <1>4, <1>9, <2>2, PlaceStep DEF IInv
<1>13. SavedInv'
  BY SMT, <1>u, <1>1, <1>4, <1>6, <1>9, <1>t DEF IInv, SavedInv, OnStack, Holds
<1>14. MoveInv'
  <2>1. \A t \in Task, d \in Cpu : rq'[d][t] > 0 => rq[d][t] > 0 \/ current[d] = t
    BY <1>1, <1>4, <1>6
  <2>2. \A t \in Task, d \in Cpu : Holds(d, t) => cpc'[d] = cpc[d]
    BY <1>1, <1>t DEF Holds
  <2> QED BY <1>u, <1>3, <1>9, <2>1, <2>2 DEF IInv, MoveInv
<1>15. KickInv' /\ NoMissedKick'
  <2>1. \A d \in Cpu \ {c} : ~Grows(d)
    BY <1>4 DEF Grows, Queued
  <2> QED BY <1>u, <1>1, <1>7, <1>t, <2>1, KickKept DEF IInv
<1> QED BY <1>0, <1>8, <1>10, <1>11, <1>12, <1>13, <1>14, <1>15 DEF IInv
------------------------------------------------------------------------------
(* A task in hand goes into a run queue: its own CPU's, or one that is then  *)
(* kicked.                                                                    *)
LEMMA EnqueueStep ==
  ASSUME IInv, NEW c \in Cpu, NEW d \in Cpu,
         \/ (DeferredEnqueue(c) \/ enqueue_task(c)) /\ d = target[c]
         \/ migrate_entry(c, d)
  PROVE  IInv'
<1>u. UNCHANGED <<state, on_cpu, deferred, cpumask, moving, current, prev, pending, ipi>>
  BY DEF DeferredEnqueue, enqueue_task, migrate_entry, taskVars, kickVars
<1>p. Pos(c) /\ TypeOK
  BY DEF IInv, PosInv
<1>1. PICK u \in Task : /\ u = arg[c] /\ cpc[c] \in {"f_enqueue", "enqueue", "m_entry"}
                        /\ cpc[c] = "m_entry" => migrate_entry(c, d)
  BY <1>p DEF DeferredEnqueue, enqueue_task, migrate_entry, Pos
<1>2. Holds(c, u) /\ state[u] = "Ready" /\ InHand(c, u) /\ ~on_cpu[u]
  <2>1. Holds(c, u)
    BY <1>1 DEF Holds
  <2> QED BY <1>1, <2>1, PlaceIs DEF IInv, SavedInv
<1>3. cpu_id' \in [Task -> Cpu]
  BY <1>p, <1>1 DEF DeferredEnqueue, enqueue_task, migrate_entry, taskVars, TypeOK
<1>4. need' \in [Cpu -> BOOLEAN]
  <2>1. need \in [Cpu -> BOOLEAN]
    BY <1>p DEF TypeOK
  <2> QED BY <2>1 DEF DeferredEnqueue, enqueue_task, migrate_entry
<1>t. /\ cpc' \in [Cpu -> CpuPc] /\ arg' \in [Cpu -> Task \cup {None}]
      /\ target' \in [Cpu -> Cpu \cup {None}]
      /\ \/ cpc'[c] = "run" /\ d = c
         \/ cpc'[c] = "kick" /\ arg'[c] = u /\ target'[c] = d
         \/ cpc'[c] = "m_kick" /\ target'[c] = d /\ cpc[c] = "m_entry"
      /\ \A e \in Cpu \ {c} : cpc'[e] = cpc[e] /\ arg'[e] = arg[e] /\ target'[e] = target[e]
  <2>x. "run" \in CpuPc /\ "kick" \in CpuPc /\ "m_kick" \in CpuPc
    BY DEF CpuPc
  <2>1. CASE Done(c, "run") /\ d = c
    BY <1>p, <2>x, <2>1, DoneIs
  <2>2. CASE Goto(c, "kick") /\ UNCHANGED <<arg, target>> /\ d = target[c]
    BY <1>p, <1>1, <2>x, <2>2, GotoIs DEF TypeOK
  <2>3. CASE Call(c, "m_kick", None, d) /\ cpc[c] = "m_entry"
    BY <1>p, <2>x, <2>3, CallIs
  <2> QED BY <2>1, <2>2, <2>3 DEF DeferredEnqueue, enqueue_task, migrate_entry
<1>5. /\ rq' \in [Cpu -> [Task -> Nat]] /\ rq'[d][u] = rq[d][u] + 1
      /\ \A e \in Cpu, t \in Task : e # d \/ t # u => rq'[e][t] = rq[e][t]
  <2>1. Enqueue(d, u)
    BY <1>1 DEF DeferredEnqueue, enqueue_task, migrate_entry
  <2> QED BY <1>p, <2>1, EnqueueIs
<1>6. Only(c)
  BY <1>u, <1>t DEF Only
<1>0. TypeOK'
  BY <1>u, <1>p, <1>3, <1>4, <1>5, <1>t DEF TypeOK
<1>7. PosInv'
  <2>1. Pos(c)'
    BY <1>u, <1>p, <1>1, <1>t DEF Pos
  <2> QED BY <1>6, <2>1, PosKept DEF IInv
<1>8. \A e \in Cpu, t \in Task : Holds(e, t)' <=> Holds(e, t) /\ e # c
  BY <1>t DEF Holds
<1>9. StackInv'
  BY <1>u DEF IInv, StackInv, OnStack
<1>10. StateInv'
  BY <1>u, <1>1, <1>6, <1>t, StateSame DEF IInv, Leaving
<1>11. PlaceInv'
  <2>0. deferred[u] = None /\ \A e \in Cpu : rq[e][u] = 0 /\ (Holds(e, u) <=> e = c)
    BY <1>2 DEF InHand
  <2>1. rq'[d][u] = 1 /\ \A e \in Cpu \ {d} : rq'[e][u] = 0
    BY SMT, <1>5, <2>0
  <2>2. InQueue(d, u)'
    BY <1>u, <1>8, <2>0, <2>1 DEF InQueue
  <2>3. Placed(u)'
    BY <1>u, <1>2, <2>2 DEF Placed
  <2>4. \A t \in Task \ {u} : ~Holds(c, t)
    BY <1>1 DEF Holds
  <2> QED BY <1>u, <1>5, <1>8, <2>3, <2>4, PlaceStep DEF IInv
<1>12. SavedInv'
  <2>1. \A e \in Cpu, t \in Task : Holds(e, t)' => cpc'[e] = cpc[e]
    BY <1>8, <1>t
  <2> QED BY SMT, <1>u, <1>2, <1>5, <1>8, <2>1 DEF IInv, SavedInv, OnStack
<1>13. MoveInv'
  <2>1. moving[u] = "moved" => d \in cpumask[u]
    BY <1>1, <1>2 DEF IInv, MoveInv, migrate_entry
  <2>2. \A e \in Cpu, t \in Task : Holds(e, t)' => cpc'[e] = cpc[e]
    BY <1>8, <1>t
  <2>3. \A e \in Cpu, t \in Task : rq'[e][t] > 0 => rq[e][t] > 0 \/ (e = d /\ t = u)
    BY <1>5
  <2>4. \A e \in Cpu, t \in Task : Holds(e, t)' => Holds(e, t)
    BY <1>8
  <2> QED BY <1>u, <2>1, <2>2, <2>3, <2>4 DEF IInv, MoveInv
<1>14. KickInv' /\ NoMissedKick'
  <2>1. \A e \in Cpu \ {d} : ~Grows(e)
    BY <1>5 DEF Grows, Queued
  <2>2. \A e \in Cpu \ {c} : Grows(e) => cpc'[c] \in {"kick", "m_kick"} /\ target'[c] = e
    BY <1>t, <2>1
  <2> QED BY <1>u, <1>1, <1>6, <1>t, <2>2, KickKept DEF IInv
<1> QED BY <1>0, <1>7, <1>9, <1>10, <1>11, <1>12, <1>13, <1>14 DEF IInv

(* A scheduler hands out a queued task: to its CPU, or to one that pulls.    *)
LEMMA DequeueStep ==
  ASSUME IInv, NEW c \in Cpu, NEW d \in Cpu, NEW u \in Task,
         (resched(c, u) /\ d = c) \/ pull_next_task(c, d, u)
  PROVE  IInv'
<1>u. UNCHANGED <<state, on_cpu, deferred, cpu_id, cpumask, moving, current, prev, need, pending, ipi>>
  BY DEF resched, pull_next_task, taskVars, kickVars
<1>p. Pos(c) /\ TypeOK
  BY DEF IInv, PosInv
<1>1. PICK l \in {"switch", "pulled"} :
          /\ Call(c, l, u, None) /\ rq[d][u] > 0 /\ Dequeue(d, u)
          /\ l = "switch" => d = c /\ cpc[c] = "resched"
          /\ l = "pulled" => cpc[c] = "pull" /\ ~on_cpu[u] /\ c \in cpumask[u]
  BY NoneAssumption DEF resched, pull_next_task, Queued
<1>2. state[u] = "Ready" /\ InQueue(d, u)
  BY <1>p, <1>1, PlaceIs DEF IInv
<1>t. /\ cpc' \in [Cpu -> CpuPc] /\ arg' \in [Cpu -> Task \cup {None}]
      /\ target' \in [Cpu -> Cpu \cup {None}] /\ cpc'[c] = l /\ arg'[c] = u
      /\ \A e \in Cpu \ {c} : cpc'[e] = cpc[e] /\ arg'[e] = arg[e] /\ target'[e] = target[e]
  BY SMT, <1>p, <1>1, CallIs DEF CpuPc
<1>3. /\ rq' \in [Cpu -> [Task -> Nat]] /\ rq'[d][u] = rq[d][u] - 1
      /\ \A e \in Cpu, t \in Task : e # d \/ t # u => rq'[e][t] = rq[e][t]
  BY <1>p, <1>1, DequeueIs
<1>4. rq'[d][u] = 0 /\ \A e \in Cpu : rq'[e][u] = 0
  BY SMT, <1>2, <1>3 DEF InQueue
<1>5. Only(c)
  BY <1>u, <1>t DEF Only
<1>0. TypeOK'
  BY <1>u, <1>p, <1>3, <1>t DEF TypeOK
<1>6. PosInv'
  <2>1. Pos(c)'
    BY <1>u, <1>p, <1>1, <1>t DEF Pos
  <2> QED BY <1>5, <2>1, PosKept DEF IInv
<1>7. /\ \A e \in Cpu \ {c}, t \in Task : Holds(e, t)' <=> Holds(e, t)
      /\ \A t \in Task : ~Holds(c, t) /\ (Holds(c, t)' <=> t = u)
  BY <1>1, <1>t DEF Holds
<1>8. StackInv'
  BY <1>u DEF IInv, StackInv, OnStack
<1>9. StateInv'
  BY <1>u, <1>p, <1>1, <1>5, <1>t, StateSame DEF IInv, Leaving, Pos
<1>10. PlaceInv'
  <2>1. InHand(c, u)'
    BY <1>u, <1>2, <1>4, <1>7 DEF InHand, InQueue
  <2>2. Placed(u)'
    BY <1>u, <1>2, <2>1 DEF Placed
  <2> QED BY <1>u, <1>3, <1>7, <2>2, PlaceStep DEF IInv
<1>11. SavedInv'
  <2>1. on_cpu[u] => l = "switch" /\ current[c] = u
    BY SMT, <1>p, <1>1, NoneAssumption DEF IInv, SavedInv, OnStack, Pos
  <2>2. \A e \in Cpu, t \in Task : rq'[e][t] > 0 => rq[e][t] > 0
    BY SMT, <1>3, <1>4
  <2>3. \A e \in Cpu, t \in Task : Holds(e, t)' /\ on_cpu'[t] =>
            cpc'[e] \in {"w_defer", "finish"} \/ (cpc'[e] = "switch" /\ current'[e] = t)
    BY SMT, <1>u, <1>7, <1>t, <2>1 DEF IInv, SavedInv
  <2> QED BY <1>u, <2>2, <2>3 DEF IInv, SavedInv, OnStack
<1>12. MoveInv'
  <2>1. moving[u] = "moved" => c \in cpumask[u]
    BY <1>1 DEF IInv, MoveInv
  <2>2. \A e \in Cpu, t \in Task : rq'[e][t] > 0 => rq[e][t] > 0
    BY SMT, <1>3, <1>4
  <2> QED BY <1>u, <1>7, <1>t, <2>1, <2>2 DEF IInv, MoveInv
<1>13. KickInv' /\ NoMissedKick'
  <2>1. \A e \in Cpu : ~Grows(e)
    BY SMT, <1>3, <1>4 DEF Grows, Queued
  <2> QED BY <1>u, <1>1, <1>5, <1>t, <2>1, KickKept DEF IInv
<1> QED BY <1>0, <1>6, <1>8, <1>9, <1>10, <1>11, <1>12, <1>13 DEF IInv

(* The pulled task goes into this CPU's queue, which hands out a task. *)
LEMMA PullEnqueueStep ==
  ASSUME IInv, NEW c \in Cpu, NEW n \in Task, PullEnqueue(c, n)
  PROVE  IInv'
<1>u. UNCHANGED <<state, on_cpu, deferred, cpumask, moving, current, prev, need, pending, ipi>>
  BY DEF PullEnqueue, kickVars
<1>p. Pos(c) /\ TypeOK
  BY DEF IInv, PosInv
<1>1. PICK u \in Task : /\ u = arg[c] /\ cpc[c] = "pulled"
                        /\ current[c] = None /\ prev[c] = None
  BY <1>p DEF PullEnqueue, Pos
<1>2. Holds(c, u) /\ state[u] = "Ready" /\ InHand(c, u) /\ ~on_cpu[u]
  <2>1. Holds(c, u)
    BY <1>1 DEF Holds
  <2> QED BY <1>p, <1>1, <2>1, PlaceIs DEF IInv, SavedInv
<1>3. /\ rq' \in [Cpu -> [Task -> Nat]]
      /\ \A e \in Cpu, t \in Task : e # c \/ t \notin {u, n} => rq'[e][t] = rq[e][t]
      /\ n = u => rq'[c][u] = rq[c][u]
      /\ n # u => rq[c][n] > 0 /\ rq'[c][u] = rq[c][u] + 1 /\ rq'[c][n] = rq[c][n] - 1
  <2>0. rq[c] \in [Task -> Nat] /\ [rq[c] EXCEPT ![u] = @ + 1] \in [Task -> Nat]
    BY SMT, <1>p DEF TypeOK
  <2>1. PICK b \in [Task -> Nat] : b = [rq[c] EXCEPT ![u] = @ + 1]
    BY <2>0
  <2>a. b[n] > 0 /\ rq' = [rq EXCEPT ![c] = [b EXCEPT ![n] = @ - 1]]
    BY <1>1, <2>1 DEF PullEnqueue
  <2>2. PICK r \in [Task -> Nat] : r = [b EXCEPT ![n] = @ - 1] /\ rq' = [rq EXCEPT ![c] = r]
    <3>1. [b EXCEPT ![n] = @ - 1] \in [Task -> Nat]
      BY SMT, <2>a
    <3> QED BY <2>a, <3>1
  <2>3. rq \in [Cpu -> [Task -> Nat]] /\ rq[c] \in [Task -> Nat]
    BY <1>p DEF TypeOK
  <2>4. /\ \A t \in Task \ {u, n} : r[t] = rq[c][t]
        /\ n = u => r[u] = rq[c][u]
        /\ n # u => rq[c][n] > 0 /\ r[u] = rq[c][u] + 1 /\ r[n] = rq[c][n] - 1
    BY SMT, <2>1, <2>a, <2>2, <2>3
  <2>5. rq' \in [Cpu -> [Task -> Nat]] /\ rq'[c] = r /\ \A e \in Cpu \ {c} : rq'[e] = rq[e]
    BY <2>2, <2>3
  <2> QED BY <2>4, <2>5
<1>4. cpu_id' \in [Task -> Cpu]
  BY <1>p, <1>1 DEF PullEnqueue, TypeOK
<1>t. /\ cpc' \in [Cpu -> CpuPc] /\ arg' \in [Cpu -> Task \cup {None}]
      /\ target' \in [Cpu -> Cpu \cup {None}] /\ cpc'[c] = "switch" /\ arg'[c] = n
      /\ \A e \in Cpu \ {c} : cpc'[e] = cpc[e] /\ arg'[e] = arg[e] /\ target'[e] = target[e]
  BY <1>p, CallIs DEF PullEnqueue, CpuPc
<1>n. state[n] = "Ready" /\ ~on_cpu[n] /\ deferred[n] = None /\ (n # u => InQueue(c, n))
  <2>1. CASE n = u
    BY <1>2, <2>1 DEF InHand
  <2>2. CASE n # u
    BY SMT, <1>p, <1>1, <1>3, <2>2, PlaceIs, NoneAssumption DEF IInv, SavedInv, OnStack, InQueue
  <2> QED BY <2>1, <2>2
<1>5. Only(c)
  BY <1>u, <1>t DEF Only
<1>0. TypeOK'
  BY <1>u, <1>p, <1>3, <1>4, <1>t DEF TypeOK
<1>6. PosInv'
  <2>1. Pos(c)'
    BY <1>u, <1>1, <1>t DEF Pos
  <2> QED BY <1>5, <2>1, PosKept DEF IInv
<1>7. StackInv'
  BY <1>u DEF IInv, StackInv, OnStack
<1>8. StateInv'
  BY <1>u, <1>1, <1>5, StateSame DEF IInv
<1>9. /\ \A e \in Cpu \ {c}, t \in Task : Holds(e, t)' <=> Holds(e, t)
      /\ \A t \in Task : (Holds(c, t) <=> t = u) /\ (Holds(c, t)' <=> t = n)
  BY <1>1, <1>t DEF Holds
<1>10. PlaceInv'
  <2>1. ASSUME NEW t \in Task \ {u, n} PROVE Placed(t)'
    BY <1>u, <1>3, <1>9, PlacedKept DEF IInv, PlaceInv
  <2>2. ASSUME n = u PROVE Placed(u)'
    <3>1. \A e \in Cpu : rq'[e][u] = rq[e][u] /\ (Holds(e, u)' <=> Holds(e, u))
      BY <1>3, <1>9, <2>2
    <3> QED BY <1>u, <3>1, PlacedKept DEF IInv, PlaceInv
  <2>3. ASSUME n # u PROVE Placed(u)'
    <3>1. rq'[c][u] = 1 /\ \A e \in Cpu \ {c} : rq'[e][u] = 0
      BY SMT, <1>2, <1>3, <2>3 DEF InHand
    <3>2. InQueue(c, u)'
      BY <1>u, <1>2, <1>9, <2>3, <3>1 DEF InQueue, InHand
    <3> QED BY <1>u, <1>2, <3>2 DEF Placed
  <2>4. ASSUME n # u PROVE Placed(n)'
    <3>1. \A e \in Cpu : rq'[e][n] = 0
      BY SMT, <1>3, <1>n, <2>4 DEF InQueue
    <3>2. InHand(c, n)'
      BY <1>u, <1>9, <1>n, <2>4, <3>1 DEF InQueue, InHand
    <3> QED BY <1>u, <1>n, <3>2 DEF Placed
  <2> QED BY <2>1, <2>2, <2>3, <2>4 DEF PlaceInv
<1>11. SavedInv'
  <2>1. \A e \in Cpu, t \in Task : rq'[e][t] > 0 /\ on_cpu[t] => rq[e][t] > 0
    BY <1>2, <1>3, <1>n
  <2>2. \A e \in Cpu, t \in Task : Holds(e, t)' /\ on_cpu[t] => Holds(e, t) /\ cpc'[e] = cpc[e]
    BY <1>9, <1>n, <1>t
  <2> QED BY <1>u, <2>1, <2>2 DEF IInv, SavedInv, OnStack
<1>12. MoveInv'
  <2>1. \A t \in {u, n} : moving[t] = "moved" => c \in cpumask[t]
    BY <1>1, <1>2, <1>3 DEF IInv, MoveInv
  <2>2. \A e \in Cpu, t \in Task : rq'[e][t] > 0 => rq[e][t] > 0 \/ (e = c /\ t \in {u, n})
    BY <1>3
  <2> QED BY <1>u, <1>9, <1>t, <2>1, <2>2 DEF IInv, MoveInv
<1>13. KickInv' /\ NoMissedKick'
  <2>1. \A e \in Cpu \ {c} : ~Grows(e)
    BY <1>3 DEF Grows, Queued
  <2> QED BY <1>u, <1>1, <1>5, <1>t, <2>1, KickKept DEF IInv
<1> QED BY <1>0, <1>6, <1>7, <1>8, <1>10, <1>11, <1>12, <1>13 DEF IInv
------------------------------------------------------------------------------
(* The CPU picks nothing, and goes on to its idle task. *)
LEMMA ReschedIdleStep ==
  ASSUME IInv, NEW c \in Cpu, resched(c, None)
  PROVE  IInv'
<1>u. UNCHANGED <<state, on_cpu, deferred, cpu_id, cpumask, moving, rq, current, prev, need, pending, ipi>>
  BY NoneAssumption DEF resched, taskVars, kickVars, Queued
<1>1. cpc[c] = "resched"
  BY DEF resched
<1>t. /\ cpc' \in [Cpu -> CpuPc] /\ arg' \in [Cpu -> Task \cup {None}]
      /\ target' \in [Cpu -> Cpu \cup {None}] /\ cpc'[c] = "switch" /\ arg'[c] = None
      /\ \A e \in Cpu \ {c} : cpc'[e] = cpc[e] /\ arg'[e] = arg[e] /\ target'[e] = target[e]
  BY CallIs DEF IInv, CpuPc, resched
<1>2. Only(c)
  BY <1>u, <1>t DEF Only
<1>0. TypeOK'
  BY <1>u, <1>t DEF IInv, TypeOK
<1>3. PosInv'
  <2>1. Pos(c)
    BY DEF IInv, PosInv
  <2>2. Pos(c)'
    BY <1>u, <1>1, <1>t, <2>1 DEF Pos
  <2> QED BY <1>2, <2>2, PosKept DEF IInv
<1>4. StackInv' /\ StateInv' /\ PlaceInv' /\ SavedInv' /\ MoveInv'
  BY <1>u, <1>1, <1>2, <1>t, Aside DEF Hands, Leaving
<1>5. KickInv' /\ NoMissedKick'
  BY <1>u, <1>1, <1>2, <1>t, KickQuiet DEF IInv
<1> QED BY <1>0, <1>3, <1>4, <1>5 DEF IInv

(* A task that is neither queued nor in hand becomes Ready in the hands of   *)
(* the CPU that spawns or wakes it.                                           *)
LEMMA ReadyStep ==
  ASSUME IInv, NEW c \in Cpu, NEW u \in Task, NEW l \in {"w_defer", "enqueue"},
         UNCHANGED <<on_cpu, deferred, cpu_id, cpumask, moving, rq, current, prev, need, pending, ipi>>,
         cpc[c] \in {"run", "w_cas"}, state[u] \in {"New", "Blocked"},
         l = "enqueue" => state[u] = "New",
         state' = [state EXCEPT ![u] = "Ready"],
         cpc' \in [Cpu -> CpuPc], arg' \in [Cpu -> Task \cup {None}],
         target' \in [Cpu -> Cpu \cup {None}], cpc'[c] = l, arg'[c] = u, target'[c] \in Cpu,
         \A e \in Cpu \ {c} : cpc'[e] = cpc[e] /\ arg'[e] = arg[e] /\ target'[e] = target[e]
  PROVE  IInv'
<1>1. /\ state' \in [Task -> State] /\ state'[u] = "Ready"
      /\ \A t \in Task \ {u} : state'[t] = state[t]
  BY DEF IInv, TypeOK, State
<1>2. Nowhere(u)
  BY PlaceIs DEF IInv
<1>3. Only(c)
  BY DEF Only
<1>0. TypeOK'
  BY <1>1 DEF IInv, TypeOK
<1>4. PosInv'
  <2>1. Pos(c)
    BY DEF IInv, PosInv
  <2>2. Pos(c)'
    BY <2>1 DEF Pos
  <2> QED BY <1>3, <2>2, PosKept DEF IInv
<1>5. StackInv'
  BY SMT DEF IInv, StackInv, OnStack
<1>6. StateInv'
  <2>1. \A d \in Cpu : current[d] = u => cpc[d] \in Leaving
    BY DEF IInv, StateInv
  <2>2. cpc[c] \notin Leaving /\ cpc'[c] \notin Leaving
    BY DEF Leaving
  <2> QED BY SMT, <1>1, <1>3, <2>1, <2>2, StateKept DEF IInv, Only
<1>7. /\ \A e \in Cpu \ {c}, t \in Task : Holds(e, t)' <=> Holds(e, t)
      /\ \A t \in Task : ~Holds(c, t) /\ (Holds(c, t)' <=> t = u)
  BY DEF Holds
<1>8. PlaceInv'
  <2>1. InHand(c, u)'
    BY <1>2, <1>7 DEF InHand, Nowhere
  <2>2. Placed(u)'
    BY <1>1, <2>1 DEF Placed
  <2> QED BY <1>1, <1>7, <2>2, PlaceStep DEF IInv
<1>9. SavedInv'
  <2>1. l = "enqueue" => ~on_cpu[u]
    BY SMT DEF IInv, StackInv, StateInv, OnStack
  <2>2. \A e \in Cpu, t \in Task : Holds(e, t)' /\ on_cpu'[t] =>
            cpc'[e] \in {"w_defer", "finish"} \/ (cpc'[e] = "switch" /\ current'[e] = t)
    BY SMT, <1>7, <2>1 DEF IInv, SavedInv
  <2> QED BY SMT, <2>2 DEF IInv, SavedInv, OnStack
<1>10. MoveInv'
  <2>1. moving[u] # "moved"
    BY DEF IInv, MoveInv
  <2> QED BY SMT, <1>1, <1>7, <2>1 DEF IInv, MoveInv
<1>11. KickInv' /\ NoMissedKick'
  BY <1>3, KickQuiet DEF IInv
<1> QED BY <1>0, <1>4, <1>5, <1>6, <1>8, <1>9, <1>10, <1>11 DEF IInv

(* A new task is put into the hands of its creator. *)
LEMMA SpawnStep ==
  ASSUME IInv, NEW c \in Cpu, NEW t \in Task, NEW d \in Cpu, spawn(c, t, d)
  PROVE  IInv'
<1>1. UNCHANGED <<on_cpu, deferred, cpu_id, cpumask, moving, rq, current, prev, need, pending, ipi>>
  BY DEF spawn, kickVars
<1>2. /\ cpc[c] = "run" /\ state[t] = "New" /\ state' = [state EXCEPT ![t] = "Ready"]
      /\ Call(c, "enqueue", t, d)
  BY DEF spawn
<1>3. /\ cpc' \in [Cpu -> CpuPc] /\ arg' \in [Cpu -> Task \cup {None}]
      /\ target' \in [Cpu -> Cpu \cup {None}]
      /\ cpc'[c] = "enqueue" /\ arg'[c] = t /\ target'[c] = d
      /\ \A e \in Cpu \ {c} : cpc'[e] = cpc[e] /\ arg'[e] = arg[e] /\ target'[e] = target[e]
  BY <1>2, CallIs DEF IInv, CpuPc
<1> QED BY <1>1, <1>2, <1>3, ReadyStep

(* Of several wakers, the one that finds the task Blocked takes it. *)
LEMMA TransitionStep ==
  ASSUME IInv, NEW c \in Cpu, transition_state(c)
  PROVE  IInv'
<1>u. UNCHANGED <<on_cpu, deferred, cpu_id, cpumask, moving, rq, current, prev, need, pending, ipi>>
  BY DEF transition_state, kickVars
<1>1. cpc[c] = "w_cas" /\ arg[c] \in Task /\ target[c] \in Cpu
  BY DEF transition_state, IInv, PosInv, Pos
<1>2. CASE state[arg[c]] = "Blocked"
  <2>1. PICK u \in Task : u = arg[c]
    BY <1>1
  <2>2. state' = [state EXCEPT ![u] = "Ready"] /\ Goto(c, "w_defer") /\ UNCHANGED <<arg, target>>
    BY <1>2, <2>1 DEF transition_state
  <2>3. cpc' \in [Cpu -> CpuPc] /\ cpc'[c] = "w_defer" /\ \A e \in Cpu \ {c} : cpc'[e] = cpc[e]
    BY <2>2, GotoIs DEF IInv, CpuPc
  <2>4. arg' \in [Cpu -> Task \cup {None}] /\ target' \in [Cpu -> Cpu \cup {None}]
    BY <2>2 DEF IInv, TypeOK
  <2> QED BY <1>u, <1>1, <1>2, <2>1, <2>2, <2>3, <2>4, ReadyStep
<1>3. CASE state[arg[c]] # "Blocked"
  <2>1. Done(c, "run") /\ UNCHANGED state
    BY <1>3 DEF transition_state
  <2>t. /\ cpc' \in [Cpu -> CpuPc] /\ arg' \in [Cpu -> Task \cup {None}]
        /\ target' \in [Cpu -> Cpu \cup {None}] /\ cpc'[c] = "run"
        /\ \A e \in Cpu \ {c} : cpc'[e] = cpc[e] /\ arg'[e] = arg[e] /\ target'[e] = target[e]
    BY <2>1, DoneIs DEF IInv, CpuPc
  <2>2. Only(c)
    BY <1>u, <2>t DEF Only
  <2>3. TypeOK'
    BY <1>u, <2>1, <2>t DEF IInv, TypeOK
  <2>4. PosInv'
    <3>1. Pos(c)'
      BY <1>u, <1>1, <2>t DEF IInv, PosInv, Pos
    <3> QED BY <2>2, <3>1, PosKept DEF IInv
  <2>5. StackInv' /\ StateInv' /\ PlaceInv' /\ SavedInv' /\ MoveInv'
    BY <1>u, <1>1, <2>1, <2>2, <2>t, Aside DEF Hands, Leaving
  <2>6. KickInv' /\ NoMissedKick'
    BY <1>u, <1>1, <2>2, <2>t, KickQuiet DEF IInv
  <2> QED BY <2>3, <2>4, <2>5, <2>6 DEF IInv
<1> QED BY <1>2, <1>3

(* The waker leaves the task to the CPU that is still on its stack, or goes  *)
(* on to queue it itself.                                                     *)
LEMMA DeferStep ==
  ASSUME IInv, NEW c \in Cpu, defer_wake(c)
  PROVE  IInv'
<1>u. UNCHANGED <<state, on_cpu, cpu_id, cpumask, moving, rq, current, prev, need, arg, target,
                  pending, ipi>>
  BY DEF defer_wake, kickVars
<1>p. Pos(c) /\ TypeOK
  BY DEF IInv, PosInv
<1>1. PICK u \in Task : u = arg[c] /\ cpc[c] = "w_defer" /\ target[c] \in Cpu
  BY <1>p DEF defer_wake, Pos
<1>2. Holds(c, u) /\ state[u] = "Ready" /\ InHand(c, u)
  <2>1. Holds(c, u)
    BY <1>1 DEF Holds
  <2> QED BY <1>p, <2>1, PlaceIs DEF IInv
<1>3. current[c] # u
  BY <1>1, <1>2 DEF IInv, StateInv, Leaving
<1>4. PICK l \in {"w_cpu_id", "enqueue"} :
          /\ Goto(c, l)
          /\ l = "w_cpu_id" => on_cpu[u] /\ deferred' = [deferred EXCEPT ![u] = target[c]]
          /\ l = "enqueue" => ~on_cpu[u] /\ UNCHANGED deferred
  BY <1>1, <1>3 DEF defer_wake
<1>t. cpc' \in [Cpu -> CpuPc] /\ cpc'[c] = l /\ \A e \in Cpu \ {c} : cpc'[e] = cpc[e]
  BY <1>p, <1>4, GotoIs DEF CpuPc
<1>5. /\ deferred' \in [Task -> Cpu \cup {None}]
      /\ \A t \in Task \ {u} : deferred'[t] = deferred[t]
      /\ l = "w_cpu_id" => deferred'[u] # None
  <2>1. deferred \in [Task -> Cpu \cup {None}] /\ target[c] # None
    BY <1>p, <1>1, NoneAssumption DEF TypeOK
  <2>2. CASE l = "w_cpu_id"
    BY <1>1, <1>4, <2>1, <2>2
  <2>3. CASE l = "enqueue"
    BY <1>4, <2>1, <2>3
  <2> QED BY <2>2, <2>3
<1>6. Only(c)
  BY <1>u, <1>t DEF Only
<1>0. TypeOK'
  BY <1>u, <1>p, <1>5, <1>t DEF TypeOK
<1>7. PosInv'
  <2>1. Pos(c)'
    BY <1>u, <1>p, <1>1, <1>t DEF Pos
  <2> QED BY <1>6, <2>1, PosKept DEF IInv
<1>8. StackInv'
  BY <1>u DEF IInv, StackInv, OnStack
<1>9. StateInv'
  BY <1>u, <1>1, <1>6, <1>t, StateSame DEF IInv, Leaving
<1>10. /\ \A e \in Cpu \ {c}, t \in Task : Holds(e, t)' <=> Holds(e, t)
       /\ \A t \in Task : (Holds(c, t) <=> t = u) /\ (Holds(c, t)' <=> t = u /\ l = "enqueue")
  BY <1>u, <1>1, <1>t DEF Holds
<1>11. PlaceInv'
  <2>1. Placed(u)'
    <3>1. CASE l = "enqueue"
      BY <1>u, <1>2, <1>4, <1>10, <3>1 DEF Placed, InHand
    <3>2. CASE l = "w_cpu_id"
      <4>1. Deferred(u)'
        BY <1>u, <1>2, <1>5, <1>10, <3>2 DEF InHand, Deferred
      <4> QED BY <1>u, <1>2, <4>1 DEF Placed
    <3> QED BY <3>1, <3>2
  <2> QED BY <1>u, <1>5, <1>10, <2>1, PlaceStep DEF IInv
<1>12. SavedInv'
  <2>1. \A t \in Task : deferred'[t] # None => on_cpu[t]
    BY <1>4, <1>5 DEF IInv, SavedInv
  <2>2. \A e \in Cpu, t \in Task : Holds(e, t)' /\ on_cpu'[t] => Holds(e, t) /\ cpc'[e] = cpc[e]
    BY <1>u, <1>4, <1>10, <1>t
  <2> QED BY <1>u, <2>1, <2>2 DEF IInv, SavedInv, OnStack
<1>13. MoveInv'
  <2>1. moving[u] # "moved"
    BY <1>1, <1>2 DEF IInv, MoveInv
  <2> QED BY <1>u, <1>5, <1>10, <1>t, <2>1 DEF IInv, MoveInv
<1>14. KickInv' /\ NoMissedKick'
  BY <1>u, <1>1, <1>6, <1>t, KickQuiet DEF IInv
<1> QED BY <1>0, <1>7, <1>8, <1>9, <1>11, <1>12, <1>13, <1>14 DEF IInv
------------------------------------------------------------------------------
(* The migrating task hands itself over to the migration task. *)
LEMMA MigrateStep ==
  ASSUME IInv, NEW c \in Cpu, migrate_current(c)
  PROVE  IInv'
<1>u. UNCHANGED <<on_cpu, deferred, cpu_id, cpumask, rq, need, pending, ipi>>
  BY DEF migrate_current, kickVars
<1>p. Pos(c) /\ TypeOK
  BY DEF IInv, PosInv
<1>1. PICK u \in Task : u = current[c] /\ cpc[c] = "run"
  BY <1>p DEF migrate_current, TypeOK
<1>2. state[u] = "Running" /\ Nowhere(u) /\ prev[c] = None
  BY <1>p, <1>1, PlaceIs DEF IInv, StateInv, Leaving, Pos
<1>3. /\ state' \in [Task -> State] /\ state'[u] = "Ready"
      /\ \A t \in Task \ {u} : state'[t] = state[t]
  BY <1>p, <1>1 DEF migrate_current, TypeOK, State
<1>4. /\ moving' \in [Task -> MovePc]
      /\ \A t \in Task \ {u} : moving'[t] = moving[t]
  BY <1>p, <1>1 DEF migrate_current, TypeOK, MovePc
<1>5. /\ prev' \in [Cpu -> Task \cup {None}] /\ current' \in [Cpu -> Task \cup {None}]
      /\ prev'[c] = u /\ current'[c] = None
      /\ \A e \in Cpu \ {c} : prev'[e] = prev[e] /\ current'[e] = current[e]
  BY <1>p, <1>1 DEF migrate_current, TypeOK
<1>t. /\ cpc' \in [Cpu -> CpuPc] /\ arg' \in [Cpu -> Task \cup {None}]
      /\ target' \in [Cpu -> Cpu \cup {None}] /\ cpc'[c] = "finish" /\ arg'[c] = u
      /\ \A e \in Cpu \ {c} : cpc'[e] = cpc[e] /\ arg'[e] = arg[e] /\ target'[e] = target[e]
  BY SMT, <1>p, <1>1, CallIs DEF migrate_current, CpuPc
<1>6. Only(c)
  BY <1>5, <1>t DEF Only
<1>0. TypeOK'
  BY <1>u, <1>p, <1>3, <1>4, <1>5, <1>t DEF TypeOK
<1>7. PosInv'
  <2>1. Pos(c)'
    BY <1>5, <1>t, NoneAssumption DEF Pos
  <2> QED BY <1>6, <2>1, PosKept DEF IInv
<1>8. \A d \in Cpu, t \in Task : OnStack(d, t)' <=> OnStack(d, t)
  BY <1>1, <1>2, <1>5, NoneAssumption DEF OnStack
<1>9. StackInv'
  <2>1. \A d \in Cpu, t \in Task : ~(current'[d] = t /\ prev'[d] = t)
    BY <1>5, NoneAssumption DEF IInv, StackInv
  <2> QED BY <1>u, <1>8, <2>1 DEF IInv, StackInv
<1>10. StateInv'
  <2>1. \A d \in Cpu \ {c} : ~OnStack(d, u)
    BY <1>1 DEF IInv, StackInv, OnStack
  <2> QED BY SMT, <1>3, <1>5, <1>t, <2>1, NoneAssumption DEF IInv, StateInv, OnStack
<1>11. /\ \A e \in Cpu \ {c}, t \in Task : Holds(e, t)' <=> Holds(e, t)
       /\ \A t \in Task : ~Holds(c, t) /\ (Holds(c, t)' <=> t = u)
  BY <1>1, <1>t DEF Holds
<1>12. PlaceInv'
  <2>1. InHand(c, u)'
    BY <1>u, <1>2, <1>11 DEF InHand, Nowhere
  <2>2. Placed(u)'
    BY <1>3, <2>1 DEF Placed
  <2> QED BY <1>u, <1>3, <1>11, <2>2, PlaceStep DEF IInv
<1>13. SavedInv'
  <2>1. \A e \in Cpu, t \in Task : Holds(e, t)' /\ on_cpu'[t] =>
            cpc'[e] \in {"w_defer", "finish"} \/ (cpc'[e] = "switch" /\ current'[e] = t)
    BY SMT, <1>u, <1>5, <1>11, <1>t DEF IInv, SavedInv
  <2> QED BY <1>u, <1>8, <2>1 DEF IInv, SavedInv
<1>14. MoveInv'
  <2>1. \A t \in Task, d \in Cpu : current'[d] = t => t # u /\ current[d] = t
    BY SMT, <1>1, <1>5, NoneAssumption DEF IInv, StackInv, OnStack
  <2>2. ASSUME NEW t \in Task, t # u, moving'[t] = "moved", NEW d \in Cpu
        PROVE  /\ state'[t] \in {"Ready", "Running"} /\ deferred'[t] = None
               /\ rq'[d][t] > 0 \/ current'[d] = t => d \in cpumask'[t]
               /\ Holds(d, t)' => \/ cpc'[d] \in {"finish", "m_entry"}
                                  \/ cpc'[d] \in {"switch", "pulled"} /\ d \in cpumask'[t]
    BY SMT, <1>u, <1>3, <1>4, <1>11, <1>t, <2>1, <2>2 DEF IInv, MoveInv
  <2>3. ASSUME NEW d \in Cpu
        PROVE  /\ state'[u] = "Ready" /\ deferred'[u] = None /\ ~(rq'[d][u] > 0)
               /\ Holds(d, u)' => cpc'[d] = "finish"
    BY SMT, <1>u, <1>2, <1>3, <1>11, <1>t DEF Nowhere
  <2> QED BY SMT, <2>1, <2>2, <2>3 DEF MoveInv
<1>15. KickInv' /\ NoMissedKick'
  BY <1>u, <1>1, <1>6, <1>t, KickQuiet DEF IInv
<1> QED BY <1>0, <1>7, <1>9, <1>10, <1>12, <1>13, <1>14, <1>15 DEF IInv

(* What the end of a switch does: the CPU is no longer on the stack of p. *)
LEMMA FinishIs ==
  ASSUME IInv, NEW c \in Cpu, finish_switch_out(c), NEW p \in Task, p = prev[c]
  PROVE  /\ prev' \in [Cpu -> Task \cup {None}] /\ prev'[c] = None
         /\ \A e \in Cpu \ {c} : prev'[e] = prev[e]
         /\ on_cpu' \in [Task -> BOOLEAN]
         /\ ~on_cpu'[p] /\ \A t \in Task \ {p} : on_cpu'[t] = on_cpu[t]
         /\ \A d \in Cpu, t \in Task : OnStack(d, t)' => OnStack(d, t)
         /\ \A d \in Cpu : ~OnStack(d, p)'
         /\ \A d \in Cpu, t \in Task : t # p /\ OnStack(d, t) => OnStack(d, t)'
<1>u. UNCHANGED current
  BY DEF finish_switch_out
<1>p. TypeOK
  BY DEF IInv
<1>1. p = prev[c]
  OBVIOUS
<1>2. /\ prev' \in [Cpu -> Task \cup {None}] /\ prev'[c] = None
      /\ \A e \in Cpu \ {c} : prev'[e] = prev[e]
  BY <1>p DEF finish_switch_out, TypeOK
<1>4. on_cpu' \in [Task -> BOOLEAN]
  <2>1. on_cpu \in [Task -> BOOLEAN]
    BY <1>p DEF TypeOK
  <2> QED BY <2>1 DEF finish_switch_out
<1>5. ~on_cpu'[p] /\ \A t \in Task \ {p} : on_cpu'[t] = on_cpu[t]
  BY <1>p, <1>1 DEF finish_switch_out, TypeOK
<1>8. /\ \A d \in Cpu, t \in Task : OnStack(d, t)' => OnStack(d, t)
      /\ \A d \in Cpu : ~OnStack(d, p)'
      /\ \A d \in Cpu, t \in Task : t # p /\ OnStack(d, t) => OnStack(d, t)'
  <2>1. \A d \in Cpu : OnStack(d, p) => d = c /\ current[c] # p
    BY <1>1 DEF IInv, StackInv, OnStack
  <2> QED BY <1>u, <1>1, <1>2, <2>1, NoneAssumption DEF OnStack
<1> QED BY <1>2, <1>4, <1>5, <1>8

(* The context of the task that was left is saved, and the wake that came    *)
(* too early is taken over.                                                   *)
LEMMA FinishStep ==
  ASSUME IInv, NEW c \in Cpu, finish_switch_out(c)
  PROVE  IInv'
<1>u. UNCHANGED <<state, cpu_id, cpumask, moving, rq, current, need, pending, ipi>>
  BY DEF finish_switch_out, kickVars
<1>p. Pos(c) /\ TypeOK
  BY DEF IInv, PosInv
<1>1. PICK p \in Task : p = prev[c] /\ cpc[c] = "finish" /\ (arg[c] = None \/ arg[c] = p)
  BY <1>p DEF finish_switch_out, TypeOK, Pos
<1>2. /\ prev' \in [Cpu -> Task \cup {None}] /\ prev'[c] = None
      /\ \A e \in Cpu \ {c} : prev'[e] = prev[e]
  BY <1>1, FinishIs
<1>3. /\ deferred' \in [Task -> Cpu \cup {None}] /\ deferred'[p] = None
      /\ \A t \in Task \ {p} : deferred'[t] = deferred[t]
  BY <1>p, <1>1 DEF finish_switch_out, TypeOK
<1>4. on_cpu' \in [Task -> BOOLEAN]
  BY <1>1, FinishIs
<1>5. ~on_cpu'[p] /\ \A t \in Task \ {p} : on_cpu'[t] = on_cpu[t]
  BY <1>1, FinishIs
<1>t. /\ cpc' \in [Cpu -> CpuPc] /\ arg' \in [Cpu -> Task \cup {None}]
      /\ target' \in [Cpu -> Cpu \cup {None}]
      /\ \/ cpc'[c] = "f_enqueue" /\ arg'[c] = p /\ target'[c] \in Cpu /\ deferred[p] # None
         \/ cpc'[c] = "m_entry" /\ arg[c] = p /\ arg'[c] = p /\ deferred[p] = None
         \/ cpc'[c] = "run" /\ arg'[c] = None /\ deferred[p] = None /\ arg[c] = None
      /\ \A e \in Cpu \ {c} : cpc'[e] = cpc[e] /\ arg'[e] = arg[e] /\ target'[e] = target[e]
  <2>x. "run" \in CpuPc /\ "f_enqueue" \in CpuPc /\ "m_entry" \in CpuPc
    BY DEF CpuPc
  <2>1. CASE deferred[p] # None
    <3>1. Call(c, "f_enqueue", p, deferred[p]) /\ deferred[p] \in Cpu
      BY <1>p, <1>1, <2>1 DEF finish_switch_out, TypeOK
    <3> QED BY SMT, <1>p, <2>x, <2>1, <3>1, CallIs
  <2>2. CASE deferred[p] = None /\ arg[c] # None
    <3>1. Goto(c, "m_entry") /\ UNCHANGED <<arg, target>>
      BY <1>1, <2>2 DEF finish_switch_out
    <3> QED BY <1>p, <1>1, <2>x, <2>2, <3>1, GotoIs DEF TypeOK
  <2>3. CASE deferred[p] = None /\ arg[c] = None
    <3>1. Done(c, "run")
      BY <1>1, <2>3 DEF finish_switch_out
    <3> QED BY <1>p, <2>x, <2>3, <3>1, DoneIs
  <2> QED BY <2>1, <2>2, <2>3
<1>6. Only(c)
  BY <1>u, <1>2, <1>t DEF Only
<1>0. TypeOK'
  BY <1>u, <1>p, <1>2, <1>3, <1>4, <1>t DEF TypeOK
<1>7. PosInv'
  <2>1. Pos(c)'
    BY <1>u, <1>p, <1>1, <1>2, <1>t, NoneAssumption DEF Pos
  <2> QED BY <1>6, <2>1, PosKept DEF IInv
<1>8. /\ \A d \in Cpu, t \in Task : OnStack(d, t)' => OnStack(d, t)
      /\ \A d \in Cpu : ~OnStack(d, p)'
      /\ \A d \in Cpu, t \in Task : t # p /\ OnStack(d, t) => OnStack(d, t)'
  BY <1>1, FinishIs
<1>9. StackInv'
  <2>1. \A d \in Cpu, t \in Task : ~(current'[d] = t /\ prev'[d] = t)
    BY <1>u, <1>2, NoneAssumption DEF IInv, StackInv
  <2> QED BY SMT, <1>5, <1>8, <2>1 DEF IInv, StackInv
<1>10. StateInv'
  <2>1. cpc[c] \notin Leaving /\ cpc'[c] \notin Leaving
    BY <1>1, <1>t DEF Leaving
  <2> QED BY SMT, <1>u, <1>2, <1>t, <2>1, NoneAssumption DEF IInv, StateInv
<1>11. /\ \A e \in Cpu \ {c}, t \in Task : Holds(e, t)' <=> Holds(e, t)
       /\ \A t \in Task : Holds(c, t) <=> t = p /\ arg[c] = p
       /\ \A t \in Task : Holds(c, t)' <=> t = p /\ arg'[c] = p
  BY <1>1, <1>t, NoneAssumption DEF Holds
<1>12. PlaceInv'
  <2>1. Placed(p)'
    <3>1. CASE deferred[p] # None
      <4>1. state[p] = "Ready" /\ Deferred(p)
        BY <1>p, <3>1, PlaceIs DEF IInv
      <4>2. InHand(c, p)'
        BY <1>u, <1>3, <1>11, <1>t, <3>1, <4>1 DEF Deferred, InHand
      <4> QED BY <1>u, <4>1, <4>2 DEF Placed
    <3>2. CASE deferred[p] = None
      <4>1. \A e \in Cpu : Holds(e, p)' <=> Holds(e, p)
        BY <1>11, <1>t, <3>2
      <4> QED BY <1>u, <1>3, <3>2, <4>1, PlacedKept DEF IInv, PlaceInv
    <3> QED BY <3>1, <3>2
  <2> QED BY <1>u, <1>3, <1>11, <2>1, PlaceStep DEF IInv
<1>13. SavedInv'
  <2>1. \A e \in Cpu, t \in Task : rq'[e][t] > 0 /\ on_cpu'[t] => OnStack(e, t)'
    BY <1>u, <1>5, <1>8 DEF IInv, SavedInv
  <2>2. \A e \in Cpu, t \in Task : Holds(e, t)' /\ on_cpu'[t] => e # c /\ Holds(e, t) /\ on_cpu[t]
    BY <1>5, <1>11
  <2>3. \A e \in Cpu, t \in Task : Holds(e, t)' /\ on_cpu'[t] =>
            cpc'[e] \in {"w_defer", "finish"} \/ (cpc'[e] = "switch" /\ current'[e] = t)
    BY SMT, <1>u, <1>t, <2>2 DEF IInv, SavedInv
  <2>4. \A t \in Task : deferred'[t] # None => on_cpu'[t]
    BY <1>3, <1>5 DEF IInv, SavedInv
  <2> QED BY <2>1, <2>3, <2>4 DEF SavedInv
<1>14. MoveInv'
  <2>1. \A t \in Task : moving[t] = "moved" => deferred[t] = None /\ deferred'[t] = None
    BY <1>3 DEF IInv, MoveInv
  <2>2. \A d \in Cpu, t \in Task : Holds(d, t)' /\ moving[t] = "moved" =>
            cpc'[d] = "m_entry" \/ (Holds(d, t) /\ cpc'[d] = cpc[d])
    <3> SUFFICES ASSUME NEW d \in Cpu, NEW t \in Task, Holds(d, t)', moving[t] = "moved"
                 PROVE  cpc'[d] = "m_entry" \/ (Holds(d, t) /\ cpc'[d] = cpc[d])
      OBVIOUS
    <3>1. CASE d # c
      BY <1>11, <1>t, <3>1
    <3>2. CASE d = c
      <4>1. t = p /\ arg'[c] = p
        BY <1>11, <3>2
      <4> QED BY <1>t, <2>1, <3>2, <4>1, NoneAssumption
    <3> QED BY <3>1, <3>2
  <2> QED BY <1>u, <2>1, <2>2 DEF IInv, MoveInv
<1>15. KickInv' /\ NoMissedKick'
  BY <1>u, <1>1, <1>6, <1>t, KickQuiet DEF IInv
<1> QED BY <1>0, <1>7, <1>9, <1>10, <1>12, <1>13, <1>14, <1>15 DEF IInv

(* What a switch does: n is the task the CPU goes on with, v the one it has. *)
LEMMA SwitchIs ==
  ASSUME IInv, NEW c \in Cpu, switch_to(c),
         NEW n \in Task \cup {None}, NEW v \in Task \cup {None}, n = arg[c], v = current[c]
  PROVE  /\ cpc[c] = "switch" /\ prev[c] = None
         /\ n \in Task => /\ Holds(c, n) /\ state[n] = "Ready" /\ InHand(c, n)
                          /\ n # v => ~on_cpu[n]
         /\ state' \in [Task -> State]
         /\ \A t \in Task : state'[t] = IF t = n THEN "Running" ELSE state[t]
         /\ current' \in [Cpu -> Task \cup {None}] /\ prev' \in [Cpu -> Task \cup {None}]
         /\ current'[c] = n /\ prev'[c] = IF n = v THEN None ELSE v
         /\ \A e \in Cpu \ {c} : prev'[e] = prev[e] /\ current'[e] = current[e]
         /\ on_cpu' \in [Task -> BOOLEAN]
         /\ \A t \in Task : on_cpu'[t] <=> t = n \/ on_cpu[t]
         /\ \A d \in Cpu, t \in Task : OnStack(d, t)' <=> (d = c /\ t = n) \/ OnStack(d, t)
         /\ n \in Task => \A d \in Cpu \ {c} : ~OnStack(d, n)
<1>p. Pos(c) /\ TypeOK
  BY DEF IInv, PosInv
<1>1. n = arg[c] /\ cpc[c] = "switch"
  BY DEF switch_to
<1>2. v = current[c] /\ prev[c] = None
  BY <1>p, <1>1 DEF Pos
<1>h. n \in Task => /\ Holds(c, n) /\ state[n] = "Ready" /\ InHand(c, n)
                    /\ n # v => ~on_cpu[n]
  <2>1. n \in Task => Holds(c, n)
    BY <1>1 DEF Holds
  <2> QED BY <1>p, <1>1, <1>2, <2>1, PlaceIs DEF IInv, SavedInv
<1>3. /\ state' \in [Task -> State]
      /\ \A t \in Task : state'[t] = IF t = n THEN "Running" ELSE state[t]
  BY <1>p, <1>1 DEF switch_to, TypeOK, State
<1>5. /\ current' \in [Cpu -> Task \cup {None}] /\ prev' \in [Cpu -> Task \cup {None}]
      /\ current'[c] = n /\ prev'[c] = IF n = v THEN None ELSE v
      /\ \A e \in Cpu \ {c} : prev'[e] = prev[e] /\ current'[e] = current[e]
  <2>1. CASE n = v
    BY <1>p, <1>1, <1>2, <2>1 DEF switch_to, TypeOK
  <2>2. CASE n # v
    <3>1. current' = [current EXCEPT ![c] = n] /\ prev' = [prev EXCEPT ![c] = v]
      BY <1>1, <1>2, <2>2 DEF switch_to
    <3>2. current \in [Cpu -> Task \cup {None}] /\ prev \in [Cpu -> Task \cup {None}]
      BY <1>p DEF TypeOK
    <3> QED BY <2>2, <3>1, <3>2
  <2> QED BY <2>1, <2>2
<1>6. /\ on_cpu' \in [Task -> BOOLEAN]
      /\ \A t \in Task : on_cpu'[t] <=> t = n \/ on_cpu[t]
  <2>1. on_cpu \in [Task -> BOOLEAN] /\ (n = v => \A t \in Task : t = n => on_cpu[t])
    BY <1>p, <1>2 DEF IInv, TypeOK, StackInv, OnStack
  <2>2. CASE n = v
    BY <1>1, <1>2, <2>1, <2>2 DEF switch_to
  <2>3. CASE n # v
    <3>1. on_cpu' = [t \in Task |-> t = n \/ on_cpu[t]]
      BY <1>1, <1>2, <2>3 DEF switch_to
    <3> QED BY <3>1
  <2> QED BY <2>2, <2>3
<1>9. /\ \A d \in Cpu, t \in Task : OnStack(d, t)' <=> (d = c /\ t = n) \/ OnStack(d, t)
      /\ n \in Task => \A d \in Cpu \ {c} : ~OnStack(d, n)
  <2>1. \A d \in Cpu, t \in Task : OnStack(d, t)' <=> (d = c /\ t = n) \/ OnStack(d, t)
    BY <1>2, <1>5, NoneAssumption DEF OnStack
  <2>2. CASE n = v
    BY SMT, <1>2, <2>1, <2>2 DEF IInv, StackInv, OnStack
  <2>3. CASE n # v
    BY <1>h, <2>1, <2>3 DEF IInv, StackInv
  <2> QED BY <2>1, <2>2, <2>3
<1> QED BY <1>1, <1>2, <1>h, <1>3, <1>5, <1>6, <1>9

(* The CPU changes to the stack of the task it picked, or back to its own. *)
LEMMA SwitchStep ==
  ASSUME IInv, NEW c \in Cpu, switch_to(c)
  PROVE  IInv'
<1>u. UNCHANGED <<deferred, cpu_id, cpumask, moving, rq, pending, ipi>>
  BY DEF switch_to, kickVars
<1>p. Pos(c) /\ TypeOK
  BY DEF IInv, PosInv
<1>1. PICK n \in Task \cup {None} : n = arg[c] /\ cpc[c] = "switch"
  BY <1>p DEF switch_to, TypeOK
<1>2. PICK v \in Task \cup {None} : v = current[c] /\ prev[c] = None
  BY <1>p, <1>1 DEF TypeOK, Pos
<1>h. n \in Task => /\ Holds(c, n) /\ state[n] = "Ready" /\ InHand(c, n)
                    /\ n # v => ~on_cpu[n]
  BY SMT, <1>1, <1>2, SwitchIs
<1>3. /\ state' \in [Task -> State]
      /\ \A t \in Task : state'[t] = IF t = n THEN "Running" ELSE state[t]
  BY SMT, <1>1, <1>2, SwitchIs
<1>4. need' \in [Cpu -> BOOLEAN]
  <2>1. need \in [Cpu -> BOOLEAN]
    BY <1>p DEF TypeOK
  <2> QED BY <2>1 DEF switch_to
<1>5. /\ current' \in [Cpu -> Task \cup {None}] /\ prev' \in [Cpu -> Task \cup {None}]
      /\ current'[c] = n /\ prev'[c] = IF n = v THEN None ELSE v
      /\ \A e \in Cpu \ {c} : prev'[e] = prev[e] /\ current'[e] = current[e]
  BY SMT, <1>1, <1>2, SwitchIs
<1>t. /\ cpc' \in [Cpu -> CpuPc] /\ arg' \in [Cpu -> Task \cup {None}]
      /\ target' \in [Cpu -> Cpu \cup {None}] /\ arg'[c] = None
      /\ cpc'[c] = IF n = v \/ v = None THEN "run" ELSE "finish"
      /\ \A e \in Cpu \ {c} : cpc'[e] = cpc[e] /\ arg'[e] = arg[e] /\ target'[e] = target[e]
  <2>1. Done(c, IF n = v \/ v = None THEN "run" ELSE "finish")
    BY <1>1, <1>2 DEF switch_to
  <2>2. (IF n = v \/ v = None THEN "run" ELSE "finish") \in CpuPc
    BY DEF CpuPc
  <2> QED BY <1>p, <2>1, <2>2, DoneIs
<1>6. /\ on_cpu' \in [Task -> BOOLEAN]
      /\ \A t \in Task : on_cpu'[t] <=> t = n \/ on_cpu[t]
  BY SMT, <1>1, <1>2, SwitchIs
<1>7. Only(c)
  BY <1>5, <1>t DEF Only
<1>0. TypeOK'
  BY <1>u, <1>p, <1>3, <1>4, <1>5, <1>6, <1>t DEF TypeOK
<1>8. PosInv'
  <2>1. Pos(c)'
    BY <1>5, <1>t DEF Pos
  <2> QED BY <1>7, <2>1, PosKept DEF IInv
<1>9. /\ \A d \in Cpu, t \in Task : OnStack(d, t)' <=> (d = c /\ t = n) \/ OnStack(d, t)
      /\ n \in Task => \A d \in Cpu \ {c} : ~OnStack(d, n)
  BY SMT, <1>1, <1>2, SwitchIs
<1>10. StackInv'
  <2>1. \A d \in Cpu, t \in Task : ~(current'[d] = t /\ prev'[d] = t)
    BY SMT, <1>5, NoneAssumption DEF IInv, StackInv
  <2>2. \A t \in Task : on_cpu'[t] <=> \E d \in Cpu : OnStack(d, t)'
    BY <1>6, <1>9 DEF IInv, StackInv
  <2>3. \A t \in Task, d, e \in Cpu : OnStack(d, t)' /\ OnStack(e, t)' => d = e
    BY SMT, <1>9 DEF IInv, StackInv
  <2> QED BY <2>1, <2>2, <2>3 DEF StackInv
<1>11. StateInv'
  <2> SUFFICES ASSUME NEW d \in Cpu, NEW t \in Task
               PROVE  /\ current'[d] = t /\ cpc'[d] \notin Leaving => state'[t] = "Running"
                      /\ current'[d] = t /\ cpc'[d] \in Leaving => state'[t] \in {"Ready", "Blocked", "Exited"}
                      /\ prev'[d] = t => state'[t] \in {"Ready", "Blocked", "Exited"}
    BY DEF StateInv
  <2>1. CASE d = c
    <3>1. cpc[c] \in Leaving /\ cpc'[c] \notin Leaving
      BY <1>1, <1>t DEF Leaving
    <3> QED BY SMT, <1>2, <1>3, <1>5, <2>1, <3>1, NoneAssumption DEF IInv, StateInv
  <2>2. CASE d # c
    <3>1. OnStack(d, t) => t # n
      BY <1>9, <2>2
    <3> QED BY SMT, <1>3, <1>5, <1>t, <2>2, <3>1 DEF IInv, StateInv, OnStack
  <2> QED BY <2>1, <2>2
<1>12. /\ \A e \in Cpu \ {c}, t \in Task : Holds(e, t)' <=> Holds(e, t)
       /\ \A t \in Task : ~Holds(c, t)' /\ (Holds(c, t) => t = n)
  BY <1>1, <1>t, NoneAssumption DEF Holds
<1>13. ASSUME n \in Task PROVE Nowhere(n)'
  BY <1>u, <1>h, <1>12, <1>13 DEF Nowhere, InHand
<1>14. PlaceInv'
  <2>1. ASSUME NEW t \in Task, t # n PROVE Placed(t)'
    <3>1. Placed(t) /\ state'[t] = state[t]
      BY <1>3, <2>1 DEF IInv, PlaceInv
    <3>2. \A d \in Cpu : Holds(d, t)' <=> Holds(d, t)
      BY <1>12, <2>1
    <3> QED BY <1>u, <3>1, <3>2, PlacedKept
  <2>2. ASSUME n \in Task PROVE Placed(n)'
    BY <1>3, <1>13, <2>2 DEF Placed
  <2> QED BY <2>1, <2>2 DEF PlaceInv
<1>15. SavedInv'
  <2>1. ASSUME NEW t \in Task, t # n
        PROVE  /\ \A d \in Cpu : rq'[d][t] > 0 /\ on_cpu'[t] => OnStack(d, t)'
               /\ \A d \in Cpu : Holds(d, t)' /\ on_cpu'[t] =>
                    cpc'[d] \in {"w_defer", "finish"} \/ (cpc'[d] = "switch" /\ current'[d] = t)
               /\ deferred'[t] # None => on_cpu'[t]
    BY SMT, <1>u, <1>5, <1>6, <1>9, <1>12, <1>t, <2>1 DEF IInv, SavedInv
  <2>2. ASSUME n \in Task
        PROVE  deferred'[n] = None /\ \A d \in Cpu : ~(rq'[d][n] > 0) /\ ~Holds(d, n)'
    BY SMT, <1>13, <2>2 DEF Nowhere
  <2> QED BY SMT, <2>1, <2>2 DEF SavedInv
<1>16. MoveInv'
  <2>1. ASSUME NEW d \in Cpu, NEW t \in Task, moving[t] = "moved", current'[d] = t
        PROVE  d \in cpumask[t]
    BY <1>1, <1>5, <1>h, <2>1 DEF IInv, MoveInv
  <2>2. ASSUME NEW d \in Cpu, NEW t \in Task, Holds(d, t)' PROVE Holds(d, t) /\ cpc'[d] = cpc[d]
    BY <1>12, <1>t, <2>2
  <2> QED BY <1>u, <1>3, <2>1, <2>2 DEF IInv, MoveInv
<1>17. KickInv' /\ NoMissedKick'
  BY <1>u, <1>1, <1>7, <1>t, KickQuiet DEF IInv
<1> QED BY <1>0, <1>8, <1>10, <1>11, <1>14, <1>15, <1>16, <1>17 DEF IInv
------------------------------------------------------------------------------
(* Every CPU runs its idle task and there is no task yet. *)
LEMMA InitIInv == Init => IInv
<1> SUFFICES ASSUME Init PROVE IInv
  OBVIOUS
<1>0. TypeOK
  BY MaskAssumption DEF Init, TypeOK, State, MovePc, CpuPc
<1>1. \A c \in Cpu : cpc[c] = "run" /\ arg[c] = None /\ current[c] = None /\ prev[c] = None /\ ~pending[c]
  BY DEF Init
<1>2. \A t \in Task : ~on_cpu[t] /\ deferred[t] = None /\ state[t] = "New" /\ moving[t] = "no"
  BY DEF Init
<1>3. \A c \in Cpu, t \in Task : rq[c][t] = 0
  BY DEF Init
<1>4. PosInv /\ KickInv /\ NoMissedKick
  BY <1>1 DEF PosInv, Pos, KickInv, NoMissedKick
<1>5. StackInv /\ StateInv
  BY <1>1, <1>2, NoneAssumption DEF StackInv, StateInv, OnStack
<1>6. PlaceInv
  BY <1>1, <1>2, <1>3, NoneAssumption DEF PlaceInv, Placed, Nowhere, Holds
<1>7. SavedInv /\ MoveInv
  BY <1>1, <1>2, NoneAssumption DEF SavedInv, MoveInv
<1> QED BY <1>0, <1>4, <1>5, <1>6, <1>7 DEF IInv

(* A step that changes nothing. *)
LEMMA StutterStep ==
  ASSUME IInv, UNCHANGED vars
  PROVE  IInv'
<1>u. UNCHANGED <<state, on_cpu, deferred, cpu_id, cpumask, moving, rq,
                  current, prev, need, pending, ipi, cpc, arg, target>>
  BY DEF vars
<1>0. TypeOK' /\ PosInv'
  BY <1>u DEF IInv, TypeOK, PosInv, Pos
<1>1. \A c \in Cpu, t \in Task : (Holds(c, t)' <=> Holds(c, t)) /\ (OnStack(c, t)' <=> OnStack(c, t))
  BY <1>u DEF Holds, OnStack
<1>2. StackInv' /\ StateInv'
  BY <1>u, <1>1 DEF IInv, StackInv, StateInv
<1>3. PlaceInv'
  BY <1>u, <1>1, PlacedKept DEF IInv, PlaceInv
<1>4. SavedInv' /\ MoveInv'
  BY <1>u, <1>1 DEF IInv, SavedInv, MoveInv
<1>5. KickInv' /\ NoMissedKick'
  BY <1>u DEF IInv, KickInv, NoMissedKick, Queued
<1> QED BY <1>0, <1>2, <1>3, <1>4, <1>5 DEF IInv

(* Every step of every CPU keeps the invariant. *)
LEMMA NextStep ==
  ASSUME IInv, [Next]_vars
  PROVE  IInv'
<1>1. ASSUME NEW c \in Cpu, Request(c) PROVE IInv'
  <2>1. CASE Block(c) \/ exit_current(c) \/ BlockUndone(c)
    BY <2>1, BlockStep
  <2>2. CASE Interrupt(c)
    BY <2>2, IdleStep
  <2>3. CASE \E m \in Mask : set_current_affinity(c, m)
    BY <2>3, AffinityStep
  <2>4. ASSUME NEW t \in Task, NEW d \in Cpu, spawn(c, t, d) \/ select_wake_run_queue(c, t, d)
        PROVE  IInv'
    BY <2>4, SpawnStep, WakerStep
  <2> QED BY <1>1, <2>1, <2>2, <2>3, <2>4 DEF Request
<1>2. ASSUME NEW c \in Cpu, Progress(c) PROVE IInv'
  <2>1. CASE yield_current(c) \/ migrate_current(c) \/ switch_to(c) \/ finish_switch_out(c)
    BY <2>1, YieldStep, MigrateStep, SwitchStep, FinishStep
  <2>2. CASE MigrateReturn(c)
    BY <2>2, AffinityStep, MaskAssumption
  <2>3. CASE DeferredEnqueue(c) \/ enqueue_task(c)
    <3>1. target[c] \in Cpu
      BY <2>3 DEF DeferredEnqueue, enqueue_task, IInv, PosInv, Pos
    <3> QED BY <2>3, <3>1, EnqueueStep
  <2>4. CASE transition_state(c) \/ defer_wake(c)
    BY <2>4, TransitionStep, DeferStep
  <2>5. CASE DeferredCpuId(c)
    <3>1. arg[c] \in Task /\ target[c] \in Cpu
      BY <2>5 DEF DeferredCpuId, IInv, PosInv, Pos
    <3> QED BY <2>5, <3>1, WakerStep
  <2>6. CASE kick_remote_cpu(c) \/ run_on_cpu(c) \/ request_current_reschedule(c)
               \/ force_kick_remote_cpu(c)
    BY <2>6, KickRemoteStep, SendStep, HandlerStep
  <2>7. CASE idle_wait(c) \/ PullNothing(c) \/ wait_for_irqs_disabled(c)
    BY <2>7, IdleStep
  <2>8. CASE \E d \in Cpu : migrate_entry(c, d)
    BY <2>8, EnqueueStep
  <2>9. CASE \E d \in Cpu, t \in Task : pull_next_task(c, d, t)
    BY <2>9, DequeueStep
  <2> QED BY <1>2, <2>1, <2>2, <2>3, <2>4, <2>5, <2>6, <2>7, <2>8, <2>9 DEF Progress
<1>3. ASSUME NEW c \in Cpu, NEW t \in Task \cup {None}, Pick(c, t) PROVE IInv'
  <2>1. CASE resched(c, t) /\ t = None
    BY <2>1, ReschedIdleStep
  <2>2. CASE resched(c, t) /\ t # None
    BY <2>2, DequeueStep
  <2>3. CASE t # None /\ PullEnqueue(c, t)
    BY <2>3, PullEnqueueStep
  <2> QED BY <1>3, <2>1, <2>2, <2>3 DEF Pick
<1>4. ASSUME NEW c \in Cpu, ipi_handler(c) PROVE IInv'
  BY <1>4, HandlerStep
<1> QED BY <1>1, <1>2, <1>3, <1>4, StutterStep DEF Next

(* The inductive invariant of the run queues. *)
THEOREM RunQueueInvariant == Spec => []IInv
<1>1. IInv /\ [Next]_vars => IInv'
  BY NextStep
<1> QED BY <1>1, InitIInv, PTL DEF Spec

(* The assertions of claim_on_cpu, defer_wake and finish_switch_out never     *)
(* fail, and no two CPUs are ever on one task's stack, for every number of    *)
(* tasks and CPUs.                                                            *)
THEOREM OneCpuPerStack == Spec => []ExecutionIsOwned
<1>1. IInv => ExecutionIsOwned
  <2> SUFFICES ASSUME IInv PROVE ExecutionIsOwned
    OBVIOUS
  <2>1. \A c, d \in Cpu, t \in Task : OnStack(c, t) /\ OnStack(d, t) => c = d
    BY DEF IInv, StackInv
  <2> SUFFICES ASSUME NEW c \in Cpu, NEW t \in Task
               PROVE  /\ cpc[c] = "switch" /\ arg[c] = t /\ current[c] # t => ~on_cpu[t] /\ deferred[t] = None
                      /\ cpc[c] = "w_defer" /\ arg[c] = t /\ on_cpu[t] => deferred[t] = None
                      /\ cpc[c] = "finish" /\ prev[c] = t => on_cpu[t]
    BY <2>1 DEF ExecutionIsOwned
  <2>2. cpc[c] \in {"switch", "w_defer"} /\ arg[c] = t => Holds(c, t)
    BY DEF Holds
  <2>3. Holds(c, t) => deferred[t] = None
    BY PlaceIs DEF IInv, InHand
  <2>4. cpc[c] = "switch" /\ Holds(c, t) /\ current[c] # t => ~on_cpu[t]
    BY DEF IInv, SavedInv
  <2>5. prev[c] = t => on_cpu[t]
    BY DEF IInv, StackInv, OnStack
  <2> QED BY <2>2, <2>3, <2>4, <2>5
<1> QED BY <1>1, RunQueueInvariant, PTL

(* No CPU sleeps in WFI with a task in its queue and no kick on its way. *)
THEOREM IdleCpuIsKicked == Spec => []NoMissedKick
BY RunQueueInvariant, PTL DEF IInv

(* A migrated task resumes on a CPU of its mask, whatever happened on the way. *)
THEOREM MigratedIsAllowed == Spec => []MigrationLands
<1>1. IInv => MigrationLands
  BY DEF IInv, MoveInv, MigrationLands
<1> QED BY <1>1, RunQueueInvariant, PTL

(* The size of a set of no element and of one. *)
LEMMA CardinalityOfFew ==
  ASSUME NEW x
  PROVE  Cardinality({}) = 0 /\ Cardinality({x}) = 1
<1>1. ASSUME NEW T, T = {} \/ T = {x}
      PROVE  Cardinality(T) = IF T = {} THEN 0 ELSE 1
  <2> DEFINE G(f) == [U \in SUBSET T |-> IF U = {} THEN 0 ELSE 1 + f[U \ {CHOOSE y : y \in U}]]
             g == [U \in SUBSET T |-> IF U = {} THEN 0 ELSE 1]
  <2>1. ASSUME NEW U \in SUBSET T, U # {} PROVE U \ {CHOOSE y : y \in U} = {}
    BY <1>1, <2>1
  <2>2. g = G(g)
    BY SMT, <2>1
  <2>3. PICK h : h = CHOOSE f : f = G(f)
    OBVIOUS
  <2>4. h = G(h)
    BY <2>2, <2>3
  <2>5. h[T] = IF T = {} THEN 0 ELSE 1
    BY SMT, <2>1, <2>4
  <2> QED BY <2>3, <2>5 DEF Cardinality
<1> QED BY <1>1

(* A Ready task is in one run queue, once, or in one CPU's hands, or left to  *)
(* the CPU that is still on its stack; any other task is in none of these.    *)
THEOREM ReadyIsNeverLost == Spec => []ReadyIsHeldOnce
<1>1. IInv => ReadyIsHeldOnce
  <2> SUFFICES ASSUME IInv, NEW t \in Task
               PROVE  /\ \A c \in Cpu : rq[c][t] <= 1
                      /\ Cardinality(Places(t)) = IF state[t] = "Ready" THEN 1 ELSE 0
    BY DEF ReadyIsHeldOnce
  <2>t. TypeOK /\ Placed(t)
    BY DEF IInv, PlaceInv
  <2>1. ASSUME NEW c \in Cpu PROVE rq[c][t] <= 1
    <3>1. rq[c][t] \in Nat
      BY <2>t DEF TypeOK
    <3>2. rq[c][t] > 0 => rq[c][t] = 1
      BY <2>t, PlaceIs DEF IInv, InQueue
    <3> QED BY SMT, <3>1, <3>2
  <2>2. ASSUME Nowhere(t) PROVE Cardinality(Places(t)) = 0
    <3>1. Places(t) = {}
      BY SMT, <2>2, NoneAssumption DEF Nowhere, Places
    <3> QED BY <3>1, CardinalityOfFew
  <2>3. ASSUME NEW c \in Cpu, InQueue(c, t) PROVE Cardinality(Places(t)) = 1
    <3>1. Places(t) = {<<"queue", c>>}
      BY SMT, <2>3, NoneAssumption DEF InQueue, Places
    <3> QED BY <3>1, CardinalityOfFew
  <2>4. ASSUME NEW c \in Cpu, InHand(c, t) PROVE Cardinality(Places(t)) = 1
    <3>1. Places(t) = {<<"hand", c>>}
      BY SMT, <2>4, NoneAssumption DEF InHand, Places
    <3> QED BY <3>1, CardinalityOfFew
  <2>5. ASSUME Deferred(t) PROVE Cardinality(Places(t)) = 1
    <3>1. deferred[t] \in Cpu
      BY <2>t, <2>5 DEF Deferred, TypeOK
    <3>2. Places(t) = {<<"deferred", deferred[t]>>}
      BY SMT, <2>5, <3>1 DEF Deferred, Places
    <3> QED BY <3>2, CardinalityOfFew
  <2> QED BY <2>t, <2>1, <2>2, <2>3, <2>4, <2>5 DEF Placed
<1> QED BY <1>1, RunQueueInvariant, PTL
------------------------------------------------------------------------------
(* The owner of a task's context is the CPU that is on its stack. *)
LEMMA OwnerIs ==
  ASSUME StackInv, NEW t \in Task
  PROVE  /\ \A c \in Cpu : OnStack(c, t) => on_cpu[t] /\ Owner[t] = c
         /\ ~on_cpu[t] => Owner[t] = None
<1>1. Owner[t] = IF on_cpu[t] THEN CHOOSE c \in Cpu : OnStack(c, t) ELSE None
  BY DEF Owner
<1>2. \A c, d \in Cpu : OnStack(c, t) /\ OnStack(d, t) => c = d
  BY DEF StackInv
<1>3. ASSUME NEW c \in Cpu, OnStack(c, t) PROVE on_cpu[t] /\ Owner[t] = c
  <2>1. on_cpu[t]
    BY <1>3 DEF StackInv
  <2>2. (CHOOSE d \in Cpu : OnStack(d, t)) = c
    BY <1>2, <1>3
  <2> QED BY <1>1, <2>1, <2>2
<1> QED BY <1>1, <1>3

(* The same of the next state. *)
LEMMA NextOwnerIs ==
  ASSUME StackInv', NEW t \in Task
  PROVE  /\ \A c \in Cpu : OnStack(c, t)' => on_cpu'[t] /\ Owner'[t] = c
         /\ ~on_cpu'[t] => Owner'[t] = None
<1>1. Owner'[t] = IF on_cpu'[t] THEN CHOOSE c \in Cpu : OnStack(c, t)' ELSE None
  BY DEF Owner
<1>2. \A c, d \in Cpu : OnStack(c, t)' /\ OnStack(d, t)' => c = d
  BY DEF StackInv
<1>3. ASSUME NEW c \in Cpu, OnStack(c, t)' PROVE on_cpu'[t] /\ Owner'[t] = c
  <2>1. on_cpu'[t]
    BY <1>3 DEF StackInv
  <2>2. (CHOOSE d \in Cpu : OnStack(d, t)') = c
    BY <1>2, <1>3
  <2> QED BY <1>1, <2>1, <2>2
<1> QED BY <1>1, <1>3

(* A task keeps its owner when no CPU moves on or off its stack. *)
LEMMA OwnerKept ==
  ASSUME StackInv, StackInv', NEW t \in Task, on_cpu'[t] <=> on_cpu[t],
         \A c \in Cpu : OnStack(c, t) => OnStack(c, t)'
  PROVE  Owner'[t] = Owner[t]
<1>1. CASE on_cpu[t]
  <2>1. PICK c \in Cpu : OnStack(c, t)
    BY <1>1 DEF StackInv
  <2> QED BY <2>1, OwnerIs, NextOwnerIs
<1>2. CASE ~on_cpu[t]
  BY <1>2, OwnerIs, NextOwnerIs
<1> QED BY <1>1, <1>2

(* When no task's owner changes, the owners do not. *)
LEMMA OwnersKept ==
  ASSUME \A t \in Task : Owner'[t] = Owner[t]
  PROVE  Owner' = Owner
BY DEF Owner

(* When one task's owner changes, so do the owners, at that task. *)
LEMMA OwnersMove ==
  ASSUME NEW u \in Task, NEW w, Owner'[u] = w, \A t \in Task : t # u => Owner'[t] = Owner[t]
  PROVE  Owner' = [Owner EXCEPT ![u] = w]
<1>1. PICK f, g : f = Owner /\ g = Owner'
  OBVIOUS
<1>2. f = [t \in Task |-> f[t]]
  BY SMT, <1>1 DEF Owner
<1>3. g = [t \in Task |-> g[t]]
  BY SMT, <1>1 DEF Owner
<1>4. g = [f EXCEPT ![u] = w]
  BY SMT, <1>1, <1>2, <1>3
<1> QED BY <1>1, <1>4

(* A step that touches neither stacks nor contexts keeps the owners. *)
LEMMA OwnersUntouched ==
  ASSUME IInv, IInv', UNCHANGED <<on_cpu, current, prev>>
  PROVE  Owner' = Owner
<1>1. \A c \in Cpu, t \in Task : OnStack(c, t) => OnStack(c, t)'
  BY DEF OnStack
<1> QED BY <1>1, OwnerKept, OwnersKept DEF IInv

(* A task leaves its CPU for good, or only for a moment. *)
LEMMA LeaveRefines ==
  ASSUME IInv, IInv', NEW c \in Cpu,
         Block(c) \/ exit_current(c) \/ yield_current(c) \/ BlockUndone(c)
  PROVE  S!Next
<1>1. Owner' = Owner
  BY OwnersUntouched DEF Block, exit_current, yield_current, BlockUndone
<1>2. PICK u \in Task : u = current[c]
  BY SMT DEF Block, exit_current, yield_current, BlockUndone, IInv, TypeOK
<1>3. CASE Block(c) \/ exit_current(c) \/ yield_current(c)
  <2>1. state[u] = "Running"
    BY SMT, <1>2, <1>3 DEF Block, exit_current, yield_current, IInv, StateInv, Leaving
  <2>2. \E s \in {"Ready", "Blocked", "Exited"} : state' = [state EXCEPT ![u] = s]
    BY <1>2, <1>3 DEF Block, exit_current, yield_current
  <2> QED BY <1>1, <2>1, <2>2 DEF S!Next, S!Leave
<1>4. CASE BlockUndone(c)
  <2>1. state[u] = "Blocked" /\ state' = [state EXCEPT ![u] = "Running"]
    BY <1>2, <1>4 DEF BlockUndone
  <2>2. Owner[u] # None
    BY <1>2, OwnerIs, NoneAssumption DEF IInv, OnStack
  <2> QED BY <1>1, <2>1, <2>2 DEF S!Next, S!Relent
<1> QED BY <1>3, <1>4

(* A migrating task leaves its CPU, which is still on its stack. *)
LEMMA MigrateRefines ==
  ASSUME IInv, IInv', NEW c \in Cpu, migrate_current(c)
  PROVE  S!Next
<1>1. PICK u \in Task : u = current[c] /\ cpc[c] = "run"
  BY SMT DEF migrate_current, IInv, TypeOK
<1>2. state[u] = "Running" /\ prev[c] = None
  BY SMT, <1>1 DEF IInv, StateInv, Leaving, PosInv, Pos
<1>3. state' = [state EXCEPT ![u] = "Ready"] /\ UNCHANGED on_cpu
  BY <1>1 DEF migrate_current
<1>4. \A d \in Cpu, t \in Task : OnStack(d, t) => OnStack(d, t)'
  <2>1. /\ prev'[c] = u /\ current[c] = u
        /\ \A e \in Cpu \ {c} : prev'[e] = prev[e] /\ current'[e] = current[e]
    BY SMT, <1>1 DEF migrate_current, IInv, TypeOK
  <2> QED BY SMT, <1>2, <2>1, NoneAssumption DEF OnStack
<1>5. Owner' = Owner
  BY <1>3, <1>4, OwnerKept, OwnersKept DEF IInv
<1> QED BY <1>2, <1>3, <1>5 DEF S!Next, S!Leave

(* A new task is spawned, or the waker that is first wakes it. *)
LEMMA ReadyRefines ==
  ASSUME IInv, IInv', NEW c \in Cpu,
         transition_state(c) \/ \E t \in Task, d \in Cpu : spawn(c, t, d)
  PROVE  [S!Next]_(S!svars)
<1>1. Owner' = Owner
  BY OwnersUntouched DEF transition_state, spawn
<1>2. ASSUME NEW t \in Task, NEW d \in Cpu, spawn(c, t, d) PROVE S!Next
  BY <1>1, <1>2 DEF spawn, S!Next, S!Spawn
<1>3. CASE transition_state(c)
  <2>1. arg[c] \in Task
    BY <1>3 DEF transition_state, IInv, PosInv, Pos
  <2>2. CASE state[arg[c]] = "Blocked"
    BY <1>1, <1>3, <2>1, <2>2 DEF transition_state, S!Next, S!Wake
  <2>3. CASE state[arg[c]] # "Blocked"
    BY <1>1, <1>3, <2>3 DEF transition_state, S!svars
  <2> QED BY <2>2, <2>3
<1> QED BY <1>2, <1>3

(* The switch to a task dispatches it; a switch to the idle task does not     *)
(* show.                                                                      *)
LEMMA SwitchRefines ==
  ASSUME IInv, IInv', NEW c \in Cpu, switch_to(c)
  PROVE  [S!Next]_(S!svars)
<1>1. PICK n \in Task \cup {None}, v \in Task \cup {None} : n = arg[c] /\ v = current[c]
  BY DEF IInv, TypeOK
<1>2. /\ n \in Task => state[n] = "Ready" /\ (n # v => ~on_cpu[n])
      /\ state' \in [Task -> State]
      /\ \A t \in Task : state'[t] = IF t = n THEN "Running" ELSE state[t]
      /\ current'[c] = n
      /\ \A t \in Task : on_cpu'[t] <=> t = n \/ on_cpu[t]
      /\ \A d \in Cpu, t \in Task : OnStack(d, t)' <=> (d = c /\ t = n) \/ OnStack(d, t)
  BY SMT, <1>1, SwitchIs
<1>3. \A t \in Task : t # n => Owner'[t] = Owner[t]
  BY <1>2, OwnerKept DEF IInv
<1>4. state \in [Task -> State]
  BY DEF IInv, TypeOK
<1>5. CASE n = None
  <2>1. UNCHANGED state
    BY SMT, <1>2, <1>4, <1>5, NoneAssumption
  <2>2. UNCHANGED Owner
    BY <1>3, <1>5, OwnersKept, NoneAssumption
  <2> QED BY <2>1, <2>2 DEF S!svars
<1>6. CASE n \in Task
  <2>1. Owner[n] \in {None, c}
    <3>1. CASE n = v
      BY <1>1, <1>6, <3>1, OwnerIs DEF IInv, OnStack
    <3>2. CASE n # v
      BY <1>2, <1>6, <3>2, OwnerIs DEF IInv
    <3> QED BY <3>1, <3>2
  <2>2. Owner'[n] = c
    <3>1. OnStack(c, n)'
      BY <1>2, <1>6
    <3> QED BY <1>6, <3>1, NextOwnerIs DEF IInv
  <2>3. Owner' = [Owner EXCEPT ![n] = c]
    BY <1>3, <1>6, <2>2, OwnersMove
  <2>4. state' = [state EXCEPT ![n] = "Running"]
    BY SMT, <1>2, <1>4, <1>6
  <2> QED BY <1>2, <1>6, <2>1, <2>3, <2>4 DEF S!Next, S!Dispatch
<1> QED BY <1>5, <1>6

(* The end of the switch publishes that the context is saved. *)
LEMMA FinishRefines ==
  ASSUME IInv, IInv', NEW c \in Cpu, finish_switch_out(c)
  PROVE  S!Next
<1>1. PICK p \in Task : p = prev[c]
  BY SMT DEF finish_switch_out, IInv, TypeOK, PosInv, Pos
<1>2. /\ ~on_cpu'[p] /\ \A t \in Task \ {p} : on_cpu'[t] = on_cpu[t]
      /\ \A d \in Cpu, t \in Task : t # p /\ OnStack(d, t) => OnStack(d, t)'
  BY <1>1, FinishIs
<1>3. state[p] # "Running"
  BY SMT, <1>1 DEF IInv, StateInv
<1>4. Owner[p] # None
  BY <1>1, OwnerIs, NoneAssumption DEF IInv, OnStack
<1>5. \A t \in Task : t # p => Owner'[t] = Owner[t]
  BY <1>2, OwnerKept DEF IInv
<1>6. Owner'[p] = None
  BY <1>2, NextOwnerIs DEF IInv
<1>7. Owner' = [Owner EXCEPT ![p] = None]
  BY <1>5, <1>6, OwnersMove
<1> QED BY <1>3, <1>4, <1>7 DEF finish_switch_out, S!Next, S!Save

(* Every step of the run queues is a step of the life cycle, or none. *)
LEMMA NextRefines ==
  ASSUME IInv, IInv', [Next]_vars
  PROVE  [S!Next]_(S!svars)
<1>0. ASSUME UNCHANGED <<state, on_cpu, current, prev>> PROVE UNCHANGED S!svars
  BY <1>0, OwnersUntouched DEF S!svars
<1>1. ASSUME NEW c \in Cpu, Request(c) PROVE [S!Next]_(S!svars)
  <2>1. CASE Block(c) \/ exit_current(c) \/ BlockUndone(c)
    BY <2>1, LeaveRefines
  <2>2. CASE Interrupt(c)
    BY <1>0, <2>2 DEF Interrupt, taskVars
  <2>3. CASE \E m \in Mask : set_current_affinity(c, m)
    BY <1>0, <2>3 DEF set_current_affinity, cpuVars
  <2>4. ASSUME NEW t \in Task, NEW d \in Cpu, spawn(c, t, d) PROVE [S!Next]_(S!svars)
    BY <2>4, ReadyRefines
  <2>5. ASSUME NEW t \in Task, NEW d \in Cpu, select_wake_run_queue(c, t, d)
        PROVE  [S!Next]_(S!svars)
    BY <1>0, <2>5 DEF select_wake_run_queue, taskVars
  <2> QED BY <1>1, <2>1, <2>2, <2>3, <2>4, <2>5 DEF Request
<1>2. ASSUME NEW c \in Cpu, Progress(c) PROVE [S!Next]_(S!svars)
  <2>1. CASE yield_current(c) \/ migrate_current(c) \/ switch_to(c) \/ finish_switch_out(c)
    BY <2>1, LeaveRefines, MigrateRefines, SwitchRefines, FinishRefines
  <2>2. CASE MigrateReturn(c)
    BY <1>0, <2>2 DEF MigrateReturn, cpuVars
  <2>3. CASE transition_state(c)
    BY <2>3, ReadyRefines
  <2>4. CASE DeferredEnqueue(c) \/ enqueue_task(c) \/ defer_wake(c) \/ DeferredCpuId(c)
    BY <1>0, <2>4 DEF DeferredEnqueue, enqueue_task, defer_wake, DeferredCpuId, taskVars
  <2>5. CASE kick_remote_cpu(c) \/ run_on_cpu(c) \/ request_current_reschedule(c)
               \/ force_kick_remote_cpu(c)
    BY <1>0, <2>5 DEF kick_remote_cpu, run_on_cpu, request_current_reschedule,
                      force_kick_remote_cpu, taskVars
  <2>6. CASE idle_wait(c) \/ PullNothing(c) \/ wait_for_irqs_disabled(c)
    BY <1>0, <2>6 DEF idle_wait, PullNothing, wait_for_irqs_disabled, taskVars
  <2>7. CASE \E d \in Cpu : migrate_entry(c, d)
    BY <1>0, <2>7 DEF migrate_entry
  <2>8. CASE \E d \in Cpu, t \in Task : pull_next_task(c, d, t)
    BY <1>0, <2>8 DEF pull_next_task, taskVars
  <2> QED BY <1>2, <2>1, <2>2, <2>3, <2>4, <2>5, <2>6, <2>7, <2>8 DEF Progress
<1>3. ASSUME NEW c \in Cpu, NEW t \in Task \cup {None}, Pick(c, t) PROVE [S!Next]_(S!svars)
  BY <1>0, <1>3 DEF Pick, resched, PullEnqueue, taskVars
<1>4. ASSUME NEW c \in Cpu, ipi_handler(c) PROVE [S!Next]_(S!svars)
  BY <1>0, <1>4 DEF ipi_handler, taskVars
<1>5. ASSUME UNCHANGED vars PROVE [S!Next]_(S!svars)
  BY <1>0, <1>5 DEF vars
<1> QED BY <1>1, <1>2, <1>3, <1>4, <1>5 DEF Next

(* The run queues and the switch-state handshake implement the life cycle of  *)
(* Scheduler, for every number of tasks and CPUs.                             *)
THEOREM RunQueueImplementsScheduler == Spec => SchedulerSpec
<1>1. Init => S!Init
  BY DEF Init, S!Init, Owner
<1>2. IInv /\ IInv' /\ [Next]_vars => [S!Next]_(S!svars)
  BY NextRefines
<1> QED BY <1>1, <1>2, RunQueueInvariant, PTL DEF Spec, SchedulerSpec, S!Spec
==============================================================================
