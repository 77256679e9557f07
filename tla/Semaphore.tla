------------------------------ MODULE Semaphore ------------------------------
(***************************************************************************)
(* System V semaphores: sys_semtimedop and sys_semctl                      *)
(* (pulse_syscalls/src/impls/ipc/sem.rs) on one set of                     *)
(* pulse_core/src/ipc/sem.rs, and exit_sem_undos.  The callers are the     *)
(* tasks of Futex, with its signals; they belong to processes.             *)
(*                                                                         *)
(* What one holder of the set's spin lock does is one step, except for its *)
(* notify_all, which other tasks can watch.  u16 and i16 have Width bits.  *)
(***************************************************************************)
EXTENDS Futex, Integers

CONSTANTS
    Process,
    ProcessOf,  \* [Task -> Process]
    Sem,        \* the semaphores of the set
    SemQueue,   \* SemSetInner::wait_queue
    Width

ASSUME SemaphoreAssumption ==
    SemQueue \in Queue \ FutexQueue /\ ProcessOf \in [Task -> Process] /\ Width \in Nat \ {0}

(* A script says what is called on the set, which has values when it starts:  *)
(* calls of semtimedop, made again and again, [task, ops, nowait, timed, own]; *)
(* calls of semctl, each once, [task, cmd, num, vals]; processes that exit.    *)
(* An operation is [num, op, undo].  Who calls with own = TRUE only gives back *)
(* what its process has taken.                                                 *)
VARIABLES
    semval,     \* [Sem -> 0..SemMax]
    semncnt, semzcnt, \* [Sem -> Nat]
    removed,    \* BOOLEAN               SemSetInner::removed
    registered, \* BOOLEAN               the set is in the SemManager
    semset,     \* Task or None          who holds the set's lock
    manager,    \* Task or None          who holds SEM_MANAGER
    undos,      \* [Process -> partial function from Sem to Int]
    spc,        \* [Task -> SemPc]
    scall,      \* [Task -> call or None]
    expired,    \* [Task -> BOOLEAN]     wait_timeout's result
    ctlmade,    \* the calls of semctl made so far
    late        \* [Task -> BOOLEAN]     history: the set changed while the task
                \*                       was between its look at it and the queue

semVars == <<semval, semncnt, semzcnt, removed, registered, semset, manager, undos,
             spc, scall, expired, ctlmade, late>>

SemMax == 2^Width - 1
IntMax == 2^(Width - 1) - 1

SemPc == {"idle", "try", "notify", "sleep", "block", "resume", "cancel", "awake",
          "ctl", "unregister", "undo", "gone"}

SemTypeOK ==
    /\ FutexTypeOK
    /\ semval \in [Sem -> 0..SemMax]
    /\ semncnt \in [Sem -> Nat] /\ semzcnt \in [Sem -> Nat]
    /\ removed \in BOOLEAN /\ registered \in BOOLEAN
    /\ semset \in Task \cup {None} /\ manager \in Task \cup {None}
    /\ \A p \in Process : /\ DOMAIN undos[p] \subseteq Sem
                          /\ \A i \in DOMAIN undos[p] : undos[p][i] \in (-IntMax - 1)..IntMax
    /\ spc \in [Task -> SemPc]
    /\ scall \in [Task -> script.sem \cup script.ctl \cup {None}]
    /\ expired \in [Task -> BOOLEAN] /\ late \in [Task -> BOOLEAN]
    /\ ctlmade \subseteq script.ctl

SemInit ==
    /\ FutexInit
    /\ semval = script.value
    /\ semncnt = [i \in Sem |-> 0] /\ semzcnt = [i \in Sem |-> 0]
    /\ removed = FALSE /\ registered = TRUE
    /\ semset = None /\ manager = None
    /\ undos = [p \in Process |-> <<>>]
    /\ spc = [t \in Task |-> "idle"] /\ scall = [t \in Task |-> None]
    /\ expired = [t \in Task |-> FALSE] /\ late = [t \in Task |-> FALSE]
    /\ ctlmade = {}
------------------------------------------------------------------------------
(* check_ops and apply_ops.                                                   *)

Least(x, y) == IF x <= y THEN x ELSE y
Most(x, y) == IF x >= y THEN x ELSE y

(* Saturating arithmetic of u16, and of i16. *)
Unsigned(x) == Least(x, SemMax)
Signed(x) == Most(Least(x, IntMax), -IntMax - 1)

(* `as i16` and `as u16`. *)
AsSigned(x) == IF x > IntMax THEN x - SemMax - 1 ELSE x
AsUnsigned(x) == x % (SemMax + 1)

apply_ops(vals, ops) ==
    LET add(v, o) == [v EXCEPT ![o.num] = IF o.op > 0 THEN Unsigned(@ + o.op)
                                                   ELSE AsUnsigned(@ + o.op)]
        after[n \in 0..Len(ops)] == IF n = 0 THEN vals ELSE add(after[n - 1], ops[n])
    IN  after[Len(ops)]

Allows(v, o) == IF o.op = 0 THEN v[o.num] = 0 ELSE v[o.num] + o.op >= 0

(* A faulty check, of each operation by itself. *)
CheckEachAlone(vals, ops) == \A i \in DOMAIN ops : Allows(vals, ops[i])

(* Each operation sees the ones before it. *)
check_ops(vals, ops) ==
    \A i \in DOMAIN ops : Allows(apply_ops(vals, SubSeq(ops, 1, i - 1)), ops[i])

(* The undo entries of the process after a call with SEM_UNDO operations. *)
RecordUndo(u, ops) ==
    LET record(v, o) ==
            IF ~o.undo THEN v
            ELSE IF o.num \in DOMAIN v THEN [v EXCEPT ![o.num] = Signed(@ - o.op)]
            ELSE [i \in DOMAIN v \cup {o.num} |-> IF i = o.num THEN -o.op ELSE v[i]]
        after[n \in 0..Len(ops)] == IF n = 0 THEN u ELSE record(after[n - 1], ops[n])
    IN  after[Len(ops)]
------------------------------------------------------------------------------
(* sys_semtimedop.                                                            *)

SemAt(t, l) == Executing(t) /\ spc[t] = l

SemGoto(t, l) == spc' = [spc EXCEPT ![t] = l]

InUser(t) == At(t, "idle") /\ remove[t] = <<>> /\ SemAt(t, "idle")

(* What a semaphore step leaves alone of the process. *)
FutexRest == UNCHANGED <<script, word, exiting, signal, table, wcall, fq, wakeVars, removeVars>>

SemReturn(t) ==
    /\ SemGoto(t, "idle") /\ Goto(t, "idle")
    /\ scall' = [scall EXCEPT ![t] = None]

(* Those who have looked at the set and are not yet in the queue. *)
Changed == late' = [t \in Task |-> late[t] \/ spc[t] \in {"sleep", "block"}]

sys_semtimedop(t, c) ==
    LET u == undos[ProcessOf[t]]
    IN  /\ InUser(t) /\ c.task = t /\ ~HasSignal(t)
        /\ c.own => \A i \in DOMAIN c.ops : c.ops[i].op > 0 =>
                        c.ops[i].num \in DOMAIN u /\ u[c.ops[i].num] >= c.ops[i].op
        /\ manager = None /\ registered
        /\ scall' = [scall EXCEPT ![t] = c]
        /\ SemGoto(t, "try") /\ Goto(t, "elsewhere")
        /\ FutexRest
        /\ UNCHANGED <<wqVars, semval, semncnt, semzcnt, removed, registered, semset, manager>>
        /\ UNCHANGED <<undos, expired, ctlmade, late>>

(* One round of the loop: the set was removed, ... *)
SemRemoved(t) ==
    /\ SemAt(t, "try") /\ semset = None /\ removed
    /\ SemReturn(t)
    /\ FutexRest
    /\ UNCHANGED <<wqVars, semval, semncnt, semzcnt, removed, registered, semset, manager>>
    /\ UNCHANGED <<undos, expired, ctlmade, late>>

(* ... the operations succeed, ... *)
SemApply(t) ==
    LET ops == scall[t].ops
    IN  /\ SemAt(t, "try") /\ semset = None /\ ~removed
        /\ check_ops(semval, ops)
        /\ semval' = apply_ops(semval, ops)
        /\ undos' = [undos EXCEPT ![ProcessOf[t]] = RecordUndo(@, ops)]
        /\ semset' = t
        /\ SemGoto(t, "notify") /\ Changed
        /\ FutexRest /\ UNCHANGED <<wqVars, fpc>>
        /\ UNCHANGED <<semncnt, semzcnt, removed, registered, manager, scall, expired, ctlmade>>

(* ... they would block but IPC_NOWAIT or the deadline forbids it, ... *)
SemAgain(t) ==
    /\ SemAt(t, "try") /\ semset = None /\ ~removed
    /\ ~check_ops(semval, scall[t].ops) /\ (scall[t].nowait \/ scall[t].timed)
    /\ SemReturn(t)
    /\ FutexRest
    /\ UNCHANGED <<wqVars, semval, semncnt, semzcnt, removed, registered, semset, manager>>
    /\ UNCHANGED <<undos, expired, ctlmade, late>>

(* How often the call's operations count the caller at semaphore i. *)
Counted(c, i, zero) ==
    Cardinality({j \in DOMAIN c.ops : c.ops[j].num = i /\ (c.ops[j].op = 0) = zero})

(* ... or the caller is counted, lets go of the set and goes to sleep. *)
SemBlocks(t) ==
    LET c == scall[t]
    IN  /\ SemAt(t, "try") /\ semset = None /\ ~removed
        /\ ~check_ops(semval, c.ops) /\ ~c.nowait
        /\ semncnt' = [i \in Sem |-> semncnt[i] + Counted(c, i, FALSE)]
        /\ semzcnt' = [i \in Sem |-> semzcnt[i] + Counted(c, i, TRUE)]
        /\ SemGoto(t, "sleep") /\ late' = [late EXCEPT ![t] = FALSE]
        /\ FutexRest /\ UNCHANGED <<wqVars, fpc>>
        /\ UNCHANGED <<semval, removed, registered, semset, manager, undos, scall, expired>>
        /\ UNCHANGED ctlmade

(* WaitQueue::wait and wait_timeout. *)
SemLockQueue(t) ==
    /\ SemAt(t, "sleep")
    /\ LockQueue(t, SemQueue)
    /\ SemGoto(t, "block")
    /\ FutexRest
    /\ UNCHANGED <<state, in_wait_queue, queue, notifyVars, fpc>>
    /\ UNCHANGED <<semval, semncnt, semzcnt, removed, registered, semset, manager>>
    /\ UNCHANGED <<undos, scall, expired, ctlmade, late>>

SemSleep(t) ==
    /\ SemAt(t, "block")
    /\ blocked_resched(t, SemQueue)
    /\ SemGoto(t, "resume")
    /\ FutexRest /\ UNCHANGED fpc
    /\ UNCHANGED <<semval, semncnt, semzcnt, removed, registered, semset, manager>>
    /\ UNCHANGED <<undos, scall, expired, ctlmade, late>>

SemResume(t) ==
    /\ SemAt(t, "resume") /\ wq_lock[SemQueue] = None
    /\ expired' = [expired EXCEPT ![t] = scall[t].timed /\ t \in Entries(SemQueue)]
    /\ SemGoto(t, "cancel")
    /\ FutexRest /\ UNCHANGED <<wqVars, fpc>>
    /\ UNCHANGED <<semval, semncnt, semzcnt, removed, registered, semset, manager>>
    /\ UNCHANGED <<undos, scall, ctlmade, late>>

SemCancel(t) ==
    /\ SemAt(t, "cancel")
    /\ cancel_events(t, SemQueue)
    /\ SemGoto(t, "awake")
    /\ FutexRest /\ UNCHANGED fpc
    /\ UNCHANGED <<semval, semncnt, semzcnt, removed, registered, semset, manager>>
    /\ UNCHANGED <<undos, scall, expired, ctlmade, late>>

(* A faulty wake-up, which leaves a removed set as it is. *)
AwakeStaysCounted(t) ==
    LET c    == scall[t]
        less(n, i, zero) == IF removed THEN n ELSE n - Counted(c, i, zero)
    IN  /\ SemAt(t, "awake") /\ semset = None
        /\ semncnt' = [i \in Sem |-> less(semncnt[i], i, FALSE)]
        /\ semzcnt' = [i \in Sem |-> less(semzcnt[i], i, TRUE)]
        /\ IF removed \/ HasSignal(t) \/ expired[t]
           THEN SemReturn(t) ELSE SemGoto(t, "try") /\ UNCHANGED <<fpc, scall>>
        /\ FutexRest /\ UNCHANGED wqVars
        /\ UNCHANGED <<semval, removed, registered, semset, manager, undos, expired, ctlmade>>
        /\ UNCHANGED late

(* Awake: the caller is no longer counted; it leaves or tries again. *)
SemAwake(t) ==
    LET c == scall[t]
    IN  /\ SemAt(t, "awake") /\ semset = None
        /\ semncnt' = [i \in Sem |-> Most(semncnt[i] - Counted(c, i, FALSE), 0)]
        /\ semzcnt' = [i \in Sem |-> Most(semzcnt[i] - Counted(c, i, TRUE), 0)]
        /\ IF removed \/ HasSignal(t) \/ expired[t]
           THEN SemReturn(t) ELSE SemGoto(t, "try") /\ UNCHANGED <<fpc, scall>>
        /\ FutexRest /\ UNCHANGED wqVars
        /\ UNCHANGED <<semval, removed, registered, semset, manager, undos, expired, ctlmade>>
        /\ UNCHANGED late

SemExpire(t) ==
    /\ scall[t] # None /\ spc[t] = "resume" /\ scall[t].timed
    /\ interrupt_task(t)
    /\ UNCHANGED <<script, futexVars, semVars>>
------------------------------------------------------------------------------
(* notify_all under the set's lock, for all callers that change the set.      *)

SemNotify(t) ==
    /\ semset = t
    /\ notify_all(t, SemQueue)
    /\ UNCHANGED <<script, futexVars, semVars>>

SemNotifyInside(t) ==
    /\ semset = t
    /\ NotifyStep(t)
    /\ UNCHANGED <<script, futexVars, semVars>>

(* The lock is released.  semtimedop and semctl return, IPC_RMID has the set  *)
(* still to take out of the SemManager, an exit goes on to its next entry.    *)
SemNotified(t) ==
    /\ semset = t /\ npc[t] = "woke"
    /\ NotifyReturn(t)
    /\ semset' = None
    /\ IF spc[t] = "undo" \/ (spc[t] = "ctl" /\ scall[t].cmd = "IPC_RMID")
       THEN /\ SemGoto(t, IF spc[t] = "ctl" THEN "unregister" ELSE "undo")
            /\ UNCHANGED <<fpc, scall>>
       ELSE SemReturn(t)
    /\ FutexRest
    /\ UNCHANGED <<semval, semncnt, semzcnt, removed, registered, manager, undos, expired>>
    /\ UNCHANGED <<ctlmade, late>>
------------------------------------------------------------------------------
(* sys_semctl: SETVAL, SETALL and IPC_RMID.                                  *)

sys_semctl(t, c) ==
    /\ InUser(t) /\ c.task = t /\ c \notin ctlmade
    /\ manager = None /\ registered
    /\ ctlmade' = ctlmade \cup {c}
    /\ scall' = [scall EXCEPT ![t] = c]
    /\ SemGoto(t, "ctl") /\ Goto(t, "elsewhere")
    /\ FutexRest
    /\ UNCHANGED <<wqVars, semval, semncnt, semzcnt, removed, registered, semset, manager>>
    /\ UNCHANGED <<undos, expired, late>>

SETVAL(c) == [semval EXCEPT ![c.num] = c.vals[c.num]]
SETALL(c) == c.vals

SemControl(t) ==
    LET c == scall[t]
    IN  /\ SemAt(t, "ctl") /\ semset = None
        /\ IF removed
           THEN SemReturn(t) /\ UNCHANGED <<semval, removed, semset, late>>
           ELSE /\ semval' = CASE c.cmd = "SETVAL" -> SETVAL(c)
                               [] c.cmd = "SETALL" -> SETALL(c)
                               [] OTHER            -> semval
                /\ removed' = (c.cmd = "IPC_RMID")
                /\ semset' = t
                /\ Changed
                /\ UNCHANGED <<spc, fpc, scall>>
        /\ FutexRest /\ UNCHANGED wqVars
        /\ UNCHANGED <<semncnt, semzcnt, registered, manager, undos, expired, ctlmade>>

remove_semid(t) ==
    /\ SemAt(t, "unregister") /\ manager = None
    /\ registered' = FALSE
    /\ SemReturn(t)
    /\ FutexRest
    /\ UNCHANGED <<wqVars, semval, semncnt, semzcnt, removed, semset, manager, undos, expired>>
    /\ UNCHANGED <<ctlmade, late>>
------------------------------------------------------------------------------
(* exit_sem_undos, called when the last thread of a process exits.            *)

ReleaseUserResources(t) ==
    /\ InUser(t) /\ ProcessOf[t] \in script.exit
    /\ \A o \in Task \ {t} : ProcessOf[o] = ProcessOf[t] => spc[o] = "gone"
    /\ manager = None
    /\ manager' = t
    /\ SemGoto(t, "undo") /\ Goto(t, "elsewhere")
    /\ FutexRest
    /\ UNCHANGED <<wqVars, semval, semncnt, semzcnt, removed, registered, semset, undos, scall>>
    /\ UNCHANGED <<expired, ctlmade, late>>

Without(u, i) == [j \in DOMAIN u \ {i} |-> u[j]]

(* A faulty exit, which tells nobody. *)
UndoSilently(t, i) ==
    LET p == ProcessOf[t]
    IN  /\ SemAt(t, "undo") /\ semset = None /\ i \in DOMAIN undos[p]
        /\ undos' = [undos EXCEPT ![p] = Without(@, i)]
        /\ semval' = [semval EXCEPT ![i] = IF registered
                                          THEN AsUnsigned(Signed(AsSigned(@) + undos[p][i])) ELSE @]
        /\ Changed
        /\ FutexRest /\ UNCHANGED <<wqVars, fpc>>
        /\ UNCHANGED <<semncnt, semzcnt, removed, registered, semset, manager, spc, scall>>
        /\ UNCHANGED <<expired, ctlmade>>

(* One entry: the value is changed and everybody is notified, if the set is   *)
(* still registered.                                                          *)
exit_sem_undos(t, i) ==
    LET p == ProcessOf[t]
    IN  /\ SemAt(t, "undo") /\ semset = None /\ i \in DOMAIN undos[p]
        /\ undos' = [undos EXCEPT ![p] = Without(@, i)]
        /\ IF registered
           THEN /\ semval' = [semval EXCEPT ![i] = AsUnsigned(Signed(AsSigned(@) + undos[p][i]))]
                /\ semset' = t
                /\ Changed
           ELSE UNCHANGED <<semval, semset, late>>
        /\ FutexRest /\ UNCHANGED <<wqVars, fpc>>
        /\ UNCHANGED <<semncnt, semzcnt, removed, registered, manager, spc, scall, expired>>
        /\ UNCHANGED ctlmade

ProcessGone(t) ==
    /\ SemAt(t, "undo") /\ semset = None /\ DOMAIN undos[ProcessOf[t]] = {}
    /\ manager' = None
    /\ SemGoto(t, "gone")
    /\ FutexRest /\ UNCHANGED <<wqVars, fpc>>
    /\ UNCHANGED <<semval, semncnt, semzcnt, removed, registered, semset, undos, scall>>
    /\ UNCHANGED <<expired, ctlmade, late>>
------------------------------------------------------------------------------
SemOperation(t) ==
    \/ \E c \in script.sem : sys_semtimedop(t, c)
    \/ SemRemoved(t) \/ SemApply(t) \/ SemAgain(t) \/ SemBlocks(t)
    \/ SemLockQueue(t) \/ SemSleep(t) \/ SemResume(t) \/ SemCancel(t) \/ SemAwake(t)
    \/ SemExpire(t)

SemChange(t) ==
    \/ SemNotify(t) \/ SemNotifyInside(t) \/ SemNotified(t)
    \/ \E c \in script.ctl : sys_semctl(t, c)
    \/ SemControl(t) \/ remove_semid(t)
    \/ ReleaseUserResources(t) \/ ProcessGone(t)
    \/ \E i \in Sem : exit_sem_undos(t, i)

SemNext == \E t \in Task : SemOperation(t) \/ SemChange(t)
------------------------------------------------------------------------------
(* Tokens are neither lost nor made: if all operations carry SEM_UNDO, and     *)
(* everybody gives back only what it took, a semaphore's value and what exits  *)
(* would still add to it make up the value it started with.                    *)
TokensConserved ==
    LET owed(p, i) == IF i \in DOMAIN undos[p] THEN undos[p][i] ELSE 0
        disciplined == /\ \A c \in script.sem : c.own /\ \A j \in DOMAIN c.ops : c.ops[j].undo
                       /\ \A c \in script.ctl : c.cmd = "IPC_RMID"
    IN  disciplined /\ registered =>
            \A i \in Sem : semval[i] + SumFunction([p \in Process |-> owed(p, i)]) = script.value[i]

(* GETNCNT and GETZCNT are exact: who is counted is in semtimedop between      *)
(* going to sleep and coming back, and on no other way out.                    *)
SemWaitersCounted ==
    LET counting == {t \in Task : spc[t] \in {"sleep", "block", "resume", "cancel", "awake"}}
    IN  \A i \in Sem :
            /\ semncnt[i] = SumFunction([t \in counting |-> Counted(scall[t], i, FALSE)])
            /\ semzcnt[i] = SumFunction([t \in counting |-> Counted(scall[t], i, TRUE)])

(* Whoever was in the queue when the set changed is woken: once the set is     *)
(* unlocked nobody sleeps whose operations could succeed, or whose set is      *)
(* gone, unless the change fell between its look and the queue.                *)
NoLostSemWake ==
    \A t \in Task :
        spc[t] = "resume" /\ state[t] = "Blocked" /\ ~late[t] /\ semset = None
            => ~removed /\ ~check_ops(semval, scall[t].ops)

(* Nobody sleeps whose operations could succeed while nothing happens to the   *)
(* set.                                                                        *)
SemSleeperWaits ==
    \A t \in Task :
        spc[t] = "resume" /\ state[t] = "Blocked" /\ semset = None
            => ~removed /\ ~check_ops(semval, scall[t].ops)
==============================================================================
