----------------------------- MODULE MutexProofs -----------------------------
(***************************************************************************)
(* Proofs about Mutex for every set of tasks, every Agent and Queue around *)
(* them and every bound on signals: the inductive invariant IInv holds, and*)
(* with it mutual exclusion, SleeperIsQueued and NoLostWakeup.             *)
(***************************************************************************)
EXTENDS Mutex, WaitQueueProofs

USE ZenonT(60)

(* The lock of wq is held exactly by the task between test and enqueue, or *)
(* by the task inside notify_one's loop.                                   *)
LockInv ==
    \A t \in Task :
        wq_lock[wq] = t <=> pc[t] = "enqueue" \/ npc[t] \in {"pop", "consume", "stale"}

(* Tasks notify only in unlock, only one waiter, and only through wq. *)
NotifyInv ==
    \A t \in Task :
        /\ npc[t] \notin {"each", "clear_all", "cas_all", "skip"}
        /\ npc[t] # "none" <=> pc[t] = "notified"
        /\ npc[t] # "none" => nq[t] = wq
        /\ npc[t] \in {"consume", "stale", "clear_one", "cas_one"} =>
               \E s \in Task : hand[t] = <<s>>

(* A task sleeps nowhere but in lock's wait_until. *)
BlockedInv == \A t \in Task : state[t] = "Blocked" => pc[t] = "until"

(* Only a task inside wait_until has entries in the queue. *)
EntriesInv ==
    \A t \in Task : t \in Entries(wq) => pc[t] \in {"until", "enqueue", "cancel"}

(* A task that saw the mutex locked and is about to enqueue itself will be *)
(* in the queue before the unlock it may have missed looks at it.          *)
EnqueueInv ==
    \A t \in Task : pc[t] = "enqueue" => is_locked \/ \E u \in Task : pc[u] = "notify"

(* The task whose entry notify_one examines and found not to be Blocked     *)
(* cannot leave wait_until, nor fall asleep, before notify_one is done.     *)
ExaminedInv ==
    \A a, t \in Task :
        npc[a] \in {"consume", "stale"} /\ hand[a] = <<t>> =>
            pc[t] \in {"until", "cancel"} /\ state[t] # "Blocked"

IInv ==
    /\ TypeOK
    /\ MutualExclusion
    /\ LockInv
    /\ NotifyInv
    /\ BlockedInv
    /\ EntriesInv
    /\ EnqueueInv
    /\ ExaminedInv
    /\ SleeperIsQueued
    /\ NoLostWakeup

(* IInv holds initially: nobody waits, holds or notifies. *)
LEMMA InitIInv == Init => IInv
<1> SUFFICES ASSUME Init PROVE IInv
  OBVIOUS
<1> USE TaskIsAgent, NoneIsNoAgent, WqIsQueue DEF Init, WQInit
<1>1. TypeOK
  BY SMT DEF TypeOK, WQTypeOK, TaskState, NotifyPc, Pc
<1>2. MutualExclusion /\ LockInv /\ NotifyInv /\ BlockedInv
  BY DEF MutualExclusion, LockInv, NotifyInv, BlockedInv
<1>3. EntriesInv
  BY SMT DEF EntriesInv, Entries, Elems
<1>4. EnqueueInv /\ ExaminedInv
  BY DEF EnqueueInv, ExaminedInv
<1>5. SleeperIsQueued /\ NoLostWakeup
  BY DEF SleeperIsQueued, NoLostWakeup, Asleep
<1> QED BY <1>1, <1>2, <1>3, <1>4, <1>5 DEF IInv

(* The steps of lock, try_lock and unlock that leave the queue alone. *)
LEMMA OwnerStep ==
  ASSUME IInv, NEW t \in Task, lock(t) \/ LockCas(t) \/ try_lock(t) \/ unlock(t)
  PROVE  IInv'
<1> USE TaskIsAgent, NoneIsNoAgent, WqIsQueue
        DEF IInv, lock, LockCas, try_lock, unlock, wqVars, Goto, Executing, is_locked
<1>1. TypeOK'
  BY DEF TypeOK, WQTypeOK, Pc
<1>2. pc[t] \in Pc /\ pc \in [Task -> Pc] /\ npc \in [Agent -> NotifyPc]
  BY DEF TypeOK, WQTypeOK
<1>3. MutualExclusion'
  BY <1>2 DEF MutualExclusion
<1>4. LockInv' /\ NotifyInv' /\ BlockedInv'
  BY SMT, <1>2 DEF LockInv, NotifyInv, BlockedInv
<1>5. Entries(wq)' = Entries(wq)
  BY DEF Entries
<1>6. EntriesInv'
  BY <1>2, <1>5 DEF EntriesInv
<1>7. EnqueueInv'
  BY <1>2 DEF EnqueueInv, MutualExclusion
<1>8. ExaminedInv'
  BY <1>2 DEF ExaminedInv
<1>9. SleeperIsQueued'
  <2>1. ASSUME NEW s \in Task PROVE Asleep(s)' => Asleep(s)
    BY <1>2 DEF Asleep
  <2> QED BY <1>5, <2>1 DEF SleeperIsQueued
<1>10. NoLostWakeup'
  BY SMT, <1>2 DEF NoLostWakeup, Asleep, Awake, Waiting, BlockedInv, NotifyInv
<1> QED BY <1>1, <1>3, <1>4, <1>6, <1>7, <1>8, <1>9, <1>10

(* wait_until's test, and entering and leaving notify_one in unlock: the   *)
(* queue is unchanged, its lock or the progress of the call is not.        *)
LEMMA LockStep ==
  ASSUME IInv, NEW t \in Task, WaitUntilTest(t) \/ UnlockNotify(t) \/ UnlockReturn(t)
  PROVE  IInv'
<1> USE TaskIsAgent, NoneIsNoAgent, WqIsQueue
        DEF IInv, WaitUntilTest, UnlockNotify, UnlockReturn, notify_one, NotifyReturn,
            LockQueue, Goto, Executing, is_locked
<1>1. TypeOK'
  <2>1. CASE WaitUntilTest(t)
    BY <2>1 DEF TypeOK, WQTypeOK, Pc
  <2>2. CASE UnlockNotify(t)
    BY <2>2 DEF TypeOK, WQTypeOK, Pc, NotifyPc
  <2>3. CASE UnlockReturn(t)
    BY <2>3 DEF TypeOK, WQTypeOK, Pc, NotifyPc
  <2> QED BY <2>1, <2>2, <2>3
<1>2. /\ pc \in [Task -> Pc] /\ npc \in [Agent -> NotifyPc] /\ t \in Agent
      /\ wq_lock \in [Queue -> Agent \cup {None}] /\ nq \in [Agent -> Queue]
  BY DEF TypeOK, WQTypeOK
<1>3. MutualExclusion' /\ BlockedInv'
  BY <1>2 DEF MutualExclusion, BlockedInv
<1>4. LockInv'
  BY SMT, <1>2 DEF LockInv, NotifyInv
<1>5. NotifyInv'
  BY SMT, <1>2 DEF NotifyInv
<1>6. Entries(wq)' = Entries(wq)
  BY DEF Entries
<1>7. EntriesInv'
  BY <1>2, <1>6 DEF EntriesInv
<1>8. EnqueueInv'
  BY SMT, <1>2 DEF EnqueueInv, LockInv
<1>9. ExaminedInv'
  BY SMT, <1>2 DEF ExaminedInv, LockInv
<1>10. SleeperIsQueued'
  <2>1. ASSUME NEW s \in Task PROVE Asleep(s)' => Asleep(s)
    BY <1>2 DEF Asleep
  <2> QED BY <1>2, <1>6, <2>1 DEF SleeperIsQueued
<1>11. NoLostWakeup'
  BY SMT, <1>2 DEF NoLostWakeup, Asleep, Awake, Waiting, BlockedInv, NotifyInv
<1> QED BY <1>1, <1>3, <1>4, <1>5, <1>7, <1>8, <1>9, <1>10, <1>11

(* blocked_resched in wait_until: the task goes to sleep in the queue.  If *)
(* the mutex has been released since the test, EnqueueInv names the unlock *)
(* that will find it.                                                      *)
LEMMA BlockStep ==
  ASSUME IInv, NEW t \in Task, WaitUntilBlock(t)
  PROVE  IInv'
<1> USE TaskIsAgent, NoneIsNoAgent, WqIsQueue
        DEF IInv, WaitUntilBlock, blocked_resched, notifyVars, UnlockQueue, Goto,
            Executing, is_locked
<1>1. /\ pc \in [Task -> Pc] /\ npc \in [Agent -> NotifyPc] /\ t \in Agent
      /\ wq_lock \in [Queue -> Agent \cup {None}] /\ state \in [Task -> TaskState]
      /\ queue \in [Queue -> Seq(Task)]
  BY DEF TypeOK, WQTypeOK
<1>2. /\ queue'[wq] \in Seq(Task)
      /\ Entries(wq)' = Entries(wq) \cup {t}
  BY SMT, <1>1, AppendElems DEF Entries
<1>3. TypeOK'
  BY <1>2 DEF TypeOK, WQTypeOK, Pc, TaskState
<1>4. MutualExclusion' /\ BlockedInv' /\ LockInv' /\ NotifyInv'
  BY SMT, <1>1 DEF MutualExclusion, BlockedInv, LockInv, NotifyInv
<1>5. EntriesInv'
  BY <1>1, <1>2 DEF EntriesInv
<1>6. EnqueueInv'
  BY <1>1 DEF EnqueueInv, LockInv
<1>7. ExaminedInv'
  BY <1>1 DEF ExaminedInv
<1>8. SleeperIsQueued'
  <2>1. ASSUME NEW s \in Task, s # t PROVE Asleep(s)' => Asleep(s)
    BY <1>1, <2>1 DEF Asleep
  <2> QED BY <1>1, <1>2, <2>1 DEF SleeperIsQueued
<1>9. NoLostWakeup'
  BY <1>1 DEF NoLostWakeup, EnqueueInv, Awake
<1> QED BY <1>3, <1>4, <1>5, <1>6, <1>7, <1>8, <1>9

(* cancel_events removes the entries of a task that is awake, and no other. *)
LEMMA CancelStep ==
  ASSUME IInv, NEW t \in Task, WaitUntilCancel(t)
  PROVE  IInv'
<1> USE TaskIsAgent, NoneIsNoAgent, WqIsQueue
        DEF IInv, WaitUntilCancel, cancel_events, notifyVars, Goto, Executing, is_locked
<1>1. /\ pc \in [Task -> Pc] /\ npc \in [Agent -> NotifyPc] /\ t \in Agent
      /\ wq_lock \in [Queue -> Agent \cup {None}] /\ state \in [Task -> TaskState]
      /\ queue \in [Queue -> Seq(Task)]
  BY DEF TypeOK, WQTypeOK
<1>2. /\ queue'[wq] \in Seq(Task)
      /\ Entries(wq)' = Entries(wq) \ {t}
  BY SMT, <1>1, RetainElems DEF Entries
<1>3. TypeOK'
  BY <1>2 DEF TypeOK, WQTypeOK, Pc
<1>4. MutualExclusion' /\ BlockedInv' /\ LockInv' /\ NotifyInv'
  BY SMT, <1>1 DEF MutualExclusion, BlockedInv, LockInv, NotifyInv
<1>5. EntriesInv'
  BY <1>1, <1>2 DEF EntriesInv
<1>6. EnqueueInv'
  BY <1>1 DEF EnqueueInv
<1>7. ExaminedInv'
  BY <1>1 DEF ExaminedInv, LockInv
<1>8. SleeperIsQueued'
  <2>1. ASSUME NEW s \in Task PROVE Asleep(s)' => Asleep(s) /\ s # t
    BY <1>1 DEF Asleep
  <2> QED BY <1>1, <1>2, <2>1 DEF SleeperIsQueued
<1>9. NoLostWakeup'
  BY <1>1 DEF NoLostWakeup, Asleep, Awake, Waiting
<1> QED BY <1>3, <1>4, <1>5, <1>6, <1>7, <1>8, <1>9

(* Dispatch, preemption and signals change who runs, never who is queued. *)
LEMMA ScheduleStep ==
  ASSUME IInv, NEW t \in Task, Schedule(t)
  PROVE  IInv'
<1> USE TaskIsAgent, NoneIsNoAgent, WqIsQueue
        DEF IInv, Schedule, Dispatch, Preempt, interrupt_task, notifyVars, is_locked
<1>1. /\ pc \in [Task -> Pc] /\ npc \in [Agent -> NotifyPc]
      /\ state \in [Task -> TaskState]
  BY DEF TypeOK, WQTypeOK
<1>2. TypeOK'
  BY DEF TypeOK, WQTypeOK, TaskState
<1>3. MutualExclusion' /\ BlockedInv' /\ LockInv' /\ NotifyInv' /\ EnqueueInv'
  BY SMT, <1>1 DEF MutualExclusion, BlockedInv, LockInv, NotifyInv, EnqueueInv
<1>4. Entries(wq)' = Entries(wq)
  BY DEF Entries
<1>5. EntriesInv'
  BY <1>4 DEF EntriesInv
<1>6. ExaminedInv'
  BY <1>1 DEF ExaminedInv
<1>7. ASSUME NEW s \in Task PROVE Asleep(s)' => Asleep(s)
  BY <1>1 DEF Asleep
<1>8. SleeperIsQueued'
  BY <1>4, <1>7 DEF SleeperIsQueued
<1>9. NoLostWakeup'
  <2>1. ASSUME NEW s \in Task, s # t PROVE Asleep(s) = Asleep(s)'
    BY <1>1, <2>1 DEF Asleep
  <2>2. Asleep(t) => Awake(t)' \/ Asleep(t)'
    BY <1>1 DEF Asleep, Awake, Waiting
  <2>3. ASSUME NEW s \in Task, Awake(s) PROVE Awake(s)' \/ Awake(t)'
    <3>1. CASE pc[s] \in Waiting /\ state[s] # "Blocked"
      BY <1>1, <3>1 DEF Awake
    <3>2. CASE pc[s] = "notify" \/ npc[s] \in {"pop", "consume", "stale"}
      BY <1>1, <3>2 DEF Awake
    <3>3. CASE npc[s] \in {"clear_one", "cas_one"} /\ Asleep(Head(hand[s]))
      <4>1. PICK u \in Task : hand[s] = <<u>>
        BY <3>3 DEF NotifyInv
      <4>2. Head(hand[s]) = u /\ hand'[s] = hand[s] /\ npc'[s] = npc[s]
        BY SMT, <4>1
      <4>3. CASE u = t
        BY <4>2, <4>3, <3>3, <2>2 DEF Awake
      <4>4. CASE u # t
        BY <4>2, <4>4, <3>3, <2>1 DEF Awake
      <4> QED BY <4>3, <4>4
    <3> QED BY <2>3, <3>1, <3>2, <3>3 DEF Awake
  <2> QED BY <1>7, <2>3 DEF NoLostWakeup
<1> QED BY <1>2, <1>3, <1>5, <1>6, <1>8, <1>9

(* notify_one returns false.  The queue is empty, so a sleeping task is in *)
(* the hand of another unlock, which is about to unblock it.               *)
LEMMA EmptyStep ==
  ASSUME IInv, NEW a \in Task, NotifyOneEmpty(a), UNCHANGED <<owner_id, pc>>
  PROVE  IInv'
<1> USE TaskIsAgent, NoneIsNoAgent, WqIsQueue
        DEF IInv, NotifyOneEmpty, UnlockQueue, is_locked
<1>1. /\ pc \in [Task -> Pc] /\ npc \in [Agent -> NotifyPc] /\ a \in Agent
      /\ wq_lock \in [Queue -> Agent \cup {None}] /\ nq[a] = wq
  BY DEF TypeOK, WQTypeOK, NotifyInv
<1>2. TypeOK'
  BY DEF TypeOK, WQTypeOK, NotifyPc
<1>3. MutualExclusion' /\ BlockedInv' /\ LockInv' /\ NotifyInv' /\ EnqueueInv'
  BY SMT, <1>1 DEF MutualExclusion, BlockedInv, LockInv, NotifyInv, EnqueueInv
<1>4. Entries(wq)' = Entries(wq)
  BY DEF Entries
<1>5. EntriesInv' /\ ExaminedInv'
  BY <1>1, <1>4 DEF EntriesInv, ExaminedInv
<1>6. ASSUME NEW s PROVE Asleep(s)' = Asleep(s)
  BY DEF Asleep
<1>7. SleeperIsQueued'
  BY <1>1, <1>4, <1>6 DEF SleeperIsQueued
<1>8. NoLostWakeup'
  <2> SUFFICES ASSUME NEW s \in Task, Asleep(s)
               PROVE  \E u \in Task : Awake(u)'
    BY <1>6 DEF NoLostWakeup
  <2>1. s \notin Entries(wq)
    BY SMT, <1>1 DEF Entries, Elems
  <2>2. PICK u \in Task : npc[u] \in {"clear_one", "cas_one"} /\ hand[u] = <<s>>
    BY <2>1 DEF SleeperIsQueued
  <2>3. u # a /\ npc'[u] = npc[u] /\ Head(hand'[u]) = s
    BY SMT, <1>1, <2>2
  <2> QED BY <2>2, <2>3, <1>6 DEF Awake
<1> QED BY <1>2, <1>3, <1>5, <1>7, <1>8

(* One iteration of notify_one's loop takes the front entry into the hand. *)
LEMMA PopStep ==
  ASSUME IInv, NEW a \in Task, NotifyOnePop(a), UNCHANGED <<owner_id, pc>>
  PROVE  IInv'
<1> USE TaskIsAgent, NoneIsNoAgent, WqIsQueue DEF IInv, is_locked
<1> DEFINE t == Head(queue[wq])
<1>1. /\ pc \in [Task -> Pc] /\ npc \in [Agent -> NotifyPc] /\ a \in Agent
      /\ wq_lock \in [Queue -> Agent \cup {None}] /\ nq[a] = wq
      /\ queue \in [Queue -> Seq(Task)] /\ state \in [Task -> TaskState]
      /\ hand \in [Agent -> Seq(Task)] /\ npc[a] = "pop" /\ queue[wq] # <<>>
      /\ wq_lock[wq] = a /\ pc[a] = "notified"
  BY DEF TypeOK, WQTypeOK, NotifyInv, LockInv, NotifyOnePop
<1>2. /\ t \in Task /\ Tail(queue[wq]) \in Seq(Task)
      /\ Entries(wq) = Elems(Tail(queue[wq])) \cup {t}
  BY <1>1, HeadTailElems DEF Entries
<1> HIDE DEF t
<1>3. /\ queue' = [queue EXCEPT ![wq] = Tail(@)]
      /\ hand' = [hand EXCEPT ![a] = <<t>>]
      /\ npc' = [npc EXCEPT ![a] = CASE state[t] = "Blocked" -> "clear_one"
                                     [] state[t] = "Running" -> "consume"
                                     [] OTHER                -> "stale"]
      /\ wq_lock' = IF state[t] = "Blocked"
                    THEN [wq_lock EXCEPT ![wq] = None] ELSE wq_lock
      /\ UNCHANGED <<state, in_wait_queue, nq, owner_id, pc>>
  BY <1>1 DEF NotifyOnePop, t
<1>4. Entries(wq) = Entries(wq)' \cup {t}
  BY <1>1, <1>2, <1>3 DEF Entries
<1>5. \/ state[t] = "Blocked" /\ npc'[a] = "clear_one" /\ wq_lock'[wq] = None
      \/ state[t] # "Blocked" /\ npc'[a] \in {"consume", "stale"} /\ wq_lock'[wq] = a
  BY <1>1, <1>3
<1>6. TypeOK'
  <2>1. hand' \in [Agent -> Seq(Task)] /\ queue' \in [Queue -> Seq(Task)]
    BY SMT, <1>1, <1>2, <1>3
  <2>2. npc' \in [Agent -> NotifyPc] /\ wq_lock' \in [Queue -> Agent \cup {None}]
    BY <1>1, <1>3 DEF NotifyPc
  <2> QED BY <2>1, <2>2, <1>3 DEF TypeOK, WQTypeOK
<1>7. ASSUME NEW u \in Task, u # a PROVE npc'[u] = npc[u] /\ hand'[u] = hand[u]
  BY <1>1, <1>3, <1>7
<1>8. hand'[a] = <<t>>
  BY <1>1, <1>3
<1>9. MutualExclusion' /\ BlockedInv' /\ EnqueueInv'
  BY <1>3 DEF MutualExclusion, BlockedInv, EnqueueInv
<1>10. LockInv'
  BY SMT, <1>1, <1>3, <1>5, <1>7 DEF LockInv
<1>11. NotifyInv'
  BY SMT, <1>1, <1>2, <1>3, <1>5, <1>7, <1>8 DEF NotifyInv
<1>12. EntriesInv'
  BY <1>3, <1>4 DEF EntriesInv
<1>13. ExaminedInv'
  <2> SUFFICES ASSUME NEW b \in Task, NEW s \in Task,
                      npc'[b] \in {"consume", "stale"}, hand'[b] = <<s>>
               PROVE  pc[s] \in {"until", "cancel"} /\ state[s] # "Blocked"
    BY <1>3 DEF ExaminedInv
  <2>1. CASE b = a
    <3>1. s = t /\ state[t] # "Blocked"
      BY SMT, <2>1, <1>5, <1>8
    <3>2. pc[t] \in {"until", "enqueue", "cancel"}
      BY <1>2, <1>4 DEF EntriesInv
    <3>3. pc[t] # "enqueue"
      BY <1>1, <1>2 DEF LockInv
    <3> QED BY <3>1, <3>2, <3>3
  <2>2. CASE b # a
    BY <2>2, <1>7 DEF ExaminedInv
  <2> QED BY <2>1, <2>2
<1>14. ASSUME NEW s PROVE Asleep(s)' = Asleep(s)
  BY <1>3 DEF Asleep
<1>15. SleeperIsQueued'
  <2> SUFFICES ASSUME NEW s \in Task, Asleep(s), s \notin Entries(wq)'
               PROVE  \E b \in Task : /\ npc'[b] \in {"clear_one", "cas_one"}
                                      /\ hand'[b] = <<s>>
    BY <1>14 DEF SleeperIsQueued
  <2>1. CASE s = t
    BY <2>1, <1>5, <1>8 DEF Asleep
  <2>2. CASE s # t
    <3>1. PICK b \in Task : npc[b] \in {"clear_one", "cas_one"} /\ hand[b] = <<s>>
      BY <2>2, <1>4 DEF SleeperIsQueued
    <3> QED BY <3>1, <1>1, <1>7
  <2> QED BY <2>1, <2>2
<1>16. NoLostWakeup'
  <2>1. Head(hand'[a]) = t
    BY SMT, <1>8
  <2>2. state[t] = "Blocked" => Asleep(t)
    BY <1>2 DEF Asleep, BlockedInv
  <2>3. Awake(a)'
    BY <2>1, <2>2, <1>5, <1>14 DEF Awake
  <2> QED BY <2>3 DEF NoLostWakeup
<1> QED BY <1>6, <1>9, <1>10, <1>11, <1>12, <1>13, <1>15, <1>16

(* consume_wait_queue_entry, and the rule for stale entries: by ExaminedInv *)
(* the task whose entry is used up is awake and still inside wait_until.    *)
LEMMA ExamineStep ==
  ASSUME IInv, NEW a \in Task, NotifyOneConsume(a) \/ NotifyOneStale(a),
         UNCHANGED <<owner_id, pc>>
  PROVE  IInv'
<1> USE TaskIsAgent, NoneIsNoAgent, WqIsQueue DEF IInv, is_locked
<1>1. /\ pc \in [Task -> Pc] /\ npc \in [Agent -> NotifyPc] /\ a \in Agent
      /\ wq_lock \in [Queue -> Agent \cup {None}] /\ nq[a] = wq
      /\ npc[a] \in {"consume", "stale"} /\ wq_lock[wq] = a
      /\ hand \in [Agent -> Seq(Task)] /\ in_wait_queue \in [Task -> BOOLEAN]
  BY DEF TypeOK, WQTypeOK, NotifyInv, LockInv, NotifyOneConsume, NotifyOneStale
<1>2. PICK t \in Task : hand[a] = <<t>>
  BY <1>1 DEF NotifyInv
<1>3. pc[t] \in {"until", "cancel"} /\ state[t] # "Blocked"
  BY <1>1, <1>2 DEF ExaminedInv
<1>4. /\ UNCHANGED <<state, queue, nq, owner_id, pc>>
      /\ in_wait_queue' = [in_wait_queue EXCEPT ![Head(hand[a])] = FALSE]
      /\ hand' = [hand EXCEPT ![a] = <<>>]
      /\ \/ npc' = [npc EXCEPT ![a] = "woke"] /\ wq_lock' = [wq_lock EXCEPT ![wq] = None]
         \/ npc' = [npc EXCEPT ![a] = "pop"] /\ UNCHANGED wq_lock
  BY <1>1 DEF NotifyOneConsume, NotifyOneStale, UnlockQueue
<1>5. TypeOK'
  <2>1. in_wait_queue' \in [Task -> BOOLEAN] /\ hand' \in [Agent -> Seq(Task)]
    BY SMT, <1>1, <1>2, <1>4
  <2>2. npc' \in [Agent -> NotifyPc] /\ wq_lock' \in [Queue -> Agent \cup {None}]
    BY <1>1, <1>4 DEF NotifyPc
  <2> QED BY <2>1, <2>2, <1>4 DEF TypeOK, WQTypeOK
<1>6. Entries(wq)' = Entries(wq)
  BY <1>4 DEF Entries
<1>7. MutualExclusion' /\ BlockedInv' /\ EnqueueInv' /\ EntriesInv'
  BY <1>4, <1>6 DEF MutualExclusion, BlockedInv, EnqueueInv, EntriesInv
<1>8. LockInv'
  BY SMTT(60), <1>1, <1>4 DEF LockInv, NotifyInv
<1>9. NotifyInv'
  BY <1>1, <1>4 DEF NotifyInv
<1>10. ExaminedInv'
  BY <1>1, <1>4 DEF ExaminedInv
<1>11. ASSUME NEW s PROVE Asleep(s)' = Asleep(s)
  BY <1>4 DEF Asleep
<1>12. SleeperIsQueued'
  BY <1>1, <1>4, <1>6, <1>11 DEF SleeperIsQueued
<1>13. NoLostWakeup'
  BY <1>3, <1>4 DEF NoLostWakeup, Awake, Waiting
<1> QED BY <1>5, <1>7, <1>8, <1>9, <1>10, <1>12, <1>13

(* unblock_one_task: if the task in hand is still asleep it becomes Ready *)
(* and is itself the one that looks at the mutex again.                   *)
LEMMA UnblockStep ==
  ASSUME IInv, NEW a \in Task, UnblockClear(a) \/ UnblockCas(a),
         UNCHANGED <<owner_id, pc>>
  PROVE  IInv'
<1> USE TaskIsAgent, NoneIsNoAgent, WqIsQueue DEF IInv, is_locked
<1>1. /\ pc \in [Task -> Pc] /\ npc \in [Agent -> NotifyPc] /\ a \in Agent
      /\ npc[a] \in {"clear_one", "cas_one"} /\ state \in [Task -> TaskState]
      /\ hand \in [Agent -> Seq(Task)] /\ in_wait_queue \in [Task -> BOOLEAN]
  BY DEF TypeOK, WQTypeOK, NotifyInv, UnblockClear, UnblockCas
<1>2. PICK t \in Task : hand[a] = <<t>>
  BY <1>1 DEF NotifyInv
<1>3. Head(hand[a]) = t /\ Tail(hand[a]) = <<>>
  BY SMT, <1>2
<1>4. /\ UNCHANGED <<queue, wq_lock, nq, owner_id, pc>>
      /\ in_wait_queue' \in [Task -> BOOLEAN]
      /\ \/ /\ npc[a] = "clear_one" /\ npc' = [npc EXCEPT ![a] = "cas_one"]
            /\ UNCHANGED <<state, hand>>
         \/ /\ npc[a] = "cas_one" /\ npc' = [npc EXCEPT ![a] = "woke"]
            /\ state' = [state EXCEPT ![t] = IF @ = "Blocked" THEN "Ready" ELSE @]
            /\ hand' = [hand EXCEPT ![a] = <<>>]
  BY <1>1, <1>3 DEF UnblockClear, UnblockCas
<1>5. TypeOK'
  <2>1. state' \in [Task -> TaskState] /\ hand' \in [Agent -> Seq(Task)]
    <3>1. <<>> \in Seq(Task)
      BY SMT
    <3>2. hand' \in [Agent -> Seq(Task)]
      BY <1>1, <1>4, <3>1
    <3> QED BY <1>1, <1>4, <3>2 DEF TaskState
  <2>2. npc' \in [Agent -> NotifyPc]
    BY <1>1, <1>4 DEF NotifyPc
  <2> QED BY <2>1, <2>2, <1>4 DEF TypeOK, WQTypeOK
<1>6. Entries(wq)' = Entries(wq)
  BY <1>4 DEF Entries
<1>7. MutualExclusion' /\ BlockedInv' /\ EnqueueInv' /\ EntriesInv'
  BY <1>1, <1>4, <1>6 DEF MutualExclusion, BlockedInv, EnqueueInv, EntriesInv
<1>8. LockInv' /\ NotifyInv'
  <2>1. LockInv'
    BY <1>1, <1>4 DEF LockInv
  <2>2. ASSUME NEW u \in Task, u # a PROVE npc'[u] = npc[u] /\ hand'[u] = hand[u]
    BY <1>1, <1>4, <2>2
  <2>3. \/ npc'[a] = "cas_one" /\ hand'[a] = <<t>>
        \/ npc'[a] = "woke"
    BY <1>1, <1>2, <1>4
  <2>4. NotifyInv'
    BY SMT, <1>1, <1>4, <2>2, <2>3 DEF NotifyInv
  <2> QED BY <2>1, <2>4
<1>9. ExaminedInv'
  BY <1>1, <1>4 DEF ExaminedInv
<1>10. ASSUME NEW s \in Task PROVE Asleep(s)' => Asleep(s)
  BY <1>1, <1>4 DEF Asleep
<1>11. SleeperIsQueued'
  <2> SUFFICES ASSUME NEW s \in Task, Asleep(s)', s \notin Entries(wq)
               PROVE  \E b \in Task : /\ npc'[b] \in {"clear_one", "cas_one"}
                                      /\ hand'[b] = <<s>>
    BY <1>6 DEF SleeperIsQueued
  <2>1. PICK b \in Task : npc[b] \in {"clear_one", "cas_one"} /\ hand[b] = <<s>>
    BY <1>10 DEF SleeperIsQueued
  <2>2. CASE b = a
    <3>1. s = t /\ state'[t] = "Blocked"
      BY SMT, <2>1, <2>2, <1>2 DEF Asleep
    <3>2. npc'[a] = "cas_one" /\ hand'[a] = <<t>>
      BY <3>1, <1>1, <1>2, <1>4
    <3> QED BY <3>1, <3>2
  <2>3. CASE b # a
    BY <2>1, <2>3, <1>1, <1>4
  <2> QED BY <2>2, <2>3
<1>12. NoLostWakeup'
  <2> SUFFICES ASSUME ~is_locked, NEW s \in Task, Asleep(s)
               PROVE  \E u \in Task : Awake(u)'
    BY <1>4, <1>10 DEF NoLostWakeup
  <2>1. PICK u \in Task : Awake(u)
    BY DEF NoLostWakeup
  <2>2. CASE Asleep(t)
    <3>1. Awake(t)' \/ Awake(a)'
      BY <2>2, <1>1, <1>3, <1>4 DEF Asleep, Awake, Waiting
    <3> QED BY <3>1
  <2>3. CASE ~Asleep(t)
    <3>1. state' = state
      BY <2>3, <1>1, <1>4 DEF Asleep, BlockedInv
    <3>2. u # a
      BY <2>1, <2>3, <1>1, <1>3, <1>4 DEF Awake, NotifyInv, Waiting
    <3>3. npc'[u] = npc[u] /\ hand'[u] = hand[u]
      BY <3>2, <1>1, <1>4
    <3> QED BY <2>1, <3>1, <3>3, <1>4 DEF Awake, Asleep
  <2> QED BY <2>2, <2>3
<1> QED BY <1>5, <1>7, <1>8, <1>9, <1>11, <1>12

(* Every step preserves IInv. *)
LEMMA NextIInv == IInv /\ [Next]_vars => IInv'
<1> SUFFICES ASSUME IInv, [Next]_vars PROVE IInv'
  OBVIOUS
<1>1. CASE UNCHANGED vars
  <2> USE <1>1 DEF vars, IInv, Entries, Asleep, is_locked
  <2>1. TypeOK' /\ MutualExclusion' /\ LockInv' /\ NotifyInv'
    BY DEF TypeOK, WQTypeOK, MutualExclusion, LockInv, NotifyInv
  <2>2. BlockedInv' /\ EntriesInv' /\ EnqueueInv' /\ ExaminedInv'
    BY DEF BlockedInv, EntriesInv, EnqueueInv, ExaminedInv
  <2>3. SleeperIsQueued'
    BY DEF SleeperIsQueued
  <2>4. NoLostWakeup'
    BY DEF NoLostWakeup, Awake
  <2> QED BY <2>1, <2>2, <2>3, <2>4
<1>2. ASSUME NEW t \in Task, NotifyStep(t), UNCHANGED <<owner_id, pc>> PROVE IInv'
  <2>1. ~NotifyAllEach(t) /\ ~NotifyAllSkip(t)
    BY DEF IInv, NotifyInv, NotifyAllEach, NotifyAllSkip
  <2> QED BY <1>2, <2>1, EmptyStep, PopStep, ExamineStep, UnblockStep DEF NotifyStep
<1>3. ASSUME NEW t \in Task, Step(t) PROVE IInv'
  BY <1>2, <1>3, OwnerStep, LockStep, BlockStep, CancelStep DEF Step
<1>4. ASSUME NEW t \in Task, Call(t) PROVE IInv'
  BY <1>4, OwnerStep DEF Call
<1> QED BY <1>1, <1>3, <1>4, ScheduleStep DEF Next

(* The inductive invariant holds in every reachable state. *)
THEOREM MutexInvariant == Spec => []IInv
  BY InitIInv, NextIInv, PTL DEF Spec

(* Every variable of the mutex keeps its type. *)
THEOREM MutexTypeOK == Spec => []TypeOK
<1>1. IInv => TypeOK
  BY DEF IInv
<1> QED BY <1>1, MutexInvariant, PTL

(* RawMutex provides mutual exclusion, and the assertions in lock and      *)
(* unlock never fail.                                                      *)
THEOREM MutexExclusion == Spec => []MutualExclusion
<1>1. IInv => MutualExclusion
  BY DEF IInv
<1> QED BY <1>1, MutexInvariant, PTL

(* No task sleeps on a mutex without an entry by which unlock finds it. *)
THEOREM MutexSleeperIsQueued == Spec => []SleeperIsQueued
<1>1. IInv => SleeperIsQueued
  BY DEF IInv
<1> QED BY <1>1, MutexInvariant, PTL

(* unlock never loses a wake-up, for any number of tasks, any interleaving *)
(* with wait_until, and any number of signals and preemptions.             *)
THEOREM MutexNoLostWakeup == Spec => []NoLostWakeup
<1>1. IInv => NoLostWakeup
  BY DEF IInv
<1> QED BY <1>1, MutexInvariant, PTL
==============================================================================
