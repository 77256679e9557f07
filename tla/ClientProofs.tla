----------------------------- MODULE ClientProofs -----------------------------
(***************************************************************************)
(* Proofs about WaitQueueClients, for every set of tasks, notifiers and    *)
(* queues and every bound on signals: each blocking operation of the wait  *)
(* queue cleans up behind itself, and a sleeper in one queue is heard.     *)
(***************************************************************************)
EXTENDS WaitQueueClients, WaitQueueProofs

USE ZenonT(60)

UntilPc == {"lock", "block", "resume", "cancel", "top", "test", "until_block", "until_cancel"}
MultiPc == {"m_top", "m_cond", "m_flag", "m_enroll", "m_recheck", "m_block", "m_check",
            "m_sleep", "m_scan", "m_cancel", "m_end"}

(* A call has its queues, one unless it is a wait_multiple_timeout_until, and *)
(* an index into them; it has a timer only if it is timed.                    *)
CallInv ==
    \A t \in Task :
        /\ pc[t] = "idle" => qs[t] = <<>> /\ idx[t] = 1
        /\ pc[t] # "idle" => idx[t] \in 1..Len(qs[t])
        /\ pc[t] \in UntilPc => Len(qs[t]) = 1
        /\ armed[t] => pc[t] # "idle" /\ Timed(t)

(* Only notifiers notify, and what one has in hand goes with its step. *)
HandOK(l, h) ==
    /\ l # "moving"
    /\ l \in {"none", "pop", "woke", "empty"} => h = <<>>
    /\ l \in {"consume", "stale", "clear_one", "cas_one"} => Tail(h) = <<>>
    /\ l \in {"consume", "stale", "clear_one", "cas_one", "skip", "clear_all", "cas_all"} =>
           h # <<>>

HandInv ==
    /\ \A t \in Task : npc[t] = "none" /\ hand[t] = <<>>
    /\ \A n \in Notifier : HandOK(npc[n], hand[n])

(* A task has entries in the queues of its call only, and in no queue that    *)
(* the clean-up of several queues has passed.                                 *)
EntryInv ==
    \A t \in Task, q \in Queue : t \in Entries(q) =>
        /\ pc[t] \notin {"idle", "m_end", "m_timer"}
        /\ q \in Elems(qs[t])
        /\ pc[t] = "m_cancel" => \E i \in idx[t]..Len(qs[t]) : qs[t][i] = q

(* The tasks in hand at step l whose flag has still to be cleared. *)
Unclear(l, h) == Elems(IF l \in {"cas_one", "cas_all"} THEN Tail(h) ELSE h)

(* in_wait_queue is true for a reason: the task is enrolling, or has an entry, *)
(* or is in the hand of a notifier that will clear it.                         *)
FlagInv ==
    \A t \in Task : in_wait_queue[t] =>
        \/ pc[t] \in MultiPc
        \/ \E q \in Queue : t \in Entries(q)
        \/ \E n \in Notifier : t \in Unclear(npc[n], hand[n])

CleanInv == TypeOK /\ CallInv /\ HandInv /\ EntryInv /\ FlagInv

(* Initially no call has been made. *)
LEMMA InitClean == ASSUME Init PROVE CleanInv
<1> USE NoneIsNoAgent, MultiAssumption DEF Init, WQInit
<1>1. Elems(<<>>) = {}
  BY SMT DEF Elems
<1>2. TypeOK
  BY SMT DEF TypeOK, WQTypeOK, TaskState, NotifyPc, Pc, Result
<1>3. CallInv
  BY DEF CallInv, UntilPc
<1>4. HandInv
  BY TaskIsAgent DEF HandInv, HandOK, Notifier
<1>5. EntryInv /\ FlagInv
  BY <1>1 DEF EntryInv, FlagInv, Entries
<1> QED BY <1>2, <1>3, <1>4, <1>5 DEF CleanInv

(* A step of a call that leaves the queues, the flags and the hands alone. *)
LEMMA QuietStep ==
  ASSUME CleanInv, NEW t \in Task, NEW l \in Pc, NEW i \in Nat,
         pc' = [pc EXCEPT ![t] = l], idx' = [idx EXCEPT ![t] = i],
         UNCHANGED <<queue, npc, hand, op, qs, armed, in_wait_queue>>,
         pc[t] \notin {"idle", "m_cancel", "m_end", "m_timer"},
         l \notin {"idle", "m_end", "m_timer"},
         l \in UntilPc <=> pc[t] \in UntilPc,
         i \in 1..Len(qs[t]), l = "m_cancel" => i = 1
  PROVE  (CallInv /\ HandInv /\ EntryInv /\ FlagInv)'
<1>1. /\ pc'[t] = l /\ idx'[t] = i
      /\ \A u \in Task \ {t} : pc'[u] = pc[u] /\ idx'[u] = idx[u]
  BY DEF CleanInv, TypeOK
<1>2. CallInv'
  BY <1>1 DEF CleanInv, CallInv, Timed
<1>3. HandInv'
  BY DEF CleanInv, HandInv
<1>4. EntryInv'
  <2> SUFFICES ASSUME NEW u \in Task, NEW q \in Queue, u \in Entries(q)'
               PROVE  /\ pc'[u] \notin {"idle", "m_end", "m_timer"}
                      /\ q \in Elems(qs'[u])
                      /\ pc'[u] = "m_cancel" => \E j \in idx'[u]..Len(qs'[u]) : qs'[u][j] = q
    BY DEF EntryInv
  <2>1. u \in Entries(q) /\ q \in Elems(qs[u])
    BY DEF Entries, CleanInv, EntryInv
  <2>2. CASE u # t
    BY SMT, <1>1, <2>1, <2>2 DEF CleanInv, EntryInv
  <2>3. CASE u = t
    <3>1. DOMAIN qs[t] = 1..Len(qs[t])
      BY SMT DEF CleanInv, TypeOK
    <3>2. \E j \in 1..Len(qs[t]) : qs[t][j] = q
      BY <2>1, <2>3, <3>1 DEF Elems
    <3> QED BY <1>1, <2>1, <2>3, <3>2
  <2> QED BY <2>2, <2>3
<1>5. FlagInv'
  <2>1. l \in MultiPc <=> pc[t] \in MultiPc
    BY DEF Pc, UntilPc, MultiPc, CleanInv, TypeOK
  <2>2. \A q \in Queue : Entries(q)' = Entries(q)
    BY DEF Entries
  <2> QED BY <1>1, <2>1, <2>2 DEF CleanInv, FlagInv
<1> QED BY <1>2, <1>3, <1>4, <1>5

(* A step that no call sees, except that a timer is used up. *)
LEMMA UnseenStep ==
  ASSUME CleanInv, UNCHANGED <<queue, npc, hand, op, qs, idx, pc, in_wait_queue>>,
         \A t \in Task : armed'[t] => armed[t]
  PROVE  (CallInv /\ HandInv /\ EntryInv /\ FlagInv)'
<1>1. CallInv' /\ HandInv'
  BY DEF CleanInv, CallInv, HandInv, Timed
<1>2. \A q \in Queue : Entries(q)' = Entries(q)
  BY DEF Entries
<1>3. EntryInv'
  BY <1>2 DEF CleanInv, EntryInv
<1>4. FlagInv'
  BY <1>2 DEF CleanInv, FlagInv
<1> QED BY <1>1, <1>3, <1>4

(* The queues a call has in its hands. *)
LEMMA CallQueues ==
  ASSUME CleanInv, NEW t \in Task, pc[t] # "idle"
  PROVE  /\ qs[t] \in Seq(Queue) /\ idx[t] \in 1..Len(qs[t])
         /\ qs[t][idx[t]] \in Queue /\ Q(t) \in Queue
         /\ pc[t] \in UntilPc => Elems(qs[t]) = {Q(t)}
<1>1. qs[t] \in Seq(Queue) /\ idx[t] \in 1..Len(qs[t])
  BY DEF CleanInv, TypeOK, CallInv
<1>2. qs[t][idx[t]] \in Queue /\ qs[t] # <<>> /\ Q(t) \in Queue
  BY SMT, <1>1 DEF Q
<1>3. ASSUME pc[t] \in UntilPc PROVE Elems(qs[t]) = {Q(t)}
  <2>1. Len(qs[t]) = 1
    BY <1>3 DEF CleanInv, CallInv
  <2>2. DOMAIN qs[t] = {1} /\ Q(t) = qs[t][1]
    BY SMT, <1>1, <2>1 DEF Q
  <2> QED BY <2>2 DEF Elems
<1> QED BY <1>1, <1>2, <1>3

(* The steps of wait and wait_until that leave the queue alone. *)
LEMMA UntilStep ==
  ASSUME CleanInv, NEW t \in Task,
         WaitLock(t) \/ WaitResume(t) \/ UntilTop(t) \/ UntilTest(t)
  PROVE  CleanInv'
<1> DEFINE l == pc'[t]
<1>0. pc[t] \in {"lock", "resume", "top", "test"}
  BY DEF WaitLock, WaitResume, UntilTop, UntilTest, At
<1>1. /\ pc' = [pc EXCEPT ![t] = l] /\ idx' = idx
      /\ l \in {"block", "cancel", "until_cancel", "test", "until_block"}
      /\ UNCHANGED <<queue, npc, hand, op, qs, armed, in_wait_queue>>
  BY DEF WaitLock, WaitResume, UntilTop, UntilTest, Goto, wqVars, notifyVars, timerVars,
             CleanInv, TypeOK
<1>2. idx' = [idx EXCEPT ![t] = idx[t]] /\ idx[t] \in Nat
  BY <1>1 DEF CleanInv, TypeOK
<1>3. Q(t) \in Queue /\ idx[t] \in 1..Len(qs[t])
  BY <1>0, CallQueues
<1>4. TypeOK'
  <2>1. wq_lock' \in [Queue -> Agent \cup {None}]
    <3>1. wq_lock' = wq_lock \/ wq_lock' = [wq_lock EXCEPT ![Q(t)] = t]
      BY DEF WaitLock, WaitResume, UntilTop, UntilTest, LockQueue, wqVars
    <3>2. wq_lock \in [Queue -> Agent \cup {None}] /\ t \in Agent \cup {None}
      BY TaskIsAgent DEF CleanInv, TypeOK, WQTypeOK
    <3> QED BY <3>1, <3>2, Assign
  <2>2. ret' \in [Task -> Result] /\ credit' \in [Task -> BOOLEAN] /\ pc' \in [Task -> Pc]
    <3>1. credit' = credit \/ credit' = [credit EXCEPT ![t] = FALSE]
      BY DEF WaitLock, WaitResume, UntilTop, UntilTest, TestCondition
    <3>2. ret' = ret \/ \E r \in Result : ret' = [ret EXCEPT ![t] = r]
      BY DEF WaitLock, WaitResume, UntilTop, UntilTest, Decide, Result
    <3>3. ret \in [Task -> Result] /\ credit \in [Task -> BOOLEAN] /\ pc \in [Task -> Pc]
      BY DEF CleanInv, TypeOK
    <3>4. l \in Pc
      BY <1>1 DEF Pc
    <3>5. ret' \in [Task -> Result]
      BY <3>2, <3>3, Assign
    <3>6. credit' \in [Task -> BOOLEAN]
      BY <3>1, <3>3, Assign
    <3> QED BY <1>1, <3>3, <3>4, <3>5, <3>6, Assign
  <2>3. UNCHANGED <<state, nq, due, firing, near, ready, todo>>
    BY DEF WaitLock, WaitResume, UntilTop, UntilTest, wqVars, notifyVars, timerVars
  <2> QED BY <1>1, <2>1, <2>2, <2>3 DEF CleanInv, TypeOK, WQTypeOK
<1>5. (CallInv /\ HandInv /\ EntryInv /\ FlagInv)'
  <2>1. l \in Pc
    BY <1>1 DEF Pc
  <2>2. l \in UntilPc /\ pc[t] \in UntilPc
    BY <1>0, <1>1 DEF UntilPc
  <2>3. l # "m_cancel" /\ l \notin {"idle", "m_end", "m_timer"}
    BY <1>1
  <2>4. pc[t] \notin {"idle", "m_cancel", "m_end", "m_timer"}
    BY <1>0
  <2> HIDE DEF l
  <2> QED BY <1>1, <1>2, <1>3, <2>1, <2>2, <2>3, <2>4, QuietStep
<1> QED BY <1>4, <1>5 DEF CleanInv

(* The steps of wait_multiple_timeout_until that leave the queues and the *)
(* flag alone.                                                            *)
LEMMA MultiStep ==
  ASSUME CleanInv, NEW t \in Task,
         MultiTop(t) \/ MultiCondition(t) \/ MultiBlock(t) \/ MultiCheck(t) \/ MultiScan(t)
  PROVE  CleanInv'
<1> DEFINE l == pc'[t]
           i == idx'[t]
<1>0. pc[t] \in {"m_top", "m_cond", "m_recheck", "m_block", "m_check", "m_scan", "m_sleep"}
  BY DEF MultiTop, MultiCondition, MultiBlock, MultiCheck, MultiScan, At
<1>q. idx[t] \in 1..Len(qs[t]) /\ Len(qs[t]) \in Nat /\ idx[t] \in Nat
  BY SMT, <1>0, CallQueues
<1>1. UNCHANGED <<queue, npc, hand, op, qs, armed, in_wait_queue>>
  BY DEF MultiTop, MultiCondition, MultiBlock, MultiCheck, MultiScan, wqVars, notifyVars, timerVars
<1>2. /\ pc' = [pc EXCEPT ![t] = l] /\ idx' = [idx EXCEPT ![t] = i]
      /\ l \in MultiPc \ {"m_end"} /\ i \in 1..Len(qs[t])
      /\ l = "m_cancel" => i = 1
  <2> USE DEF CleanInv, TypeOK, Goto, Leave, MultiPc
  <2>1. CASE MultiTop(t) \/ MultiCondition(t)
    BY SMT, <1>0, <1>q, <2>1 DEF MultiTop, MultiCondition
  <2>2. CASE MultiBlock(t) \/ MultiCheck(t)
    BY SMT, <1>0, <1>q, <2>2 DEF MultiBlock, MultiCheck
  <2>3. CASE MultiScan(t)
    <3>1. \/ Leave(t, "woken")
          \/ idx[t] < Len(qs[t]) /\ idx' = [idx EXCEPT ![t] = @ + 1] /\ UNCHANGED pc
          \/ Goto(t, "m_top") /\ UNCHANGED idx
      BY <2>3 DEF MultiScan
    <3> QED BY SMT, <1>0, <1>q, <3>1
  <2> QED BY <2>1, <2>2, <2>3
<1>4. TypeOK'
  <2>1. state' \in [Task -> TaskState]
    <3>1. state' = state \/ \E x \in TaskState : state' = [state EXCEPT ![t] = x]
      BY DEF MultiTop, MultiCondition, MultiBlock, MultiCheck, MultiScan, wqVars, TaskState
    <3>2. state \in [Task -> TaskState]
      BY DEF CleanInv, TypeOK, WQTypeOK
    <3> QED BY <3>1, <3>2, Assign
  <2>2. ret' \in [Task -> Result] /\ credit' \in [Task -> BOOLEAN]
    <3>1. credit' = credit \/ credit' = [credit EXCEPT ![t] = FALSE]
      BY DEF MultiTop, MultiCondition, MultiBlock, MultiCheck, MultiScan, TestCondition
    <3>2. ret' = ret \/ \E r \in Result : ret' = [ret EXCEPT ![t] = r]
      BY DEF MultiTop, MultiCondition, MultiBlock, MultiCheck, MultiScan, Leave, Decide, Result
    <3>3. ret \in [Task -> Result] /\ credit \in [Task -> BOOLEAN]
      BY DEF CleanInv, TypeOK
    <3> QED BY <3>1, <3>2, <3>3, Assign
  <2>3. pc' \in [Task -> Pc] /\ idx' \in [Task -> Nat]
    <3>1. l \in Pc /\ i \in Nat
      BY SMT, <1>2, <1>q DEF Pc, MultiPc
    <3> HIDE DEF l, i
    <3> QED BY <1>2, <3>1 DEF CleanInv, TypeOK
  <2>4. UNCHANGED <<wq_lock, nq, due, firing, near, ready, todo>>
    BY DEF MultiTop, MultiCondition, MultiBlock, MultiCheck, MultiScan, wqVars, notifyVars, timerVars
  <2> QED BY <1>1, <2>1, <2>2, <2>3, <2>4 DEF CleanInv, TypeOK, WQTypeOK
<1>5. (CallInv /\ HandInv /\ EntryInv /\ FlagInv)'
  <2>1. l \in Pc /\ l \notin UntilPc /\ pc[t] \notin UntilPc
    BY <1>0, <1>2 DEF Pc, MultiPc, UntilPc
  <2>2. l \notin {"idle", "m_end", "m_timer"}
    BY <1>2 DEF MultiPc
  <2>3. pc[t] \notin {"idle", "m_cancel", "m_end", "m_timer"} /\ i \in Nat
    BY SMT, <1>0, <1>2, <1>q
  <2> HIDE DEF l, i
  <2> QED BY <1>1, <1>2, <2>1, <2>2, <2>3, QuietStep
<1> QED BY <1>4, <1>5 DEF CleanInv

(* A call begins: its task has no entries yet. *)
LEMMA CallStep ==
  ASSUME CleanInv, NEW t \in Task, NEW o \in Op, NEW s \in Seq(Queue), NEW l \in Pc,
         Call(t, o, s, l), s # <<>>, l \notin {"idle", "m_cancel", "m_end", "m_timer"},
         l \in UntilPc => Len(s) = 1
  PROVE  CleanInv'
<1>1. /\ pc[t] = "idle" /\ pc' = [pc EXCEPT ![t] = l] /\ op' = [op EXCEPT ![t] = o]
      /\ qs' = [qs EXCEPT ![t] = s] /\ armed' = [armed EXCEPT ![t] = o \in TimedOp]
      /\ UNCHANGED <<wqVars, idx, ret, due, firing, near, ready, todo, credit>>
  BY DEF Call, At, Goto
<1>2. TypeOK'
  <2>1. /\ pc \in [Task -> Pc] /\ op \in [Task -> Op \cup {None}] /\ qs \in [Task -> Seq(Queue)]
        /\ armed \in [Task -> BOOLEAN] /\ (o \in TimedOp) \in BOOLEAN /\ o \in Op \cup {None}
    BY SMT DEF CleanInv, TypeOK
  <2>2. /\ pc' \in [Task -> Pc] /\ op' \in [Task -> Op \cup {None}] /\ qs' \in [Task -> Seq(Queue)]
        /\ armed' \in [Task -> BOOLEAN]
    BY <1>1, <2>1, Assign
  <2> QED BY SMTT(60), <1>1, <2>2 DEF CleanInv, TypeOK, WQTypeOK, wqVars
<1>3. /\ pc'[t] = l /\ qs'[t] = s /\ op'[t] = o /\ armed'[t] = (o \in TimedOp)
      /\ \A u \in Task \ {t} : /\ pc'[u] = pc[u] /\ qs'[u] = qs[u] /\ op'[u] = op[u]
                               /\ armed'[u] = armed[u]
  BY <1>1 DEF CleanInv, TypeOK
<1>4. CallInv'
  <2>1. idx'[t] = 1 /\ 1 \in 1..Len(s)
    BY SMT, <1>1 DEF CleanInv, CallInv
  <2>2. idx' = idx
    BY <1>1
  <2> QED BY <1>3, <2>1, <2>2 DEF CleanInv, CallInv, Timed
<1>5. \A q \in Queue : Entries(q)' = Entries(q) /\ t \notin Entries(q)
  BY <1>1 DEF Entries, wqVars, CleanInv, EntryInv
<1>6. HandInv' /\ EntryInv' /\ FlagInv'
  <2>1. HandInv'
    BY <1>1 DEF wqVars, CleanInv, HandInv
  <2>2. EntryInv'
    BY SMT, <1>1, <1>3, <1>5 DEF CleanInv, EntryInv
  <2>3. ASSUME NEW u \in Task, in_wait_queue'[u]
        PROVE  \/ pc'[u] \in MultiPc
               \/ \E q \in Queue : u \in Entries(q)'
               \/ \E n \in Notifier : u \in Unclear(npc'[n], hand'[n])
    <3>1. pc[t] \notin MultiPc
      BY <1>1 DEF MultiPc
    <3> QED BY <1>1, <1>3, <1>5, <2>3, <3>1 DEF CleanInv, FlagInv, wqVars
  <2> QED BY <2>1, <2>2, <2>3 DEF FlagInv
<1> QED BY <1>2, <1>4, <1>6 DEF CleanInv

(* The task goes to sleep in the queue of its call. *)
LEMMA BlockStep ==
  ASSUME CleanInv, NEW t \in Task, WaitBlock(t) \/ UntilBlock(t)
  PROVE  CleanInv'
<1> DEFINE l == IF WaitBlock(t) THEN "resume" ELSE "top"
<1>0. pc[t] \in {"block", "until_block"}
  BY DEF WaitBlock, UntilBlock, At
<1>q. PICK q \in Queue : q = Q(t)
  BY <1>0, CallQueues
<1>1. /\ pc' = [pc EXCEPT ![t] = l] /\ l \in {"resume", "top"}
      /\ blocked_resched(t, q)
      /\ UNCHANGED <<op, qs, idx, ret, timerVars, ready, todo, credit>>
  BY <1>q DEF WaitBlock, UntilBlock, Goto
<1> HIDE DEF l
<1>2. q \in Queue /\ Elems(qs[t]) = {q} /\ pc[t] \in UntilPc /\ l \in UntilPc
  BY <1>0, <1>q, <1>1, CallQueues DEF UntilPc
<1>3. queue[q] \in Seq(Task) /\ queue \in [Queue -> Seq(Task)]
  BY <1>2 DEF CleanInv, TypeOK, WQTypeOK
<1>4. Append(queue[q], t) \in Seq(Task) /\ Elems(Append(queue[q], t)) = Entries(q) \cup {t}
  BY <1>3, AppendElems DEF Entries
<1>5. /\ queue' = [queue EXCEPT ![q] = Append(queue[q], t)]
      /\ state' = [state EXCEPT ![t] = "Blocked"]
      /\ in_wait_queue' = [in_wait_queue EXCEPT ![t] = TRUE]
      /\ wq_lock' = [wq_lock EXCEPT ![q] = None]
      /\ UNCHANGED notifyVars
  BY <1>1 DEF blocked_resched, UnlockQueue
<1>6. TypeOK'
  <2>1. /\ pc \in [Task -> Pc] /\ state \in [Task -> TaskState] /\ in_wait_queue \in [Task -> BOOLEAN]
        /\ wq_lock \in [Queue -> Agent \cup {None}] /\ "Blocked" \in TaskState /\ l \in Pc
        /\ None \in Agent \cup {None} /\ TRUE \in BOOLEAN
    BY <1>1 DEF CleanInv, TypeOK, WQTypeOK, TaskState, Pc
  <2>2. /\ pc' \in [Task -> Pc] /\ state' \in [Task -> TaskState] /\ in_wait_queue' \in [Task -> BOOLEAN]
        /\ wq_lock' \in [Queue -> Agent \cup {None}] /\ queue' \in [Queue -> Seq(Task)]
    BY <1>1, <1>3, <1>4, <1>5, <2>1, Assign
  <2> QED BY <1>1, <1>5, <2>2 DEF CleanInv, TypeOK, WQTypeOK, notifyVars, timerVars
<1>7. /\ pc'[t] = l /\ \A u \in Task \ {t} : pc'[u] = pc[u] /\ in_wait_queue'[u] = in_wait_queue[u]
      /\ t \in Entries(q)'
      /\ \A u \in Task, r \in Queue : u \in Entries(r) => u \in Entries(r)'
      /\ \A u \in Task, r \in Queue : u \in Entries(r)' => u \in Entries(r) \/ (u = t /\ r = q)
  <2>1. /\ pc'[t] = l
        /\ \A u \in Task \ {t} : pc'[u] = pc[u] /\ in_wait_queue'[u] = in_wait_queue[u]
    BY <1>1, <1>5 DEF CleanInv, TypeOK, WQTypeOK
  <2>2. queue'[q] = Append(queue[q], t) /\ \A r \in Queue \ {q} : queue'[r] = queue[r]
    BY <1>2, <1>3, <1>5
  <2>3. Entries(q)' = Entries(q) \cup {t} /\ \A r \in Queue \ {q} : Entries(r)' = Entries(r)
    BY <1>4, <2>2 DEF Entries
  <2> QED BY <2>1, <2>3
<1>8. CallInv' /\ HandInv'
  BY <1>0, <1>1, <1>2, <1>5, <1>7 DEF CleanInv, CallInv, HandInv, Timed, timerVars, notifyVars
<1>9. EntryInv'
  <2> SUFFICES ASSUME NEW u \in Task, NEW r \in Queue, u \in Entries(r)'
               PROVE  /\ pc'[u] \notin {"idle", "m_end", "m_timer"}
                      /\ r \in Elems(qs[u])
                      /\ pc'[u] = "m_cancel" => \E i \in idx[u]..Len(qs[u]) : qs[u][i] = r
    BY <1>1 DEF EntryInv
  <2>1. CASE u \in Entries(r)
    <3>1. /\ pc[u] \notin {"idle", "m_end", "m_timer"}
          /\ r \in Elems(qs[u])
          /\ pc[u] = "m_cancel" => \E i \in idx[u]..Len(qs[u]) : qs[u][i] = r
      BY <2>1 DEF CleanInv, EntryInv
    <3> QED BY <1>1, <1>7, <3>1
  <2>2. CASE u = t /\ r = q
    BY <1>1, <1>2, <1>7, <2>2
  <2> QED BY <1>7, <2>1, <2>2
<1>10. FlagInv'
  <2> SUFFICES ASSUME NEW u \in Task, in_wait_queue'[u]
               PROVE  \/ pc'[u] \in MultiPc
                      \/ \E r \in Queue : u \in Entries(r)'
                      \/ \E n \in Notifier : u \in Unclear(npc'[n], hand'[n])
    BY DEF FlagInv
  <2>1. CASE u = t
    BY <1>2, <1>7, <2>1
  <2>2. CASE u # t
    BY <1>5, <1>7, <2>2 DEF CleanInv, FlagInv, notifyVars
  <2> QED BY <2>1, <2>2
<1> QED BY <1>6, <1>8, <1>9, <1>10 DEF CleanInv

(* cancel_events takes the task out of one queue, and with it the reason for *)
(* its flag.                                                                 *)
LEMMA CancelEffect ==
  ASSUME CleanInv, NEW t \in Task, NEW q \in Queue, cancel_events(t, q)
  PROVE  /\ queue' \in [Queue -> Seq(Task)] /\ in_wait_queue' \in [Task -> BOOLEAN]
         /\ t \notin Entries(q)'
         /\ \A u \in Task, r \in Queue : u \in Entries(r)' => u \in Entries(r)
         /\ \A u \in Task, r \in Queue : u # t \/ r # q => (u \in Entries(r)' <=> u \in Entries(r))
         /\ in_wait_queue'[t] => in_wait_queue[t] /\ t \notin Entries(q)
         /\ \A u \in Task \ {t} : in_wait_queue'[u] = in_wait_queue[u]
         /\ UNCHANGED <<state, wq_lock, npc, nq, hand>>
<1>1. queue \in [Queue -> Seq(Task)] /\ in_wait_queue \in [Task -> BOOLEAN] /\ queue[q] \in Seq(Task)
  BY DEF CleanInv, TypeOK, WQTypeOK
<1>2. /\ queue' = [queue EXCEPT ![q] = Retain(queue[q], t)]
      /\ in_wait_queue' = [in_wait_queue EXCEPT ![t] = in_wait_queue[t] /\ t \notin Entries(q)]
      /\ UNCHANGED <<state, wq_lock, npc, nq, hand>>
  BY DEF cancel_events, notifyVars
<1>3. Retain(queue[q], t) \in Seq(Task) /\ Elems(Retain(queue[q], t)) = Elems(queue[q]) \ {t}
  BY <1>1, RetainElems
<1>4. queue'[q] = Retain(queue[q], t) /\ \A r \in Queue \ {q} : queue'[r] = queue[r]
  BY <1>1, <1>2
<1>5. Entries(q)' = Entries(q) \ {t} /\ \A r \in Queue \ {q} : Entries(r)' = Entries(r)
  BY <1>3, <1>4 DEF Entries
<1>6. queue' \in [Queue -> Seq(Task)]
  BY <1>1, <1>2, <1>3, Assign
<1>7. /\ in_wait_queue' \in [Task -> BOOLEAN]
      /\ in_wait_queue'[t] => in_wait_queue[t] /\ t \notin Entries(q)
      /\ \A u \in Task \ {t} : in_wait_queue'[u] = in_wait_queue[u]
  BY <1>1, <1>2
<1> QED BY <1>2, <1>5, <1>6, <1>7

(* A call returns when its task has no entry and its flag, if it is true,  *)
(* will be cleared by a notifier.                                          *)
LEMMA ReturnStep ==
  ASSUME CleanInv, NEW t \in Task, Return(t),
         UNCHANGED <<state, wq_lock, npc, nq, hand>>,
         queue' \in [Queue -> Seq(Task)], in_wait_queue' \in [Task -> BOOLEAN],
         \A r \in Queue : t \notin Entries(r)',
         \A u \in Task \ {t}, r \in Queue : u \in Entries(r)' <=> u \in Entries(r),
         in_wait_queue'[t] => \E n \in Notifier : t \in Unclear(npc[n], hand[n]),
         \A u \in Task \ {t} : in_wait_queue'[u] = in_wait_queue[u]
  PROVE  CleanInv'
<1>1. /\ pc' = [pc EXCEPT ![t] = "idle"] /\ armed' = [armed EXCEPT ![t] = armed[t] /\ ~Timed(t)]
      /\ op' = [op EXCEPT ![t] = None] /\ qs' = [qs EXCEPT ![t] = <<>>]
      /\ idx' = [idx EXCEPT ![t] = 1] /\ ret' = [ret EXCEPT ![t] = "none"]
      /\ due' = [due EXCEPT ![t] = FALSE] /\ near' = [near EXCEPT ![t] = TRUE]
      /\ credit' = [credit EXCEPT ![t] = FALSE] /\ UNCHANGED <<firing, ready, todo>>
  BY DEF Return, Goto, Decide
<1>2. TypeOK'
  <2>1. /\ pc \in [Task -> Pc] /\ op \in [Task -> Op \cup {None}] /\ qs \in [Task -> Seq(Queue)]
        /\ idx \in [Task -> Nat] /\ ret \in [Task -> Result]
        /\ armed \in [Task -> BOOLEAN] /\ due \in [Task -> BOOLEAN]
        /\ near \in [Task -> BOOLEAN] /\ credit \in [Task -> BOOLEAN]
        /\ firing \in [Task -> BOOLEAN]
    BY DEF CleanInv, TypeOK
  <2>2. /\ "idle" \in Pc /\ None \in Op \cup {None} /\ <<>> \in Seq(Queue) /\ 1 \in Nat
        /\ "none" \in Result
    BY SMT DEF Pc, Result
  <2>3. /\ pc' \in [Task -> Pc] /\ op' \in [Task -> Op \cup {None}] /\ qs' \in [Task -> Seq(Queue)]
    BY <1>1, <2>1, <2>2, Assign
  <2>4. /\ idx' \in [Task -> Nat] /\ ret' \in [Task -> Result]
    BY <1>1, <2>1, <2>2, Assign
  <2>5. armed' \in [Task -> BOOLEAN] /\ due' \in [Task -> BOOLEAN]
    BY <1>1, <2>1
  <2>6. near' \in [Task -> BOOLEAN] /\ credit' \in [Task -> BOOLEAN] /\ firing' \in [Task -> BOOLEAN]
    BY <1>1, <2>1
  <2> QED BY SMTT(60), <1>1, <2>3, <2>4, <2>5, <2>6 DEF CleanInv, TypeOK, WQTypeOK
<1>3. /\ pc'[t] = "idle" /\ qs'[t] = <<>> /\ idx'[t] = 1 /\ ~armed'[t]
  BY <1>1 DEF CleanInv, TypeOK, CallInv
<1>4. \A u \in Task \ {t} : /\ pc'[u] = pc[u] /\ qs'[u] = qs[u] /\ idx'[u] = idx[u]
                            /\ armed'[u] = armed[u] /\ op'[u] = op[u]
  BY <1>1 DEF CleanInv, TypeOK
<1>5. CallInv'
  <2>1. "idle" \notin UntilPc
    BY DEF UntilPc
  <2> QED BY <1>3, <1>4, <2>1 DEF CleanInv, CallInv, Timed
<1>6. HandInv'
  BY DEF CleanInv, HandInv
<1>7. EntryInv'
  <2> SUFFICES ASSUME NEW u \in Task, NEW r \in Queue, u \in Entries(r)'
               PROVE  /\ pc'[u] \notin {"idle", "m_end", "m_timer"}
                      /\ r \in Elems(qs'[u])
                      /\ pc'[u] = "m_cancel" => \E i \in idx'[u]..Len(qs'[u]) : qs'[u][i] = r
    BY DEF EntryInv
  <2>1. u # t /\ u \in Entries(r)
    OBVIOUS
  <2> QED BY SMT, <1>4, <2>1 DEF CleanInv, EntryInv
<1>8. FlagInv'
  <2> SUFFICES ASSUME NEW u \in Task, in_wait_queue'[u]
               PROVE  \/ pc'[u] \in MultiPc
                      \/ \E r \in Queue : u \in Entries(r)'
                      \/ \E n \in Notifier : u \in Unclear(npc'[n], hand'[n])
    BY DEF FlagInv
  <2>1. CASE u = t
    BY <2>1
  <2>2. CASE u # t
    <3>1. \/ pc[u] \in MultiPc
          \/ \E r \in Queue : u \in Entries(r)
          \/ \E n \in Notifier : u \in Unclear(npc[n], hand[n])
      BY <2>2 DEF CleanInv, FlagInv
    <3> QED BY <1>4, <2>2, <3>1
  <2> QED BY <2>1, <2>2
<1> QED BY <1>2, <1>5, <1>6, <1>7, <1>8 DEF CleanInv

(* The calls that return after a cancel_events. *)
LEMMA LastCancelStep ==
  ASSUME CleanInv, NEW t \in Task, WaitCancel(t) \/ UntilCancel(t) \/ MultiTimer(t)
  PROVE  CleanInv'
<1>0. pc[t] \in {"cancel", "until_cancel", "m_timer"}
  BY DEF WaitCancel, UntilCancel, MultiTimer, At
<1>1. PICK q \in Queue : q = Q(t)
  BY <1>0, CallQueues
<1>2. cancel_events(t, q) /\ Return(t)
  BY <1>1 DEF WaitCancel, UntilCancel, MultiTimer, Q
<1>3. \A r \in Queue : t \in Entries(r) => r = q
  <2>1. CASE pc[t] = "m_timer"
    BY <2>1 DEF CleanInv, EntryInv
  <2>2. CASE pc[t] # "m_timer"
    <3>1. Elems(qs[t]) = {q}
      BY <1>0, <1>1, <2>2, CallQueues DEF UntilPc
    <3> QED BY <3>1 DEF CleanInv, EntryInv
  <2> QED BY <2>1, <2>2
<1>4. /\ queue' \in [Queue -> Seq(Task)] /\ in_wait_queue' \in [Task -> BOOLEAN]
      /\ t \notin Entries(q)'
      /\ \A u \in Task, r \in Queue : u \in Entries(r)' => u \in Entries(r)
      /\ \A u \in Task, r \in Queue : u # t \/ r # q => (u \in Entries(r)' <=> u \in Entries(r))
      /\ in_wait_queue'[t] => in_wait_queue[t] /\ t \notin Entries(q)
      /\ \A u \in Task \ {t} : in_wait_queue'[u] = in_wait_queue[u]
      /\ UNCHANGED <<state, wq_lock, npc, nq, hand>>
  BY <1>2, CancelEffect
<1>5. \A r \in Queue : t \notin Entries(r)'
  BY <1>3, <1>4
<1>6. ASSUME in_wait_queue'[t] PROVE \E n \in Notifier : t \in Unclear(npc[n], hand[n])
  <2>1. pc[t] \notin MultiPc
    BY <1>0 DEF MultiPc
  <2> QED BY <1>3, <1>4, <1>6, <2>1 DEF CleanInv, FlagInv
<1> QED BY <1>2, <1>4, <1>5, <1>6, ReturnStep

(* wait_multiple_timeout_until sets its flag and visits its queues, to enrol in *)
(* them or to leave them.                                                       *)
LEMMA VisitStep ==
  ASSUME CleanInv, NEW t \in Task, NEW l \in Pc, NEW i \in Nat,
         pc[t] \in MultiPc \ {"m_end"}, l \in MultiPc, i \in 1..Len(qs[t]),
         pc' = [pc EXCEPT ![t] = l], idx' = [idx EXCEPT ![t] = i],
         UNCHANGED <<state, wq_lock, npc, nq, hand, op, qs, ret, timerVars, ready, todo, credit>>,
         queue' \in [Queue -> Seq(Task)], in_wait_queue' \in [Task -> BOOLEAN],
         \A u \in Task \ {t}, r \in Queue : u \in Entries(r)' <=> u \in Entries(r),
         \A u \in Task \ {t} : in_wait_queue'[u] = in_wait_queue[u],
         \A r \in Queue : t \in Entries(r)' =>
             /\ l # "m_end" /\ r \in Elems(qs[t])
             /\ l = "m_cancel" => \E j \in i..Len(qs[t]) : qs[t][j] = r
  PROVE  CleanInv'
<1>1. TypeOK'
  <2>1. pc \in [Task -> Pc] /\ idx \in [Task -> Nat]
    BY DEF CleanInv, TypeOK
  <2>2. pc' \in [Task -> Pc] /\ idx' \in [Task -> Nat]
    BY <2>1, Assign
  <2> QED BY SMTT(60), <2>2 DEF CleanInv, TypeOK, WQTypeOK, timerVars
<1>2. /\ pc'[t] = l /\ idx'[t] = i
      /\ \A u \in Task \ {t} : pc'[u] = pc[u] /\ idx'[u] = idx[u]
  BY DEF CleanInv, TypeOK
<1>3. CallInv'
  <2>1. l # "idle" /\ pc[t] # "idle" /\ l \notin UntilPc
    BY DEF MultiPc, UntilPc
  <2> QED BY SMT, <1>2, <2>1 DEF CleanInv, CallInv, Timed, timerVars
<1>4. HandInv'
  BY DEF CleanInv, HandInv
<1>5. EntryInv'
  <2> SUFFICES ASSUME NEW u \in Task, NEW r \in Queue, u \in Entries(r)'
               PROVE  /\ pc'[u] \notin {"idle", "m_end", "m_timer"}
                      /\ r \in Elems(qs[u])
                      /\ pc'[u] = "m_cancel" => \E j \in idx'[u]..Len(qs[u]) : qs[u][j] = r
    BY SMT DEF EntryInv
  <2>1. CASE u = t
    BY <1>2, <2>1 DEF MultiPc
  <2>2. CASE u # t
    BY SMT, <1>2, <2>2 DEF CleanInv, EntryInv
  <2> QED BY <2>1, <2>2
<1>6. FlagInv'
  <2> SUFFICES ASSUME NEW u \in Task, in_wait_queue'[u]
               PROVE  \/ pc'[u] \in MultiPc
                      \/ \E r \in Queue : u \in Entries(r)'
                      \/ \E n \in Notifier : u \in Unclear(npc'[n], hand'[n])
    BY DEF FlagInv
  <2>1. CASE u = t
    BY <1>2, <2>1
  <2>2. CASE u # t
    <3>1. \/ pc[u] \in MultiPc
          \/ \E r \in Queue : u \in Entries(r)
          \/ \E n \in Notifier : u \in Unclear(npc[n], hand[n])
      BY <2>2 DEF CleanInv, FlagInv
    <3> QED BY <1>2, <2>2, <3>1
  <2> QED BY <2>1, <2>2
<1> QED BY <1>1, <1>3, <1>4, <1>5, <1>6 DEF CleanInv

(* The flag goes up before the first entry is made. *)
LEMMA MultiFlagStep ==
  ASSUME CleanInv, NEW t \in Task, MultiFlag(t)
  PROVE  CleanInv'
<1>1. /\ pc[t] = "m_flag" /\ pc' = [pc EXCEPT ![t] = "m_enroll"] /\ idx' = [idx EXCEPT ![t] = 1]
      /\ in_wait_queue' = [in_wait_queue EXCEPT ![t] = TRUE] /\ UNCHANGED queue
      /\ UNCHANGED <<state, wq_lock, npc, nq, hand, op, qs, ret, timerVars, ready, todo, credit>>
  BY DEF MultiFlag, At, Goto, notifyVars
<1>2. /\ in_wait_queue' \in [Task -> BOOLEAN] /\ queue' \in [Queue -> Seq(Task)]
      /\ \A u \in Task \ {t} : in_wait_queue'[u] = in_wait_queue[u]
      /\ \A r \in Queue : Entries(r)' = Entries(r)
  BY <1>1 DEF CleanInv, TypeOK, WQTypeOK, Entries
<1>3. \A r \in Queue : t \in Entries(r) => r \in Elems(qs[t])
  BY DEF CleanInv, EntryInv
<1>4. idx[t] \in 1..Len(qs[t]) /\ qs[t] \in Seq(Queue)
  BY <1>1, CallQueues
<1>5. 1 \in Nat /\ 1 \in 1..Len(qs[t])
  BY SMT, <1>4
<1>6. "m_enroll" \in MultiPc /\ "m_enroll" \in Pc /\ pc[t] \in MultiPc \ {"m_end"}
  BY <1>1 DEF MultiPc, Pc
<1>7. PICK l \in Pc, i \in Nat : l = "m_enroll" /\ i = 1
  BY <1>5, <1>6
<1>8. \A u \in Task \ {t}, r \in Queue : u \in Entries(r)' <=> u \in Entries(r)
  BY <1>2
<1>9. \A r \in Queue : t \in Entries(r)' =>
          /\ l # "m_end" /\ r \in Elems(qs[t])
          /\ l = "m_cancel" => \E j \in i..Len(qs[t]) : qs[t][j] = r
  BY <1>2, <1>3, <1>7
<1>10. /\ l \in MultiPc /\ i \in 1..Len(qs[t])
       /\ pc' = [pc EXCEPT ![t] = l] /\ idx' = [idx EXCEPT ![t] = i]
  BY <1>1, <1>5, <1>6, <1>7
<1>11. UNCHANGED <<state, wq_lock, npc, nq, hand, op, qs, ret, timerVars, ready, todo, credit>>
  BY <1>1
<1>12. pc[t] \in MultiPc \ {"m_end"}
  BY <1>6
<1>13. /\ in_wait_queue' \in [Task -> BOOLEAN] /\ queue' \in [Queue -> Seq(Task)]
       /\ \A u \in Task \ {t} : in_wait_queue'[u] = in_wait_queue[u]
  BY <1>2
<1> QED BY <1>7, <1>8, <1>9, <1>10, <1>11, <1>12, <1>13, VisitStep

(* The loops over the queues go to the next one, or on to l after the last. *)
LEMMA NextQueue ==
  ASSUME CleanInv, NEW t \in Task, NEW l, pc[t] # "idle",
         IF idx[t] = Len(qs[t])
         THEN Goto(t, l) /\ UNCHANGED idx
         ELSE idx' = [idx EXCEPT ![t] = idx[t] + 1] /\ UNCHANGED pc
  PROVE  \E k \in {l, pc[t]}, i \in {idx[t], idx[t] + 1} :
             /\ pc' = [pc EXCEPT ![t] = k] /\ idx' = [idx EXCEPT ![t] = i]
             /\ i \in Nat /\ i \in 1..Len(qs[t])
             /\ k = pc[t] /\ k # l => i = idx[t] + 1
             /\ i = idx[t] => idx[t] = Len(qs[t])
             /\ k # pc[t] => idx[t] = Len(qs[t])
<1>1. /\ idx[t] \in 1..Len(qs[t]) /\ Len(qs[t]) \in Nat
      /\ pc \in [Task -> Pc] /\ idx \in [Task -> Nat]
  BY SMT, CallQueues DEF CleanInv, TypeOK
<1>2. CASE idx[t] = Len(qs[t])
  <2>1. pc' = [pc EXCEPT ![t] = l] /\ idx' = [idx EXCEPT ![t] = idx[t]] /\ idx[t] \in Nat
    BY <1>1, <1>2 DEF Goto
  <2>2. l = pc[t] /\ l # l => idx[t] = idx[t] + 1
    OBVIOUS
  <2> QED BY <1>1, <1>2, <2>1, <2>2
<1>3. CASE idx[t] # Len(qs[t])
  <2>1. pc' = [pc EXCEPT ![t] = pc[t]] /\ idx' = [idx EXCEPT ![t] = idx[t] + 1]
    BY <1>1, <1>3
  <2>2. idx[t] + 1 \in Nat /\ idx[t] + 1 \in 1..Len(qs[t]) /\ idx[t] + 1 # idx[t]
    BY SMT, <1>1, <1>3
  <2> QED BY <2>1, <2>2
<1> QED BY <1>2, <1>3

(* One entry of the enrolment loop, in one of the queues of the call. *)
LEMMA MultiEnrollStep ==
  ASSUME CleanInv, NEW t \in Task, MultiEnroll(t)
  PROVE  CleanInv'
<1>0. pc[t] = "m_enroll"
  BY DEF MultiEnroll, At
<1>1. PICK q \in Queue : q = qs[t][idx[t]]
  BY <1>0, CallQueues
<1>2. /\ queue' = [queue EXCEPT ![q] = IF t \in Entries(q) THEN queue[q] ELSE Append(queue[q], t)]
      /\ UNCHANGED <<state, wq_lock, npc, nq, hand, op, qs, ret, timerVars, ready, todo, credit>>
      /\ in_wait_queue' = in_wait_queue
  BY <1>1 DEF MultiEnroll, notifyVars
<1>3. PICK l \in {"m_recheck", pc[t]}, i \in {idx[t], idx[t] + 1} :
         /\ pc' = [pc EXCEPT ![t] = l] /\ idx' = [idx EXCEPT ![t] = i]
         /\ i \in Nat /\ i \in 1..Len(qs[t])
  <2>1. IF idx[t] = Len(qs[t])
        THEN Goto(t, "m_recheck") /\ UNCHANGED idx
        ELSE idx' = [idx EXCEPT ![t] = idx[t] + 1] /\ UNCHANGED pc
    BY DEF MultiEnroll
  <2> QED BY <1>0, <2>1, NextQueue
<1>4. l \in Pc /\ l \in MultiPc /\ l \notin {"m_end", "m_cancel"} /\ pc[t] \in MultiPc \ {"m_end"}
  BY <1>0, <1>3 DEF Pc, MultiPc
<1>5. queue \in [Queue -> Seq(Task)] /\ queue[q] \in Seq(Task)
  BY DEF CleanInv, TypeOK, WQTypeOK
<1>6. Append(queue[q], t) \in Seq(Task) /\ Elems(Append(queue[q], t)) = Elems(queue[q]) \cup {t}
  BY <1>5, AppendElems
<1>7. /\ queue' \in [Queue -> Seq(Task)]
      /\ queue'[q] \in {queue[q], Append(queue[q], t)} /\ \A r \in Queue \ {q} : queue'[r] = queue[r]
  BY <1>2, <1>5, <1>6
<1>8. /\ \A r \in Queue \ {q} : Entries(r)' = Entries(r)
      /\ Entries(q)' \in {Entries(q), Entries(q) \cup {t}}
  BY <1>6, <1>7 DEF Entries
<1>9. \A u \in Task \ {t}, r \in Queue : u \in Entries(r)' <=> u \in Entries(r)
  BY <1>8
<1>10. q \in Elems(qs[t])
  <2>1. idx[t] \in DOMAIN qs[t]
    BY SMT, <1>0, CallQueues
  <2> QED BY <1>1, <2>1 DEF Elems
<1>11. \A r \in Queue : t \in Entries(r)' =>
          /\ l # "m_end" /\ r \in Elems(qs[t])
          /\ l = "m_cancel" => \E j \in i..Len(qs[t]) : qs[t][j] = r
  <2>1. \A r \in Queue : t \in Entries(r) => r \in Elems(qs[t])
    BY DEF CleanInv, EntryInv
  <2> QED BY <1>4, <1>8, <1>10, <2>1
<1>12. in_wait_queue' \in [Task -> BOOLEAN] /\ \A u \in Task \ {t} : in_wait_queue'[u] = in_wait_queue[u]
  BY <1>2 DEF CleanInv, TypeOK, WQTypeOK
<1> QED BY <1>2, <1>3, <1>4, <1>7, <1>9, <1>11, <1>12, VisitStep

(* One queue of the clean-up loop: no entry is left in the queues passed. *)
LEMMA MultiCancelStep ==
  ASSUME CleanInv, NEW t \in Task, MultiCancel(t)
  PROVE  CleanInv'
<1>0. pc[t] = "m_cancel"
  BY DEF MultiCancel, At
<1>1. PICK q \in Queue : q = qs[t][idx[t]]
  BY <1>0, CallQueues
<1>2. /\ cancel_events(t, q)
      /\ UNCHANGED <<op, qs, ret, timerVars, ready, todo, credit>>
  BY <1>1 DEF MultiCancel
<1>3. PICK l \in {"m_end", pc[t]}, i \in {idx[t], idx[t] + 1} :
         /\ pc' = [pc EXCEPT ![t] = l] /\ idx' = [idx EXCEPT ![t] = i]
         /\ i \in Nat /\ i \in 1..Len(qs[t])
         /\ l = pc[t] /\ l # "m_end" => i = idx[t] + 1
         /\ i = idx[t] => idx[t] = Len(qs[t])
         /\ l # pc[t] => idx[t] = Len(qs[t])
  <2>1. IF idx[t] = Len(qs[t])
        THEN Goto(t, "m_end") /\ UNCHANGED idx
        ELSE idx' = [idx EXCEPT ![t] = idx[t] + 1] /\ UNCHANGED pc
    BY DEF MultiCancel
  <2> QED BY <1>0, <2>1, NextQueue
<1>4. l \in Pc /\ l \in MultiPc /\ pc[t] \in MultiPc \ {"m_end"}
  BY <1>0, <1>3 DEF Pc, MultiPc
<1>5. /\ queue' \in [Queue -> Seq(Task)] /\ in_wait_queue' \in [Task -> BOOLEAN]
      /\ t \notin Entries(q)'
      /\ \A u \in Task, r \in Queue : u \in Entries(r)' => u \in Entries(r)
      /\ \A u \in Task, r \in Queue : u # t \/ r # q => (u \in Entries(r)' <=> u \in Entries(r))
      /\ \A u \in Task \ {t} : in_wait_queue'[u] = in_wait_queue[u]
      /\ UNCHANGED <<state, wq_lock, npc, nq, hand>>
  BY <1>2, CancelEffect
<1>6. ASSUME NEW r \in Queue, t \in Entries(r)'
      PROVE  /\ l # "m_end" /\ r \in Elems(qs[t])
             /\ l = "m_cancel" => \E j \in i..Len(qs[t]) : qs[t][j] = r
  <2>1. t \in Entries(r) /\ r # q
    BY <1>5, <1>6
  <2>2. r \in Elems(qs[t]) /\ \E j \in idx[t]..Len(qs[t]) : qs[t][j] = r
    BY <1>0, <2>1 DEF CleanInv, EntryInv
  <2>3. PICK j \in idx[t]..Len(qs[t]) : qs[t][j] = r
    BY <2>2
  <2>4. j # idx[t] /\ idx[t] \in 1..Len(qs[t]) /\ Len(qs[t]) \in Nat
    BY SMT, <1>0, <1>1, <2>1, <2>3, CallQueues
  <2>5. j \in (idx[t] + 1)..Len(qs[t]) /\ idx[t] # Len(qs[t])
    BY SMT, <2>3, <2>4
  <2> QED BY <1>0, <1>3, <2>2, <2>3, <2>5
<1>7. \A u \in Task \ {t}, r \in Queue : u \in Entries(r)' <=> u \in Entries(r)
  BY <1>5
<1> QED BY <1>2, <1>3, <1>4, <1>5, <1>6, <1>7, VisitStep

(* After the last queue the flag goes down, and an untimed call returns. *)
LEMMA MultiEndStep ==
  ASSUME CleanInv, NEW t \in Task, MultiEnd(t)
  PROVE  CleanInv'
<1>1. /\ pc[t] = "m_end" /\ in_wait_queue' = [in_wait_queue EXCEPT ![t] = FALSE]
      /\ UNCHANGED <<state, queue, wq_lock, npc, nq, hand>>
  BY DEF MultiEnd, At, notifyVars
<1>2. /\ in_wait_queue' \in [Task -> BOOLEAN] /\ queue' \in [Queue -> Seq(Task)]
      /\ ~in_wait_queue'[t] /\ \A u \in Task \ {t} : in_wait_queue'[u] = in_wait_queue[u]
  BY <1>1 DEF CleanInv, TypeOK, WQTypeOK
<1>3. \A r \in Queue : Entries(r)' = Entries(r) /\ t \notin Entries(r)
  BY <1>1 DEF Entries, CleanInv, EntryInv
<1>4. CASE Return(t)
  <2>1. \A u \in Task \ {t}, r \in Queue : u \in Entries(r)' <=> u \in Entries(r)
    BY <1>3
  <2>2. \A r \in Queue : t \notin Entries(r)'
    BY <1>3
  <2> QED BY <1>1, <1>2, <1>4, <2>1, <2>2, ReturnStep
<1>5. CASE Goto(t, "m_timer") /\ UNCHANGED <<op, qs, idx, ret, timerVars, ready, todo, credit>>
  <2>1. /\ pc' \in [Task -> Pc] /\ pc'[t] = "m_timer"
        /\ \A u \in Task \ {t} : pc'[u] = pc[u]
    BY <1>5 DEF Goto, CleanInv, TypeOK, Pc
  <2>2. TypeOK'
    BY SMTT(60), <1>1, <1>2, <1>5, <2>1 DEF CleanInv, TypeOK, WQTypeOK, timerVars
  <2>3. CallInv'
    BY <1>1, <1>5, <2>1 DEF CleanInv, CallInv, UntilPc, Timed, timerVars
  <2>4. HandInv'
    BY <1>1 DEF CleanInv, HandInv
  <2>5. EntryInv'
    <3> SUFFICES ASSUME NEW u \in Task, NEW r \in Queue, u \in Entries(r)'
                 PROVE  /\ pc'[u] \notin {"idle", "m_end", "m_timer"}
                        /\ r \in Elems(qs[u])
                        /\ pc'[u] = "m_cancel" => \E j \in idx[u]..Len(qs[u]) : qs[u][j] = r
      BY <1>5 DEF EntryInv
    <3>1. u # t /\ u \in Entries(r)
      BY <1>3
    <3> QED BY <2>1, <3>1 DEF CleanInv, EntryInv
  <2>6. FlagInv'
    <3> SUFFICES ASSUME NEW u \in Task, in_wait_queue'[u]
                 PROVE  \/ pc'[u] \in MultiPc
                        \/ \E r \in Queue : u \in Entries(r)'
                        \/ \E n \in Notifier : u \in Unclear(npc'[n], hand'[n])
      BY DEF FlagInv
    <3>1. u # t /\ in_wait_queue[u]
      BY <1>2
    <3>2. \/ pc[u] \in MultiPc
          \/ \E r \in Queue : u \in Entries(r)
          \/ \E n \in Notifier : u \in Unclear(npc[n], hand[n])
      BY <3>1 DEF CleanInv, FlagInv
    <3> QED BY <1>1, <1>3, <2>1, <3>1, <3>2
  <2> QED BY <2>2, <2>3, <2>4, <2>5, <2>6 DEF CleanInv
<1> QED BY <1>4, <1>5 DEF MultiEnd

(* A step of a notifier: entries may leave the queues only for its hand, and *)
(* who leaves its hand has its flag cleared.                                 *)
LEMMA HandStep ==
  ASSUME CleanInv, NEW n \in Notifier, NEW l \in NotifyPc, NEW h \in Seq(Task),
         npc' = [npc EXCEPT ![n] = l], hand' = [hand EXCEPT ![n] = h], HandOK(l, h),
         \A t \in Task, q \in Queue : t \in Entries(q)' => t \in Entries(q),
         \A t \in Task : in_wait_queue'[t] =>
             /\ in_wait_queue[t]
             /\ t \in Unclear(npc[n], hand[n]) => t \in Unclear(l, h)
             /\ \A q \in Queue : t \in Entries(q) => t \in Entries(q)' \/ t \in Unclear(l, h),
         UNCHANGED <<clientVars, armed>>
  PROVE  (CallInv /\ HandInv /\ EntryInv /\ FlagInv)'
<1>1. /\ npc'[n] = l /\ hand'[n] = h
      /\ \A a \in Agent \ {n} : npc'[a] = npc[a] /\ hand'[a] = hand[a]
  BY DEF CleanInv, TypeOK, WQTypeOK, Notifier
<1>2. CallInv'
  BY DEF CleanInv, CallInv, Timed, clientVars
<1>3. HandInv'
  <2>1. ASSUME NEW t \in Task PROVE npc'[t] = "none" /\ hand'[t] = <<>>
    BY <1>1, TaskIsAgent DEF CleanInv, HandInv, Notifier
  <2>2. ASSUME NEW m \in Notifier PROVE HandOK(npc'[m], hand'[m])
    <3>1. CASE m = n
      BY <1>1, <3>1
    <3>2. CASE m # n
      BY <1>1, <3>2 DEF CleanInv, HandInv, Notifier
    <3> QED BY <3>1, <3>2
  <2> QED BY <2>1, <2>2 DEF HandInv
<1>4. EntryInv'
  <2> SUFFICES ASSUME NEW u \in Task, NEW q \in Queue, u \in Entries(q)'
               PROVE  /\ pc[u] \notin {"idle", "m_end", "m_timer"}
                      /\ q \in Elems(qs[u])
                      /\ pc[u] = "m_cancel" => \E j \in idx[u]..Len(qs[u]) : qs[u][j] = q
    BY DEF EntryInv, clientVars
  <2>1. u \in Entries(q)
    OBVIOUS
  <2> QED BY <2>1 DEF CleanInv, EntryInv
<1>5. FlagInv'
  <2> SUFFICES ASSUME NEW u \in Task, in_wait_queue'[u], pc[u] \notin MultiPc,
                      \A q \in Queue : u \notin Entries(q)'
               PROVE  \E m \in Notifier : u \in Unclear(npc'[m], hand'[m])
    BY DEF FlagInv, clientVars
  <2>1. CASE u \in Unclear(l, h)
    BY <1>1, <2>1
  <2>2. CASE u \notin Unclear(l, h)
    <3>1. \A q \in Queue : u \notin Entries(q)
      BY <2>2
    <3>2. PICK m \in Notifier : u \in Unclear(npc[m], hand[m])
      BY <3>1 DEF CleanInv, FlagInv
    <3>3. m # n
      BY <2>2, <3>2
    <3> QED BY <1>1, <3>2, <3>3 DEF Notifier
  <2> QED BY <2>1, <2>2
<1> QED BY <1>2, <1>3, <1>4, <1>5

(* What the types of the wait queue's own variables need of such a step. *)
LEMMA HandType ==
  ASSUME CleanInv, NEW n \in Notifier, NEW l \in NotifyPc, NEW h \in Seq(Task),
         npc' = [npc EXCEPT ![n] = l], hand' = [hand EXCEPT ![n] = h],
         state' \in [Task -> TaskState], in_wait_queue' \in [Task -> BOOLEAN],
         queue' \in [Queue -> Seq(Task)], wq_lock' \in [Queue -> Agent \cup {None}],
         nq' \in [Agent -> Queue], todo' \in [Notifier -> Queue \cup {None}],
         credit' \in [Task -> BOOLEAN],
         UNCHANGED <<clientVars, timerVars, ready>>
  PROVE  TypeOK'
<1>1. npc \in [Agent -> NotifyPc] /\ hand \in [Agent -> Seq(Task)]
  BY DEF CleanInv, TypeOK, WQTypeOK
<1>2. npc' \in [Agent -> NotifyPc] /\ hand' \in [Agent -> Seq(Task)]
  BY <1>1, Assign
<1> QED BY SMTT(60), <1>2 DEF CleanInv, TypeOK, WQTypeOK, clientVars, timerVars

(* The call of notify_one or notify_all. *)
LEMMA NotifyCallStep ==
  ASSUME CleanInv, NEW n \in Notifier, Notify(n)
  PROVE  CleanInv'
<1>1. PICK q \in Queue : q = todo[n]
  BY DEF Notify, CleanInv, TypeOK
<1>2. /\ notify_one(n, q) \/ notify_all(n, q)
      /\ todo' = [todo EXCEPT ![n] = None] /\ UNCHANGED <<clientVars, timerVars, ready, credit>>
  BY <1>1 DEF Notify
<1>3. /\ npc[n] = "none" /\ nq' = [nq EXCEPT ![n] = q] /\ UNCHANGED <<state, in_wait_queue>>
      /\ hand[n] = <<>> /\ n \in Agent
  BY <1>2 DEF notify_one, notify_all, CleanInv, HandInv, HandOK, Notifier
<1>4. /\ nq' \in [Agent -> Queue] /\ todo' \in [Notifier -> Queue \cup {None}]
      /\ state' \in [Task -> TaskState] /\ in_wait_queue' \in [Task -> BOOLEAN]
      /\ credit' \in [Task -> BOOLEAN] /\ queue \in [Queue -> Seq(Task)]
      /\ hand \in [Agent -> Seq(Task)] /\ wq_lock \in [Queue -> Agent \cup {None}]
  BY <1>2, <1>3 DEF CleanInv, TypeOK, WQTypeOK
<1>5. Elems(<<>>) = {}
  BY SMT DEF Elems
<1>6. CASE notify_one(n, q)
  <2> DEFINE l == "pop"
             h == hand[n]
  <2>1. /\ npc' = [npc EXCEPT ![n] = l] /\ hand' = [hand EXCEPT ![n] = h] /\ queue' = queue
        /\ wq_lock' = [wq_lock EXCEPT ![q] = n]
    BY <1>4, <1>6 DEF notify_one, LockQueue
  <2>2. l \in NotifyPc /\ h \in Seq(Task) /\ HandOK(l, h) /\ wq_lock' \in [Queue -> Agent \cup {None}]
    BY <1>3, <1>4, <2>1 DEF NotifyPc, HandOK
  <2>3. Unclear(l, h) = Unclear(npc[n], hand[n])
    BY <1>3 DEF Unclear
  <2>4. \A r \in Queue : Entries(r)' = Entries(r)
    BY <2>1 DEF Entries
  <2>5. queue' \in [Queue -> Seq(Task)]
    BY <1>4, <2>1
  <2>6. \A t \in Task : in_wait_queue'[t] =>
             /\ in_wait_queue[t]
             /\ t \in Unclear(npc[n], hand[n]) => t \in Unclear(l, h)
             /\ \A r \in Queue : t \in Entries(r) => t \in Entries(r)' \/ t \in Unclear(l, h)
    BY <1>3, <2>3, <2>4
  <2>7. \A t \in Task, r \in Queue : t \in Entries(r)' => t \in Entries(r)
    BY <2>4
  <2> HIDE DEF l, h
  <2>8. TypeOK'
    BY <1>2, <1>4, <2>1, <2>2, <2>5, HandType
  <2>9. UNCHANGED <<clientVars, armed>>
    BY <1>2 DEF timerVars
  <2> QED BY <2>1, <2>2, <2>6, <2>7, <2>8, <2>9, HandStep DEF CleanInv
<1>7. CASE notify_all(n, q)
  <2> DEFINE l == "each"
             h == queue[q]
  <2>1. /\ npc' = [npc EXCEPT ![n] = l] /\ hand' = [hand EXCEPT ![n] = h]
        /\ queue' = [queue EXCEPT ![q] = <<>>] /\ wq_lock' = wq_lock
    BY <1>7 DEF notify_all
  <2>2. l \in NotifyPc /\ h \in Seq(Task) /\ HandOK(l, h) /\ wq_lock' \in [Queue -> Agent \cup {None}]
    BY <1>4, <2>1 DEF NotifyPc, HandOK
  <2>3. /\ Unclear(l, h) = Entries(q) /\ Unclear(npc[n], hand[n]) = {}
        /\ Entries(q)' = {} /\ \A r \in Queue \ {q} : Entries(r)' = Entries(r)
    BY <1>3, <1>4, <1>5, <2>1 DEF Unclear, Entries
  <2>4. <<>> \in Seq(Task)
    BY SMT
  <2>5. queue' \in [Queue -> Seq(Task)]
    BY <1>4, <2>1, <2>4, Assign
  <2>6. \A t \in Task : in_wait_queue'[t] =>
             /\ in_wait_queue[t]
             /\ t \in Unclear(npc[n], hand[n]) => t \in Unclear(l, h)
             /\ \A r \in Queue : t \in Entries(r) => t \in Entries(r)' \/ t \in Unclear(l, h)
    BY <1>3, <2>3
  <2>7. \A t \in Task, r \in Queue : t \in Entries(r)' => t \in Entries(r)
    BY <2>3
  <2> HIDE DEF l, h
  <2>8. TypeOK'
    BY <1>2, <1>4, <2>1, <2>2, <2>5, HandType
  <2>9. UNCHANGED <<clientVars, armed>>
    BY <1>2 DEF timerVars
  <2> QED BY <2>1, <2>2, <2>6, <2>7, <2>8, <2>9, HandStep DEF CleanInv
<1> QED BY <1>2, <1>6, <1>7

(* What such a step gives, in one piece. *)
LEMMA HandClean ==
  ASSUME CleanInv, NEW n \in Notifier, NEW l \in NotifyPc, NEW h \in Seq(Task),
         npc' = [npc EXCEPT ![n] = l], hand' = [hand EXCEPT ![n] = h], HandOK(l, h),
         state' \in [Task -> TaskState], in_wait_queue' \in [Task -> BOOLEAN],
         queue' \in [Queue -> Seq(Task)], wq_lock' \in [Queue -> Agent \cup {None}],
         credit' \in [Task -> BOOLEAN],
         \A t \in Task, q \in Queue : t \in Entries(q)' => t \in Entries(q),
         \A t \in Task : in_wait_queue'[t] =>
             /\ in_wait_queue[t]
             /\ t \in Unclear(npc[n], hand[n]) => t \in Unclear(l, h)
             /\ \A q \in Queue : t \in Entries(q) => t \in Entries(q)' \/ t \in Unclear(l, h),
         UNCHANGED <<nq, clientVars, timerVars, ready, todo>>
  PROVE  CleanInv'
<1>1. nq' \in [Agent -> Queue] /\ todo' \in [Notifier -> Queue \cup {None}]
  BY DEF CleanInv, TypeOK, WQTypeOK
<1>2. UNCHANGED <<clientVars, armed>> /\ UNCHANGED <<clientVars, timerVars, ready>>
  BY DEF timerVars
<1>3. TypeOK'
  BY <1>1, <1>2, HandType
<1>4. (CallInv /\ HandInv /\ EntryInv /\ FlagInv)'
  BY <1>2, HandStep
<1> QED BY <1>3, <1>4 DEF CleanInv

(* The steps of notify_one, with the queue's lock held. *)
LEMMA NotifyOneStep ==
  ASSUME CleanInv, NEW n \in Notifier, credit' \in [Task -> BOOLEAN],
         UNCHANGED <<clientVars, timerVars, ready, todo>>,
         NotifyOneEmpty(n) \/ NotifyOnePop(n) \/ NotifyOneConsume(n) \/ NotifyOneStale(n)
  PROVE  CleanInv'
<1>0. /\ n \in Agent /\ HandOK(npc[n], hand[n]) /\ hand[n] \in Seq(Task) /\ nq[n] \in Queue
      /\ queue \in [Queue -> Seq(Task)] /\ in_wait_queue \in [Task -> BOOLEAN]
      /\ state \in [Task -> TaskState] /\ wq_lock \in [Queue -> Agent \cup {None}]
      /\ hand \in [Agent -> Seq(Task)] /\ npc \in [Agent -> NotifyPc]
  BY DEF CleanInv, HandInv, TypeOK, WQTypeOK, Notifier
<1>2. PICK q \in Queue : q = nq[n]
  BY <1>0
<1>e. Elems(<<>>) = {} /\ <<>> \in Seq(Task)
  BY SMT DEF Elems
<1>3. CASE NotifyOneEmpty(n)
  <2> DEFINE l == "empty"
             h == hand[n]
  <2>1. /\ npc' = [npc EXCEPT ![n] = l] /\ hand' = [hand EXCEPT ![n] = h]
        /\ wq_lock' = [wq_lock EXCEPT ![q] = None] /\ npc[n] = "pop"
        /\ UNCHANGED <<state, in_wait_queue, queue, nq>>
    BY <1>0, <1>2, <1>3 DEF NotifyOneEmpty, UnlockQueue
  <2>2. l \in NotifyPc /\ HandOK(l, h) /\ Unclear(l, h) = Unclear(npc[n], hand[n])
    BY <1>0, <2>1 DEF NotifyPc, HandOK, Unclear
  <2>3. /\ state' \in [Task -> TaskState] /\ in_wait_queue' \in [Task -> BOOLEAN]
        /\ queue' \in [Queue -> Seq(Task)] /\ wq_lock' \in [Queue -> Agent \cup {None}]
    BY <1>0, <2>1
  <2>4. \A r \in Queue : Entries(r)' = Entries(r)
    BY <2>1 DEF Entries
  <2>5. \A t \in Task : in_wait_queue'[t] =>
             /\ in_wait_queue[t]
             /\ t \in Unclear(npc[n], hand[n]) => t \in Unclear(l, h)
             /\ \A r \in Queue : t \in Entries(r) => t \in Entries(r)' \/ t \in Unclear(l, h)
    BY <2>1, <2>2, <2>4
  <2>6. \A t \in Task, r \in Queue : t \in Entries(r)' => t \in Entries(r)
    BY <2>4
  <2> HIDE DEF l, h
  <2> QED BY <1>0, <2>1, <2>2, <2>3, <2>5, <2>6, HandClean DEF h
<1>4. CASE NotifyOnePop(n)
  <2>1. PICK t \in Task : t = Head(queue[q]) /\ queue[q] # <<>>
    BY <1>0, <1>2, <1>4, HeadTailElems DEF NotifyOnePop
  <2>2. Tail(queue[q]) \in Seq(Task) /\ Entries(q) = Elems(Tail(queue[q])) \cup {t}
    BY <1>0, <2>1, HeadTailElems DEF Entries
  <2> DEFINE l == CASE state[t] = "Blocked" -> "clear_one"
                    [] state[t] = "Running" -> "consume"
                    [] OTHER                -> "stale"
             h == <<t>>
  <2>3. /\ npc[n] = "pop" /\ queue' = [queue EXCEPT ![q] = Tail(queue[q])]
        /\ npc' = [npc EXCEPT ![n] = l] /\ hand' = [hand EXCEPT ![n] = h]
        /\ wq_lock' = IF state[t] = "Blocked" THEN [wq_lock EXCEPT ![q] = None] ELSE wq_lock
        /\ UNCHANGED <<state, in_wait_queue, nq>>
    BY <1>2, <1>4, <2>1 DEF NotifyOnePop
  <2>4. l \in {"clear_one", "consume", "stale"}
    OBVIOUS
  <2>5. h \in Seq(Task) /\ Tail(h) = <<>> /\ h # <<>> /\ Elems(h) = {t}
    BY SMT DEF Elems
  <2> HIDE DEF l, h
  <2>6. l \in NotifyPc /\ HandOK(l, h) /\ Unclear(l, h) = {t}
    BY <2>4, <2>5 DEF NotifyPc, HandOK, Unclear
  <2>7. Unclear(npc[n], hand[n]) = {}
    BY <1>0, <1>e, <2>3 DEF HandOK, Unclear
  <2>8. /\ state' \in [Task -> TaskState] /\ in_wait_queue' \in [Task -> BOOLEAN]
        /\ queue' \in [Queue -> Seq(Task)] /\ wq_lock' \in [Queue -> Agent \cup {None}]
    BY <1>0, <2>2, <2>3
  <2>9. Entries(q)' \cup {t} = Entries(q) /\ \A r \in Queue \ {q} : Entries(r)' = Entries(r)
    BY <1>0, <2>2, <2>3 DEF Entries
  <2>10. \A u \in Task : in_wait_queue'[u] =>
             /\ in_wait_queue[u]
             /\ u \in Unclear(npc[n], hand[n]) => u \in Unclear(l, h)
             /\ \A r \in Queue : u \in Entries(r) => u \in Entries(r)' \/ u \in Unclear(l, h)
    BY <2>3, <2>6, <2>7, <2>9
  <2>11. \A u \in Task, r \in Queue : u \in Entries(r)' => u \in Entries(r)
    BY <2>9
  <2> QED BY <2>3, <2>5, <2>6, <2>8, <2>10, <2>11, HandClean
<1>5. CASE NotifyOneConsume(n) \/ NotifyOneStale(n)
  <2>0. hand[n] # <<>> /\ Tail(hand[n]) = <<>> /\ npc[n] \in {"consume", "stale"}
    BY <1>0, <1>5 DEF HandOK, NotifyOneConsume, NotifyOneStale
  <2>1. PICK t \in Task : t = Head(hand[n])
    BY <1>0, <2>0, HeadTailElems
  <2>2. Unclear(npc[n], hand[n]) = {t}
    <3>1. Elems(hand[n]) = Elems(Tail(hand[n])) \cup {t}
      BY <1>0, <2>0, <2>1, HeadTailElems
    <3> QED BY <1>e, <2>0, <3>1 DEF Unclear
  <2>3. PICK l \in {"woke", "pop"} :
           /\ npc' = [npc EXCEPT ![n] = l] /\ hand' = [hand EXCEPT ![n] = <<>>]
           /\ in_wait_queue' = [in_wait_queue EXCEPT ![t] = FALSE]
           /\ wq_lock' = wq_lock \/ wq_lock' = [wq_lock EXCEPT ![q] = None]
           /\ UNCHANGED <<state, queue, nq>>
    BY <1>2, <1>5, <2>1 DEF NotifyOneConsume, NotifyOneStale, UnlockQueue
  <2>4. l \in NotifyPc /\ HandOK(l, <<>>) /\ Unclear(l, <<>>) = {}
    BY <1>e, <2>3 DEF NotifyPc, HandOK, Unclear
  <2>5. /\ state' \in [Task -> TaskState] /\ in_wait_queue' \in [Task -> BOOLEAN]
        /\ queue' \in [Queue -> Seq(Task)] /\ wq_lock' \in [Queue -> Agent \cup {None}]
        /\ ~in_wait_queue'[t] /\ \A u \in Task \ {t} : in_wait_queue'[u] = in_wait_queue[u]
    BY <1>0, <2>3
  <2>6. \A r \in Queue : Entries(r)' = Entries(r)
    BY <2>3 DEF Entries
  <2>7. \A u \in Task : in_wait_queue'[u] =>
             /\ in_wait_queue[u]
             /\ u \in Unclear(npc[n], hand[n]) => u \in Unclear(l, <<>>)
             /\ \A r \in Queue : u \in Entries(r) => u \in Entries(r)' \/ u \in Unclear(l, <<>>)
    BY <2>2, <2>4, <2>5, <2>6
  <2>8. \A u \in Task, r \in Queue : u \in Entries(r)' => u \in Entries(r)
    BY <2>6
  <2> QED BY <1>e, <2>3, <2>4, <2>5, <2>7, <2>8, HandClean
<1> QED BY <1>3, <1>4, <1>5

(* The steps of notify_all's loop and of unblock_one_task, and the return. *)
LEMMA NotifyAllStep ==
  ASSUME CleanInv, NEW n \in Notifier, credit' \in [Task -> BOOLEAN],
         UNCHANGED <<clientVars, timerVars, ready, todo>>,
         \/ NotifyAllEach(n) \/ NotifyAllSkip(n) \/ UnblockClear(n) \/ UnblockCas(n)
         \/ NotifyReturn(n)
  PROVE  CleanInv'
<1>0. /\ n \in Agent /\ HandOK(npc[n], hand[n]) /\ hand[n] \in Seq(Task) /\ nq[n] \in Queue
      /\ queue \in [Queue -> Seq(Task)] /\ in_wait_queue \in [Task -> BOOLEAN]
      /\ state \in [Task -> TaskState] /\ wq_lock \in [Queue -> Agent \cup {None}]
      /\ hand \in [Agent -> Seq(Task)] /\ npc \in [Agent -> NotifyPc]
  BY DEF CleanInv, HandInv, TypeOK, WQTypeOK, Notifier
<1>1. UNCHANGED <<queue, wq_lock, nq>>
  BY DEF NotifyAllEach, NotifyAllSkip, UnblockClear, UnblockCas, NotifyReturn
<1>2. /\ queue' \in [Queue -> Seq(Task)] /\ wq_lock' \in [Queue -> Agent \cup {None}]
      /\ \A r \in Queue : Entries(r)' = Entries(r)
  BY <1>0, <1>1 DEF Entries
<1>3. \A u \in Task, r \in Queue : u \in Entries(r)' => u \in Entries(r)
  BY <1>2
<1>4. CASE NotifyAllEach(n) \/ NotifyReturn(n)
  <2> DEFINE h == hand[n]
  <2>1. PICK l \in {"woke", "clear_all", "skip", "none"} :
           /\ npc' = [npc EXCEPT ![n] = l] /\ hand' = [hand EXCEPT ![n] = h]
           /\ l \in {"woke", "none"} => h = <<>>
           /\ l \in {"clear_all", "skip"} => h # <<>>
           /\ npc[n] \in {"each", "woke", "empty"}
           /\ UNCHANGED <<state, in_wait_queue>>
    <3>1. CASE NotifyReturn(n)
      <4>1. /\ npc' = [npc EXCEPT ![n] = "none"] /\ hand' = hand /\ npc[n] \in {"woke", "empty"}
            /\ UNCHANGED <<state, in_wait_queue>>
        BY <3>1 DEF NotifyReturn
      <4>2. hand' = [hand EXCEPT ![n] = h] /\ h = <<>>
        BY <1>0, <4>1 DEF HandOK
      <4> QED BY <4>1, <4>2
    <3>2. CASE NotifyAllEach(n)
      <4>1. /\ hand' = hand /\ npc[n] = "each" /\ UNCHANGED <<state, in_wait_queue>>
        BY <3>2 DEF NotifyAllEach
      <4>2. hand' = [hand EXCEPT ![n] = h]
        BY <1>0, <4>1
      <4>3. CASE h = <<>>
        <5>1. npc' = [npc EXCEPT ![n] = "woke"]
          BY <3>2, <4>3 DEF NotifyAllEach
        <5> QED BY <4>1, <4>2, <4>3, <5>1
      <4>4. CASE h # <<>> /\ state[Head(h)] = "Blocked"
        <5>1. npc' = [npc EXCEPT ![n] = "clear_all"]
          BY <3>2, <4>4 DEF NotifyAllEach
        <5> QED BY <4>1, <4>2, <4>4, <5>1
      <4>5. CASE h # <<>> /\ state[Head(h)] # "Blocked"
        <5>1. npc' = [npc EXCEPT ![n] = "skip"]
          BY <3>2, <4>5 DEF NotifyAllEach
        <5> QED BY <4>1, <4>2, <4>5, <5>1
      <4> QED BY <4>3, <4>4, <4>5
    <3> QED BY <1>4, <3>1, <3>2
  <2>2. /\ l \in NotifyPc /\ HandOK(l, h) /\ h \in Seq(Task)
        /\ Unclear(l, h) = Unclear(npc[n], hand[n])
    BY <1>0, <2>1 DEF NotifyPc, HandOK, Unclear
  <2>3. state' \in [Task -> TaskState] /\ in_wait_queue' \in [Task -> BOOLEAN]
    BY <1>0, <2>1
  <2>4. \A u \in Task : in_wait_queue'[u] =>
             /\ in_wait_queue[u]
             /\ u \in Unclear(npc[n], hand[n]) => u \in Unclear(l, h)
             /\ \A r \in Queue : u \in Entries(r) => u \in Entries(r)' \/ u \in Unclear(l, h)
    BY <1>2, <2>1, <2>2
  <2> HIDE DEF h
  <2> QED BY <1>1, <1>2, <1>3, <2>1, <2>2, <2>3, <2>4, HandClean
<1>5. CASE NotifyAllSkip(n) \/ UnblockClear(n) \/ UnblockCas(n)
  <2>0. hand[n] # <<>> /\ npc[n] \in {"skip", "clear_one", "clear_all", "cas_one", "cas_all"}
    BY <1>0, <1>5 DEF HandOK, NotifyAllSkip, UnblockClear, UnblockCas
  <2>1. PICK t \in Task : t = Head(hand[n])
    BY <1>0, <2>0, HeadTailElems
  <2>2. Tail(hand[n]) \in Seq(Task) /\ Elems(hand[n]) = Elems(Tail(hand[n])) \cup {t}
    BY <1>0, <2>0, <2>1, HeadTailElems
  <2>3. PICK l \in {"each", "woke", "cas_one", "cas_all"}, h \in {hand[n], Tail(hand[n])} :
           /\ npc' = [npc EXCEPT ![n] = l] /\ hand' = [hand EXCEPT ![n] = h]
           /\ l = "woke" => npc[n] = "cas_one" /\ h = Tail(hand[n])
           /\ l = "each" => npc[n] \in {"skip", "cas_all"} /\ h = Tail(hand[n])
           /\ l \in {"cas_one", "cas_all"} => h = hand[n]
           /\ l = "cas_one" => npc[n] = "clear_one"
           /\ npc[n] \in {"cas_one", "cas_all"} => in_wait_queue' = in_wait_queue
           /\ npc[n] \notin {"cas_one", "cas_all"} =>
                  in_wait_queue' = [in_wait_queue EXCEPT ![t] = FALSE]
    <3>1. CASE NotifyAllSkip(n)
      BY <2>1, <3>1 DEF NotifyAllSkip
    <3>2. CASE UnblockClear(n)
      <4>1. /\ npc[n] \in {"clear_one", "clear_all"} /\ hand' = hand
            /\ in_wait_queue' = [in_wait_queue EXCEPT ![t] = FALSE]
            /\ npc' = [npc EXCEPT ![n] = IF npc[n] = "clear_one" THEN "cas_one" ELSE "cas_all"]
        BY <2>1, <3>2 DEF UnblockClear
      <4>2. hand' = [hand EXCEPT ![n] = hand[n]]
        BY <1>0, <4>1
      <4> QED BY <4>1, <4>2
    <3>3. CASE UnblockCas(n)
      BY <2>1, <3>3 DEF UnblockCas
    <3> QED BY <1>5, <3>1, <3>2, <3>3
  <2>4. h \in Seq(Task) /\ l \in NotifyPc
    BY <1>0, <2>2, <2>3 DEF NotifyPc
  <2>5. HandOK(l, h)
    BY <1>0, <2>0, <2>3 DEF HandOK
  <2>6. state' \in [Task -> TaskState]
    <3>1. state' = state \/ state' = [state EXCEPT ![t] = "Ready"]
      BY <1>0, <1>5, <2>1 DEF NotifyAllSkip, UnblockClear, UnblockCas
    <3> QED BY <1>0, <3>1 DEF TaskState
  <2>7. in_wait_queue' \in [Task -> BOOLEAN]
    BY <1>0, <2>3
  <2>8. ASSUME NEW u \in Task, in_wait_queue'[u]
        PROVE  /\ in_wait_queue[u]
               /\ u \in Unclear(npc[n], hand[n]) => u \in Unclear(l, h)
               /\ \A r \in Queue : u \in Entries(r) => u \in Entries(r)' \/ u \in Unclear(l, h)
    <3>1. CASE npc[n] \in {"cas_one", "cas_all"}
      <4>1. Unclear(l, h) = Elems(Tail(hand[n])) /\ Unclear(npc[n], hand[n]) = Elems(Tail(hand[n]))
        BY <2>3, <3>1 DEF Unclear
      <4> QED BY <1>2, <2>3, <2>8, <3>1, <4>1
    <3>2. CASE npc[n] \notin {"cas_one", "cas_all"}
      <4>1. u # t /\ in_wait_queue[u]
        BY <1>0, <2>3, <2>8, <3>2
      <4>2. Unclear(npc[n], hand[n]) = Elems(hand[n])
        BY <3>2 DEF Unclear
      <4>3. Unclear(l, h) = Elems(Tail(hand[n]))
        BY <2>3, <3>2 DEF Unclear
      <4> QED BY SMT, <1>2, <2>2, <4>1, <4>2, <4>3
    <3> QED BY <3>1, <3>2
  <2> QED BY <1>1, <1>2, <1>3, <2>3, <2>4, <2>5, <2>6, <2>7, <2>8, HandClean
<1> QED BY <1>4, <1>5

(* Timers, the scheduler, signals and the conditions are outside the calls. *)
LEMMA OutsideStep ==
  ASSUME CleanInv,
         UNCHANGED <<in_wait_queue, queue, wq_lock, npc, nq, hand, pc, op, qs, idx, ret, credit>>,
         state' \in [Task -> TaskState], due' \in [Task -> BOOLEAN],
         armed' \in [Task -> BOOLEAN], firing' \in [Task -> BOOLEAN], near' \in [Task -> BOOLEAN],
         todo' \in [Notifier -> Queue \cup {None}], ready' \subseteq Queue,
         \A t \in Task : armed'[t] => armed[t]
  PROVE  CleanInv'
<1>1. TypeOK'
  BY SMTT(60) DEF CleanInv, TypeOK, WQTypeOK
<1>2. (CallInv /\ HandInv /\ EntryInv /\ FlagInv)'
  BY UnseenStep
<1> QED BY <1>1, <1>2 DEF CleanInv

(* A timer event, a switch in or out, a signal. *)
LEMMA TimerStep ==
  ASSUME CleanInv, NEW t \in Task, Timer(t) \/ SwitchIn(t) \/ SwitchOut(t) \/ Signal(t)
  PROVE  CleanInv'
<1>0. /\ state \in [Task -> TaskState] /\ due \in [Task -> BOOLEAN] /\ armed \in [Task -> BOOLEAN]
      /\ firing \in [Task -> BOOLEAN] /\ near \in [Task -> BOOLEAN]
      /\ todo \in [Notifier -> Queue \cup {None}] /\ ready \subseteq Queue
      /\ "Ready" \in TaskState /\ "Running" \in TaskState
  BY DEF CleanInv, TypeOK, WQTypeOK, TaskState
<1>1. UNCHANGED <<in_wait_queue, queue, wq_lock, npc, nq, hand, pc, op, qs, idx, ret, credit, todo, ready>>
  BY DEF Timer, DeadlinePasses, TimerExpires, TimerWakes, SwitchIn, SwitchOut, Signal, Dispatch,
         Preempt, interrupt_task, wqVars, notifyVars, clientVars, timerVars
<1>2. state' \in [Task -> TaskState]
  <2>1. state' = state \/ \E s \in TaskState : state' = [state EXCEPT ![t] = s]
    BY <1>0 DEF Timer, DeadlinePasses, TimerExpires, TimerWakes, SwitchIn, SwitchOut, Signal,
       Dispatch, Preempt, interrupt_task, wqVars
  <2> QED BY <1>0, <2>1, Assign
<1>3. due' \in [Task -> BOOLEAN] /\ firing' \in [Task -> BOOLEAN]
  <2>1. /\ due' = due \/ due' = [due EXCEPT ![t] = TRUE]
        /\ firing' = firing \/ \E b \in BOOLEAN : firing' = [firing EXCEPT ![t] = b]
    BY DEF Timer, DeadlinePasses, TimerExpires, TimerWakes, SwitchIn, SwitchOut, Signal, timerVars
  <2> QED BY <1>0, <2>1
<1>4. near' \in [Task -> BOOLEAN]
  <2>1. near' = near \/ \E b \in BOOLEAN : near' = [near EXCEPT ![t] = b \/ ~armed[t]]
    BY DEF Timer, DeadlinePasses, TimerExpires, TimerWakes, SwitchIn, SwitchOut, Signal, timerVars
  <2> QED BY <1>0, <2>1
<1>5. armed' \in [Task -> BOOLEAN] /\ \A u \in Task : armed'[u] => armed[u]
  <2>1. armed' = armed \/ armed' = [armed EXCEPT ![t] = FALSE]
    BY DEF Timer, DeadlinePasses, TimerExpires, TimerWakes, SwitchIn, SwitchOut, Signal, timerVars
  <2> QED BY <1>0, <2>1
<1>6. todo' \in [Notifier -> Queue \cup {None}] /\ ready' \subseteq Queue
  BY <1>0, <1>1
<1> QED BY <1>1, <1>2, <1>3, <1>4, <1>5, <1>6, OutsideStep

(* A condition becomes true or false. *)
LEMMA ConditionStep ==
  ASSUME CleanInv, NEW q \in Queue,
         (\E t \in Task : Drain(t, q)) \/ (\E n \in Notifier : Produce(n, q))
  PROVE  CleanInv'
<1>0. /\ state \in [Task -> TaskState] /\ due \in [Task -> BOOLEAN] /\ armed \in [Task -> BOOLEAN]
      /\ firing \in [Task -> BOOLEAN] /\ near \in [Task -> BOOLEAN]
      /\ todo \in [Notifier -> Queue \cup {None}] /\ ready \subseteq Queue
  BY DEF CleanInv, TypeOK, WQTypeOK
<1>1. /\ UNCHANGED <<in_wait_queue, queue, wq_lock, npc, nq, hand, pc, op, qs, idx, ret, credit>>
      /\ UNCHANGED <<state, due, armed, firing, near>>
  BY DEF Drain, Produce, wqVars, clientVars, timerVars
<1>2. todo' \in [Notifier -> Queue \cup {None}]
  <2>1. todo' = todo \/ \E n \in Notifier : todo' = [todo EXCEPT ![n] = q]
    BY DEF Drain, Produce
  <2>2. q \in Queue \cup {None}
    OBVIOUS
  <2> QED BY <1>0, <2>1, <2>2, Assign
<1>3. ready' \subseteq Queue
  BY <1>0 DEF Drain, Produce
<1>4. \A t \in Task : armed'[t] => armed[t]
  BY <1>1
<1> QED BY <1>0, <1>1, <1>2, <1>3, <1>4, OutsideStep

(* Every way to make a call. *)
LEMMA StartStep ==
  ASSUME CleanInv, NEW t \in Task, Start(t)
  PROVE  CleanInv'
<1>1. ASSUME NEW o \in Op, NEW q \in Queue, NEW l \in {"lock", "top"}, Call(t, o, <<q>>, l)
      PROVE  CleanInv'
  <2>1. <<q>> \in Seq(Queue) /\ <<q>> # <<>> /\ Len(<<q>>) = 1
    BY SMT
  <2>2. l \in Pc /\ l \notin {"idle", "m_cancel", "m_end", "m_timer"}
    BY DEF Pc
  <2> QED BY <1>1, <2>1, <2>2, CallStep
<1>2. ASSUME NEW o \in Op, Call(t, o, MultiQueues, "m_top") PROVE CleanInv'
  <2>1. PICK l \in Pc : l = "m_top"
    BY DEF Pc
  <2>2. l \notin {"idle", "m_cancel", "m_end", "m_timer"} /\ l \notin UntilPc
    BY <2>1 DEF UntilPc
  <2> QED BY <1>2, <2>1, <2>2, MultiAssumption, CallStep
<1> QED BY <1>1, <1>2 DEF Start, wait, wait_timeout, wait_until, wait_timeout_until,
                          wait_multiple_timeout_until

(* Every step keeps the invariant. *)
LEMMA NextClean == ASSUME CleanInv, [Next]_vars PROVE CleanInv'
<1>1. ASSUME NEW t \in Task, Start(t) \/ Step(t) \/ Timer(t) PROVE CleanInv'
  BY <1>1, StartStep, UntilStep, BlockStep, LastCancelStep, MultiStep, MultiFlagStep,
     MultiEnrollStep, MultiCancelStep, MultiEndStep, TimerStep DEF Step
<1>2. ASSUME NEW t \in Task, SwitchIn(t) \/ SwitchOut(t) \/ Signal(t) PROVE CleanInv'
  BY <1>2, TimerStep
<1>3. ASSUME NEW n \in Notifier, Notify(n) \/ Notifying(n) PROVE CleanInv'
  <2>1. CASE Notify(n)
    BY <2>1, NotifyCallStep
  <2>2. CASE Notifying(n)
    <3>1. credit' \in [Task -> BOOLEAN] /\ UNCHANGED <<clientVars, timerVars, ready, todo>>
      BY <2>2 DEF Notifying, CleanInv, TypeOK
    <3> QED BY <2>2, <3>1, NotifyOneStep, NotifyAllStep DEF Notifying, NotifyStep
  <2> QED BY <1>3, <2>1, <2>2
<1>4. CASE UNCHANGED vars
  <2>1. /\ UNCHANGED <<in_wait_queue, queue, npc, hand, pc, op, qs, idx, armed>>
    BY <1>4 DEF vars, wqVars, clientVars, timerVars
  <2>2. (CallInv /\ HandInv /\ EntryInv /\ FlagInv)'
    BY <2>1, UnseenStep
  <2>3. TypeOK'
    BY SMTT(60), <1>4 DEF vars, wqVars, clientVars, timerVars, CleanInv, TypeOK, WQTypeOK
  <2> QED BY <2>2, <2>3 DEF CleanInv
<1> QED BY <1>1, <1>2, <1>3, <1>4, ConditionStep DEF Next

(* A blocking operation of the wait queue, however it ends, leaves no entry in *)
(* any queue and no ticket behind, and its flag false or about to be cleared   *)
(* by a notifier that has the task in hand.                                    *)
THEOREM CallsCleanUp == Spec => []CleanReturn
<1>1. CleanInv => CleanReturn
  <2> SUFFICES ASSUME CleanInv, NEW t \in Task, pc[t] = "idle"
               PROVE  /\ \A q \in Queue : t \notin Entries(q)
                      /\ ~armed[t]
                      /\ in_wait_queue[t] => InHand(t)
    BY DEF CleanReturn
  <2>1. \A q \in Queue : t \notin Entries(q)
    BY DEF CleanInv, EntryInv
  <2>2. ~armed[t]
    BY DEF CleanInv, CallInv
  <2>3. ASSUME in_wait_queue[t] PROVE InHand(t)
    <3>1. pc[t] \notin MultiPc
      BY DEF MultiPc
    <3>2. PICK n \in Notifier : t \in Unclear(npc[n], hand[n])
      BY <2>1, <2>3, <3>1 DEF CleanInv, FlagInv
    <3>3. hand[n] \in Seq(Task) /\ HandOK(npc[n], hand[n])
      BY DEF CleanInv, HandInv, TypeOK, WQTypeOK, Notifier
    <3>4. t \in Elems(hand[n])
      <4>1. CASE npc[n] \in {"cas_one", "cas_all"}
        <5>1. hand[n] # <<>>
          BY <3>3, <4>1 DEF HandOK
        <5>2. Elems(hand[n]) = Elems(Tail(hand[n])) \cup {Head(hand[n])}
          BY <3>3, <5>1, HeadTailElems
        <5> QED BY <3>2, <4>1, <5>2 DEF Unclear
      <4>2. CASE npc[n] \notin {"cas_one", "cas_all"}
        BY <3>2, <4>2 DEF Unclear
      <4> QED BY <4>1, <4>2
    <3> QED BY <3>4 DEF InHand
  <2> QED BY <2>1, <2>2, <2>3
<1>2. Init => CleanInv
  BY InitClean
<1>3. CleanInv /\ [Next]_vars => CleanInv'
  BY NextClean
<1> QED BY <1>1, <1>2, <1>3, PTL DEF Spec
------------------------------------------------------------------------------
(* No task calls wait_multiple_timeout_until. *)
SingleQueueOps == Op \cap {"wait_multiple", "wait_multiple_timeout"} = {}

SingleInv == \A t \in Task : pc[t] \in UntilPc \cup {"idle"}

(* A sleeper has its entry, or somebody is going to wake it. *)
SleepInv ==
    \A t \in Task : state[t] = "Blocked" =>
        \/ \A q \in Elems(qs[t]) : t \in Entries(q)
        \/ \E n \in Notifier : t \in Wakes(npc[n], hand[n])

SleeperInv == CleanInv /\ SingleInv /\ SleepInv

(* Calls on one queue never reach the steps of wait_multiple_timeout_until. *)
LEMMA SingleStep ==
  ASSUME SleeperInv, SingleQueueOps, [Next]_vars
  PROVE  SingleInv'
<1>0. pc \in [Task -> Pc] /\ \A t \in Task : pc[t] \in UntilPc \cup {"idle"}
  BY DEF SleeperInv, CleanInv, TypeOK, SingleInv
<1>1. SUFFICES ASSUME pc' # pc PROVE SingleInv'
  BY <1>0 DEF SingleInv
<1>2. SUFFICES \E t \in Task, l \in UntilPc \cup {"idle"} : pc' = [pc EXCEPT ![t] = l]
  BY <1>0 DEF SingleInv
<1>3. ASSUME NEW t \in Task, Start(t)
      PROVE  \E l \in UntilPc \cup {"idle"} : pc' = [pc EXCEPT ![t] = l]
  BY <1>3 DEF SingleQueueOps, Start, wait, wait_timeout, wait_until, wait_timeout_until,
              wait_multiple_timeout_until, Call, Goto, UntilPc
<1>4. ASSUME NEW t \in Task, Step(t)
      PROVE  \E l \in UntilPc \cup {"idle"} : pc' = [pc EXCEPT ![t] = l]
  <2>1. pc[t] \in UntilPc \cup {"idle"}
    BY <1>0
  <2>2. \/ WaitLock(t) \/ WaitBlock(t) \/ WaitResume(t) \/ WaitCancel(t)
        \/ UntilTop(t) \/ UntilTest(t) \/ UntilBlock(t) \/ UntilCancel(t)
    BY <1>4, <2>1 DEF Step, MultiTop, MultiCondition, MultiFlag, MultiEnroll, MultiBlock,
       MultiCheck, MultiScan, MultiCancel, MultiEnd, MultiTimer, At, UntilPc
  <2> QED BY <2>2 DEF WaitLock, WaitBlock, WaitResume, WaitCancel, UntilTop, UntilTest,
       UntilBlock, UntilCancel, Return, Goto, UntilPc
<1>5. ASSUME NEW t \in Task, Timer(t) \/ SwitchIn(t) \/ SwitchOut(t) \/ Signal(t) PROVE FALSE
  BY <1>1, <1>5 DEF Timer, DeadlinePasses, TimerExpires, TimerWakes, SwitchIn, SwitchOut, Signal,
     clientVars
<1>6. ASSUME NEW t \in Task, NEW q \in Queue, Drain(t, q) PROVE FALSE
  BY <1>1, <1>6 DEF Drain, clientVars
<1>7. ASSUME NEW n \in Notifier, NEW q \in Queue, Produce(n, q) PROVE FALSE
  BY <1>1, <1>7 DEF Produce, clientVars
<1>8. ASSUME NEW n \in Notifier, Notify(n) \/ Notifying(n) PROVE FALSE
  BY <1>1, <1>8 DEF Notify, Notifying, clientVars
<1>9. ~UNCHANGED vars
  BY <1>1 DEF vars, clientVars
<1> QED BY <1>3, <1>4, <1>5, <1>6, <1>7, <1>8, <1>9 DEF Next

(* A step that takes away no sleeper's entry and touches no hand. *)
LEMMA SleepKept ==
  ASSUME SleepInv, UNCHANGED <<npc, hand>>,
         \A t \in Task : state'[t] = "Blocked" =>
             /\ state[t] = "Blocked" /\ qs'[t] = qs[t]
             /\ \A q \in Elems(qs[t]) : t \in Entries(q) => t \in Entries(q)'
  PROVE  SleepInv'
<1> SUFFICES ASSUME NEW t \in Task, state'[t] = "Blocked"
             PROVE  \/ \A q \in Elems(qs'[t]) : t \in Entries(q)'
                    \/ \E n \in Notifier : t \in Wakes(npc'[n], hand'[n])
  BY DEF SleepInv
<1>1. \/ \A q \in Elems(qs[t]) : t \in Entries(q)
      \/ \E n \in Notifier : t \in Wakes(npc[n], hand[n])
  BY DEF SleepInv
<1> QED BY <1>1

(* A step of a notifier: an entry of a sleeper leaves a queue only for a hand *)
(* that will wake it, and the sleeper leaves that hand only awake.            *)
LEMMA SleepHand ==
  ASSUME SleeperInv, NEW n \in Notifier, NEW l, NEW h,
         npc' = [npc EXCEPT ![n] = l], hand' = [hand EXCEPT ![n] = h], UNCHANGED clientVars,
         \A t \in Task : state'[t] = "Blocked" =>
             /\ state[t] = "Blocked"
             /\ t \in Wakes(npc[n], hand[n]) => t \in Wakes(l, h)
             /\ \A q \in Queue : t \in Entries(q) => t \in Entries(q)' \/ t \in Wakes(l, h)
  PROVE  SleepInv'
<1>1. /\ npc'[n] = l /\ hand'[n] = h
      /\ \A a \in Agent \ {n} : npc'[a] = npc[a] /\ hand'[a] = hand[a]
  BY DEF SleeperInv, CleanInv, TypeOK, WQTypeOK, Notifier
<1> SUFFICES ASSUME NEW t \in Task, state'[t] = "Blocked", t \notin Wakes(l, h)
             PROVE  \/ \A q \in Elems(qs[t]) : t \in Entries(q)'
                    \/ \E m \in Notifier : t \in Wakes(npc'[m], hand'[m])
  BY <1>1 DEF SleepInv, clientVars
<1>2. CASE \A q \in Elems(qs[t]) : t \in Entries(q)
  <2>1. \A q \in Elems(qs[t]) : q \in Queue
    BY SMT DEF SleeperInv, CleanInv, TypeOK, Elems
  <2> QED BY <1>2, <2>1
<1>3. CASE \E m \in Notifier : t \in Wakes(npc[m], hand[m])
  <2>1. PICK m \in Notifier : t \in Wakes(npc[m], hand[m])
    BY <1>3
  <2>2. m # n
    BY <2>1
  <2> QED BY <1>1, <2>1, <2>2 DEF Notifier
<1> QED BY <1>2, <1>3 DEF SleeperInv, SleepInv

(* A task that goes to sleep has put its entry into the queue first. *)
LEMMA BlockSleeps ==
  ASSUME SleeperInv, NEW t \in Task, WaitBlock(t) \/ UntilBlock(t)
  PROVE  SleepInv'
<1>0. CleanInv /\ SleepInv /\ pc[t] # "idle" /\ pc[t] \in UntilPc
  BY DEF SleeperInv, WaitBlock, UntilBlock, At, UntilPc
<1>1. PICK q \in Queue : q = Q(t) /\ Elems(qs[t]) = {q}
  BY <1>0, CallQueues
<1>2. queue[q] \in Seq(Task) /\ queue \in [Queue -> Seq(Task)] /\ state \in [Task -> TaskState]
  BY <1>0, <1>1 DEF CleanInv, TypeOK, WQTypeOK
<1>3. /\ queue' = [queue EXCEPT ![q] = Append(queue[q], t)]
      /\ state' = [state EXCEPT ![t] = "Blocked"]
      /\ UNCHANGED <<npc, hand, qs>>
  BY <1>1 DEF WaitBlock, UntilBlock, blocked_resched, notifyVars
<1>4. Elems(Append(queue[q], t)) = Entries(q) \cup {t}
  BY <1>2, AppendElems DEF Entries
<1>5. /\ t \in Entries(q)'
      /\ \A u \in Task, r \in Queue : u \in Entries(r) => u \in Entries(r)'
  <2>1. queue'[q] = Append(queue[q], t) /\ \A r \in Queue \ {q} : queue'[r] = queue[r]
    BY <1>2, <1>3
  <2>2. Entries(q)' = Entries(q) \cup {t} /\ \A r \in Queue \ {q} : Entries(r)' = Entries(r)
    BY <1>4, <2>1 DEF Entries
  <2> QED BY <2>2
<1> SUFFICES ASSUME NEW u \in Task, state'[u] = "Blocked"
             PROVE  \/ \A r \in Elems(qs[u]) : u \in Entries(r)'
                    \/ \E n \in Notifier : u \in Wakes(npc[n], hand[n])
  BY <1>3 DEF SleepInv
<1>6. CASE u = t
  BY <1>1, <1>5, <1>6
<1>7. CASE u # t
  <2>1. state[u] = "Blocked"
    BY <1>2, <1>3, <1>7
  <2>2. \A r \in Elems(qs[u]) : r \in Queue
    BY SMT, <1>0 DEF CleanInv, TypeOK, Elems
  <2> QED BY <1>0, <1>5, <2>1, <2>2 DEF SleepInv
<1> QED BY <1>6, <1>7

(* The other steps of a call are those of a Running task, and touch only its *)
(* own entries.                                                              *)
LEMMA CallSleeps ==
  ASSUME SleeperInv, NEW t \in Task,
         \/ Start(t) \/ WaitLock(t) \/ WaitResume(t) \/ WaitCancel(t)
         \/ UntilTop(t) \/ UntilTest(t) \/ UntilCancel(t)
  PROVE  SleepInv'
<1>0. CleanInv /\ SleepInv /\ qs \in [Task -> Seq(Queue)]
  BY DEF SleeperInv, CleanInv, TypeOK
<1>1. /\ state[t] = "Running" /\ UNCHANGED <<npc, hand, state>>
      /\ \A u \in Task \ {t} : qs'[u] = qs[u]
  <2>1. CASE Start(t)
    BY <1>0, <2>1 DEF Start, wait, wait_timeout, wait_until, wait_timeout_until,
       wait_multiple_timeout_until, Call, At, Executing, wqVars
  <2>2. CASE WaitLock(t) \/ WaitResume(t) \/ UntilTop(t) \/ UntilTest(t)
    BY <2>2 DEF WaitLock, WaitResume, UntilTop, UntilTest, At, Executing, wqVars, notifyVars
  <2>3. CASE WaitCancel(t) \/ UntilCancel(t)
    BY <1>0, <2>3 DEF WaitCancel, UntilCancel, At, Executing, cancel_events, Return, notifyVars
  <2> QED BY <2>1, <2>2, <2>3
<1>2. \A u \in Task \ {t}, r \in Queue : u \in Entries(r) => u \in Entries(r)'
  <2>1. CASE queue' = queue
    BY <2>1 DEF Entries
  <2>2. CASE WaitCancel(t) \/ UntilCancel(t)
    <3>1. pc[t] # "idle"
      BY <2>2 DEF WaitCancel, UntilCancel, At
    <3>2. PICK q \in Queue : q = Q(t)
      BY <1>0, <3>1, CallQueues
    <3>3. cancel_events(t, q)
      BY <2>2, <3>2 DEF WaitCancel, UntilCancel
    <3>4. \A u \in Task, r \in Queue : u # t \/ r # q => (u \in Entries(r)' <=> u \in Entries(r))
      BY <1>0, <3>3, CancelEffect
    <3> QED BY <3>4
  <2>3. CASE \/ Start(t) \/ WaitLock(t) \/ WaitResume(t) \/ UntilTop(t) \/ UntilTest(t)
    <3>1. queue' = queue
      BY <2>3 DEF Start, wait, wait_timeout, wait_until, wait_timeout_until,
         wait_multiple_timeout_until, Call, WaitLock, WaitResume, UntilTop, UntilTest, wqVars
    <3> QED BY <2>1, <3>1
  <2> QED BY <2>2, <2>3
<1>3. ASSUME NEW u \in Task, state'[u] = "Blocked"
      PROVE  /\ state[u] = "Blocked" /\ qs'[u] = qs[u]
             /\ \A q \in Elems(qs[u]) : u \in Entries(q) => u \in Entries(q)'
  <2>1. state[u] = "Blocked" /\ u # t
    BY <1>1, <1>3
  <2>2. \A r \in Elems(qs[u]) : r \in Queue
    BY SMT, <1>0 DEF Elems
  <2> QED BY <1>1, <1>2, <2>1, <2>2
<1> QED BY <1>0, <1>1, <1>3, SleepKept

(* Timers, the scheduler, signals and the conditions put nobody to sleep. *)
LEMMA OutsideSleeps ==
  ASSUME SleeperInv,
         \/ \E t \in Task : Timer(t) \/ SwitchIn(t) \/ SwitchOut(t) \/ Signal(t)
         \/ \E t \in Task, q \in Queue : Drain(t, q)
         \/ \E n \in Notifier, q \in Queue : Produce(n, q)
         \/ UNCHANGED vars
  PROVE  SleepInv'
<1>0. SleepInv /\ state \in [Task -> TaskState]
  BY DEF SleeperInv, CleanInv, TypeOK, WQTypeOK
<1>1. /\ UNCHANGED <<npc, hand, queue, qs>>
      /\ state' = state \/ \E t \in Task : state' = [state EXCEPT ![t] = "Running"]
                                        \/ state' = [state EXCEPT ![t] = "Ready"]
  <2>1. ASSUME NEW t \in Task, Timer(t)
        PROVE  /\ UNCHANGED <<npc, hand, queue, qs>>
               /\ state' = state \/ state' = [state EXCEPT ![t] = "Ready"]
    BY <1>0, <2>1 DEF Timer, DeadlinePasses, TimerExpires, TimerWakes, wqVars, clientVars, notifyVars
  <2>2. ASSUME NEW t \in Task, SwitchIn(t) \/ SwitchOut(t) \/ Signal(t)
        PROVE  /\ UNCHANGED <<npc, hand, queue, qs>>
               /\ state' = [state EXCEPT ![t] = "Running"] \/ state' = [state EXCEPT ![t] = "Ready"]
    BY <2>2 DEF SwitchIn, SwitchOut, Signal, Dispatch, Preempt, interrupt_task, clientVars, notifyVars
  <2>3. CASE \/ \E t \in Task, q \in Queue : Drain(t, q)
             \/ \E n \in Notifier, q \in Queue : Produce(n, q)
             \/ UNCHANGED vars
    BY <2>3 DEF Drain, Produce, vars, wqVars, clientVars
  <2> QED BY <2>1, <2>2, <2>3
<1>2. \A u \in Task : state'[u] = "Blocked" => state[u] = "Blocked"
  BY <1>0, <1>1
<1>3. \A q : Entries(q)' = Entries(q)
  BY <1>1 DEF Entries
<1>4. \A u \in Task : state'[u] = "Blocked" =>
             /\ state[u] = "Blocked" /\ qs'[u] = qs[u]
             /\ \A q \in Elems(qs[u]) : u \in Entries(q) => u \in Entries(q)'
  BY <1>1, <1>2 DEF Entries
<1> QED BY <1>0, <1>1, <1>4, SleepKept

(* notify_one and notify_all, the call. *)
LEMMA NotifyCallSleeps ==
  ASSUME SleeperInv, NEW n \in Notifier, Notify(n)
  PROVE  SleepInv'
<1>1. PICK q \in Queue : q = todo[n]
  BY DEF Notify, SleeperInv, CleanInv, TypeOK
<1>2. /\ notify_one(n, q) \/ notify_all(n, q)
      /\ UNCHANGED clientVars
  BY <1>1 DEF Notify
<1>3. /\ npc[n] = "none" /\ UNCHANGED state /\ hand[n] = <<>> /\ n \in Agent
      /\ queue \in [Queue -> Seq(Task)] /\ hand \in [Agent -> Seq(Task)]
  BY <1>2 DEF notify_one, notify_all, SleeperInv, CleanInv, HandInv, HandOK, Notifier, TypeOK, WQTypeOK
<1>4. Wakes(npc[n], hand[n]) = {}
  <2>1. Elems(<<>>) = {}
    BY SMT DEF Elems
  <2> QED BY <1>3, <2>1 DEF Wakes
<1>5. CASE notify_one(n, q)
  <2>1. npc' = [npc EXCEPT ![n] = "pop"] /\ hand' = [hand EXCEPT ![n] = hand[n]] /\ queue' = queue
    BY <1>3, <1>5 DEF notify_one
  <2>2. \A t \in Task : state'[t] = "Blocked" =>
             /\ state[t] = "Blocked"
             /\ t \in Wakes(npc[n], hand[n]) => t \in Wakes("pop", hand[n])
             /\ \A r \in Queue : t \in Entries(r) => t \in Entries(r)' \/ t \in Wakes("pop", hand[n])
    BY <1>3, <1>4, <2>1 DEF Entries
  <2> QED BY <1>2, <2>1, <2>2, SleepHand
<1>6. CASE notify_all(n, q)
  <2>1. /\ npc' = [npc EXCEPT ![n] = "each"] /\ hand' = [hand EXCEPT ![n] = queue[q]]
        /\ queue' = [queue EXCEPT ![q] = <<>>]
    BY <1>6 DEF notify_all
  <2>2. Wakes("each", queue[q]) = Entries(q) /\ \A r \in Queue \ {q} : Entries(r)' = Entries(r)
    BY <1>3, <2>1 DEF Wakes, Entries
  <2>3. \A t \in Task : state'[t] = "Blocked" =>
             /\ state[t] = "Blocked"
             /\ t \in Wakes(npc[n], hand[n]) => t \in Wakes("each", queue[q])
             /\ \A r \in Queue : t \in Entries(r) => t \in Entries(r)' \/ t \in Wakes("each", queue[q])
    BY <1>3, <1>4, <2>2
  <2> QED BY <1>2, <2>1, <2>3, SleepHand
<1> QED BY <1>2, <1>5, <1>6

(* notify_one takes an entry of a sleeper for a hand that will wake it. *)
LEMMA PopSleeps ==
  ASSUME SleeperInv, NEW n \in Notifier, UNCHANGED clientVars, NotifyOnePop(n)
  PROVE  SleepInv'
<1>0. /\ n \in Agent /\ HandOK(npc[n], hand[n]) /\ nq[n] \in Queue
      /\ queue \in [Queue -> Seq(Task)]
  BY DEF SleeperInv, CleanInv, HandInv, TypeOK, WQTypeOK, Notifier
<1>1. PICK q \in Queue : q = nq[n]
  BY <1>0
<1>2. PICK t \in Task : t = Head(queue[q]) /\ queue[q] # <<>>
  BY <1>0, <1>1, HeadTailElems DEF NotifyOnePop
<1>3. Tail(queue[q]) \in Seq(Task) /\ Entries(q) = Elems(Tail(queue[q])) \cup {t}
  BY <1>0, <1>2, HeadTailElems DEF Entries
<1>4. PICK l \in {"clear_one", "consume", "stale"} :
         /\ npc' = [npc EXCEPT ![n] = l]
         /\ state[t] = "Blocked" => l = "clear_one"
  <2> DEFINE l == CASE state[t] = "Blocked" -> "clear_one"
                    [] state[t] = "Running" -> "consume"
                    [] OTHER                -> "stale"
  <2>1. npc' = [npc EXCEPT ![n] = l]
    BY <1>1, <1>2 DEF NotifyOnePop
  <2>2. l \in {"clear_one", "consume", "stale"} /\ (state[t] = "Blocked" => l = "clear_one")
    OBVIOUS
  <2> HIDE DEF l
  <2> QED BY <2>1, <2>2
<1>5. /\ npc[n] = "pop" /\ queue' = [queue EXCEPT ![q] = Tail(queue[q])]
      /\ hand' = [hand EXCEPT ![n] = <<t>>] /\ UNCHANGED state
  BY <1>1, <1>2 DEF NotifyOnePop
<1>6. Elems(<<t>>) = {t} /\ Elems(<<>>) = {}
  BY SMT DEF Elems
<1>7. Wakes(npc[n], hand[n]) = {}
  BY <1>0, <1>5, <1>6 DEF HandOK, Wakes
<1>8. Entries(q)' \cup {t} = Entries(q) /\ \A r \in Queue \ {q} : Entries(r)' = Entries(r)
  BY <1>0, <1>3, <1>5 DEF Entries
<1>9. state[t] = "Blocked" => t \in Wakes(l, <<t>>)
  BY <1>4, <1>6 DEF Wakes
<1>10. \A u \in Task : state'[u] = "Blocked" =>
             /\ state[u] = "Blocked"
             /\ u \in Wakes(npc[n], hand[n]) => u \in Wakes(l, <<t>>)
             /\ \A r \in Queue : u \in Entries(r) => u \in Entries(r)' \/ u \in Wakes(l, <<t>>)
  BY <1>5, <1>7, <1>8, <1>9
<1> QED BY <1>4, <1>5, <1>10, SleepHand

(* Every other step of a notifier leaves the queues alone; who leaves its hand *)
(* was seen awake, or is made Ready.                                           *)
LEMMA NotifySleeps ==
  ASSUME SleeperInv, NEW n \in Notifier, Notifying(n)
  PROVE  SleepInv'
<1>0. /\ n \in Agent /\ HandOK(npc[n], hand[n]) /\ hand[n] \in Seq(Task)
      /\ hand \in [Agent -> Seq(Task)] /\ state \in [Task -> TaskState]
      /\ UNCHANGED clientVars
  BY DEF SleeperInv, CleanInv, HandInv, TypeOK, WQTypeOK, Notifier, Notifying
<1>e. Elems(<<>>) = {}
  BY SMT DEF Elems
<1>1. SUFFICES ASSUME ~NotifyOnePop(n) PROVE SleepInv'
  BY <1>0, PopSleeps
<1>2. \/ NotifyOneEmpty(n) \/ NotifyOneConsume(n) \/ NotifyOneStale(n)
      \/ NotifyAllEach(n) \/ NotifyAllSkip(n) \/ UnblockClear(n) \/ UnblockCas(n) \/ NotifyReturn(n)
  BY <1>1 DEF Notifying, NotifyStep
<1>3. queue' = queue
  BY <1>2 DEF NotifyOneEmpty, NotifyOneConsume, NotifyOneStale, NotifyAllEach, NotifyAllSkip,
     UnblockClear, UnblockCas, NotifyReturn
<1>4. SUFFICES \E l \in NotifyPc, h \in Seq(Task) :
                  /\ npc' = [npc EXCEPT ![n] = l] /\ hand' = [hand EXCEPT ![n] = h]
                  /\ \A t \in Task : state'[t] = "Blocked" =>
                       /\ state[t] = "Blocked"
                       /\ t \in Wakes(npc[n], hand[n]) => t \in Wakes(l, h)
  <2>1. PICK l \in NotifyPc, h \in Seq(Task) :
           /\ npc' = [npc EXCEPT ![n] = l] /\ hand' = [hand EXCEPT ![n] = h]
           /\ \A t \in Task : state'[t] = "Blocked" =>
                /\ state[t] = "Blocked"
                /\ t \in Wakes(npc[n], hand[n]) => t \in Wakes(l, h)
    BY <1>4
  <2>2. \A t \in Task : state'[t] = "Blocked" =>
           /\ state[t] = "Blocked"
           /\ t \in Wakes(npc[n], hand[n]) => t \in Wakes(l, h)
           /\ \A q \in Queue : t \in Entries(q) => t \in Entries(q)' \/ t \in Wakes(l, h)
    BY <1>3, <2>1 DEF Entries
  <2> QED BY <1>0, <2>1, <2>2, SleepHand
<1>5. CASE NotifyOneEmpty(n) \/ NotifyReturn(n)
  <2>1. PICK l \in {"empty", "none"} : npc' = [npc EXCEPT ![n] = l]
    BY <1>5 DEF NotifyOneEmpty, NotifyReturn
  <2>2. hand' = [hand EXCEPT ![n] = hand[n]] /\ npc[n] \in {"pop", "woke", "empty"} /\ UNCHANGED state
    BY <1>0, <1>5 DEF NotifyOneEmpty, NotifyReturn
  <2>3. l \in NotifyPc /\ Wakes(npc[n], hand[n]) = Wakes(l, hand[n])
    BY <2>1, <2>2 DEF NotifyPc, Wakes
  <2> QED BY <1>0, <2>1, <2>2, <2>3
<1>6. CASE NotifyOneConsume(n) \/ NotifyOneStale(n) \/ NotifyAllSkip(n)
  <2>0. hand[n] # <<>> /\ npc[n] \in {"consume", "stale", "skip"} /\ UNCHANGED state
    BY <1>0, <1>6 DEF HandOK, NotifyOneConsume, NotifyOneStale, NotifyAllSkip
  <2>1. Tail(hand[n]) \in Seq(Task)
    BY <1>0, <2>0, HeadTailElems
  <2>2. PICK l \in {"woke", "pop", "each"} :
           npc' = [npc EXCEPT ![n] = l] /\ hand' = [hand EXCEPT ![n] = Tail(hand[n])]
    <3>1. CASE NotifyAllSkip(n)
      BY <3>1 DEF NotifyAllSkip
    <3>2. CASE NotifyOneConsume(n) \/ NotifyOneStale(n)
      <4>1. Tail(hand[n]) = <<>>
        BY <1>0, <3>2 DEF HandOK, NotifyOneConsume, NotifyOneStale
      <4> QED BY <3>2, <4>1 DEF NotifyOneConsume, NotifyOneStale
    <3> QED BY <1>6, <3>1, <3>2
  <2>3. l \in NotifyPc /\ Wakes(npc[n], hand[n]) = Wakes(l, Tail(hand[n]))
    BY <2>0, <2>2 DEF NotifyPc, Wakes
  <2> QED BY <2>0, <2>1, <2>2, <2>3
<1>7. CASE NotifyAllEach(n)
  <2>1. /\ hand' = [hand EXCEPT ![n] = hand[n]] /\ npc[n] = "each" /\ UNCHANGED state
        /\ Wakes(npc[n], hand[n]) = Elems(hand[n])
    BY <1>0, <1>7 DEF NotifyAllEach, Wakes
  <2>2. CASE hand[n] = <<>>
    <3>1. npc' = [npc EXCEPT ![n] = "woke"] /\ "woke" \in NotifyPc
      BY <1>7, <2>2 DEF NotifyAllEach, NotifyPc
    <3> QED BY <1>0, <1>e, <2>1, <2>2, <3>1
  <2>3. CASE hand[n] # <<>> /\ state[Head(hand[n])] = "Blocked"
    <3>1. npc' = [npc EXCEPT ![n] = "clear_all"] /\ "clear_all" \in NotifyPc
      BY <1>7, <2>3 DEF NotifyAllEach, NotifyPc
    <3>2. Wakes("clear_all", hand[n]) = Elems(hand[n])
      BY DEF Wakes
    <3> QED BY <1>0, <2>1, <3>1, <3>2
  <2>4. CASE hand[n] # <<>> /\ state[Head(hand[n])] # "Blocked"
    <3>1. npc' = [npc EXCEPT ![n] = "skip"] /\ "skip" \in NotifyPc
      BY <1>7, <2>4 DEF NotifyAllEach, NotifyPc
    <3>2. /\ Wakes("skip", hand[n]) = Elems(Tail(hand[n]))
          /\ Elems(hand[n]) = Elems(Tail(hand[n])) \cup {Head(hand[n])}
      BY <1>0, <2>4, HeadTailElems DEF Wakes
    <3>3. \A t \in Task : state'[t] = "Blocked" =>
             state[t] = "Blocked" /\ (t \in Wakes(npc[n], hand[n]) => t \in Wakes("skip", hand[n]))
      BY <2>1, <2>4, <3>2
    <3> QED BY <1>0, <2>1, <3>1, <3>3
  <2> QED BY <2>2, <2>3, <2>4
<1>8. CASE UnblockClear(n)
  <2>1. PICK l \in {"cas_one", "cas_all"} : npc' = [npc EXCEPT ![n] = l]
    BY <1>8 DEF UnblockClear
  <2>2. /\ hand' = [hand EXCEPT ![n] = hand[n]] /\ npc[n] \in {"clear_one", "clear_all"}
        /\ UNCHANGED state
    BY <1>0, <1>8 DEF UnblockClear
  <2>3. l \in NotifyPc /\ Wakes(npc[n], hand[n]) = Wakes(l, hand[n])
    BY <2>1, <2>2 DEF NotifyPc, Wakes
  <2> QED BY <1>0, <2>1, <2>2, <2>3
<1>9. CASE UnblockCas(n)
  <2>0. hand[n] # <<>> /\ npc[n] \in {"cas_one", "cas_all"}
    BY <1>0, <1>9 DEF HandOK, UnblockCas
  <2>1. PICK t \in Task : t = Head(hand[n])
    BY <1>0, <2>0, HeadTailElems
  <2>2. Tail(hand[n]) \in Seq(Task) /\ Elems(hand[n]) = Elems(Tail(hand[n])) \cup {t}
    BY <1>0, <2>0, <2>1, HeadTailElems
  <2>3. PICK l \in {"woke", "each"} : npc' = [npc EXCEPT ![n] = l]
    BY <1>9 DEF UnblockCas
  <2>4. /\ hand' = [hand EXCEPT ![n] = Tail(hand[n])]
        /\ state' = [state EXCEPT ![t] = IF state[t] = "Blocked" THEN "Ready" ELSE state[t]]
    BY <1>9, <2>1 DEF UnblockCas
  <2>5. state'[t] # "Blocked" /\ \A u \in Task \ {t} : state'[u] = state[u]
    BY <1>0, <2>4
  <2>6. /\ l \in NotifyPc /\ Wakes(npc[n], hand[n]) = Elems(hand[n])
        /\ Wakes(l, Tail(hand[n])) = Elems(Tail(hand[n]))
    BY <2>0, <2>3 DEF NotifyPc, Wakes
  <2>7. \A u \in Task : state'[u] = "Blocked" =>
           state[u] = "Blocked" /\ (u \in Wakes(npc[n], hand[n]) => u \in Wakes(l, Tail(hand[n])))
    BY <2>2, <2>5, <2>6
  <2> QED BY <2>2, <2>3, <2>4, <2>6, <2>7
<1> QED BY <1>2, <1>5, <1>6, <1>7, <1>8, <1>9

(* No wake-up is lost between a call on one queue and its notifiers: as long *)
(* as a task sleeps, its entry is in its queue or somebody is going to wake  *)
(* it.  (With wait_multiple_timeout_until this does not hold: MultiWakeLost.)*)
THEOREM SleeperIsHeard == SingleQueueOps => (Spec => []SleeperHearsEveryQueue)
<1> SUFFICES ASSUME SingleQueueOps PROVE Spec => []SleeperHearsEveryQueue
  OBVIOUS
<1>1. Init => SleeperInv
  <2> SUFFICES ASSUME Init PROVE SleeperInv
    OBVIOUS
  <2>1. CleanInv
    BY InitClean
  <2>2. SingleInv /\ SleepInv
    BY DEF Init, WQInit, SingleInv, SleepInv
  <2> QED BY <2>1, <2>2 DEF SleeperInv
<1>2. SleeperInv /\ [Next]_vars => SleeperInv'
  <2> SUFFICES ASSUME SleeperInv, [Next]_vars PROVE SleeperInv'
    OBVIOUS
  <2>1. CleanInv' /\ SingleInv'
    BY NextClean, SingleStep DEF SleeperInv
  <2>2. SleepInv'
    <3>1. ASSUME NEW t \in Task, Step(t) PROVE SleepInv'
      <4>1. pc[t] \in UntilPc \cup {"idle"}
        BY DEF SleeperInv, SingleInv
      <4>2. \/ WaitLock(t) \/ WaitBlock(t) \/ WaitResume(t) \/ WaitCancel(t)
            \/ UntilTop(t) \/ UntilTest(t) \/ UntilBlock(t) \/ UntilCancel(t)
        BY <3>1, <4>1 DEF Step, MultiTop, MultiCondition, MultiFlag, MultiEnroll, MultiBlock,
           MultiCheck, MultiScan, MultiCancel, MultiEnd, MultiTimer, At, UntilPc
      <4> QED BY <4>2, BlockSleeps, CallSleeps
    <3> QED BY <3>1, CallSleeps, OutsideSleeps, NotifyCallSleeps, NotifySleeps DEF Next
  <2> QED BY <2>1, <2>2 DEF SleeperInv
<1>3. SleeperInv => SleeperHearsEveryQueue
  <2> SUFFICES ASSUME SleeperInv, NEW t \in Task, NEW n \in Notifier, t \in Wakes(npc[n], hand[n])
               PROVE  t \in Elems(hand[n])
    BY DEF SleeperInv, SleepInv, SleeperHearsEveryQueue, InHand
  <2>1. CASE npc[n] \in {"consume", "stale", "skip"}
    <3>1. hand[n] \in Seq(Task) /\ hand[n] # <<>>
      BY <2>1 DEF SleeperInv, CleanInv, HandInv, HandOK, TypeOK, WQTypeOK, Notifier
    <3>2. Elems(hand[n]) = Elems(Tail(hand[n])) \cup {Head(hand[n])}
      BY <3>1, HeadTailElems
    <3> QED BY <2>1, <3>2 DEF Wakes
  <2>2. CASE npc[n] \notin {"consume", "stale", "skip"}
    BY <2>2 DEF Wakes
  <2> QED BY <2>1, <2>2
<1> QED BY <1>1, <1>2, <1>3, PTL DEF Spec
==============================================================================
