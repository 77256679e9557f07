----------------------------- MODULE RwLockProofs -----------------------------
(***************************************************************************)
(* Proofs about RwLock for every finite set of tasks: a writer excludes    *)
(* readers and other writers, and no reader or writer that could have the  *)
(* lock sleeps on without a notify_all on its way to it.                   *)
(***************************************************************************)
EXTENDS RwLock, WaitQueueProofs, FiniteSetTheorems

USE ZenonT(60)

(* A task notifies only in a guard's drop, and only with notify_all. *)
NotifyInv ==
    \A t \in Task :
        /\ npc[t] \in {"none", "each", "clear_all", "cas_all", "skip", "woke"}
        /\ npc[t] # "none" <=> pc[t] = "notified"
        /\ npc[t] \in {"none", "woke"} => hand[t] = <<>>
        /\ npc[t] \in {"clear_all", "cas_all", "skip"} => hand[t] # <<>>

(* A reader compare-exchanges only a state in which no writer is active. *)
SeenInv == \A t \in Task : pc[t] \in {"r_cas", "t_cas"} => seen[t] >= 0

(* The lock of wq is held exactly between wait_until's test and its enqueue. *)
LockInv ==
    \A t \in Task :
        wq_lock[wq] = t <=> pc[t] \in {"r_until2", "r_enqueue", "w_enqueue"}

(* A task that found its condition false and is about to enqueue itself     *)
(* will be in the queue before the drop it may have missed takes the queue. *)
EnqueueInv ==
    \A t \in Task :
        /\ pc[t] = "r_enqueue" =>
               rw_state < 0 \/ waiting_writers # 0 \/ \E a \in Task : pc[a] = "notify"
        /\ pc[t] = "w_enqueue" => rw_state # 0 \/ \E a \in Task : pc[a] = "notify"

(* A sleeping task is in the queue or in the hand of a notify_all. *)
SleeperInv ==
    \A t \in Task : Asleep(t) => t \in Entries(wq) \/ \E a \in Task : t \in Pending(a)

IInv ==
    /\ TypeOK
    /\ NotifyInv
    /\ SeenInv
    /\ ReadersExcludeWriter
    /\ WaitersCounted
    /\ LockInv
    /\ EnqueueInv
    /\ SleeperInv
    /\ NoLostWakeup

(* IInv holds initially: nobody waits, holds or notifies. *)
LEMMA InitIInv == Init => IInv
<1> SUFFICES ASSUME Init PROVE IInv
  OBVIOUS
<1> USE TaskIsAgent, NoneIsNoAgent, WqIsQueue DEF Init, WQInit
<1>1. TypeOK
  BY SMT DEF TypeOK, WQTypeOK, TaskState, NotifyPc, Pc
<1>2. NotifyInv /\ SeenInv /\ LockInv /\ EnqueueInv
  BY DEF NotifyInv, SeenInv, LockInv, EnqueueInv
<1>3. ReadersExcludeWriter
  <2>1. Readers = {} /\ Writers = {}
    BY DEF Readers, Writers
  <2> QED BY <2>1, FS_EmptySet DEF ReadersExcludeWriter
<1>4. WaitersCounted
  <2>1. Waiting = {}
    BY DEF Waiting, WritePc
  <2> QED BY <2>1, FS_EmptySet DEF WaitersCounted
<1>5. SleeperInv /\ NoLostWakeup
  BY DEF SleeperInv, NoLostWakeup, Asleep
<1> QED BY <1>1, <1>2, <1>3, <1>4, <1>5 DEF IInv

(* The read guards and the waiting writers are finitely many. *)
LEMMA ReadersFinite ==
  /\ IsFiniteSet(Readers) /\ Cardinality(Readers) \in Nat
  /\ IsFiniteSet(Waiting) /\ Cardinality(Waiting) \in Nat
<1>1. Readers \in SUBSET Task /\ Waiting \in SUBSET Task
  BY DEF Readers, Waiting
<1> QED BY <1>1, TaskIsFinite, FS_Subset, FS_CardinalityType

(* A step after which the same tasks hold guards keeps the exclusion. *)
LEMMA SameGuards ==
  ASSUME ReadersExcludeWriter, UNCHANGED rw_state,
         \A s \in Task : /\ pc'[s] = "reading" <=> pc[s] = "reading"
                         /\ pc'[s] \in {"w_sub", "writing"} <=> pc[s] \in {"w_sub", "writing"}
  PROVE  ReadersExcludeWriter'
<1>1. Readers' = Readers /\ Writers' = Writers
  BY DEF Readers, Writers
<1> QED BY <1>1 DEF ReadersExcludeWriter

(* A step of t that does not make it a waiting writer or end its waiting    *)
(* leaves their number alone.                                               *)
LEMMA SameWaiting ==
  ASSUME WaitersCounted, UNCHANGED waiting_writers, pc \in [Task -> Pc], NEW t \in Task,
         NEW l, pc' = [pc EXCEPT ![t] = l],
         l \in WritePc \cup {"w_sub"} <=> pc[t] \in WritePc \cup {"w_sub"}
  PROVE  WaitersCounted'
<1>1. Waiting' = Waiting
  BY DEF Waiting
<1> QED BY <1>1 DEF WaitersCounted

(* A reader that enters or leaves keeps it. *)
LEMMA ReaderMoves ==
  ASSUME ReadersExcludeWriter, pc \in [Task -> Pc], rw_state \in Int, NEW t \in Task,
         \/ /\ pc[t] \in {"r_cas", "t_cas"} /\ rw_state >= 0
            /\ rw_state' = rw_state + 1 /\ pc' = [pc EXCEPT ![t] = "reading"]
         \/ /\ pc[t] = "reading" /\ rw_state' = rw_state - 1
            /\ pc' \in {[pc EXCEPT ![t] = "notify"], [pc EXCEPT ![t] = "idle"]}
  PROVE  ReadersExcludeWriter'
<1>1. Writers = {} /\ rw_state = Cardinality(Readers)
  <2>1. CASE pc[t] = "reading"
    BY <2>1 DEF ReadersExcludeWriter, Readers
  <2>2. CASE rw_state >= 0
    BY SMT, <2>2 DEF ReadersExcludeWriter
  <2> QED BY <2>1, <2>2
<1>2. Writers' = {}
  BY <1>1 DEF Writers
<1>3. rw_state' = Cardinality(Readers')
  <2>1. CASE pc[t] = "reading" /\ rw_state' = rw_state - 1
    <3>1. Readers' = Readers \ {t} /\ t \in Readers
      BY <2>1 DEF Readers
    <3> QED BY <2>1, <3>1, <1>1, ReadersFinite, FS_RemoveElement
  <2>2. CASE pc[t] # "reading" /\ rw_state' = rw_state + 1
    <3>1. Readers' = Readers \cup {t} /\ t \notin Readers
      BY <2>2 DEF Readers
    <3> QED BY <2>2, <3>1, <1>1, ReadersFinite, FS_AddElement
  <2> QED BY <2>1, <2>2
<1> QED BY <1>2, <1>3 DEF ReadersExcludeWriter

(* A writer that takes a free lock or releases it keeps it. *)
LEMMA WriterMoves ==
  ASSUME ReadersExcludeWriter, pc \in [Task -> Pc], NEW t \in Task,
         \/ /\ pc[t] \in {"idle", "w_cas"} /\ rw_state = 0 /\ rw_state' = -1
            /\ pc' \in {[pc EXCEPT ![t] = "w_sub"], [pc EXCEPT ![t] = "writing"]}
         \/ /\ pc[t] = "writing" /\ rw_state' = 0
            /\ pc' = [pc EXCEPT ![t] = "notify"]
  PROVE  ReadersExcludeWriter'
<1>1. CASE rw_state = 0 /\ rw_state' = -1 /\ pc[t] \in {"idle", "w_cas"}
  <2>1. Readers = {} /\ Writers = {}
    BY SMT, <1>1, ReadersFinite, FS_EmptySet DEF ReadersExcludeWriter
  <2>2. Readers' = {} /\ Writers' = {t}
    BY <1>1, <2>1 DEF Readers, Writers
  <2> QED BY <1>1, <2>2 DEF ReadersExcludeWriter
<1>2. CASE pc[t] = "writing" /\ rw_state' = 0
  <2>1. t \in Writers /\ Readers = {}
    BY <1>2 DEF Writers, ReadersExcludeWriter
  <2>2. Readers' = {} /\ Writers' = {}
    BY <1>2, <2>1 DEF Readers, Writers, ReadersExcludeWriter
  <2> QED BY <1>2, <2>2, FS_EmptySet DEF ReadersExcludeWriter
<1> QED BY <1>1, <1>2

(* A step of t to label l that leaves the wait queue alone, and frees the   *)
(* lock only on the way to notify_all.                                      *)
Quiet(t, l) ==
    /\ Executing(t)
    /\ UNCHANGED wqVars
    /\ l \in Pc
    /\ pc' = [pc EXCEPT ![t] = l]
    /\ pc[t] \notin {"r_until2", "r_enqueue", "w_enqueue", "notify", "notified"}
    /\ l \notin {"r_until2", "r_enqueue", "w_enqueue", "notified"}
    /\ rw_state' \in Int /\ waiting_writers' \in Int /\ seen' \in [Task -> Int]
    /\ rw_state < 0 \/ waiting_writers # 0 =>
           rw_state' < 0 \/ waiting_writers' # 0 \/ l = "notify"
    /\ rw_state # 0 => rw_state' # 0 \/ l = "notify"

(* Such a step keeps the invariant if it keeps the exclusion. *)
LEMMA QuietStep ==
  ASSUME IInv, NEW t \in Task, NEW l, Quiet(t, l),
         SeenInv', ReadersExcludeWriter', WaitersCounted'
  PROVE  IInv'
<1> USE TaskIsAgent DEF IInv, wqVars, Quiet
<1>1. TypeOK'
  BY DEF TypeOK, WQTypeOK
<1>2. NotifyInv'
  BY <1>1 DEF NotifyInv, TypeOK
<1>3. LockInv'
  BY <1>1 DEF LockInv, TypeOK
<1>4. \A a \in Task : pc[a] = "notify" => pc'[a] = "notify"
  BY DEF TypeOK
<1>5. l = "notify" => pc'[t] = "notify"
  BY DEF TypeOK
<1>6. EnqueueInv'
  <2> SUFFICES ASSUME NEW s \in Task PROVE
        /\ pc'[s] = "r_enqueue" => rw_state' < 0 \/ waiting_writers' # 0
                                    \/ \E a \in Task : pc'[a] = "notify"
        /\ pc'[s] = "w_enqueue" => rw_state' # 0 \/ \E a \in Task : pc'[a] = "notify"
    BY DEF EnqueueInv
  <2>1. pc'[s] \in {"r_enqueue", "w_enqueue"} => pc'[s] = pc[s]
    BY DEF TypeOK
  <2> QED BY <2>1, <1>4, <1>5 DEF EnqueueInv
<1>7. \A a \in Task : Pending(a)' = Pending(a)
  BY DEF Pending
<1>8. Entries(wq)' = Entries(wq)
  BY DEF Entries
<1>9. \A s \in Task : Asleep(s)' => Asleep(s) /\ pc'[s] = pc[s]
  BY DEF Asleep, Executing, TypeOK
<1>10. SleeperInv'
  BY <1>7, <1>8, <1>9 DEF SleeperInv
<1>11. NoLostWakeup'
  <2> SUFFICES ASSUME NEW s \in Task, Asleep(s)', Wants(s)'
               PROVE  \E a \in Task : pc'[a] = "notify" \/ s \in Pending(a)'
    BY DEF NoLostWakeup
  <2>1. Asleep(s) /\ pc'[s] = pc[s]
    BY <1>9
  <2>2. CASE Wants(s)
    BY <2>1, <2>2, <1>4, <1>7 DEF NoLostWakeup
  <2>3. CASE ~Wants(s)
    BY SMT, <2>1, <2>3, <1>5 DEF Wants, TypeOK
  <2> QED BY <2>2, <2>3
<1> QED BY <1>1, <1>2, <1>3, <1>6, <1>10, <1>11

(* The steps of read and try_read outside wait_until keep the invariant. *)
LEMMA ReadStep ==
  ASSUME IInv, NEW t \in Task,
         \/ read(t) \/ try_read(t) \/ ReadLoad(t) \/ ReadWaiting(t)
         \/ TryReadWaiting(t) \/ ReadCas(t) \/ TryReadCas(t) \/ DropReadGuard(t)
  PROVE  IInv'
<1>0. TypeOK /\ SeenInv /\ ReadersExcludeWriter /\ WaitersCounted
  BY DEF IInv
<1>1. CASE read(t) \/ try_read(t) \/ ReadLoad(t) \/ ReadWaiting(t) \/ TryReadWaiting(t)
  <2> USE <1>0, <1>1 DEF read, try_read, ReadLoad, ReadWaiting, TryReadWaiting, At, Goto,
                         TypeOK, lockVars
  <2>1. PICK l \in {"r_load", "r_waiting", "r_cas", "r_until", "t_waiting", "t_cas", "idle"} :
            pc' = [pc EXCEPT ![t] = l]
    OBVIOUS
  <2>2. Quiet(t, l)
    BY <2>1 DEF Quiet, Pc, ReadPc, TryPc
  <2>3. SeenInv'
    BY DEF SeenInv
  <2>4. ReadersExcludeWriter'
    BY <2>1, SameGuards
  <2>5. WaitersCounted'
    BY <2>1, SameWaiting DEF WritePc
  <2> QED BY <2>2, <2>3, <2>4, <2>5, QuietStep
<1>2. CASE ReadCas(t) \/ TryReadCas(t)
  <2> USE <1>0, <1>2 DEF ReadCas, TryReadCas, At, Goto, TypeOK, lockVars
  <2>1. CASE rw_state = seen[t]
    <3>1. rw_state >= 0 /\ rw_state' = rw_state + 1 /\ pc' = [pc EXCEPT ![t] = "reading"]
      BY <2>1 DEF SeenInv
    <3>2. ReadersExcludeWriter'
      BY <3>1, ReaderMoves
    <3>3. SeenInv'
      BY <2>1, <3>1 DEF SeenInv
    <3>4. Quiet(t, "reading")
      BY SMT, <2>1, <3>1 DEF Quiet, Pc
    <3>5. WaitersCounted'
      BY <3>1, SameWaiting DEF WritePc
    <3> QED BY <3>2, <3>3, <3>4, <3>5, QuietStep
  <2>2. CASE rw_state # seen[t]
    <3>1. PICK l \in {"r_load", "t_waiting"} : pc' = [pc EXCEPT ![t] = l]
      BY <2>2
    <3>2. Quiet(t, l)
      BY <2>2, <3>1 DEF Quiet, Pc, ReadPc, TryPc
    <3>3. SeenInv'
      BY <2>2 DEF SeenInv
    <3>4. ReadersExcludeWriter'
      BY <2>2, <3>1, SameGuards
    <3>5. WaitersCounted'
      BY <3>1, SameWaiting DEF WritePc
    <3> QED BY <3>2, <3>3, <3>4, <3>5, QuietStep
  <2> QED BY <2>1, <2>2
<1>3. CASE DropReadGuard(t)
  <2> USE <1>0, <1>3 DEF DropReadGuard, At, Goto, TypeOK
  <2>1. rw_state >= 0
    BY SMT, ReadersFinite DEF ReadersExcludeWriter, Readers
  <2>2. PICK l \in {"notify", "idle"} :
            pc' = [pc EXCEPT ![t] = l] /\ (rw_state = 1 <=> l = "notify")
    OBVIOUS
  <2>3. Quiet(t, l)
    <3>1. l \in Pc
      BY DEF Pc
    <3>2. rw_state' = rw_state - 1 /\ UNCHANGED <<wqVars, waiting_writers, seen>>
      OBVIOUS
    <3>3. Executing(t) /\ pc[t] = "reading"
      OBVIOUS
    <3> HIDE DEF DropReadGuard
    <3> QED BY SMT, <2>1, <2>2, <3>1, <3>2, <3>3 DEF Quiet
  <2>4. SeenInv'
    BY <2>2 DEF SeenInv
  <2>5. ReadersExcludeWriter'
    BY ReaderMoves
  <2>6. WaitersCounted'
    BY <2>2, SameWaiting DEF WritePc
  <2> QED BY <2>3, <2>4, <2>5, <2>6, QuietStep
<1> QED BY <1>1, <1>2, <1>3

(* The steps of write and try_write outside wait_until keep the invariant. *)
LEMMA WriteStep ==
  ASSUME IInv, NEW t \in Task,
         \/ write(t) \/ try_write(t) \/ WriteCas(t) \/ WriteAdd(t) \/ WriteSub(t)
         \/ DropWriteGuard(t)
  PROVE  IInv'
<1> USE DEF write, try_write, WriteCas, WriteAdd, WriteSub, DropWriteGuard, At, Goto, TypeOK
<1>0. TypeOK /\ SeenInv /\ ReadersExcludeWriter /\ WaitersCounted
  BY DEF IInv
<1>1. PICK l \in {"w_add", "w_cas", "w_until", "w_sub", "writing", "notify"} :
          pc' = [pc EXCEPT ![t] = l]
  BY <1>0
<1>2. pc[t] \in {"w_sub", "writing"} => rw_state = -1
  BY <1>0 DEF ReadersExcludeWriter, Writers
<1>3. SeenInv'
  BY <1>0, <1>1 DEF SeenInv
<1>4. Quiet(t, l)
  <2>1. l \in Pc
    BY DEF Pc, WritePc
  <2>2. /\ Executing(t) /\ UNCHANGED <<wqVars, seen>>
        /\ pc[t] \in {"idle", "w_add", "w_cas", "w_sub", "writing"}
        /\ rw_state' \in Int /\ waiting_writers' \in Int
    BY SMT, <1>0
  <2>3. rw_state < 0 \/ waiting_writers # 0 =>
            rw_state' < 0 \/ waiting_writers' # 0 \/ l = "notify"
    <3>1. CASE WriteSub(t)
      BY SMT, <1>2, <3>1
    <3>2. CASE DropWriteGuard(t)
      BY <1>0, <1>1, <3>2
    <3>3. waiting_writers >= 0
      BY SMT, <1>0, ReadersFinite DEF WaitersCounted
    <3> QED BY SMT, <1>0, <3>1, <3>2, <3>3
  <2>4. rw_state # 0 => rw_state' # 0 \/ l = "notify"
    BY <1>0, <1>1
  <2>5. l \notin {"r_until2", "r_enqueue", "w_enqueue", "notified"}
    OBVIOUS
  <2>6. pc[t] \notin {"r_until2", "r_enqueue", "w_enqueue", "notify", "notified"}
    BY <2>2
  <2>7. seen' \in [Task -> Int]
    BY <1>0, <2>2
  <2> HIDE DEF TypeOK, write, try_write, WriteCas, WriteAdd, WriteSub, DropWriteGuard
  <2> QED BY <1>1, <2>1, <2>2, <2>3, <2>4, <2>5, <2>6, <2>7 DEF Quiet
<1>5. ReadersExcludeWriter'
  <2>1. CASE UNCHANGED rw_state
    <3>1. pc[t] \in {"w_sub", "writing"} <=> l \in {"w_sub", "writing"}
      BY SMT, <1>0, <1>1, <1>2, <2>1
    <3>2. pc[t] # "reading" /\ l # "reading"
      BY <1>0, <1>1
    <3> QED BY <1>0, <1>1, <2>1, <3>1, <3>2, SameGuards
  <2>2. CASE rw_state # rw_state'
    BY <1>0, <2>2, WriterMoves
  <2> QED BY <2>1, <2>2
<1>6. WaitersCounted'
  <2>1. CASE WriteAdd(t)
    <3>1. Waiting' = Waiting \cup {t} /\ t \notin Waiting
      BY <1>0, <2>1 DEF Waiting, WritePc
    <3> QED BY <1>0, <2>1, <3>1, ReadersFinite, FS_AddElement DEF WaitersCounted
  <2>2. CASE WriteSub(t)
    <3>1. Waiting' = Waiting \ {t} /\ t \in Waiting
      BY <1>0, <2>2 DEF Waiting, WritePc
    <3> QED BY <1>0, <2>2, <3>1, ReadersFinite, FS_RemoveElement DEF WaitersCounted
  <2>3. CASE write(t) \/ try_write(t) \/ WriteCas(t) \/ DropWriteGuard(t)
    <3>1. l \in WritePc \cup {"w_sub"} <=> pc[t] \in WritePc \cup {"w_sub"}
      BY <1>0, <1>1, <2>3 DEF WritePc
    <3>2. UNCHANGED waiting_writers
      BY <2>3
    <3> HIDE DEF write, try_write, WriteCas, DropWriteGuard
    <3> QED BY <1>0, <1>1, <3>1, <3>2, SameWaiting
  <2> QED BY <2>1, <2>2, <2>3
<1> QED BY <1>3, <1>4, <1>5, <1>6, QuietStep

(* A step that leaves the lock's words, the guards and the waiting writers   *)
(* alone keeps what is said of them.                                         *)
LEMMA LockWordsKept ==
  ASSUME IInv, UNCHANGED lockVars, NEW t \in Task, NEW l, pc' = [pc EXCEPT ![t] = l],
         l \notin {"r_cas", "t_cas"},
         l # "reading" /\ pc[t] # "reading",
         l \notin {"w_sub", "writing"} /\ pc[t] \notin {"w_sub", "writing"},
         l \in WritePc <=> pc[t] \in WritePc
  PROVE  SeenInv' /\ ReadersExcludeWriter' /\ WaitersCounted'
<1> USE DEF IInv, lockVars, TypeOK
<1>1. SeenInv'
  BY DEF SeenInv
<1>2. ReadersExcludeWriter'
  BY SameGuards
<1>3. WaitersCounted'
  <2>1. l # "w_sub" /\ pc[t] # "w_sub"
    OBVIOUS
  <2> QED BY <2>1, SameWaiting
<1> QED BY <1>1, <1>2, <1>3

(* wait_until's test under the queue's lock keeps the invariant: a task that *)
(* goes on to enqueue itself has just found its condition false.             *)
LEMMA UntilStep ==
  ASSUME IInv, NEW t \in Task, ReadUntil(t) \/ ReadUntil2(t) \/ WriteUntil(t)
  PROVE  IInv'
<1> USE TaskIsAgent, NoneIsNoAgent, WqIsQueue
<1>0. TypeOK /\ LockInv
  BY DEF IInv
<1>1. PICK l \in {"r_until2", "r_enqueue", "r_cancel", "w_enqueue", "w_cancel"} :
          pc' = [pc EXCEPT ![t] = l]
  BY DEF ReadUntil, ReadUntil2, WriteUntil, Goto
<1>2. /\ Executing(t) /\ UNCHANGED <<state, in_wait_queue, queue, npc, nq, hand, lockVars>>
      /\ pc[t] \in {"r_until", "r_until2", "w_until"}
  BY DEF ReadUntil, ReadUntil2, WriteUntil, At
<1>3. wq_lock' \in [Queue -> Agent \cup {None}]
  BY <1>0 DEF ReadUntil, ReadUntil2, WriteUntil, LockQueue, UnlockQueue, TypeOK, WQTypeOK
<1>4. TypeOK'
  <2>1. l \in Pc
    BY DEF Pc, ReadPc, WritePc
  <2> QED BY <1>0, <1>1, <1>2, <1>3, <2>1 DEF TypeOK, WQTypeOK, lockVars
<1>5. SeenInv' /\ ReadersExcludeWriter' /\ WaitersCounted'
  <2>1. l \in WritePc <=> pc[t] \in WritePc
    BY <1>0, <1>1 DEF ReadUntil, ReadUntil2, WriteUntil, At, Goto, TypeOK, WritePc
  <2> QED BY <1>1, <1>2, <2>1, LockWordsKept
<1>6. NotifyInv'
  BY <1>0, <1>1, <1>2 DEF IInv, NotifyInv, TypeOK
<1>7. LockInv'
  BY SMT, <1>0 DEF LockInv, ReadUntil, ReadUntil2, WriteUntil, At, Goto, LockQueue, UnlockQueue,
              TypeOK, WQTypeOK
<1>8. \A a \in Task : pc'[a] = "notify" <=> pc[a] = "notify"
  BY <1>0, <1>1, <1>2 DEF TypeOK
<1>9. EnqueueInv'
  <2>1. /\ l = "r_enqueue" => rw_state < 0 \/ waiting_writers # 0
        /\ l = "w_enqueue" => rw_state # 0
    BY SMT, <1>0, <1>1 DEF ReadUntil, ReadUntil2, WriteUntil, At, Goto, TypeOK
  <2>2. \A s \in Task : pc'[s] = IF s = t THEN l ELSE pc[s]
    BY <1>0, <1>1 DEF TypeOK
  <2> QED BY <1>2, <1>8, <2>1, <2>2 DEF IInv, EnqueueInv, lockVars
<1>10. \A a \in Task : Pending(a)' = Pending(a)
  BY <1>2 DEF Pending
<1>11. Entries(wq)' = Entries(wq)
  BY <1>2 DEF Entries
<1>12. \A s \in Task : Asleep(s)' => Asleep(s) /\ pc'[s] = pc[s] /\ Wants(s)' = Wants(s)
  BY <1>0, <1>1, <1>2 DEF Asleep, Executing, TypeOK, Wants, lockVars
<1>13. SleeperInv' /\ NoLostWakeup'
  BY <1>8, <1>10, <1>11, <1>12 DEF IInv, SleeperInv, NoLostWakeup
<1> QED BY <1>4, <1>5, <1>6, <1>7, <1>9, <1>13 DEF IInv

(* blocked_resched keeps the invariant: the task that falls asleep is in the *)
(* queue, and a drop since its test has not yet called notify_all.           *)
LEMMA UntilBlockStep ==
  ASSUME IInv, NEW t \in Task, UntilBlock(t)
  PROVE  IInv'
<1> USE TaskIsAgent, NoneIsNoAgent, WqIsQueue
<1>0. TypeOK /\ LockInv /\ pc[t] \in {"r_enqueue", "w_enqueue"}
  BY DEF IInv, UntilBlock, At
<1> DEFINE l == IF pc[t] = "r_enqueue" THEN "r_until" ELSE "w_until"
<1>1. /\ pc' = [pc EXCEPT ![t] = l]
      /\ UNCHANGED <<npc, nq, hand, lockVars>>
      /\ wq_lock[wq] = t
      /\ wq_lock' = [wq_lock EXCEPT ![wq] = None]
      /\ state' = [state EXCEPT ![t] = "Blocked"]
      /\ in_wait_queue' = [in_wait_queue EXCEPT ![t] = TRUE]
      /\ queue' = [queue EXCEPT ![wq] = Append(@, t)]
  BY DEF UntilBlock, Goto, blocked_resched, UnlockQueue, notifyVars
<1>2. queue[wq] \in Seq(Task)
  BY <1>0 DEF TypeOK, WQTypeOK
<1>3. Entries(wq)' = Entries(wq) \cup {t}
  <2>1. queue'[wq] = Append(queue[wq], t)
    BY <1>0, <1>1 DEF TypeOK, WQTypeOK
  <2> QED BY SMT, <1>2, <2>1, AppendElems DEF Entries
<1>4. TypeOK'
  <2>1. Append(queue[wq], t) \in Seq(Task)
    BY SMT, <1>2
  <2>2. l \in Pc
    BY DEF Pc, ReadPc, WritePc
  <2>3. "Blocked" \in TaskState
    BY DEF TaskState
  <2> QED BY <1>0, <1>1, <2>1, <2>2, <2>3 DEF TypeOK, WQTypeOK, lockVars
<1>5. SeenInv' /\ ReadersExcludeWriter' /\ WaitersCounted'
  <2>1. l \in WritePc <=> pc[t] \in WritePc
    BY <1>0 DEF WritePc
  <2>2. l \in {"r_until", "w_until"}
    OBVIOUS
  <2> HIDE DEF l
  <2> QED BY <1>0, <1>1, <2>1, <2>2, LockWordsKept
<1>6. NotifyInv' /\ LockInv'
  BY <1>0, <1>1 DEF IInv, NotifyInv, LockInv, TypeOK, WQTypeOK
<1>7. \A a \in Task : pc'[a] = "notify" <=> pc[a] = "notify"
  BY <1>0, <1>1 DEF TypeOK
<1>8. EnqueueInv'
  BY <1>0, <1>1, <1>7 DEF IInv, EnqueueInv, TypeOK, lockVars
<1>9. \A a \in Task : Pending(a)' = Pending(a)
  BY <1>1 DEF Pending
<1>10. \A s \in Task \ {t} : Asleep(s)' => Asleep(s) /\ Wants(s)' = Wants(s)
  BY <1>0, <1>1 DEF Asleep, TypeOK, WQTypeOK, Wants, lockVars
<1>11. SleeperInv'
  BY <1>3, <1>9, <1>10 DEF IInv, SleeperInv
<1>12. NoLostWakeup'
  <2> SUFFICES ASSUME NEW s \in Task, Asleep(s)', Wants(s)'
               PROVE  \E a \in Task : pc'[a] = "notify" \/ s \in Pending(a)'
    BY DEF NoLostWakeup
  <2>1. CASE s # t
    BY <2>1, <1>7, <1>9, <1>10 DEF IInv, NoLostWakeup
  <2>2. CASE s = t
    BY SMTT(60), <2>2, <1>0, <1>1, <1>7 DEF IInv, EnqueueInv, Wants, TypeOK, lockVars
  <2> QED BY <2>1, <2>2
<1> QED BY <1>4, <1>5, <1>6, <1>8, <1>11, <1>12 DEF IInv

(* cancel_events keeps the invariant: the entries it drops are not a sleeper's. *)
LEMMA UntilCancelStep ==
  ASSUME IInv, NEW t \in Task, UntilCancel(t)
  PROVE  IInv'
<1> USE TaskIsAgent, WqIsQueue
<1>0. TypeOK /\ Executing(t) /\ pc[t] \in {"r_cancel", "w_cancel"}
  BY DEF IInv, UntilCancel, At
<1> DEFINE l == IF pc[t] = "r_cancel" THEN "r_load" ELSE "w_cas"
<1>1. /\ pc' = [pc EXCEPT ![t] = l]
      /\ UNCHANGED <<state, wq_lock, npc, nq, hand, lockVars>>
      /\ in_wait_queue' = [in_wait_queue EXCEPT ![t] = @ /\ t \notin Entries(wq)]
      /\ queue' = [queue EXCEPT ![wq] = Retain(@, t)]
  BY DEF UntilCancel, Goto, cancel_events, notifyVars
<1>2. queue[wq] \in Seq(Task)
  BY <1>0 DEF TypeOK, WQTypeOK
<1>3. Entries(wq)' = Entries(wq) \ {t}
  <2>1. queue'[wq] = Retain(queue[wq], t)
    BY <1>0, <1>1 DEF TypeOK, WQTypeOK
  <2> QED BY <1>2, <2>1, RetainElems DEF Entries
<1>4. TypeOK'
  <2>1. Retain(queue[wq], t) \in Seq(Task)
    BY <1>2, RetainElems
  <2>2. l \in Pc
    BY DEF Pc, ReadPc, WritePc
  <2>3. in_wait_queue' \in [Task -> BOOLEAN]
    BY <1>0, <1>1 DEF TypeOK, WQTypeOK
  <2> QED BY <1>0, <1>1, <2>1, <2>2, <2>3 DEF TypeOK, WQTypeOK, lockVars
<1>5. SeenInv' /\ ReadersExcludeWriter' /\ WaitersCounted'
  <2>1. l \in WritePc <=> pc[t] \in WritePc
    BY <1>0 DEF WritePc
  <2>2. l \in {"r_load", "w_cas"}
    OBVIOUS
  <2> HIDE DEF l
  <2> QED BY <1>0, <1>1, <2>1, <2>2, LockWordsKept
<1>6. NotifyInv' /\ LockInv'
  BY <1>0, <1>1 DEF IInv, NotifyInv, LockInv, TypeOK, WQTypeOK
<1>7. \A a \in Task : pc'[a] = "notify" <=> pc[a] = "notify"
  BY <1>0, <1>1 DEF TypeOK
<1>8. EnqueueInv'
  BY <1>0, <1>1, <1>7 DEF IInv, EnqueueInv, TypeOK, lockVars
<1>9. \A a \in Task : Pending(a)' = Pending(a)
  BY <1>1 DEF Pending
<1>10. \A s \in Task : Asleep(s)' => Asleep(s) /\ s # t /\ Wants(s)' = Wants(s)
  BY <1>0, <1>1 DEF Asleep, Executing, TypeOK, Wants, lockVars
<1>11. SleeperInv' /\ NoLostWakeup'
  BY <1>3, <1>7, <1>9, <1>10 DEF IInv, SleeperInv, NoLostWakeup
<1> QED BY <1>4, <1>5, <1>6, <1>8, <1>11 DEF IInv

(* notify_all's critical section keeps the invariant: it takes every sleeper *)
(* in hand, and the lock it needs keeps the tasks about to enqueue away.     *)
LEMMA DropNotifyStep ==
  ASSUME IInv, NEW t \in Task, DropNotify(t)
  PROVE  IInv'
<1> USE TaskIsAgent, NoneIsNoAgent, WqIsQueue
<1>0. TypeOK /\ NotifyInv /\ pc[t] = "notify"
  BY DEF IInv, DropNotify
<1>1. /\ pc' = [pc EXCEPT ![t] = "notified"]
      /\ UNCHANGED <<state, in_wait_queue, wq_lock, lockVars>>
      /\ wq_lock[wq] = None
      /\ npc[t] = "none" /\ npc' = [npc EXCEPT ![t] = "each"]
      /\ nq' = [nq EXCEPT ![t] = wq]
      /\ hand' = [hand EXCEPT ![t] = queue[wq]]
      /\ queue' = [queue EXCEPT ![wq] = <<>>]
  BY DEF DropNotify, Goto, notify_all
<1>2. TypeOK'
  <2>1. <<>> \in Seq(Task)
    BY SMT
  <2>2. "notified" \in Pc /\ "each" \in NotifyPc
    BY DEF Pc, NotifyPc
  <2> QED BY <1>0, <1>1, <2>1, <2>2 DEF TypeOK, WQTypeOK, lockVars
<1>3. SeenInv' /\ ReadersExcludeWriter' /\ WaitersCounted'
  <2> DEFINE l == "notified"
  <2>1. pc[t] \notin WritePc /\ l \notin WritePc
    BY <1>0 DEF WritePc
  <2>2. /\ pc' = [pc EXCEPT ![t] = l] /\ UNCHANGED lockVars
        /\ l \notin {"r_cas", "t_cas", "reading", "w_sub", "writing"}
    BY <1>1
  <2> HIDE DEF l
  <2> QED BY <1>0, <2>1, <2>2, LockWordsKept
<1>4. NotifyInv' /\ LockInv'
  BY <1>0, <1>1 DEF IInv, NotifyInv, LockInv, TypeOK, WQTypeOK
<1>5. EnqueueInv'
  BY <1>0, <1>1 DEF IInv, EnqueueInv, LockInv, TypeOK
<1>6. Pending(t) = {} /\ Pending(t)' = Entries(wq)
  <2>1. hand[t] = <<>> /\ npc'[t] = "each" /\ hand'[t] = queue[wq]
    BY <1>0, <1>1 DEF NotifyInv, TypeOK, WQTypeOK
  <2> QED BY SMT, <1>1, <2>1 DEF Pending, Entries, Elems
<1>7. \A a \in Task \ {t} : Pending(a)' = Pending(a)
  BY <1>0, <1>1 DEF Pending, TypeOK, WQTypeOK
<1>8. \A s \in Task : Asleep(s)' => Asleep(s)
  BY <1>0, <1>1 DEF Asleep, TypeOK
<1>9. \A s \in Task : Asleep(s)' => \E a \in Task : s \in Pending(a)'
  BY <1>6, <1>7, <1>8 DEF IInv, SleeperInv
<1>10. SleeperInv' /\ NoLostWakeup'
  BY <1>9 DEF SleeperInv, NoLostWakeup
<1> QED BY <1>2, <1>3, <1>4, <1>5, <1>10 DEF IInv

(* notify_all returns with an empty hand, which keeps the invariant. *)
LEMMA DropReturnStep ==
  ASSUME IInv, NEW t \in Task, DropReturn(t)
  PROVE  IInv'
<1> USE TaskIsAgent
<1>0. TypeOK /\ NotifyInv /\ pc[t] = "notified"
  BY DEF IInv, DropReturn
<1>1. /\ pc' = [pc EXCEPT ![t] = "idle"]
      /\ UNCHANGED <<state, in_wait_queue, queue, wq_lock, nq, hand, lockVars>>
      /\ npc[t] \in {"woke", "empty"} /\ npc' = [npc EXCEPT ![t] = "none"]
  BY DEF DropReturn, Goto, NotifyReturn
<1>2. TypeOK'
  <2>1. "idle" \in Pc /\ "none" \in NotifyPc
    BY DEF Pc, NotifyPc
  <2> QED BY <1>0, <1>1, <2>1 DEF TypeOK, WQTypeOK, lockVars
<1>3. SeenInv' /\ ReadersExcludeWriter' /\ WaitersCounted'
  <2> DEFINE l == "idle"
  <2>1. pc[t] \notin WritePc /\ l \notin WritePc
    BY <1>0 DEF WritePc
  <2>2. /\ pc' = [pc EXCEPT ![t] = l] /\ UNCHANGED lockVars
        /\ l \notin {"r_cas", "t_cas", "reading", "w_sub", "writing"}
    BY <1>1
  <2> HIDE DEF l
  <2> QED BY <1>0, <2>1, <2>2, LockWordsKept
<1>4. NotifyInv' /\ LockInv'
  BY <1>0, <1>1 DEF IInv, NotifyInv, LockInv, TypeOK, WQTypeOK
<1>5. \A a \in Task : pc'[a] = "notify" <=> pc[a] = "notify"
  BY <1>0, <1>1 DEF TypeOK
<1>6. EnqueueInv'
  BY <1>0, <1>1, <1>5 DEF IInv, EnqueueInv, TypeOK, lockVars
<1>7. \A a \in Task : Pending(a)' = Pending(a)
  BY <1>0, <1>1 DEF Pending, TypeOK, WQTypeOK
<1>8. Entries(wq)' = Entries(wq)
  BY <1>1 DEF Entries
<1>9. \A s \in Task : Asleep(s)' => Asleep(s) /\ Wants(s)' = Wants(s)
  BY <1>0, <1>1 DEF Asleep, TypeOK, Wants, lockVars
<1>10. SleeperInv' /\ NoLostWakeup'
  BY <1>5, <1>7, <1>8, <1>9 DEF IInv, SleeperInv, NoLostWakeup
<1> QED BY <1>2, <1>3, <1>4, <1>6, <1>10 DEF IInv

(* A step that changes neither the lock, its queue nor a task's place, and   *)
(* takes a task out of a hand only if it does not sleep, keeps the invariant.*)
LEMMA HandStep ==
  ASSUME IInv, TypeOK', NotifyInv', UNCHANGED <<queue, wq_lock, lockVars, pc>>,
         \A s \in Task : Asleep(s)' => Asleep(s),
         \A s \in Task, a \in Task : Asleep(s)' /\ s \in Pending(a) => s \in Pending(a)'
  PROVE  IInv'
<1> USE DEF IInv, lockVars
<1>1. SeenInv' /\ LockInv' /\ EnqueueInv'
  BY DEF SeenInv, LockInv, EnqueueInv
<1>2. Readers' = Readers /\ Writers' = Writers /\ Waiting' = Waiting
  BY DEF Readers, Writers, Waiting
<1>3. ReadersExcludeWriter' /\ WaitersCounted'
  BY <1>2 DEF ReadersExcludeWriter, WaitersCounted
<1>4. Entries(wq)' = Entries(wq)
  BY DEF Entries
<1>5. \A s \in Task : Wants(s)' = Wants(s)
  BY DEF Wants
<1>6. SleeperInv' /\ NoLostWakeup'
  BY <1>4, <1>5 DEF SleeperInv, NoLostWakeup
<1> QED BY <1>1, <1>3, <1>6

(* notify_all's loop keeps the invariant: it lets go of a sleeper only by    *)
(* unblocking it.                                                            *)
LEMMA NotifyLoopStep ==
  ASSUME IInv, NEW t \in Task, NotifyStep(t), UNCHANGED <<lockVars, pc>>
  PROVE  IInv'
<1> USE TaskIsAgent
<1>0. TypeOK /\ NotifyInv
  BY DEF IInv
<1>1. hand[t] \in Seq(Task) /\ npc[t] \in NotifyPc
  BY <1>0 DEF TypeOK, WQTypeOK
<1>2. ASSUME hand[t] # <<>>
      PROVE  /\ Head(hand[t]) \in Task /\ Tail(hand[t]) \in Seq(Task)
             /\ Elems(hand[t]) = Elems(Tail(hand[t])) \cup {Head(hand[t])}
  BY <1>1, <1>2, HeadTailElems
<1>3. CASE NotifyAllEach(t)
  <2>1. PICK l \in {"woke", "clear_all", "skip"} :
            /\ npc' = [npc EXCEPT ![t] = l]
            /\ l = "woke" <=> hand[t] = <<>>
            /\ l = "skip" => state[Head(hand[t])] # "Blocked"
    BY <1>3 DEF NotifyAllEach
  <2>2. UNCHANGED <<state, in_wait_queue, queue, wq_lock, nq, hand>> /\ npc[t] = "each"
    BY <1>3 DEF NotifyAllEach
  <2>3. l \in NotifyPc
    BY DEF NotifyPc
  <2>4. TypeOK'
    BY <1>0, <2>1, <2>2, <2>3 DEF TypeOK, WQTypeOK, lockVars
  <2>5. NotifyInv'
    BY <1>0, <2>1, <2>2 DEF NotifyInv, TypeOK, WQTypeOK
  <2>6. \A s \in Task : Asleep(s)' => Asleep(s)
    BY <2>2 DEF Asleep
  <2>7. \A a \in Task \ {t} : Pending(a)' = Pending(a)
    BY <1>0, <2>1, <2>2 DEF Pending, TypeOK, WQTypeOK
  <2>8. Pending(t) = Elems(hand[t])
        /\ Pending(t)' = Elems(IF l = "skip" THEN Tail(hand[t]) ELSE hand[t])
    BY <1>0, <2>1, <2>2 DEF Pending, TypeOK, WQTypeOK
  <2>9. ASSUME NEW s \in Task, Asleep(s)', s \in Pending(t) PROVE s \in Pending(t)'
    BY <1>2, <2>1, <2>2, <2>8, <2>9 DEF Asleep
  <2> QED BY <2>2, <2>4, <2>5, <2>6, <2>7, <2>9, HandStep
<1>4. CASE NotifyAllSkip(t) \/ UnblockClear(t)
  <2>1. hand[t] # <<>> /\ npc[t] \in {"skip", "clear_all"}
    BY <1>0, <1>4 DEF NotifyInv, NotifyAllSkip, UnblockClear
  <2>2. /\ UNCHANGED <<state, queue, wq_lock, nq>>
        /\ in_wait_queue' = [in_wait_queue EXCEPT ![Head(hand[t])] = FALSE]
        /\ \/ /\ npc[t] = "skip" /\ npc' = [npc EXCEPT ![t] = "each"]
              /\ hand' = [hand EXCEPT ![t] = Tail(hand[t])]
           \/ npc[t] = "clear_all" /\ npc' = [npc EXCEPT ![t] = "cas_all"] /\ UNCHANGED hand
    BY <1>0, <1>4, <2>1 DEF NotifyAllSkip, UnblockClear, TypeOK, WQTypeOK
  <2>3. TypeOK'
    <3>1. "each" \in NotifyPc /\ "cas_all" \in NotifyPc
      BY DEF NotifyPc
    <3>2. npc' \in [Agent -> NotifyPc] /\ hand' \in [Agent -> Seq(Task)]
      <4>1. CASE npc[t] = "skip"
        <5>1. Tail(hand[t]) \in Seq(Task)
          BY <1>2, <2>1
        <5>2. /\ npc' = [npc EXCEPT ![t] = "each"]
              /\ hand' = [hand EXCEPT ![t] = Tail(hand[t])]
          BY <2>2, <4>1
        <5> QED BY <1>0, <3>1, <5>1, <5>2 DEF TypeOK, WQTypeOK
      <4>2. CASE npc[t] = "clear_all"
        BY <1>0, <2>2, <3>1, <4>2 DEF TypeOK, WQTypeOK
      <4> QED BY <2>1, <4>1, <4>2
    <3>3. in_wait_queue' \in [Task -> BOOLEAN]
      BY <1>0, <2>2 DEF TypeOK, WQTypeOK
    <3>4. UNCHANGED <<state, queue, wq_lock, nq>>
      BY <2>2
    <3>5. WQTypeOK
      BY <1>0 DEF TypeOK
    <3>6. WQTypeOK'
      BY <3>2, <3>3, <3>4, <3>5 DEF WQTypeOK
    <3>7. UNCHANGED <<rw_state, waiting_writers, seen, pc>>
      BY DEF lockVars
    <3> QED BY <1>0, <3>6, <3>7 DEF TypeOK
  <2>4. NotifyInv'
    BY <1>0, <2>1, <2>2 DEF NotifyInv, TypeOK, WQTypeOK
  <2>5. \A a \in Task : Pending(a)' = Pending(a)
    BY <1>0, <2>2 DEF Pending, TypeOK, WQTypeOK
  <2>6. \A s \in Task : Asleep(s)' => Asleep(s)
    BY <2>2 DEF Asleep
  <2> QED BY <2>2, <2>3, <2>4, <2>5, <2>6, HandStep
<1>5. CASE UnblockCas(t)
  <2> DEFINE h == Head(hand[t])
  <2>1. hand[t] # <<>> /\ npc[t] = "cas_all"
    BY <1>0, <1>5 DEF NotifyInv, UnblockCas
  <2>2. /\ UNCHANGED <<in_wait_queue, queue, wq_lock, nq>>
        /\ state' = [state EXCEPT ![h] = IF @ = "Blocked" THEN "Ready" ELSE @]
        /\ hand' = [hand EXCEPT ![t] = Tail(hand[t])]
        /\ npc' = [npc EXCEPT ![t] = "each"]
    BY <1>0, <1>5, <2>1 DEF UnblockCas, TypeOK, WQTypeOK
  <2>3. h \in Task /\ Tail(hand[t]) \in Seq(Task)
        /\ Elems(hand[t]) = Elems(Tail(hand[t])) \cup {h}
    BY <1>2, <2>1
  <2> HIDE DEF h
  <2>4. TypeOK'
    <3>1. "each" \in NotifyPc
      BY DEF NotifyPc
    <3>2. state' \in [Task -> TaskState]
      BY <1>0, <2>2, <2>3 DEF TypeOK, WQTypeOK, TaskState
    <3>3. hand' \in [Agent -> Seq(Task)]
      <4>1. hand \in [Agent -> Seq(Task)]
        BY <1>0 DEF TypeOK, WQTypeOK
      <4>2. hand' = [hand EXCEPT ![t] = Tail(hand[t])] /\ Tail(hand[t]) \in Seq(Task)
        BY <2>2, <2>3
      <4> QED BY <4>1, <4>2
    <3>4. npc' \in [Agent -> NotifyPc]
      <4>1. npc \in [Agent -> NotifyPc]
        BY <1>0 DEF TypeOK, WQTypeOK
      <4>2. npc' = [npc EXCEPT ![t] = "each"]
        BY <2>2
      <4> QED BY <3>1, <4>1, <4>2
    <3>5. UNCHANGED <<in_wait_queue, queue, wq_lock, nq>>
      BY <2>2
    <3>6. WQTypeOK
      BY <1>0 DEF TypeOK
    <3>7. WQTypeOK'
      BY <3>2, <3>3, <3>4, <3>5, <3>6 DEF WQTypeOK
    <3>8. UNCHANGED <<rw_state, waiting_writers, seen, pc>>
      BY DEF lockVars
    <3> QED BY <1>0, <3>7, <3>8 DEF TypeOK
  <2>5. NotifyInv'
    BY <1>0, <2>1, <2>2 DEF NotifyInv, TypeOK, WQTypeOK
  <2>6. \A s \in Task : Asleep(s)' => Asleep(s) /\ s # h
    BY <1>0, <2>2, <2>3 DEF Asleep, TypeOK, WQTypeOK
  <2>7. \A a \in Task \ {t} : Pending(a)' = Pending(a)
    BY <1>0, <2>2 DEF Pending, TypeOK, WQTypeOK
  <2>8. Pending(t) = Elems(hand[t]) /\ Pending(t)' = Elems(Tail(hand[t]))
    BY <1>0, <2>1, <2>2 DEF Pending, TypeOK, WQTypeOK
  <2> QED BY SMT, <2>2, <2>3, <2>4, <2>5, <2>6, <2>7, <2>8, HandStep
<1>6. ~NotifyOneEmpty(t) /\ ~NotifyOnePop(t) /\ ~NotifyOneConsume(t) /\ ~NotifyOneStale(t)
  BY <1>0 DEF NotifyInv, NotifyOneEmpty, NotifyOnePop, NotifyOneConsume, NotifyOneStale
<1> QED BY <1>3, <1>4, <1>5, <1>6 DEF NotifyStep

(* The scheduler and signals keep the invariant: they put nobody to sleep. *)
LEMMA ScheduleStep ==
  ASSUME IInv, NEW t \in Task, Schedule(t)
  PROVE  IInv'
<1>1. /\ UNCHANGED <<in_wait_queue, queue, wq_lock, npc, nq, hand, lockVars, pc>>
      /\ state' \in {[state EXCEPT ![t] = "Ready"], [state EXCEPT ![t] = "Running"]}
  <2>1. CASE Dispatch(t)
    BY <2>1 DEF Schedule, Dispatch, notifyVars
  <2>2. CASE Preempt(t)
    BY <2>2 DEF Schedule, Preempt, notifyVars
  <2>3. CASE interrupt_task(t)
    BY <2>3 DEF Schedule, interrupt_task, notifyVars
  <2> QED BY <2>1, <2>2, <2>3 DEF Schedule
<1>2. TypeOK'
  <2>1. state' \in [Task -> TaskState]
    BY <1>1 DEF IInv, TypeOK, WQTypeOK, TaskState
  <2>2. UNCHANGED <<in_wait_queue, queue, wq_lock, npc, nq, hand>>
    BY <1>1
  <2>3. WQTypeOK'
    BY <2>1, <2>2 DEF IInv, TypeOK, WQTypeOK
  <2>4. UNCHANGED <<rw_state, waiting_writers, seen, pc>>
    BY <1>1 DEF lockVars
  <2> QED BY <2>3, <2>4 DEF IInv, TypeOK
<1>3. NotifyInv'
  BY <1>1 DEF IInv, NotifyInv
<1>4. \A s \in Task : Asleep(s)' => Asleep(s)
  BY <1>1 DEF IInv, Asleep, TypeOK, WQTypeOK
<1>5. \A a \in Task : Pending(a)' = Pending(a)
  BY <1>1 DEF Pending
<1> QED BY <1>1, <1>2, <1>3, <1>4, <1>5, HandStep

(* The inductive invariant of the reader-writer lock. *)
THEOREM RwLockInvariant == Spec => []IInv
<1>1. ASSUME IInv, [Next]_vars PROVE IInv'
  <2>1. ASSUME NEW t \in Task, Call(t) PROVE IInv'
    BY <1>1, <2>1, ReadStep, WriteStep DEF Call
  <2>2. ASSUME NEW t \in Task, Step(t) PROVE IInv'
    BY <1>1, <2>2, ReadStep, WriteStep, UntilStep, UntilBlockStep, UntilCancelStep,
       DropNotifyStep, DropReturnStep, NotifyLoopStep DEF Step
  <2>3. ASSUME NEW t \in Task, Schedule(t) PROVE IInv'
    BY <1>1, <2>3, ScheduleStep
  <2>4. CASE UNCHANGED vars
    <3>1. UNCHANGED <<state, in_wait_queue, queue, wq_lock, npc, nq, hand, lockVars, pc>>
      BY <2>4 DEF vars, lockVars
    <3>2. TypeOK' /\ NotifyInv'
      BY <1>1, <3>1 DEF IInv, TypeOK, WQTypeOK, NotifyInv, lockVars
    <3>3. \A s \in Task : Asleep(s)' = Asleep(s) /\ Pending(s)' = Pending(s)
      BY <3>1 DEF Asleep, Pending
    <3> QED BY <1>1, <3>1, <3>2, <3>3, HandStep
  <2> QED BY <1>1, <2>1, <2>2, <2>3, <2>4 DEF Next
<1> QED BY <1>1, InitIInv, PTL DEF Spec

(* Every variable of the reader-writer lock keeps its type. *)
THEOREM RwLockTypeOK == Spec => []TypeOK
BY RwLockInvariant, PTL DEF IInv

(* At most one write guard and no read guard beside it, and `state` counts   *)
(* the read guards, for any number of tasks.                                 *)
THEOREM RwLockExclusion == Spec => []ReadersExcludeWriter
BY RwLockInvariant, PTL DEF IInv

(* waiting_writers is the number of writers in the slow path of write.       *)
THEOREM RwLockWaitersCounted == Spec => []WaitersCounted
BY RwLockInvariant, PTL DEF IInv

(* A reader or writer that sleeps although it could have the lock is about   *)
(* to be notified.                                                           *)
THEOREM RwLockNoLostWakeup == Spec => []NoLostWakeup
BY RwLockInvariant, PTL DEF IInv
==============================================================================
