--------------------------------- MODULE Futex ---------------------------------
(***************************************************************************)
(* The futexes of pulse_core/src/task/process/futex.rs: a process's        *)
(* FutexTable, which makes a wait queue for a key when a waiter comes and  *)
(* drops it when nobody needs it, futex_wait_mask, futex_wake,             *)
(* futex_requeue, and begin_group_exit, which releases all waiters.        *)
(*                                                                         *)
(* Queues are objects that the table and the callers share by reference    *)
(* (Arc).  A bitset is a set of bits; the queue for the full one is in     *)
(* FutexShard::queues, the others are in bitset_queues.  Keys are in       *)
(* shards of their own.  A futex word is 0 until its wake-up is called for,*)
(* and waiters expect 0.  Wakers are threads that do not sleep meanwhile.  *)
(***************************************************************************)
EXTENDS WaitQueue, Functions

CONSTANTS
    Key,
    Mask,       \* the bitsets waiters use, sets of bits
    FullMask,   \* u32::MAX
    FutexQueue, \* the wait queues of tables; bound: their number
    Script      \* environments: [wait, wake, signalled], see below

ASSUME MaskAssumption == FullMask \in Mask /\ UNION Mask \subseteq FullMask /\ IsFiniteSet(Mask)
ASSUME QueueAssumption ==
    Key \X Mask \subseteq FutexQueue /\ FutexQueue \subseteq Queue /\ None \notin Queue

(* The environment: the calls tasks make of futex_wait_mask, again and again,  *)
(* the calls wakers make, each once and in any order, and the tasks that get   *)
(* signals.                                                                    *)
WaitCall == [task : Task, key : Key, mask : Mask, timed : BOOLEAN]
WakerCall == [by : Agent \ Task, op : {"wake", "requeue", "exit"}, key : Key, target : Key,
              wake : Nat, move : Nat, mask : Mask]

ASSUME ScriptAssumption ==
    \A s \in Script : /\ s.wait \subseteq WaitCall /\ s.signalled \subseteq Task
                      /\ \A c \in s.wake : c \in WakerCall

VARIABLES
    script,    \* Script                  the environment, chosen at the start
    word,      \* [Key -> 0..1]           the futex words
    exiting,   \* BOOLEAN                 Process::group_exiting
    signal,    \* [Task -> Signal]        a signal for the task
    table,     \* [Slot -> FutexQueue or None] the queues the table refers to
    shard,     \* [Key -> Agent or None]  who holds the shard's lock between two steps
    fpc,       \* [Task -> WaitPc]        futex_wait_mask
    wcall,     \* [Task -> WaitCall or None]
    fq,        \* [Task -> Queue or None] the queue it has a reference to
    stage,     \* [Waker -> Stage]        futex_wake, futex_requeue, begin_group_exit
    call,      \* [Waker -> WakerCall or None]
    made,      \* SUBSET script.wake       calls that were made
    held,      \* [Waker -> SUBSET Queue] queues it has a reference to
    list,      \* [Waker -> Seq(Mask \X Queue)] the ones still to be notified
    rest,      \* [Waker -> SUBSET (Key \cup Task)] what begin_group_exit has still to visit
    dest,      \* [Waker -> Queue or None] the queue it moves waiters to
    woken, moved,  \* [Waker -> Nat]
    remove,    \* [Agent -> Seq(Key \X Kind)]  calls of remove_if_empty still to make
    found      \* [Agent -> SUBSET Slot]  queues seen empty by the one in progress

waitVars == <<signal, fpc, wcall, fq>>
wakeVars == <<stage, call, made, held, list, rest, dest, woken, moved>>
removeVars == <<shard, remove, found>>
futexVars == <<word, exiting, signal, table, shard, fpc, wcall, fq, stage, call, made,
               held, list, rest, dest, woken, moved, remove, found>>
processVars == <<wqVars, script, futexVars>>

Waker == Agent \ Task
Slot == Key \X Mask
Kind == {"regular", "bitset"}
Signal == {"none", "pending", "sent", "late"}
WaitPc == {"idle", "queue", "check", "test", "block", "cancel", "drop",
           "elsewhere"}      \* in another system call
Stage == {"idle", "lookup", "bits", "notify", "move", "collect", "all", "interrupt"}

FutexTypeOK ==
    /\ WQTypeOK
    /\ script \in Script
    /\ word \in [Key -> 0..1] /\ exiting \in BOOLEAN
    /\ signal \in [Task -> Signal]
    /\ table \in [Slot -> FutexQueue \cup {None}]
    /\ shard \in [Key -> Agent \cup {None}]
    /\ fpc \in [Task -> WaitPc] /\ wcall \in [Task -> script.wait \cup {None}]
    /\ fq \in [Task -> FutexQueue \cup {None}]
    /\ stage \in [Waker -> Stage] /\ call \in [Waker -> script.wake \cup {None}]
    /\ made \subseteq script.wake
    /\ held \in [Waker -> SUBSET FutexQueue]
    /\ list \in [Waker -> Seq(Mask \X FutexQueue)]
    /\ dest \in [Waker -> FutexQueue \cup {None}]
    /\ rest \in [Waker -> SUBSET (Key \cup Task)]
    /\ woken \in [Waker -> Nat] /\ moved \in [Waker -> Nat]
    /\ remove \in [Agent -> Seq(Key \X Kind)] /\ found \in [Agent -> SUBSET Slot]

FutexInit ==
    /\ WQInit /\ nq = [a \in Agent |-> CHOOSE q \in Queue : TRUE]
    /\ script \in Script
    /\ word = [k \in Key |-> 0] /\ exiting = FALSE
    /\ signal = [t \in Task |-> "none"]
    /\ table = [s \in Slot |-> None]
    /\ shard = [k \in Key |-> None]
    /\ fpc = [t \in Task |-> "idle"] /\ wcall = [t \in Task |-> None]
    /\ fq = [t \in Task |-> None]
    /\ stage = [n \in Waker |-> "idle"] /\ call = [n \in Waker |-> None]
    /\ made = {}
    /\ held = [n \in Waker |-> {}]
    /\ list = [n \in Waker |-> <<>>] /\ dest = [n \in Waker |-> None]
    /\ rest = [n \in Waker |-> {}]
    /\ woken = [n \in Waker |-> 0] /\ moved = [n \in Waker |-> 0]
    /\ remove = [a \in Agent |-> <<>>] /\ found = [a \in Agent |-> {}]

(* Somebody other than the table has a reference to q. *)
Shared(q) == (\E t \in Task : fq[t] = q) \/ (\E n \in Waker : q \in held[n])

Free(q) == ~Shared(q) /\ \A s \in Slot : table[s] # q

(* FutexShard::queue and queue_mask: the slot's queue, a new one if it has    *)
(* none.  A new queue is called after its slot unless that name is in use.    *)
QueueOf(s) ==
    IF table[s] # None THEN table[s]
    ELSE CHOOSE q \in FutexQueue : Free(q) /\ (Free(s) => q = s)

(* Bound: the number of queues. *)
QueueLeft(s) == table[s] # None \/ \E q \in FutexQueue : Free(q)

(* A list of all elements of the set S, each once. *)
InSomeOrder(S) == CHOOSE s \in Bijection(1..Cardinality(S), S) : TRUE

KindOf(m) == IF m = FullMask THEN "regular" ELSE "bitset"

At(t, l) == Executing(t) /\ fpc[t] = l

Goto(t, l) == fpc' = [fpc EXCEPT ![t] = l]

GoStage(n, l) == stage' = [stage EXCEPT ![n] = l]
------------------------------------------------------------------------------
(* remove_if_empty and remove_bitset_if_empty, under the shard's lock: the    *)
(* queues of the key that are empty are dropped from the table if it is their *)
(* only owner.  is_empty and strong_count are two looks at a queue.           *)

Candidates(k, kind) ==
    {s \in Slot : s[1] = k /\ KindOf(s[2]) = kind /\ table[s] # None}

RemoveLook(a) ==
    LET k     == Head(remove[a])[1]
        slots == Candidates(k, Head(remove[a])[2])
        empty == {s \in slots : queue[table[s]] = <<>>}
    IN  /\ Executing(a) /\ remove[a] # <<>> /\ found[a] = {}
        /\ shard[k] = None
        /\ \A s \in slots : wq_lock[table[s]] = None
        /\ IF empty = {}
           THEN remove' = [remove EXCEPT ![a] = Tail(@)] /\ UNCHANGED <<shard, found>>
           ELSE /\ shard' = [shard EXCEPT ![k] = a]
                /\ found' = [found EXCEPT ![a] = empty]
                /\ UNCHANGED remove
        /\ UNCHANGED <<wqVars, word, exiting, table, waitVars, wakeVars>>

(* A faulty removal, which allows for a reference of the caller's own. *)
RemoveAtTwo(a) ==
    LET owners(q) == Cardinality({t \in Task : fq[t] = q} \cup {n \in Waker : q \in held[n]})
        lone      == {s \in found[a] : owners(table[s]) <= 1}
    IN  /\ Executing(a) /\ found[a] # {}
        /\ table' = [s \in Slot |-> IF s \in lone THEN None ELSE table[s]]
        /\ shard' = [shard EXCEPT ![Head(remove[a])[1]] = None]
        /\ found' = [found EXCEPT ![a] = {}]
        /\ remove' = [remove EXCEPT ![a] = Tail(@)]
        /\ UNCHANGED <<wqVars, word, exiting, waitVars, wakeVars>>

(* A queue that is dropped takes the entries it has by then with it. *)
RemoveDrop(a) ==
    LET lone == {s \in found[a] : ~Shared(table[s])}
    IN  /\ Executing(a) /\ found[a] # {}
        /\ table' = [s \in Slot |-> IF s \in lone THEN None ELSE table[s]]
        /\ queue' = [q \in Queue |-> IF q \in {table[s] : s \in lone} THEN <<>> ELSE queue[q]]
        /\ shard' = [shard EXCEPT ![Head(remove[a])[1]] = None]
        /\ found' = [found EXCEPT ![a] = {}]
        /\ remove' = [remove EXCEPT ![a] = Tail(@)]
        /\ UNCHANGED <<state, in_wait_queue, wq_lock, notifyVars, word, exiting>>
        /\ UNCHANGED <<waitVars, wakeVars>>
------------------------------------------------------------------------------
(* futex_wait_mask.                                                           *)

HasSignal(t) == signal[t] \in {"pending", "sent"}

(* The call: the word has the expected value, and no signal is pending.       *)
futex_wait_mask(t, c) ==
    /\ At(t, "idle") /\ remove[t] = <<>> /\ c.task = t
    /\ word[c.key] = 0 /\ ~HasSignal(t)
    /\ wcall' = [wcall EXCEPT ![t] = c]
    /\ Goto(t, "queue")
    /\ UNCHANGED <<wqVars, word, exiting, signal, table, fq, wakeVars, removeVars>>

SlotOf(t) == <<wcall[t].key, wcall[t].mask>>

WaitQueueOf(t) ==
    /\ At(t, "queue") /\ shard[wcall[t].key] = None /\ QueueLeft(SlotOf(t))
    /\ fq' = [fq EXCEPT ![t] = QueueOf(SlotOf(t))]
    /\ table' = [table EXCEPT ![SlotOf(t)] = QueueOf(SlotOf(t))]
    /\ Goto(t, "check")
    /\ UNCHANGED <<wqVars, word, exiting, signal, wcall, wakeVars, removeVars>>

WaitExiting(t) ==
    /\ At(t, "check")
    /\ Goto(t, IF exiting THEN "drop" ELSE "test")
    /\ UNCHANGED <<wqVars, word, exiting, signal, table, wcall, fq, wakeVars, removeVars>>

(* A faulty test, which trusts the first look at the word. *)
TestSignalsOnly(t) ==
    /\ At(t, "test")
    /\ wq_lock[fq[t]] = None
    /\ IF exiting \/ HasSignal(t)
       THEN Goto(t, "cancel") /\ UNCHANGED wq_lock
       ELSE Goto(t, "block") /\ LockQueue(t, fq[t])
    /\ UNCHANGED <<state, in_wait_queue, queue, notifyVars, word, exiting, signal, table>>
    /\ UNCHANGED <<wcall, fq, wakeVars, removeVars>>

(* A faulty test, which leaves the exit to WaitExiting. *)
TestIgnoresExit(t) ==
    /\ At(t, "test")
    /\ wq_lock[fq[t]] = None
    /\ IF HasSignal(t) \/ word[wcall[t].key] # 0
       THEN Goto(t, "cancel") /\ UNCHANGED wq_lock
       ELSE Goto(t, "block") /\ LockQueue(t, fq[t])
    /\ UNCHANGED <<state, in_wait_queue, queue, notifyVars, word, exiting, signal, table>>
    /\ UNCHANGED <<wcall, fq, wakeVars, removeVars>>

(* The condition's first evaluation, under the queue's lock. *)
WaitTest(t) ==
    /\ At(t, "test")
    /\ wq_lock[fq[t]] = None
    /\ IF exiting \/ HasSignal(t) \/ word[wcall[t].key] # 0
       THEN Goto(t, "cancel") /\ UNCHANGED wq_lock
       ELSE Goto(t, "block") /\ LockQueue(t, fq[t])
    /\ UNCHANGED <<state, in_wait_queue, queue, notifyVars, word, exiting, signal, table>>
    /\ UNCHANGED <<wcall, fq, wakeVars, removeVars>>

WaitBlock(t) ==
    /\ At(t, "block")
    /\ blocked_resched(t, fq[t])
    /\ Goto(t, "cancel")
    /\ UNCHANGED <<word, exiting, signal, table, wcall, fq, wakeVars, removeVars>>

(* Awake: the second evaluation is true, whatever woke the task. *)
WaitCancel(t) ==
    /\ At(t, "cancel")
    /\ cancel_events(t, fq[t])
    /\ Goto(t, "drop")
    /\ UNCHANGED <<word, exiting, signal, table, wcall, fq, wakeVars, removeVars>>

(* A faulty return, which leaves the queue in the table. *)
WaitKeepsQueue(t) ==
    /\ At(t, "drop")
    /\ fq' = [fq EXCEPT ![t] = None]
    /\ wcall' = [wcall EXCEPT ![t] = None]
    /\ Goto(t, "idle")
    /\ UNCHANGED <<wqVars, word, exiting, signal, table, wakeVars, removeVars>>

(* The reference is dropped; the call returns after remove_mask_if_empty. *)
WaitDrop(t) ==
    /\ At(t, "drop")
    /\ fq' = [fq EXCEPT ![t] = None]
    /\ remove' = [remove EXCEPT ![t] = << <<wcall[t].key, KindOf(wcall[t].mask)>> >>]
    /\ wcall' = [wcall EXCEPT ![t] = None]
    /\ Goto(t, "idle")
    /\ UNCHANGED <<wqVars, word, exiting, signal, table, wakeVars, shard, found>>

(* A pending signal is taken on the way to user mode. *)
TakeSignal(t) ==
    /\ At(t, "idle") /\ remove[t] = <<>> /\ HasSignal(t)
    /\ signal' = [signal EXCEPT ![t] = IF @ = "pending" THEN "late" ELSE "none"]
    /\ UNCHANGED <<wqVars, word, exiting, table, fpc, wcall, fq, wakeVars, removeVars>>
------------------------------------------------------------------------------
(* Signals and timeouts.                                                      *)

(* The sender makes the signal pending ... *)
SendSignal(t) ==
    /\ t \in script.signalled /\ signal[t] = "none"
    /\ signal' = [signal EXCEPT ![t] = "pending"]
    /\ UNCHANGED <<wqVars, word, exiting, table, fpc, wcall, fq, wakeVars, removeVars>>

(* ... and then calls interrupt_task, which wakes the task if it is Blocked.   *)
(* The task may have taken the signal already.  MaxEntries bounds the entries  *)
(* that interrupted sleepers leave behind, as in interrupt_task.               *)
InterruptTask(t) ==
    /\ signal[t] \in {"pending", "late"}
    /\ state[t] = "Blocked" => Copies(t) < MaxEntries
    /\ signal' = [signal EXCEPT ![t] = IF @ = "pending" THEN "sent" ELSE "none"]
    /\ state' = [state EXCEPT ![t] = IF @ = "Blocked" THEN "Ready" ELSE @]
    /\ UNCHANGED <<in_wait_queue, queue, wq_lock, notifyVars, word, exiting, table>>
    /\ UNCHANGED <<fpc, wcall, fq, wakeVars, removeVars>>

(* The deadline of a timed call passes. *)
Expire(t) ==
    /\ wcall[t] # None /\ wcall[t].timed
    /\ interrupt_task(t)
    /\ UNCHANGED futexVars

(* That a task is preempted shows only where a waker looks at its state.       *)
Schedule(t) ==
    /\ Dispatch(t) \/ (Copies(t) > 0 /\ Preempt(t))
    /\ UNCHANGED futexVars
------------------------------------------------------------------------------
(* futex_wake and futex_requeue.                                              *)

(* What the calls hand to remove_if_empty and remove_bitset_if_empty when they *)
(* are through with all queues.                                                *)
Prunes(c) ==
    IF c.op = "wake"
    THEN << <<c.key, "bitset">> >>
    ELSE << <<c.key, "regular">>, <<c.target, "regular">>,
            <<c.key, "bitset">>, <<c.target, "bitset">>,
            <<c.key, "regular">>, <<c.target, "regular">> >>

(* The caller changes the word and calls futex_wake; or it calls futex_requeue. *)
BeginWake(n, c) ==
    /\ stage[n] = "idle" /\ remove[n] = <<>>
    /\ c.by = n /\ c.op # "exit" /\ c \notin made
    /\ call' = [call EXCEPT ![n] = c]
    /\ made' = made \cup {c}
    /\ word' = [word EXCEPT ![c.key] = IF c.op = "wake" THEN 1 ELSE @]
    /\ GoStage(n, "lookup")
    /\ UNCHANGED <<wqVars, exiting, table, waitVars, held, list, rest, dest, woken, moved>>
    /\ UNCHANGED removeVars

(* wake_internal and requeue_primary look for the key's queue. *)
WakeLookup(n) ==
    LET q == table[<<call[n].key, FullMask>>]
    IN  /\ stage[n] = "lookup" /\ shard[call[n].key] = None
        /\ IF q = None
           THEN GoStage(n, "bits") /\ UNCHANGED <<held, list>>
           ELSE /\ GoStage(n, "notify")
                /\ held' = [held EXCEPT ![n] = {q}]
                /\ list' = [list EXCEPT ![n] = << <<FullMask, q>> >>]
        /\ UNCHANGED <<wqVars, word, exiting, table, waitVars, call, made, rest, dest>>
        /\ UNCHANGED <<woken, moved, removeVars>>

(* The call is through with all queues and returns after its removals. *)
WakeReturns(n) ==
    /\ GoStage(n, "idle")
    /\ remove' = [remove EXCEPT ![n] = Prunes(call[n])]
    /\ call' = [call EXCEPT ![n] = None]
    /\ woken' = [woken EXCEPT ![n] = 0] /\ moved' = [moved EXCEPT ![n] = 0]

(* wake_mask and requeue go on to the key's bitset queues.  A wake that has   *)
(* woken enough does not look; a requeue takes them all.                      *)
bitset_queues_for(n) ==
    LET c     == call[n]
        meets(m) == c.op = "requeue" \/ (woken[n] < c.wake /\ m \cap c.mask # {})
        masks == {m \in Mask \ {FullMask} : table[<<c.key, m>>] # None /\ meets(m)}
        order == InSomeOrder(masks)
    IN  /\ stage[n] = "bits" /\ remove[n] = <<>> /\ shard[c.key] = None
        /\ held' = [held EXCEPT ![n] = {table[<<c.key, m>>] : m \in masks}]
        /\ list' = [list EXCEPT ![n] =
                        [i \in DOMAIN order |-> <<order[i], table[<<c.key, order[i]>>]>>]]
        /\ IF masks = {}
           THEN WakeReturns(n)
           ELSE GoStage(n, "notify") /\ UNCHANGED <<call, woken, moved, remove>>
        /\ UNCHANGED <<wqVars, word, exiting, table, waitVars, made, rest, dest, shard, found>>

(* while woken < count && queue.notify_one() { woken += 1 } *)
WakeOne(n) ==
    /\ stage[n] = "notify" /\ woken[n] < call[n].wake
    /\ notify_one(n, Head(list[n])[2])
    /\ UNCHANGED futexVars

WokenOne(n) ==
    /\ stage[n] = "notify" /\ npc[n] = "woke"
    /\ NotifyReturn(n)
    /\ woken' = [woken EXCEPT ![n] = @ + 1]
    /\ UNCHANGED <<word, exiting, table, waitVars, stage, call, made, held, list, rest, dest>>
    /\ UNCHANGED <<moved, removeVars>>

(* The loop is over, and NotifyReturn or nothing leaves it. *)
NotifiedEnough(n) ==
    /\ stage[n] = "notify"
    /\ \/ npc[n] = "empty" /\ NotifyReturn(n)
       \/ npc[n] = "none" /\ woken[n] = call[n].wake /\ UNCHANGED wqVars

(* The target's queue for the same bitset, a new one if there is none ... *)
RequeueTarget(n) ==
    LET s == <<call[n].target, Head(list[n])[1]>>
    IN  /\ NotifiedEnough(n) /\ moved[n] < call[n].move
        /\ shard[call[n].target] = None /\ QueueLeft(s)
        /\ table' = [table EXCEPT ![s] = QueueOf(s)]
        /\ dest' = [dest EXCEPT ![n] = QueueOf(s)]
        /\ held' = [held EXCEPT ![n] = @ \cup {QueueOf(s)}]
        /\ GoStage(n, "move")
        /\ UNCHANGED <<word, exiting, waitVars, call, made, list, rest, woken, moved>>
        /\ UNCHANGED removeVars

(* ... gets the waiters that may still be moved, unless it is the source. *)
RequeueWaiters(n) ==
    LET source == Head(list[n])[2]
    IN  /\ stage[n] = "move" /\ dest[n] # source
        /\ requeue(n, call[n].move - moved[n], source, dest[n])
        /\ moved' = [moved EXCEPT ![n] = @ + Len(hand'[n])]
        /\ UNCHANGED <<word, exiting, table, waitVars, stage, call, made, held, list, rest>>
        /\ UNCHANGED <<dest, woken, removeVars>>

RequeueAppend(n) ==
    /\ stage[n] = "move"
    /\ RequeueExtend(n)
    /\ UNCHANGED futexVars

RequeuedEnough(n) ==
    /\ stage[n] = "move"
    /\ \/ npc[n] = "woke" /\ NotifyReturn(n)
       \/ npc[n] = "none" /\ dest[n] = Head(list[n])[2] /\ UNCHANGED wqVars

(* The references to the queue and to the target are dropped.  wake_internal   *)
(* then removes the queue; the loop over the bitset queues ends when both      *)
(* counts are reached.                                                         *)
WakeNext(n) ==
    LET c       == call[n]
        regular == Head(list[n])[1] = FullMask
        enough  == woken[n] = c.wake /\ moved[n] = c.move
        more    == IF enough THEN <<>> ELSE Tail(list[n])
    IN  /\ RequeuedEnough(n) \/ (NotifiedEnough(n) /\ moved[n] = c.move)
        /\ list' = [list EXCEPT ![n] = more]
        /\ held' = [held EXCEPT ![n] = {more[i][2] : i \in DOMAIN more}]
        /\ dest' = [dest EXCEPT ![n] = None]
        /\ IF more = <<>> /\ ~regular
           THEN WakeReturns(n)
           ELSE /\ GoStage(n, IF regular THEN "bits" ELSE "notify")
                /\ remove' = [remove EXCEPT ![n] = IF regular /\ c.op = "wake"
                                                   THEN << <<c.key, "regular">> >> ELSE <<>>]
                /\ UNCHANGED <<call, woken, moved>>
        /\ UNCHANGED <<word, exiting, table, waitVars, made, rest, shard, found>>
------------------------------------------------------------------------------
(* Process::begin_group_exit.                                                  *)

begin_group_exit(n, c) ==
    /\ stage[n] = "idle" /\ remove[n] = <<>>
    /\ c.by = n /\ c.op = "exit" /\ c \notin made
    /\ call' = [call EXCEPT ![n] = c]
    /\ made' = made \cup {c}
    /\ exiting' = TRUE
    /\ rest' = [rest EXCEPT ![n] = Key]
    /\ GoStage(n, "collect")
    /\ UNCHANGED <<wqVars, word, table, waitVars, held, list, dest, woken, moved, removeVars>>

(* wake_all takes a reference to every queue, shard by shard ... *)
ExitCollect(n, k) ==
    LET masks == {m \in Mask : table[<<k, m>>] # None}
        order == InSomeOrder(masks)
    IN  /\ stage[n] = "collect" /\ k \in rest[n] /\ shard[k] = None
        /\ held' = [held EXCEPT ![n] = @ \cup {table[<<k, m>>] : m \in masks}]
        /\ list' = [list EXCEPT ![n] =
                        @ \o [i \in DOMAIN order |-> <<order[i], table[<<k, order[i]>>]>>]]
        /\ rest' = [rest EXCEPT ![n] = IF @ = {k} THEN Task ELSE @ \ {k}]
        /\ GoStage(n, IF rest[n] = {k} THEN "all" ELSE "collect")
        /\ UNCHANGED <<wqVars, word, exiting, table, waitVars, call, made, dest, woken, moved>>
        /\ UNCHANGED removeVars

(* ... notifies them all, dropping the references ... *)
ExitNotify(n) ==
    /\ stage[n] = "all" /\ list[n] # <<>>
    /\ notify_all(n, Head(list[n])[2])
    /\ UNCHANGED futexVars

ExitNotified(n) ==
    /\ stage[n] = "all" /\ npc[n] = "woke"
    /\ NotifyReturn(n)
    /\ list' = [list EXCEPT ![n] = Tail(@)]
    /\ held' = [held EXCEPT ![n] = @ \ {Head(list[n])[2]}]
    /\ UNCHANGED <<word, exiting, table, waitVars, stage, call, made, rest, dest, woken, moved>>
    /\ UNCHANGED removeVars

(* ... and begin_group_exit then interrupts the threads. *)
ExitInterrupt(n, t) ==
    /\ stage[n] \in {"all", "interrupt"} /\ list[n] = <<>> /\ t \in rest[n]
    /\ state' = [state EXCEPT ![t] = IF @ = "Blocked" THEN "Ready" ELSE @]
    /\ rest' = [rest EXCEPT ![n] = @ \ {t}]
    /\ GoStage(n, IF rest[n] = {t} THEN "idle" ELSE "interrupt")
    /\ call' = [call EXCEPT ![n] = IF rest[n] = {t} THEN None ELSE @]
    /\ UNCHANGED <<in_wait_queue, queue, wq_lock, notifyVars, word, exiting, table, waitVars>>
    /\ UNCHANGED <<made, held, list, dest, woken, moved, removeVars>>

NotifyInside(n) == NotifyStep(n) /\ UNCHANGED futexVars
------------------------------------------------------------------------------
RemoveIfEmpty(a) == RemoveLook(a) \/ RemoveDrop(a)

Wait(t) ==
    \/ \E c \in script.wait : futex_wait_mask(t, c)
    \/ WaitQueueOf(t) \/ WaitExiting(t) \/ WaitTest(t) \/ WaitBlock(t)
    \/ WaitCancel(t) \/ WaitDrop(t) \/ TakeSignal(t)

Wake(n) ==
    \/ \E c \in script.wake : BeginWake(n, c)
    \/ WakeLookup(n) \/ bitset_queues_for(n)
    \/ WakeOne(n) \/ WokenOne(n) \/ WakeNext(n)
    \/ RequeueTarget(n) \/ RequeueWaiters(n) \/ RequeueAppend(n)

Exit(n) ==
    \/ \E c \in script.wake : begin_group_exit(n, c)
    \/ \E k \in Key : ExitCollect(n, k)
    \/ ExitNotify(n) \/ ExitNotified(n)
    \/ \E t \in Task : ExitInterrupt(n, t)

FutexNext ==
    /\ \/ \E t \in Task : Wait(t) \/ RemoveIfEmpty(t) \/ Schedule(t) \/ Expire(t)
       \/ \E t \in Task : SendSignal(t) \/ InterruptTask(t)
       \/ \E n \in Waker : Wake(n) \/ Exit(n) \/ NotifyInside(n) \/ RemoveIfEmpty(n)
    /\ UNCHANGED script

------------------------------------------------------------------------------
(* Asleep in futex_wait_mask. *)
Asleep(t) == fpc[t] = "cancel" /\ state[t] = "Blocked"

(* A sleeper can be woken: it has an entry in a queue of the table, or a waker *)
(* or requeuer has it in hand.                                                 *)
SleeperIsFindable ==
    \A t \in Task : Asleep(t) =>
        \/ \E s \in Slot : table[s] # None /\ t \in Entries(table[s])
        \/ \E n \in Waker : t \in Elems(hand[n])

(* A wake for everybody is not lost: who still sleeps on the key although the  *)
(* word has changed, sleeps while a call is on its way to the queue.           *)
NoLostFutexWake ==
    \A t \in Task : \A c \in made :
        /\ Asleep(t) /\ t \in Entries(fq[t])
        /\ c.op = "wake" /\ c.key = wcall[t].key /\ c.wake >= Cardinality(Task)
        /\ wcall[t].mask \cap c.mask # {}
        => \E n \in Waker : call[n] = c /\ stage[n] \in {"lookup", "bits", "notify"}

(* When begin_group_exit has returned nobody sleeps on a futex of the process. *)
ExitLeavesNoSleeper ==
    (\E c \in made : c.op = "exit" /\ \A n \in Waker : call[n] # c)
        => \A t \in Task : ~Asleep(t)

(* The table does not grow: when no call is in progress it has no empty queue. *)
TableIsPruned ==
    /\ ~exiting
    /\ \A t \in Task : fpc[t] = "idle"
    /\ \A n \in Waker : stage[n] = "idle"
    /\ \A a \in Agent : remove[a] = <<>>
    => \A s \in Slot : table[s] # None => queue[table[s]] # <<>>

(* A task with a pending signal whose sender has called interrupt_task does    *)
(* not sleep.                                                                  *)
SignalledDoesNotSleep == \A t \in Task : ~(Asleep(t) /\ signal[t] = "sent")
==============================================================================
