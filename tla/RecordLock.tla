------------------------------ MODULE RecordLock ------------------------------
(***************************************************************************)
(* POSIX and open-file-description record locks:                           *)
(* pulse_core/src/record_lock.rs, as sys_fcntl_record_lock, close and exit *)
(* call it.  The callers are the tasks of Futex, with its signals.         *)
(*                                                                         *)
(* What is done under a shard's spin lock is one step; files are in shards *)
(* of their own.  A file's RecordLockState, with a wait queue of its own,  *)
(* is made when somebody locks the file and dropped when nobody needs it.  *)
(* Its entries are a set: their order in the Vec decides nothing.          *)
(***************************************************************************)
EXTENDS Futex, Integers

CONSTANTS
    File,         \* LockTarget
    RecordQueue,  \* the wait queues of RecordLockStates
    OffsetMax     \* i64::MAX

ASSUME RecordAssumption ==
    RecordQueue \subseteq Queue \ FutexQueue /\ OffsetMax \in Nat \ {0} /\ IsFiniteSet(Task)
ASSUME LockCallAssumption == \A s \in Script : \A c \in s.lock : c.file \in File

(* A script has the calls that tasks make again and again:                   *)
(* [task, owner, file, cmd, base, rel, len, type, blocking], where cmd is    *)
(* "set", "unlock", "close" (release_posix_owner_target) or "release"        *)
(* (release_posix_owner and release_ofd_owner).                              *)
VARIABLES
    locks,   \* [File -> state or NoLocks]  RECORD_LOCKS
    rpc,     \* [Task -> RecordPc]
    rcall,   \* [Task -> call or None]
    rq,      \* [Task -> Queue or None]  the queue set_lock waits in
    rrest,   \* [Task -> SUBSET File]    shards still to be visited
    rlist,   \* [Task -> Seq(Queue)]     queues still to be notified
    bytes    \* [File -> [Owner -> [offset -> type or "None"]]]  history: what
             \* the calls that returned have locked, byte by byte

recordVars == <<locks, rpc, rcall, rq, rrest, rlist, bytes>>

RecordPc == {"idle", "try", "signal", "test", "block", "cancel", "finish", "release", "notify"}
RecordLockType == {"Read", "Write"}
RecordOwner == {c.owner : c \in script.lock}
Offset == 0..(OffsetMax - 1)

(* For a file that has no RecordLockState. *)
NoLocks == [entries |-> {}, queue |-> None, waiters |-> 0]

RecordTypeOK ==
    /\ \A f \in File : locks[f] # NoLocks =>
           /\ locks[f].queue \in RecordQueue /\ locks[f].waiters \in Nat
           /\ \A e \in locks[f].entries :
                  /\ e.owner \in RecordOwner /\ e.type \in RecordLockType
                  /\ e.start \in 0..OffsetMax /\ e.end \in 0..OffsetMax
    /\ rpc \in [Task -> RecordPc] /\ rcall \in [Task -> script.lock \cup {None}]
    /\ rq \in [Task -> RecordQueue \cup {None}]
    /\ rrest \in [Task -> SUBSET File] /\ rlist \in [Task -> Seq(RecordQueue)]
    /\ bytes \in [File -> [RecordOwner -> [Offset -> RecordLockType \cup {"None"}]]]

RecordInit ==
    /\ locks = [f \in File |-> NoLocks]
    /\ rpc = [t \in Task |-> "idle"] /\ rcall = [t \in Task |-> None]
    /\ rq = [t \in Task |-> None]
    /\ rrest = [t \in Task |-> {}] /\ rlist = [t \in Task |-> <<>>]
    /\ bytes = [f \in File |-> [o \in RecordOwner |-> [x \in Offset |-> "None"]]]
------------------------------------------------------------------------------
(* Ranges.                                                                    *)

Fits(x) == -OffsetMax - 1 <= x /\ x <= OffsetMax

(* The range a call means, None for EINVAL: checked additions, length 0 for   *)
(* all that follows, a negative length for what comes before.                 *)
resolve_range(base, rel, len) ==
    LET at    == base + rel
        start == IF len < 0 THEN at + len ELSE at
        end   == IF len = 0 THEN OffsetMax ELSE IF len > 0 THEN at + len ELSE at
    IN  IF Fits(at) /\ Fits(at + len) /\ 0 <= start /\ start < end
        THEN [start |-> start, end |-> end] ELSE None

RangeOf(c) == resolve_range(c.base, c.rel, c.len)

(* A faulty test, which sees only overlaps at the front. *)
OverlapsFront(a, b) == a.start <= b.start /\ b.start < a.end

ranges_overlap(a, b) == a.start < b.end /\ b.start < a.end

lock_types_conflict(a, b) == ~(a = "Read" /\ b = "Read")

(* The entries in the way of a lock; the code reports the first of them. *)
conflict(s, owner, range, type) ==
    {e \in s.entries : /\ e.owner # owner
                       /\ ranges_overlap(e, range)
                       /\ lock_types_conflict(e.type, type)}

Hit(s, owner, range) == {e \in s.entries : e.owner = owner /\ ranges_overlap(e, range)}

(* A faulty clear_owner_range, which keeps one remainder of an entry at most. *)
ClearKeepsOne(s, owner, range) ==
    LET hit   == Hit(s, owner, range)
        left  == {e \in hit : e.start < range.start}
        right == {e \in hit \ left : e.end > range.end}
    IN  [s EXCEPT !.entries = (@ \ hit) \cup {[e EXCEPT !.end = range.start] : e \in left}
                                        \cup {[e EXCEPT !.start = range.end] : e \in right}]

clear_owner_range(s, owner, range) ==
    LET hit   == Hit(s, owner, range)
        left  == {e \in hit : e.start < range.start}
        right == {e \in hit : e.end > range.end}
    IN  [s EXCEPT !.entries = (@ \ hit) \cup {[e EXCEPT !.end = range.start] : e \in left}
                                        \cup {[e EXCEPT !.start = range.end] : e \in right}]

release_owner(s, owner) == [s EXCEPT !.entries = {e \in @ : e.owner # owner}]

(* The entries of one owner and type in order, with those that touch merged. *)
Coalesced(entries) ==
    LET group(o, ty) == {e \in entries : e.owner = o /\ e.type = ty}
        last(es) == CHOOSE e \in es : \A d \in es : d.start <= e.start
        merge(out, e) ==
            LET previous == last(out)
            IN  IF out # {} /\ e.start <= previous.end
                THEN (out \ {previous}) \cup
                         {[previous EXCEPT !.end = IF @ >= e.end THEN @ ELSE e.end]}
                ELSE out \cup {e}
        merged[es \in SUBSET entries] ==
            IF es = {} THEN {} ELSE merge(merged[es \ {last(es)}], last(es))
    IN  UNION {merged[group(o, ty)] : o \in RecordOwner, ty \in RecordLockType}

coalesce(s) == [s EXCEPT !.entries = Coalesced(@)]

(* RecordLockState::set, without a conflict. *)
set(s, owner, range, type) ==
    LET cleared == clear_owner_range(s, owner, range)
        entry   == [owner |-> owner, start |-> range.start, end |-> range.end, type |-> type]
    IN  coalesce([cleared EXCEPT !.entries = @ \cup {entry}])
------------------------------------------------------------------------------
(* The table.                                                                 *)

Unreferenced(q) ==
    /\ \A f \in File : locks[f].queue # q
    /\ \A t \in Task : rq[t] # q /\ q \notin Elems(rlist[t])

(* locks.entry(target).or_default() *)
StateOf(f) ==
    IF locks[f] # NoLocks THEN locks[f]
    ELSE [NoLocks EXCEPT !.queue = CHOOSE q \in RecordQueue : Unreferenced(q)]

(* Bound: the number of queues. *)
StateLeft(f) == locks[f] # NoLocks \/ \E q \in RecordQueue : Unreferenced(q)

(* A faulty removal, which forgets those who wait. *)
NoEntries(s) == s.entries = {}

Unneeded(s) == s.entries = {} /\ s.waiters = 0

Kept(s) == IF Unneeded(s) THEN NoLocks ELSE s

RecordAt(t, l) == Executing(t) /\ rpc[t] = l

RecordGoto(t, l) == rpc' = [rpc EXCEPT ![t] = l]

(* What a step of a record-lock call leaves alone of the process. *)
RecordRest == UNCHANGED <<script, word, exiting, signal, table, wcall, fq, wakeVars, removeVars>>

RecordReturn(t) ==
    /\ RecordGoto(t, "idle") /\ Goto(t, "idle")
    /\ rcall' = [rcall EXCEPT ![t] = None]

(* The bytes a call means, for the history. *)
Bytes(c) ==
    LET at == c.base + c.rel
    IN  {x \in Offset : IF c.len < 0 THEN at + c.len <= x /\ x < at
                                     ELSE at <= x /\ (c.len = 0 \/ x < at + c.len)}

Note(f, owner, range, type) ==
    bytes' = [bytes EXCEPT ![f][owner] = [x \in Offset |-> IF x \in range THEN type ELSE @[x]]]
------------------------------------------------------------------------------
(* sys_fcntl_record_lock with a valid range, close, and release.              *)
sys_fcntl_record_lock(t, c) ==
    /\ At(t, "idle") /\ remove[t] = <<>> /\ RecordAt(t, "idle")
    /\ c.task = t /\ ~HasSignal(t)
    /\ c.cmd \in {"set", "unlock"} => RangeOf(c) # None
    /\ rcall' = [rcall EXCEPT ![t] = c]
    /\ rrest' = [rrest EXCEPT ![t] = CASE c.cmd = "set"     -> {}
                                       [] c.cmd = "release" -> File
                                       [] OTHER             -> {c.file}]
    /\ RecordGoto(t, IF c.cmd = "set" THEN "try" ELSE "release") /\ Goto(t, "elsewhere")
    /\ RecordRest /\ UNCHANGED <<wqVars, locks, rq, rlist, bytes>>

(* set_lock, one round: nothing is in the way, and the change of this owner's  *)
(* locks may have made room for others, ...                                    *)
SetSilently(t) ==
    LET c == rcall[t]
        s == StateOf(c.file)
    IN  /\ RecordAt(t, "try")
        /\ conflict(s, c.owner, RangeOf(c), c.type) = {}
        /\ locks' = [locks EXCEPT ![c.file] = set(s, c.owner, RangeOf(c), c.type)]
        /\ Note(c.file, c.owner, Bytes(c), c.type)
        /\ RecordReturn(t)
        /\ RecordRest /\ UNCHANGED <<wqVars, rq, rrest, rlist>>

SetAcquires(t) ==
    LET c == rcall[t]
        s == StateOf(c.file)
    IN  /\ RecordAt(t, "try") /\ StateLeft(c.file)
        /\ conflict(s, c.owner, RangeOf(c), c.type) = {}
        /\ locks' = [locks EXCEPT ![c.file] = set(s, c.owner, RangeOf(c), c.type)]
        /\ Note(c.file, c.owner, Bytes(c), c.type)
        /\ rlist' = [rlist EXCEPT ![t] = <<s.queue>>]
        /\ RecordGoto(t, "notify")
        /\ RecordRest /\ UNCHANGED <<wqVars, fpc, rcall, rq, rrest>>

(* ... the lock is not free and the call does not block, ... *)
SetAgain(t) ==
    LET c == rcall[t]
    IN  /\ RecordAt(t, "try")
        /\ conflict(StateOf(c.file), c.owner, RangeOf(c), c.type) # {} /\ ~c.blocking
        /\ RecordReturn(t)
        /\ RecordRest /\ UNCHANGED <<wqVars, locks, rq, rrest, rlist, bytes>>

(* ... or the caller is counted and waits. *)
SetWaits(t) ==
    LET c == rcall[t]
        s == StateOf(c.file)
    IN  /\ RecordAt(t, "try")
        /\ conflict(s, c.owner, RangeOf(c), c.type) # {} /\ c.blocking
        /\ locks' = [locks EXCEPT ![c.file] = [s EXCEPT !.waiters = @ + 1]]
        /\ rq' = [rq EXCEPT ![t] = s.queue]
        /\ RecordGoto(t, "signal")
        /\ RecordRest /\ UNCHANGED <<wqVars, fpc, rcall, rrest, rlist, bytes>>

SetSignal(t) ==
    /\ RecordAt(t, "signal")
    /\ RecordGoto(t, IF HasSignal(t) THEN "finish" ELSE "test")
    /\ RecordRest /\ UNCHANGED <<wqVars, fpc, locks, rcall, rq, rrest, rlist, bytes>>

CanLock(c) == conflict(locks[c.file], c.owner, RangeOf(c), c.type) = {}

(* wait_until: the condition under the queue's lock, ... *)
SetTest(t) ==
    /\ RecordAt(t, "test") /\ wq_lock[rq[t]] = None
    /\ IF HasSignal(t) \/ CanLock(rcall[t])
       THEN RecordGoto(t, "cancel") /\ UNCHANGED wq_lock
       ELSE RecordGoto(t, "block") /\ LockQueue(t, rq[t])
    /\ RecordRest /\ UNCHANGED <<state, in_wait_queue, queue, notifyVars, fpc>>
    /\ UNCHANGED <<locks, rcall, rq, rrest, rlist, bytes>>

(* ... and to sleep, to test again. *)
SetBlock(t) ==
    /\ RecordAt(t, "block")
    /\ blocked_resched(t, rq[t])
    /\ RecordGoto(t, "test")
    /\ RecordRest /\ UNCHANGED <<fpc, locks, rcall, rq, rrest, rlist, bytes>>

SetCancel(t) ==
    /\ RecordAt(t, "cancel")
    /\ cancel_events(t, rq[t])
    /\ RecordGoto(t, "finish")
    /\ RecordRest /\ UNCHANGED <<fpc, locks, rcall, rq, rrest, rlist, bytes>>

(* The caller is no longer counted; it tries again unless it has a signal. *)
finish_wait(t) ==
    LET f    == rcall[t].file
        left == IF locks[f].waiters > 0 THEN locks[f].waiters - 1 ELSE 0
    IN  /\ RecordAt(t, "finish")
        /\ locks' = [locks EXCEPT ![f] = Kept([locks[f] EXCEPT !.waiters = left])]
        /\ rq' = [rq EXCEPT ![t] = None]
        /\ IF HasSignal(t) THEN RecordReturn(t)
                           ELSE RecordGoto(t, "try") /\ UNCHANGED <<fpc, rcall>>
        /\ RecordRest /\ UNCHANGED <<wqVars, rrest, rlist, bytes>>
------------------------------------------------------------------------------
(* unlock_lock, release_owner_target and release_owner, in one shard.         *)
ReleaseIn(t, f) ==
    LET c     == rcall[t]
        after == IF c.cmd = "unlock" THEN clear_owner_range(locks[f], c.owner, RangeOf(c))
                                     ELSE release_owner(locks[f], c.owner)
    IN  /\ RecordAt(t, "release") /\ f \in rrest[t]
        /\ locks' = [locks EXCEPT ![f] = Kept(after)]
        /\ rlist' = [rlist EXCEPT ![t] = IF after # locks[f] THEN Append(@, locks[f].queue) ELSE @]
        /\ rrest' = [rrest EXCEPT ![t] = @ \ {f}]
        /\ Note(f, c.owner, IF c.cmd = "unlock" THEN Bytes(c) ELSE Offset, "None")
        /\ RecordRest /\ UNCHANGED <<wqVars, fpc, rpc, rcall, rq>>

Released(t) ==
    /\ RecordAt(t, "release") /\ rrest[t] = {}
    /\ IF rlist[t] = <<>> THEN RecordReturn(t)
                          ELSE RecordGoto(t, "notify") /\ UNCHANGED <<fpc, rcall>>
    /\ RecordRest /\ UNCHANGED <<wqVars, locks, rq, rrest, rlist, bytes>>

(* The waiters are notified after the shard's lock has been released. *)
RecordNotify(t) ==
    /\ RecordAt(t, "notify")
    /\ notify_all(t, Head(rlist[t]))
    /\ UNCHANGED <<script, futexVars, recordVars>>

RecordNotifyInside(t) ==
    /\ RecordAt(t, "notify")
    /\ NotifyStep(t)
    /\ UNCHANGED <<script, futexVars, recordVars>>

RecordNotified(t) ==
    /\ RecordAt(t, "notify") /\ npc[t] = "woke"
    /\ NotifyReturn(t)
    /\ rlist' = [rlist EXCEPT ![t] = Tail(@)]
    /\ IF Len(rlist[t]) = 1 THEN RecordReturn(t) ELSE UNCHANGED <<rpc, fpc, rcall>>
    /\ RecordRest /\ UNCHANGED <<locks, rq, rrest, bytes>>
------------------------------------------------------------------------------
RecordOperation(t) ==
    \/ \E c \in script.lock : sys_fcntl_record_lock(t, c)
    \/ SetAcquires(t) \/ SetAgain(t) \/ SetWaits(t)
    \/ SetSignal(t) \/ SetTest(t) \/ SetBlock(t) \/ SetCancel(t) \/ finish_wait(t)
    \/ (\E f \in File : ReleaseIn(t, f)) \/ Released(t)
    \/ RecordNotify(t) \/ RecordNotifyInside(t) \/ RecordNotified(t)

RecordNext == \E t \in Task : RecordOperation(t)
------------------------------------------------------------------------------
(* Splitting and merging ranges loses and invents nothing: the entries of an   *)
(* owner are disjoint, those of a type do not touch, and they cover exactly    *)
(* the bytes its calls have locked and not unlocked.                           *)
EntriesAreBytes ==
    \A f \in File, o \in RecordOwner :
        LET own == {e \in locks[f].entries : e.owner = o}
        IN  /\ \A d, e \in own : d # e => /\ ~ranges_overlap(d, e)
                                          /\ d.type = e.type => d.end # e.start
            /\ \A x \in Offset, ty \in RecordLockType :
                   bytes[f][o][x] = ty <=> \E e \in own : e.type = ty /\ e.start <= x /\ x < e.end

(* No byte that one owner has locked for writing is locked by another, however *)
(* the owners came to their ranges.                                            *)
RecordExclusion ==
    \A f \in File, o, p \in RecordOwner, x \in Offset :
        o # p /\ bytes[f][o][x] = "Write" => bytes[f][p][x] = "None"

(* Who waits in set_lock waits where releasers look: until finish_wait the     *)
(* file keeps its state with the queue the waiter has, and counts it.          *)
WaiterKeepsState ==
    \A f \in File :
        LET waiting == {t \in Task : rq[t] # None /\ rcall[t].file = f}
        IN  /\ locks[f].waiters = Cardinality(waiting)
            /\ \A t \in waiting : rq[t] = locks[f].queue

(* No release and no downgrade is missed: who sleeps although its lock is free *)
(* is about to be notified by the call that made room.                         *)
NoLostRecordWake ==
    \A t \in Task :
        rpc[t] = "test" /\ state[t] = "Blocked" /\ CanLock(rcall[t])
            => \E u \in Task : rq[t] \in Elems(rlist[u])
==============================================================================
