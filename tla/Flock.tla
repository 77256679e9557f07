-------------------------------- MODULE Flock --------------------------------
(***************************************************************************)
(* flock: pulse_core/src/flock.rs, as sys_flock and the drop of an open    *)
(* file call it.  The callers are the tasks of Futex, with its signals.    *)
(*                                                                         *)
(* A file's LockState, with a wait queue of its own, is made by the first  *)
(* owner and dropped by the last.  Releases notify while they hold the     *)
(* shard's spin lock, so that lock is a variable; files are in shards of   *)
(* their own.                                                              *)
(***************************************************************************)
EXTENDS Futex

CONSTANTS
    FlockFile,   \* LockTarget
    FlockQueue   \* the wait queues of LockStates

ASSUME FlockAssumption == FlockQueue \subseteq Queue \ FutexQueue

(* A script has the calls that tasks make again and again:                   *)
(* [task, owner, file, op, nb], where op is "Shared" (LOCK_SH), "Exclusive"  *)
(* (LOCK_EX), "unlock" (LOCK_UN) or "drop" (flock_release_owner).  An owner  *)
(* is an open file; threads and processes may share it.                      *)
VARIABLES
    flocks,   \* [FlockFile -> [type, owners, queue]]  FLOCK_MAPS
    fmap,     \* [FlockFile -> Task or None]  who holds the shard's lock between two steps
    lpc,      \* [Task -> FlockPc]
    lcall,    \* [Task -> call or None]
    lq,       \* [Task -> Queue or None]     the queue do_flock waits in or notifies
    lrest,    \* [Task -> SUBSET FlockFile]  shards a release has still to visit
    told,     \* [FlockFile -> [Owner -> type or "None"]]  history: the lock an owner has
    astray    \* [Task -> BOOLEAN]  history: when the task last went to sleep, its
              \*                    queue was not the file's any more

flockVars == <<flocks, fmap, lpc, lcall, lq, lrest, told, astray>>

FlockPc == {"idle", "convert", "told", "try", "signal", "lockq", "test", "block",
            "cancel", "release", "tell"}
FlockType == {"Shared", "Exclusive"}
FlockOwner == {c.owner : c \in script.flock}

ASSUME FlockCallAssumption ==
    \A s \in Script : \A c \in s.flock :
        c.file \in FlockFile /\ c.op \in FlockType \cup {"unlock", "drop"}

(* For a file that has no LockState. *)
NoFlock == [type |-> "Shared", owners |-> {}, queue |-> None]

FlockTypeOK ==
    /\ \A f \in FlockFile : flocks[f] # NoFlock =>
           /\ flocks[f].type \in FlockType
           /\ flocks[f].owners \in SUBSET FlockOwner \ {{}} /\ flocks[f].queue \in FlockQueue
    /\ fmap \in [FlockFile -> Task \cup {None}]
    /\ lpc \in [Task -> FlockPc] /\ lcall \in [Task -> script.flock \cup {None}]
    /\ lq \in [Task -> FlockQueue \cup {None}] /\ lrest \in [Task -> SUBSET FlockFile]
    /\ told \in [FlockFile -> [FlockOwner -> FlockType \cup {"None"}]]
    /\ astray \in [Task -> BOOLEAN]

FlockInit ==
    /\ flocks = [f \in FlockFile |-> NoFlock] /\ fmap = [f \in FlockFile |-> None]
    /\ lpc = [t \in Task |-> "idle"] /\ lcall = [t \in Task |-> None]
    /\ lq = [t \in Task |-> None] /\ lrest = [t \in Task |-> {}]
    /\ told = [f \in FlockFile |-> [o \in FlockOwner |-> "None"]]
    /\ astray = [t \in Task |-> FALSE]
------------------------------------------------------------------------------
FlockAt(t, l) == Executing(t) /\ lpc[t] = l

FlockGoto(t, l) == lpc' = [lpc EXCEPT ![t] = l]

(* What a step of a flock call leaves alone of the process. *)
FlockRest == UNCHANGED <<script, word, exiting, signal, table, wcall, fq, wakeVars, removeVars>>

FlockReturn(t) ==
    /\ FlockGoto(t, "idle") /\ Goto(t, "idle")
    /\ lcall' = [lcall EXCEPT ![t] = None]
    /\ lq' = [lq EXCEPT ![t] = None]

Unused(q) == (\A f \in FlockFile : flocks[f].queue # q) /\ \A t \in Task : lq[t] # q

NewQueue == CHOOSE q \in FlockQueue : Unused(q)

(* Bound: the number of queues. *)
NewQueueLeft == \E q \in FlockQueue : Unused(q)

(* A faulty rule, which lets a reader in beside a single owner. *)
AcquiresBesideOne(s, owner, type) ==
    LET holds_already == owner \in s.owners
        alone         == Cardinality(s.owners) = 1
    IN  IF type = "Shared" THEN s.type = "Shared" \/ alone
                           ELSE holds_already /\ alone

can_acquire(s, owner, type) ==
    LET holds_already == owner \in s.owners
        alone         == Cardinality(s.owners) = 1
    IN  IF type = "Shared" THEN s.type = "Shared" \/ (alone /\ holds_already)
                           ELSE IF holds_already THEN alone ELSE s.owners = {}

(* sys_flock with valid flags, and the drop of an open file. *)
sys_flock(t, c) ==
    /\ At(t, "idle") /\ remove[t] = <<>> /\ FlockAt(t, "idle")
    /\ c.task = t /\ ~HasSignal(t)
    /\ c.op = "drop" => \A u \in Task : lcall[u] # None => lcall[u].owner # c.owner
    /\ lcall' = [lcall EXCEPT ![t] = c]
    /\ lrest' = [lrest EXCEPT ![t] = CASE c.op = "unlock" -> {c.file}
                                       [] c.op = "drop"   -> FlockFile
                                       [] OTHER           -> {}]
    /\ FlockGoto(t, IF c.op \in FlockType THEN "convert" ELSE "release") /\ Goto(t, "elsewhere")
    /\ FlockRest /\ UNCHANGED <<wqVars, flocks, fmap, lq, told, astray>>
------------------------------------------------------------------------------
(* The owner leaves the state, which is dropped with its last owner; the       *)
(* waiters are to be notified before the shard is unlocked.                    *)

(* A faulty release, after which nobody is notified. *)
LeaveSilently(t, f, o, next) ==
    LET left == flocks[f].owners \ {o}
    IN  /\ flocks' = [flocks EXCEPT ![f] = IF left = {} THEN NoFlock ELSE [@ EXCEPT !.owners = left]]
        /\ told' = [told EXCEPT ![f][o] = "None"]
        /\ FlockGoto(t, IF next = "told" THEN "try" ELSE "release")
        /\ UNCHANGED <<fmap, lq>>

Leave(t, f, o, next) ==
    LET left == flocks[f].owners \ {o}
    IN  /\ flocks' = [flocks EXCEPT ![f] = IF left = {} THEN NoFlock ELSE [@ EXCEPT !.owners = left]]
        /\ told' = [told EXCEPT ![f][o] = "None"]
        /\ fmap' = [fmap EXCEPT ![f] = t]
        /\ lq' = [lq EXCEPT ![t] = flocks[f].queue]
        /\ FlockGoto(t, next)

Owns(o, f) == o \in flocks[f].owners

(* do_flock first gives up a lock of the other type; one of the same type is   *)
(* all it needs.                                                               *)
FlockConvert(t) ==
    LET c == lcall[t]
        f == c.file
    IN  /\ FlockAt(t, "convert") /\ fmap[f] = None
        /\ IF ~Owns(c.owner, f)
           THEN FlockGoto(t, "try") /\ UNCHANGED <<flocks, fmap, lq, lcall, told, fpc>>
           ELSE IF flocks[f].type = c.op
           THEN FlockReturn(t) /\ UNCHANGED <<flocks, fmap, told>>
           ELSE Leave(t, f, c.owner, "told") /\ UNCHANGED <<lcall, fpc>>
        /\ FlockRest /\ UNCHANGED <<wqVars, lrest, astray>>

(* flock_release_target_owner and flock_release_owner, in one shard. *)
FlockRelease(t, f) ==
    LET c == lcall[t]
    IN  /\ FlockAt(t, "release") /\ f \in lrest[t] /\ fmap[f] = None
        /\ lrest' = [lrest EXCEPT ![t] = @ \ {f}]
        /\ IF Owns(c.owner, f) THEN Leave(t, f, c.owner, "tell")
                               ELSE UNCHANGED <<flocks, fmap, lpc, lq, told>>
        /\ FlockRest /\ UNCHANGED <<wqVars, fpc, lcall, astray>>

FlockReleased(t) ==
    /\ FlockAt(t, "release") /\ lrest[t] = {}
    /\ FlockReturn(t)
    /\ FlockRest /\ UNCHANGED <<wqVars, flocks, fmap, lrest, told, astray>>

(* notify_all with the shard locked, and the unlocking. *)
FlockNotify(t) ==
    /\ lpc[t] \in {"told", "tell"}
    /\ notify_all(t, lq[t])
    /\ UNCHANGED <<script, futexVars, flockVars>>

FlockNotifyInside(t) ==
    /\ lpc[t] \in {"told", "tell"}
    /\ NotifyStep(t)
    /\ UNCHANGED <<script, futexVars, flockVars>>

FlockNotified(t) ==
    /\ lpc[t] \in {"told", "tell"} /\ npc[t] = "woke"
    /\ NotifyReturn(t)
    /\ fmap' = [f \in FlockFile |-> IF fmap[f] = t THEN None ELSE fmap[f]]
    /\ lq' = [lq EXCEPT ![t] = None]
    /\ FlockGoto(t, IF lpc[t] = "told" THEN "try" ELSE "release")
    /\ FlockRest /\ UNCHANGED <<fpc, flocks, lcall, lrest, told, astray>>
------------------------------------------------------------------------------
(* do_flock's loop: the caller gets the lock, ...                             *)
FlockAcquire(t) ==
    LET c == lcall[t]
        f == c.file
    IN  /\ FlockAt(t, "try") /\ fmap[f] = None
        /\ \/ /\ flocks[f] = NoFlock /\ NewQueueLeft
              /\ flocks' = [flocks EXCEPT ![f] =
                                [type |-> c.op, owners |-> {c.owner}, queue |-> NewQueue]]
           \/ /\ flocks[f] # NoFlock /\ can_acquire(flocks[f], c.owner, c.op)
              /\ flocks' = [flocks EXCEPT ![f] = [type   |-> c.op,
                                                owners |-> flocks[f].owners \cup {c.owner},
                                                queue  |-> flocks[f].queue]]
        /\ told' = [told EXCEPT ![f][c.owner] = c.op]
        /\ FlockReturn(t)
        /\ FlockRest /\ UNCHANGED <<wqVars, fmap, lrest, astray>>

(* ... returns at once, ... *)
FlockAgain(t) ==
    LET c == lcall[t]
        f == c.file
    IN  /\ FlockAt(t, "try") /\ fmap[f] = None
        /\ flocks[f] # NoFlock /\ ~can_acquire(flocks[f], c.owner, c.op) /\ c.nb
        /\ FlockReturn(t)
        /\ FlockRest /\ UNCHANGED <<wqVars, flocks, fmap, lrest, told, astray>>

(* ... or takes a reference to the queue and lets go of the shard. *)
FlockWaits(t) ==
    LET c == lcall[t]
        f == c.file
    IN  /\ FlockAt(t, "try") /\ fmap[f] = None
        /\ flocks[f] # NoFlock /\ ~can_acquire(flocks[f], c.owner, c.op) /\ ~c.nb
        /\ lq' = [lq EXCEPT ![t] = flocks[f].queue]
        /\ FlockGoto(t, "signal")
        /\ FlockRest /\ UNCHANGED <<wqVars, fpc, flocks, fmap, lcall, lrest, told, astray>>

FlockSignal(t) ==
    /\ FlockAt(t, "signal")
    /\ IF HasSignal(t) THEN FlockReturn(t)
                       ELSE FlockGoto(t, "lockq") /\ UNCHANGED <<fpc, lcall, lq>>
    /\ FlockRest /\ UNCHANGED <<wqVars, flocks, fmap, lrest, told, astray>>

(* wait_until takes the queue's lock ... *)
FlockLockQueue(t) ==
    /\ FlockAt(t, "lockq")
    /\ LockQueue(t, lq[t])
    /\ FlockGoto(t, "test")
    /\ FlockRest /\ UNCHANGED <<state, in_wait_queue, queue, notifyVars, fpc>>
    /\ UNCHANGED <<flocks, fmap, lcall, lq, lrest, told, astray>>

CanFlock(c) == flocks[c.file] = NoFlock \/ can_acquire(flocks[c.file], c.owner, c.op)

(* ... and with it the shard's, for the condition. *)
FlockTest(t) ==
    /\ FlockAt(t, "test") /\ fmap[lcall[t].file] = None
    /\ IF CanFlock(lcall[t]) \/ HasSignal(t)
       THEN FlockGoto(t, "cancel") /\ UnlockQueue(t, lq[t])
       ELSE FlockGoto(t, "block") /\ UNCHANGED wq_lock
    /\ astray' = [astray EXCEPT ![t] = ~CanFlock(lcall[t]) /\ ~HasSignal(t)
                                          /\ lq[t] # flocks[lcall[t].file].queue]
    /\ FlockRest /\ UNCHANGED <<state, in_wait_queue, queue, notifyVars, fpc>>
    /\ UNCHANGED <<flocks, fmap, lcall, lq, lrest, told>>

FlockBlock(t) ==
    /\ FlockAt(t, "block")
    /\ blocked_resched(t, lq[t])
    /\ FlockGoto(t, "lockq")
    /\ FlockRest /\ UNCHANGED <<fpc, flocks, fmap, lcall, lq, lrest, told, astray>>

FlockCancel(t) ==
    /\ FlockAt(t, "cancel")
    /\ cancel_events(t, lq[t])
    /\ IF HasSignal(t) THEN FlockReturn(t)
                       ELSE /\ FlockGoto(t, "try") /\ lq' = [lq EXCEPT ![t] = None]
                            /\ UNCHANGED <<fpc, lcall>>
    /\ FlockRest /\ UNCHANGED <<flocks, fmap, lrest, told, astray>>
------------------------------------------------------------------------------
FlockOperation(t) ==
    \/ \E c \in script.flock : sys_flock(t, c)
    \/ FlockConvert(t) \/ (\E f \in FlockFile : FlockRelease(t, f)) \/ FlockReleased(t)
    \/ FlockNotify(t) \/ FlockNotifyInside(t) \/ FlockNotified(t)
    \/ FlockAcquire(t) \/ FlockAgain(t) \/ FlockWaits(t)
    \/ FlockSignal(t) \/ FlockLockQueue(t) \/ FlockTest(t) \/ FlockBlock(t) \/ FlockCancel(t)

FlockNext == \E t \in Task : FlockOperation(t)
------------------------------------------------------------------------------
FlockAsleep(t) == lpc[t] = "lockq" /\ state[t] = "Blocked"

(* An exclusive lock is exclusive: an owner that was granted one and has not   *)
(* given it up has it to itself, whoever converts, waits or shares the file.   *)
FlockExclusion ==
    \A f \in FlockFile, o, p \in FlockOwner :
        o # p /\ told[f][o] = "Exclusive" => told[f][p] = "None"

(* No release is missed by a sleeper: unless it went to sleep in the queue of  *)
(* a state that had been dropped, nobody sleeps whose lock is free while       *)
(* nobody notifies.  Tasks that share an open file are excepted: one of them   *)
(* may turn the other's exclusive lock into a shared one, and tells nobody.    *)
NoLostFlockWake ==
    (\A c, d \in script.flock : c.owner = d.owner => c.task = d.task) =>
        \A t \in Task : FlockAsleep(t) /\ ~astray[t] /\ CanFlock(lcall[t])
                            => \E u \in Task : fmap[lcall[t].file] = u

(* Nobody sleeps whose lock is free while nobody notifies. *)
FlockSleeperWaits ==
    \A t \in Task : FlockAsleep(t) /\ CanFlock(lcall[t])
                        => \E u \in Task : fmap[lcall[t].file] = u

(* The release of a lock, and its conversion, wait for no one who waits for    *)
(* them: who holds the shard and needs the queue does not meet who holds the   *)
(* queue and needs the shard.                                                  *)
ReleaseDoesNotDeadlock ==
    \A t, u \in Task, f \in FlockFile :
        fmap[f] = t /\ npc[t] = "none" /\ lpc[u] = "test" /\ lcall[u].file = f
            => lq[t] # lq[u]
==============================================================================
