----------------------------- MODULE ProcessProofs -----------------------------
(***************************************************************************)
(* Two inductive invariants of Process, for every set of tasks, files,     *)
(* queues and owners and every script of calls: one of flock, from which   *)
(* FlockExclusion follows, and one of the record locks, from which         *)
(* WaiterKeepsState follows.  Steps of the other system calls, of signals  *)
(* and of the scheduler come in between; they leave the variables of the   *)
(* two alone.                                                              *)
(***************************************************************************)
EXTENDS Process, FiniteSetTheorems, TLAPS

USE ZenonT(60)

(* A function stays of its type when one of its values is replaced. *)
LEMMA Replaced ==
  ASSUME NEW S, NEW T, NEW f \in [S -> T], NEW s, NEW v \in T
  PROVE  [f EXCEPT ![s] = v] \in [S -> T]
OBVIOUS

------------------------------------------------------------------------------
(* flock.                                                                    *)

(* A file's LockState, or NoFlock. *)
FlockState == [type : FlockType, owners : SUBSET FlockOwner, queue : FlockQueue \cup {None}]

FlockTypes ==
    /\ script \in Script
    /\ flocks \in [FlockFile -> FlockState]
    /\ fmap \in [FlockFile -> Task \cup {None}]
    /\ lpc \in [Task -> FlockPc] /\ lcall \in [Task -> script.flock \cup {None}]
    /\ lq \in [Task -> FlockQueue \cup {None}] /\ lrest \in [Task -> SUBSET FlockFile]
    /\ told \in [FlockFile -> [FlockOwner -> FlockType \cup {"None"}]]
    /\ astray \in [Task -> BOOLEAN]

(* Where a flock call has a reference to a queue. *)
FlockQueued == {"told", "tell", "signal", "lockq", "test", "block", "cancel"}

(* Who is in a flock call has made one of the script's calls, and only a call *)
(* for a lock gets beyond "convert".                                          *)
FlockCalls ==
    \A t \in Task : lpc[t] # "idle" =>
        /\ lcall[t] \in script.flock
        /\ lpc[t] \notin {"release", "tell"} => lcall[t].op \in FlockType
        /\ lpc[t] \in FlockQueued => lq[t] \in FlockQueue

(* The owners of a file's state have been told of a lock of its type, and an  *)
(* exclusive one has one owner.                                               *)
HoldInv ==
    \A f \in FlockFile :
        /\ IsFiniteSet(flocks[f].owners)
        /\ flocks[f].owners = {} => flocks[f] = NoFlock
        /\ flocks[f] # NoFlock => flocks[f].queue \in FlockQueue
        /\ \A o \in FlockOwner :
               told[f][o] = IF o \in flocks[f].owners THEN flocks[f].type ELSE "None"
        /\ flocks[f].type = "Exclusive" =>
               \A o, p \in flocks[f].owners : o = p

FlockInv == FlockTypes /\ FlockCalls /\ HoldInv

(* A step that leaves flock's variables alone keeps its invariant. *)
LEMMA FlockInvStable ==
  ASSUME FlockInv, UNCHANGED <<script, flockVars>>
  PROVE  FlockInv'
BY DEF FlockInv, FlockTypes, FlockCalls, HoldInv, FlockState, FlockOwner, flockVars

(* The script never changes. *)
LEMMA ScriptStable == [Next]_vars => UNCHANGED script
<1> SUFFICES ASSUME [Next]_vars PROVE UNCHANGED script
  OBVIOUS
<1>1. CASE UNCHANGED vars
  BY <1>1 DEF vars, processVars
<1>2. CASE FutexNext
  BY <1>2 DEF FutexNext
<1>3. CASE SemNext
  BY <1>3 DEF SemNext, SemOperation, SemChange, sys_semtimedop, SemRemoved, SemApply, SemAgain,
     SemBlocks, SemLockQueue, SemSleep, SemResume, SemCancel, SemAwake, SemExpire, SemNotify,
     SemNotifyInside, SemNotified, sys_semctl, SemControl, remove_semid, ReleaseUserResources,
     ProcessGone, exit_sem_undos, FutexRest
<1>4. CASE RecordNext
  BY <1>4 DEF RecordNext, RecordOperation, sys_fcntl_record_lock, SetAcquires, SetAgain,
       SetWaits,
     SetSignal, SetTest, SetBlock, SetCancel, finish_wait, ReleaseIn, Released, RecordNotify,
     RecordNotifyInside, RecordNotified, RecordRest
<1>5. CASE FlockNext
  BY <1>5 DEF FlockNext, FlockOperation, sys_flock, FlockConvert, FlockRelease, FlockReleased,
     FlockNotify, FlockNotifyInside, FlockNotified, FlockAcquire, FlockAgain, FlockWaits,
     FlockSignal, FlockLockQueue, FlockTest, FlockBlock, FlockCancel, FlockRest
<1> QED BY <1>1, <1>2, <1>3, <1>4, <1>5 DEF Next

(* An owner that leaves is told so; the others keep what they have. *)
LEMMA LeaveInv ==
  ASSUME FlockInv, UNCHANGED script, NEW t \in Task, NEW f \in FlockFile, NEW o \in FlockOwner,
         NEW next \in {"told", "tell"}, Leave(t, f, o, next), Owns(o, f)
  PROVE  /\ HoldInv' /\ flocks' \in [FlockFile -> FlockState]
         /\ told' \in [FlockFile -> [FlockOwner -> FlockType \cup {"None"}]]
         /\ fmap' \in [FlockFile -> Task \cup {None}]
         /\ lq' = [lq EXCEPT ![t] = flocks[f].queue] /\ flocks[f].queue \in FlockQueue
<1> DEFINE s == flocks[f]
           left == s.owners \ {o}
<1>t. /\ flocks \in [FlockFile -> FlockState] /\ fmap \in [FlockFile -> Task \cup {None}]
      /\ told \in [FlockFile -> [FlockOwner -> FlockType \cup {"None"}]]
      /\ lq \in [Task -> FlockQueue \cup {None}] /\ lpc \in [Task -> FlockPc]
  BY DEF FlockInv, FlockTypes
<1>s. s \in FlockState /\ s.owners \subseteq FlockOwner /\ s.queue \in FlockQueue \cup {None}
  BY <1>t DEF FlockState
<1>0. FlockOwner' = FlockOwner
  BY DEF FlockOwner
<1>1. PICK r : r = IF left = {} THEN NoFlock ELSE [s EXCEPT !.owners = left]
  OBVIOUS
<1>2. /\ flocks' = [flocks EXCEPT ![f] = r]
      /\ told' = [told EXCEPT ![f] = [told[f] EXCEPT ![o] = "None"]]
      /\ fmap' = [fmap EXCEPT ![f] = t]
      /\ lq' = [lq EXCEPT ![t] = s.queue]
      /\ lpc' = [lpc EXCEPT ![t] = next]
  BY <1>1 DEF Leave, FlockGoto
<1>3. r.owners = left /\ (left # {} => r.type = s.type /\ r.queue = s.queue)
      /\ (left = {} => r = NoFlock)
  BY SMT, <1>1, <1>s DEF FlockState, NoFlock
<1>4. r \in FlockState
  BY SMT, <1>1, <1>s DEF FlockState, NoFlock, FlockType
<1>5. IsFiniteSet(left)
  <2>1. IsFiniteSet(s.owners)
    BY DEF FlockInv, HoldInv
  <2> QED BY <2>1, FS_Subset
<1>6. flocks' \in [FlockFile -> FlockState] /\ fmap' \in [FlockFile -> Task \cup {None}]
  BY <1>t, <1>2, <1>4
<1>7. told' \in [FlockFile -> [FlockOwner -> FlockType \cup {"None"}]]
  BY <1>t, <1>2
<1>8. s.queue \in FlockQueue
  <2>1. s # NoFlock
    BY SMT DEF Owns, NoFlock
  <2> QED BY <2>1 DEF FlockInv, HoldInv
<1>9. HoldInv'
  <2> SUFFICES ASSUME NEW g \in FlockFile
        PROVE  /\ IsFiniteSet(flocks'[g].owners)
               /\ flocks'[g].owners = {} => flocks'[g] = NoFlock
               /\ flocks'[g] # NoFlock => flocks'[g].queue \in FlockQueue
               /\ \A p \in FlockOwner :
                     told'[g][p] = IF p \in flocks'[g].owners THEN flocks'[g].type ELSE "None"
               /\ flocks'[g].type = "Exclusive" => \A p, q \in flocks'[g].owners : p = q
    BY <1>0 DEF HoldInv
  <2>0. /\ flocks[g].owners = {} => flocks[g] = NoFlock
        /\ flocks[g] # NoFlock => flocks[g].queue \in FlockQueue
        /\ \A p \in FlockOwner :
              told[g][p] = IF p \in flocks[g].owners THEN flocks[g].type ELSE "None"
        /\ flocks[g].type = "Exclusive" => \A p, q \in flocks[g].owners : p = q
        /\ IsFiniteSet(flocks[g].owners)
    BY DEF FlockInv, HoldInv
  <2>1. CASE g # f
    <3>1. flocks'[g] = flocks[g] /\ told'[g] = told[g]
      BY <1>t, <1>2, <2>1
    <3> QED BY <2>0, <3>1
  <2>2. CASE g = f
    <3>1. flocks'[g] = r /\ told'[g] = [told[f] EXCEPT ![o] = "None"]
      BY <1>t, <1>2, <2>2
    <3>2. told[f] \in [FlockOwner -> FlockType \cup {"None"}]
      BY <1>t
    <3>3. s # NoFlock
      BY SMT DEF Owns, NoFlock
    <3>4. \A p \in FlockOwner : told'[g][p] = IF p \in r.owners THEN r.type ELSE "None"
      <4> TAKE p \in FlockOwner
      <4>1. CASE p = o
        BY <1>3, <3>1, <3>2, <4>1
      <4>2. CASE p # o
        <5>1. told'[g][p] = told[f][p]
          BY <3>1, <3>2, <4>2
        <5>2. p \in r.owners <=> p \in s.owners
          BY <1>3, <4>2
        <5>3. p \in r.owners => r.type = s.type
          BY <1>3
        <5> QED BY <2>0, <2>2, <5>1, <5>2, <5>3
      <4> QED BY <4>1, <4>2
    <3>5. r.type = "Exclusive" => \A p, q \in r.owners : p = q
      BY <1>3, <2>0, <2>2
    <3> QED BY <1>3, <1>5, <2>0, <2>2, <3>1, <3>3, <3>4, <3>5
  <2> QED BY <2>1, <2>2
<1> QED BY <1>2, <1>6, <1>7, <1>8, <1>9

(* A lock that is granted is one the other owners' locks allow. *)
LEMMA AcquireInv ==
  ASSUME FlockInv, UNCHANGED script, NEW t \in Task, FlockAcquire(t)
  PROVE  /\ HoldInv' /\ flocks' \in [FlockFile -> FlockState]
         /\ told' \in [FlockFile -> [FlockOwner -> FlockType \cup {"None"}]]
<1> DEFINE c == lcall[t]
           f == c.file
           s == flocks[f]
<1>t. /\ flocks \in [FlockFile -> FlockState] /\ script \in Script
      /\ told \in [FlockFile -> [FlockOwner -> FlockType \cup {"None"}]]
      /\ lpc[t] # "idle" => lcall[t] \in script.flock
      /\ lpc[t] \notin {"idle", "release", "tell"} => lcall[t].op \in FlockType
  BY DEF FlockInv, FlockTypes, FlockCalls
<1>a. lpc[t] = "try"
  BY DEF FlockAcquire, FlockAt
<1>c. c \in script.flock /\ c.op \in FlockType
  BY <1>t, <1>a
<1>f. f \in FlockFile /\ c.owner \in FlockOwner
  BY <1>t, <1>c, FlockCallAssumption DEF FlockOwner
<1>s. s \in FlockState /\ s.owners \subseteq FlockOwner /\ s.queue \in FlockQueue \cup {None}
  BY <1>t, <1>f DEF FlockState
<1>h. /\ IsFiniteSet(s.owners) /\ (s.owners = {} => s = NoFlock)
         /\ (s # NoFlock => s.queue \in FlockQueue)
      /\ \A o \in FlockOwner : told[f][o] = IF o \in s.owners THEN s.type ELSE "None"
      /\ s.type = "Exclusive" => \A o, p \in s.owners : o = p
  BY <1>f DEF FlockInv, HoldInv
<1>0. FlockOwner' = FlockOwner
  BY DEF FlockOwner
<1>1. \E r : /\ r \in FlockState /\ r.queue \in FlockQueue /\ r.type = c.op
             /\ r.owners = s.owners \cup {c.owner}
             /\ flocks' = [flocks EXCEPT ![f] = r]
             /\ (c.op = "Shared" => s.type = "Shared" \/ s.owners \subseteq {c.owner})
             /\ (c.op = "Exclusive" => s.owners \subseteq {c.owner})
  <2>1. CASE s = NoFlock /\ NewQueueLeft /\
             flocks' = [flocks EXCEPT ![f] = [type |-> c.op, owners |-> {c.owner}, queue |-> NewQueue]]
    <3>1. NewQueue \in FlockQueue
      BY <2>1 DEF NewQueue, NewQueueLeft
    <3>2. PICK r : r = [type |-> c.op, owners |-> {c.owner}, queue |-> NewQueue]
      OBVIOUS
    <3>3. r \in FlockState /\ r.queue \in FlockQueue /\ r.type = c.op /\ r.owners = {c.owner}
      BY SMT, <1>c, <1>f, <3>1, <3>2 DEF FlockState
    <3>4. s.owners = {}
      BY SMT, <2>1 DEF NoFlock
    <3>5. r.owners = s.owners \cup {c.owner} /\ s.owners \subseteq {c.owner}
      BY <3>3, <3>4
    <3> QED BY <2>1, <3>2, <3>3, <3>5
  <2>2. CASE s # NoFlock /\ can_acquire(s, c.owner, c.op) /\
             flocks' = [flocks EXCEPT ![f] =
                 [type |-> c.op, owners |-> s.owners \cup {c.owner}, queue |-> s.queue]]
    <3>1. PICK r : r = [type |-> c.op, owners |-> s.owners \cup {c.owner}, queue |-> s.queue]
      OBVIOUS
    <3>2. flocks' = [flocks EXCEPT ![f] = r]
      BY <2>2, <3>1
    <3>3. r \in FlockState /\ r.queue = s.queue /\ r.type = c.op
          /\ r.owners = s.owners \cup {c.owner}
      BY SMT, <1>c, <1>f, <1>s, <3>1 DEF FlockState
    <3>4. Cardinality(s.owners) = 1 /\ c.owner \in s.owners => s.owners \subseteq {c.owner}
      <4> HAVE Cardinality(s.owners) = 1 /\ c.owner \in s.owners
      <4>1. PICK x : s.owners = {x}
        BY <1>h, FS_Singleton
      <4> QED BY <4>1
    <3>5. (c.op = "Shared" => s.type = "Shared" \/ s.owners \subseteq {c.owner})
      BY SMT, <2>2, <3>4 DEF can_acquire
    <3>6. c.op = "Exclusive" => s.owners \subseteq {c.owner}
      <4>1. "Exclusive" # "Shared"
        OBVIOUS
      <4> QED BY SMT, <2>2, <3>4, <4>1 DEF can_acquire
    <3>7. r.queue \in FlockQueue
      BY <1>h, <2>2, <3>3
    <3> QED BY <3>2, <3>3, <3>5, <3>6, <3>7
  <2> QED BY <2>1, <2>2 DEF FlockAcquire
<1>2. PICK r : /\ r \in FlockState /\ r.queue \in FlockQueue /\ r.type = c.op
               /\ r.owners = s.owners \cup {c.owner}
               /\ flocks' = [flocks EXCEPT ![f] = r]
               /\ (c.op = "Shared" => s.type = "Shared" \/ s.owners \subseteq {c.owner})
               /\ (c.op = "Exclusive" => s.owners \subseteq {c.owner})
  BY <1>1
<1>3. told' = [told EXCEPT ![f] = [told[f] EXCEPT ![c.owner] = c.op]]
  BY DEF FlockAcquire
<1>4. flocks' \in [FlockFile -> FlockState]
  BY <1>t, <1>2, <1>f
<1>5. told[f] \in [FlockOwner -> FlockType \cup {"None"}]
  BY <1>t, <1>f
<1>6. told' \in [FlockFile -> [FlockOwner -> FlockType \cup {"None"}]]
  BY <1>t, <1>3, <1>5, <1>c, <1>f
<1>9. HoldInv'
  <2> SUFFICES ASSUME NEW g \in FlockFile
        PROVE  /\ IsFiniteSet(flocks'[g].owners)
               /\ flocks'[g].owners = {} => flocks'[g] = NoFlock
               /\ flocks'[g] # NoFlock => flocks'[g].queue \in FlockQueue
               /\ \A p \in FlockOwner :
                     told'[g][p] = IF p \in flocks'[g].owners THEN flocks'[g].type ELSE "None"
               /\ flocks'[g].type = "Exclusive" => \A p, q \in flocks'[g].owners : p = q
    BY <1>0 DEF HoldInv
  <2>1. CASE g # f
    <3>1. flocks'[g] = flocks[g] /\ told'[g] = told[g]
      BY <1>t, <1>2, <1>3, <2>1
    <3>2. /\ flocks[g].owners = {} => flocks[g] = NoFlock
          /\ flocks[g] # NoFlock => flocks[g].queue \in FlockQueue
          /\ \A p \in FlockOwner :
              told[g][p] = IF p \in flocks[g].owners THEN flocks[g].type ELSE "None"
          /\ flocks[g].type = "Exclusive" => \A p, q \in flocks[g].owners : p = q
          /\ IsFiniteSet(flocks[g].owners)
      BY DEF FlockInv, HoldInv
    <3> QED BY <3>1, <3>2
  <2>2. CASE g = f
    <3>1. flocks'[g] = r /\ told'[g] = [told[f] EXCEPT ![c.owner] = c.op]
      BY <1>t, <1>2, <1>3, <2>2
    <3>2. IsFiniteSet(r.owners)
      <4>1. IsFiniteSet(s.owners \cup {c.owner})
        BY <1>h, FS_AddElement
      <4> QED BY <1>2, <4>1
    <3>3. \A p \in FlockOwner : told'[g][p] = IF p \in r.owners THEN r.type ELSE "None"
      <4> TAKE p \in FlockOwner
      <4>1. CASE p = c.owner
        BY <1>2, <3>1, <1>5, <4>1
      <4>2. CASE p # c.owner
        <5>1. told'[g][p] = told[f][p]
          BY <3>1, <1>5, <4>2
        <5>2. p \in r.owners <=> p \in s.owners
          BY <1>2, <4>2
        <5>3. p \in s.owners => r.type = s.type
          <6> HAVE p \in s.owners
          <6>1. ~(s.owners \subseteq {c.owner})
            BY <4>2
          <6>2. s.type = "Shared" /\ c.op = "Shared"
            BY SMT, <1>2, <1>c, <6>1 DEF FlockType
          <6> QED BY <1>2, <6>2
        <5> QED BY <1>h, <5>1, <5>2, <5>3
      <4> QED BY <4>1, <4>2
    <3>4. r.type = "Exclusive" => \A p, q \in r.owners : p = q
      BY <1>2
    <3>5. r.owners # {}
      BY <1>2
    <3> QED BY <1>2, <3>1, <3>2, <3>3, <3>4, <3>5
  <2> QED BY <2>1, <2>2
<1> QED BY <1>4, <1>6, <1>9

(* The part of a flock step that concerns the caller. *)
FlockMove(t, l, c, q) ==
    /\ l \in FlockPc /\ c \in script.flock \cup {None} /\ q \in FlockQueue \cup {None}
    /\ lpc' = [lpc EXCEPT ![t] = l] /\ lcall' = [lcall EXCEPT ![t] = c]
    /\ lq' = [lq EXCEPT ![t] = q]
    /\ l # "idle" => c \in script.flock
    /\ l \notin {"idle", "release", "tell"} => c.op \in FlockType
    /\ l \in FlockQueued => q \in FlockQueue

(* The part that concerns the files. *)
FlockTables ==
    /\ HoldInv' /\ flocks' \in [FlockFile -> FlockState]
    /\ told' \in [FlockFile -> [FlockOwner -> FlockType \cup {"None"}]]
    /\ fmap' \in [FlockFile -> Task \cup {None}]
    /\ lrest' \in [Task -> SUBSET FlockFile] /\ astray' \in [Task -> BOOLEAN]

(* Together they keep the invariant. *)
LEMMA FlockCallStep ==
  ASSUME FlockInv, UNCHANGED script, NEW t \in Task, NEW l, NEW c, NEW q,
         FlockMove(t, l, c, q), FlockTables
  PROVE  FlockInv'
<1>m. /\ l \in FlockPc /\ c \in script.flock \cup {None} /\ q \in FlockQueue \cup {None}
      /\ lpc' = [lpc EXCEPT ![t] = l] /\ lcall' = [lcall EXCEPT ![t] = c]
      /\ lq' = [lq EXCEPT ![t] = q]
  BY DEF FlockMove
<1>n. /\ l # "idle" => c \in script.flock
      /\ l \notin {"idle", "release", "tell"} => c.op \in FlockType
      /\ l \in FlockQueued => q \in FlockQueue
  BY DEF FlockMove
<1>t. /\ script \in Script /\ lpc \in [Task -> FlockPc]
         /\ lq \in [Task -> FlockQueue \cup {None}]
      /\ lcall \in [Task -> script.flock \cup {None}]
  BY DEF FlockInv, FlockTypes
<1>0. FlockOwner' = FlockOwner
  BY DEF FlockOwner
<1>1. lpc' \in [Task -> FlockPc] /\ lcall' \in [Task -> script.flock \cup {None}]
      /\ lq' \in [Task -> FlockQueue \cup {None}]
  BY <1>m, <1>t, Replaced
<1>2. FlockTypes'
  <2>1. FlockState' = FlockState
    BY <1>0 DEF FlockState
  <2> QED BY <1>0, <1>1, <1>t, <2>1 DEF FlockTypes, FlockTables
<1>3. FlockCalls'
  <2> SUFFICES ASSUME NEW u \in Task, lpc'[u] # "idle"
               PROVE  /\ lcall'[u] \in script.flock
                      /\ lpc'[u] \notin {"release", "tell"} => lcall'[u].op \in FlockType
                      /\ lpc'[u] \in FlockQueued => lq'[u] \in FlockQueue
    BY DEF FlockCalls
  <2>1. CASE u = t
    <3>1. lpc'[u] = l /\ lcall'[u] = c /\ lq'[u] = q
      BY <1>m, <1>t, <2>1
    <3> QED BY <1>n, <3>1
  <2>2. CASE u # t
    <3>1. lpc'[u] = lpc[u] /\ lcall'[u] = lcall[u] /\ lq'[u] = lq[u]
      BY <1>m, <1>t, <2>2
    <3> QED BY <3>1 DEF FlockInv, FlockCalls
  <2> QED BY <2>1, <2>2
<1> QED BY <1>2, <1>3 DEF FlockInv, FlockTables

(* Every step of a flock call keeps the invariant. *)
LEMMA FlockStep ==
  ASSUME FlockInv, UNCHANGED script, NEW t \in Task, FlockOperation(t)
  PROVE  FlockInv'
<1>t. /\ script \in Script /\ lpc \in [Task -> FlockPc] /\ flocks \in [FlockFile -> FlockState]
      /\ lcall \in [Task -> script.flock \cup {None}]
         /\ fmap \in [FlockFile -> Task \cup {None}]
      /\ lq \in [Task -> FlockQueue \cup {None}] /\ lrest \in [Task -> SUBSET FlockFile]
      /\ told \in [FlockFile -> [FlockOwner -> FlockType \cup {"None"}]]
      /\ astray \in [Task -> BOOLEAN]
  BY DEF FlockInv, FlockTypes
<1>i. /\ lpc[t] # "idle" => lcall[t] \in script.flock
      /\ lpc[t] \notin {"idle", "release", "tell"} => lcall[t].op \in FlockType
      /\ lpc[t] \in FlockQueued => lq[t] \in FlockQueue
  BY DEF FlockInv, FlockCalls, FlockQueued
<1>c. \A c \in script.flock : c.file \in FlockFile /\ c.op \in FlockType \cup {"unlock", "drop"}
                              /\ c.owner \in FlockOwner
  BY <1>t, FlockCallAssumption DEF FlockOwner
<1>0. /\ lcall = [lcall EXCEPT ![t] = lcall[t]] /\ lcall[t] \in script.flock \cup {None}
      /\ lq = [lq EXCEPT ![t] = lq[t]] /\ lq[t] \in FlockQueue \cup {None}
  BY <1>t
<1>1. UNCHANGED <<flocks, told, fmap, lrest, astray>> => FlockTables
  BY <1>t DEF FlockInv, HoldInv, FlockOwner, FlockTables
<1>4. FlockReturn(t) => FlockMove(t, "idle", None, None)
  BY DEF FlockReturn, FlockGoto, FlockMove, FlockPc, FlockQueued
<1>5. ASSUME NEW l, lpc' = [lpc EXCEPT ![t] = l], UNCHANGED lcall, lpc[t] # "idle",
             NEW q, lq' = [lq EXCEPT ![t] = q], l \in FlockPc \ {"idle"},
                  q \in FlockQueue \cup {None},
             l \in FlockQueued => q \in FlockQueue,
             l \in {"release", "tell"} \/ lpc[t] \notin {"release", "tell"}
      PROVE  FlockMove(t, l, lcall[t], q)
  BY <1>0, <1>i, <1>5 DEF FlockMove
<1>a. CASE \E c \in script.flock : sys_flock(t, c)
  <2>1. PICK c \in script.flock : sys_flock(t, c)
    BY <1>a
  <2>2. PICK l : l = IF c.op \in FlockType THEN "convert" ELSE "release"
    OBVIOUS
  <2>3. /\ lpc' = [lpc EXCEPT ![t] = l] /\ lcall' = [lcall EXCEPT ![t] = c]
        /\ UNCHANGED <<flocks, told, fmap, lq, astray>>
    BY <2>1, <2>2 DEF sys_flock, FlockGoto
  <2>4. l \in FlockPc /\ (l \notin {"idle", "release", "tell"} => c.op \in FlockType)
        /\ l \notin FlockQueued
    BY <2>2 DEF FlockPc, FlockQueued
  <2>5. lrest' \in [Task -> SUBSET FlockFile]
    <3>1. PICK r : r = CASE c.op = "unlock" -> {c.file} [] c.op = "drop" -> FlockFile [] OTHER -> {}
      OBVIOUS
    <3>2. lrest' = [lrest EXCEPT ![t] = r]
      BY <2>1, <3>1 DEF sys_flock
    <3>3. c.file \in FlockFile
      BY <1>c
    <3>4. r \in SUBSET FlockFile
      BY SMT, <3>1, <3>3
    <3> QED BY <1>t, <3>2, <3>4, Replaced
  <2>6. FlockMove(t, l, c, lq[t])
    BY <1>0, <2>3, <2>4 DEF FlockMove
  <2>7. FlockTables
    BY <1>t, <2>3, <2>5 DEF FlockInv, HoldInv, FlockOwner, FlockTables
  <2> QED BY <2>6, <2>7, FlockCallStep
<1>b. CASE FlockConvert(t)
  <2>1. lcall[t] \in script.flock /\ lpc[t] = "convert" /\ UNCHANGED <<lrest, astray>>
    BY <1>i, <1>b DEF FlockConvert, FlockAt
  <2>2. CASE FlockGoto(t, "try") /\ UNCHANGED <<flocks, fmap, lq, lcall, told, fpc>>
    <3>1. FlockMove(t, "try", lcall[t], lq[t])
      BY <1>0, <1>5, <2>1, <2>2 DEF FlockGoto, FlockPc, FlockQueued
    <3> QED BY <1>1, <2>1, <2>2, <3>1, FlockCallStep
  <2>3. CASE FlockReturn(t) /\ UNCHANGED <<flocks, fmap, told>>
    BY <1>1, <1>4, <2>1, <2>3, FlockCallStep
  <2>4. CASE /\ Owns(lcall[t].owner, lcall[t].file)
             /\ Leave(t, lcall[t].file, lcall[t].owner, "told") /\ UNCHANGED <<lcall, fpc>>
    <3>0. PICK f \in FlockFile : f = lcall[t].file
      BY <1>c, <2>1
    <3>1. lcall[t].owner \in FlockOwner
      BY <1>c, <2>1
    <3>2. /\ HoldInv' /\ flocks' \in [FlockFile -> FlockState]
          /\ told' \in [FlockFile -> [FlockOwner -> FlockType \cup {"None"}]]
          /\ fmap' \in [FlockFile -> Task \cup {None}]
          /\ lq' = [lq EXCEPT ![t] = flocks[f].queue] /\ flocks[f].queue \in FlockQueue
      BY <2>4, <3>0, <3>1, LeaveInv
    <3>3. lpc' = [lpc EXCEPT ![t] = "told"]
      BY <2>4 DEF Leave, FlockGoto
    <3>4. FlockMove(t, "told", lcall[t], flocks[f].queue)
      BY <1>5, <2>1, <2>4, <3>2, <3>3 DEF FlockPc, FlockQueued
    <3>5. FlockTables
      BY <1>t, <2>1, <3>2 DEF FlockTables
    <3> QED BY <3>4, <3>5, FlockCallStep
  <2> QED BY <1>b, <2>2, <2>3, <2>4 DEF FlockConvert
<1>d. CASE \E f \in FlockFile : FlockRelease(t, f)
  <2>0. PICK f \in FlockFile : FlockRelease(t, f)
    BY <1>d
  <2>1. lcall[t] \in script.flock /\ lpc[t] = "release" /\ UNCHANGED <<lcall, astray>>
    BY <1>i, <2>0 DEF FlockRelease, FlockAt
  <2>2. lrest' \in [Task -> SUBSET FlockFile]
    <3>1. lrest' = [lrest EXCEPT ![t] = lrest[t] \ {f}] /\ lrest[t] \ {f} \in SUBSET FlockFile
      BY <1>t, <2>0 DEF FlockRelease
    <3> QED BY <1>t, <3>1, Replaced
  <2>3. CASE UNCHANGED <<flocks, fmap, lpc, lq, told>>
    <3>1. lpc' = [lpc EXCEPT ![t] = "release"]
      BY <1>t, <2>1, <2>3
    <3>2. FlockMove(t, "release", lcall[t], lq[t])
      BY <1>0, <1>5, <2>1, <2>3, <3>1 DEF FlockPc, FlockQueued
    <3>3. FlockTables
      <4>1. HoldInv'
        BY <2>3 DEF FlockInv, HoldInv, FlockOwner
      <4> QED BY <1>t, <2>1, <2>2, <2>3, <4>1 DEF FlockTables
    <3> QED BY <3>2, <3>3, FlockCallStep
  <2>4. CASE Owns(lcall[t].owner, f) /\ Leave(t, f, lcall[t].owner, "tell")
    <3>1. lcall[t].owner \in FlockOwner
      BY <1>c, <2>1
    <3>2. /\ HoldInv' /\ flocks' \in [FlockFile -> FlockState]
          /\ told' \in [FlockFile -> [FlockOwner -> FlockType \cup {"None"}]]
          /\ fmap' \in [FlockFile -> Task \cup {None}]
          /\ lq' = [lq EXCEPT ![t] = flocks[f].queue] /\ flocks[f].queue \in FlockQueue
      BY <2>4, <3>1, LeaveInv
    <3>3. lpc' = [lpc EXCEPT ![t] = "tell"]
      BY <2>4 DEF Leave, FlockGoto
    <3>4. FlockMove(t, "tell", lcall[t], flocks[f].queue)
      BY <1>5, <2>1, <3>2, <3>3 DEF FlockPc, FlockQueued
    <3>5. FlockTables
      BY <1>t, <2>1, <2>2, <3>2 DEF FlockTables
    <3> QED BY <3>4, <3>5, FlockCallStep
  <2> QED BY <2>0, <2>3, <2>4 DEF FlockRelease
<1>e. CASE FlockReleased(t) \/ FlockAgain(t)
  <2>1. FlockReturn(t) /\ UNCHANGED <<flocks, fmap, lrest, told, astray>>
    BY <1>e DEF FlockReleased, FlockAgain
  <2> QED BY <1>1, <1>4, <2>1, FlockCallStep
<1>f. CASE FlockNotify(t) \/ FlockNotifyInside(t)
  BY <1>f, FlockInvStable DEF FlockNotify, FlockNotifyInside
<1>g. CASE FlockNotified(t)
  <2>1. PICK l \in {"try", "release"} : /\ lpc' = [lpc EXCEPT ![t] = l]
                                        /\ l = "try" <=> lpc[t] = "told"
    BY <1>g DEF FlockNotified, FlockGoto
  <2>2. lpc[t] \in {"told", "tell"} /\ UNCHANGED <<flocks, lcall, lrest, told, astray>>
    BY <1>g DEF FlockNotified
  <2>3. fmap' \in [FlockFile -> Task \cup {None}]
    BY <1>t, <1>g DEF FlockNotified
  <2>4. lq' = [lq EXCEPT ![t] = None]
    BY <1>g DEF FlockNotified
  <2>5. l \in {"release", "tell"} \/ lpc[t] \notin {"release", "tell"}
    BY <2>1, <2>2
  <2>6. FlockMove(t, l, lcall[t], None)
    BY <1>5, <2>1, <2>2, <2>4, <2>5 DEF FlockPc, FlockQueued
  <2>7. FlockTables
    BY <1>t, <2>2, <2>3 DEF FlockInv, HoldInv, FlockOwner, FlockTables
  <2> QED BY <2>6, <2>7, FlockCallStep
<1>h. CASE FlockAcquire(t)
  <2>1. FlockReturn(t) /\ UNCHANGED <<fmap, lrest, astray>>
    BY <1>h DEF FlockAcquire
  <2>2. FlockTables
    BY <1>t, <1>h, <2>1, AcquireInv DEF FlockTables
  <2> QED BY <1>4, <2>1, <2>2, FlockCallStep
<1>k. CASE FlockWaits(t)
  <2>1. /\ lpc[t] = "try" /\ UNCHANGED <<flocks, lcall, lrest, told, astray, fmap>>
        /\ lpc' = [lpc EXCEPT ![t] = "signal"] /\ flocks[lcall[t].file] # NoFlock
    BY <1>k DEF FlockWaits, FlockAt, FlockGoto
  <2>2. lq' = [lq EXCEPT ![t] = flocks[lcall[t].file].queue]
    BY <1>k DEF FlockWaits
  <2>3. flocks[lcall[t].file].queue \in FlockQueue
    BY <1>c, <1>i, <2>1 DEF FlockInv, HoldInv
  <2>4. FlockMove(t, "signal", lcall[t], flocks[lcall[t].file].queue)
    BY <1>5, <2>1, <2>2, <2>3 DEF FlockPc, FlockQueued
  <2> QED BY <1>1, <2>1, <2>4, FlockCallStep
<1>l. CASE FlockSignal(t)
  <2>1. lpc[t] = "signal" /\ UNCHANGED <<flocks, lrest, told, astray, fmap>>
    BY <1>l DEF FlockSignal, FlockAt
  <2>2. CASE FlockReturn(t)
    BY <1>1, <1>4, <2>1, <2>2, FlockCallStep
  <2>3. CASE FlockGoto(t, "lockq") /\ UNCHANGED <<fpc, lcall, lq>>
    <3>1. FlockMove(t, "lockq", lcall[t], lq[t])
      BY <1>0, <1>5, <1>i, <2>1, <2>3 DEF FlockGoto, FlockPc, FlockQueued
    <3> QED BY <1>1, <2>1, <3>1, FlockCallStep
  <2> QED BY <1>l, <2>2, <2>3 DEF FlockSignal
<1>m. CASE FlockLockQueue(t) \/ FlockBlock(t)
  <2>1. PICK l \in {"test", "lockq"} : lpc' = [lpc EXCEPT ![t] = l]
    BY <1>m DEF FlockLockQueue, FlockBlock, FlockGoto
  <2>2. lpc[t] \in {"lockq", "block"}
        /\ UNCHANGED <<flocks, lcall, lq, lrest, told, astray, fmap>>
    BY <1>m DEF FlockLockQueue, FlockBlock, FlockAt
  <2>3. FlockMove(t, l, lcall[t], lq[t])
    BY <1>0, <1>5, <1>i, <2>1, <2>2 DEF FlockPc, FlockQueued
  <2> QED BY <1>1, <2>2, <2>3, FlockCallStep
<1>n. CASE FlockTest(t)
  <2>1. lpc[t] = "test" /\ UNCHANGED <<flocks, lcall, lq, lrest, told, fmap>>
    BY <1>n DEF FlockTest, FlockAt
  <2>2. astray' \in [Task -> BOOLEAN]
    <3>1. PICK b \in BOOLEAN : astray' = [astray EXCEPT ![t] = b]
      BY <1>n DEF FlockTest
    <3> QED BY <1>t, <3>1, Replaced
  <2>3. PICK l \in {"cancel", "block"} : lpc' = [lpc EXCEPT ![t] = l]
    BY <1>n DEF FlockTest, FlockGoto
  <2>4. FlockMove(t, l, lcall[t], lq[t])
    BY <1>0, <1>5, <1>i, <2>1, <2>3 DEF FlockPc, FlockQueued
  <2>5. FlockTables
    BY <1>t, <2>1, <2>2 DEF FlockInv, HoldInv, FlockOwner, FlockTables
  <2> QED BY <2>4, <2>5, FlockCallStep
<1>p. CASE FlockCancel(t)
  <2>1. lpc[t] = "cancel" /\ UNCHANGED <<flocks, lrest, told, astray, fmap>>
    BY <1>p DEF FlockCancel, FlockAt
  <2>2. CASE FlockReturn(t)
    BY <1>1, <1>4, <2>1, <2>2, FlockCallStep
  <2>3. CASE FlockGoto(t, "try") /\ lq' = [lq EXCEPT ![t] = None] /\ UNCHANGED <<fpc, lcall>>
    <3>1. FlockMove(t, "try", lcall[t], None)
      BY <1>5, <2>1, <2>3 DEF FlockGoto, FlockPc, FlockQueued
    <3> QED BY <1>1, <2>1, <3>1, FlockCallStep
  <2> QED BY <1>p, <2>2, <2>3 DEF FlockCancel
<1> QED
  BY <1>a, <1>b, <1>d, <1>e, <1>f, <1>g, <1>h, <1>k, <1>l, <1>m, <1>n, <1>p DEF FlockOperation

(* FlockExclusion: an owner that do_flock has granted an exclusive lock, and  *)
(* that has not given it up, has it to itself.                                 *)
THEOREM ExclusiveFlockIsAlone == Spec => []FlockExclusion
<1>1. Init => FlockInv
  <2> SUFFICES ASSUME Init PROVE FlockInv
    OBVIOUS
  <2>1. script \in Script
    BY DEF Init, SemInit, FutexInit
  <2>2. NoFlock \in FlockState /\ NoFlock.owners = {} /\ NoFlock.type = "Shared"
    BY SMT DEF NoFlock, FlockState, FlockType
  <2>3. FlockTypes
    BY <2>1, <2>2 DEF Init, FlockInit, FlockTypes, FlockPc
  <2>4. FlockCalls
    BY DEF Init, FlockInit, FlockCalls
  <2>5. HoldInv
    <3>1. \A f \in FlockFile : flocks[f] = NoFlock /\ \A o \in FlockOwner : told[f][o] = "None"
      BY DEF Init, FlockInit
    <3> QED BY <2>2, <3>1, FS_EmptySet DEF HoldInv
  <2> QED BY <2>3, <2>4, <2>5 DEF FlockInv
<1>2. FlockInv /\ [Next]_vars => FlockInv'
  <2> SUFFICES ASSUME FlockInv, [Next]_vars PROVE FlockInv'
    OBVIOUS
  <2>0. UNCHANGED script
    BY ScriptStable
  <2>1. CASE UNCHANGED flockVars
    BY <2>0, <2>1, FlockInvStable
  <2>2. CASE FlockNext
    BY <2>0, <2>2, FlockStep DEF FlockNext
  <2> QED BY <2>1, <2>2 DEF Next, vars
<1>3. FlockInv => FlockExclusion
  <2> SUFFICES ASSUME FlockInv, NEW f \in FlockFile, NEW o \in FlockOwner, NEW p \in FlockOwner,
                      o # p, told[f][o] = "Exclusive"
               PROVE  told[f][p] = "None"
    BY DEF FlockExclusion
  <2>1. /\ told[f][o] = IF o \in flocks[f].owners THEN flocks[f].type ELSE "None"
        /\ told[f][p] = IF p \in flocks[f].owners THEN flocks[f].type ELSE "None"
        /\ flocks[f].type = "Exclusive" => \A x, y \in flocks[f].owners : x = y
    BY DEF FlockInv, HoldInv
  <2>2. o \in flocks[f].owners /\ flocks[f].type = "Exclusive"
    BY <2>1
  <2>3. p \notin flocks[f].owners
    BY <2>1, <2>2
  <2> QED BY <2>1, <2>3
<1> QED BY <1>1, <1>2, <1>3, PTL DEF Spec

------------------------------------------------------------------------------
(* Record locks.                                                             *)

(* Where set_lock is counted as a waiter. *)
RecordWaits == {"signal", "test", "block", "cancel", "finish"}

(* A RecordLockState, or NoLocks; what its entries are is left open. *)
IsLockState(s) ==
    /\ s = [entries |-> s.entries, queue |-> s.queue, waiters |-> s.waiters]
    /\ s.waiters \in Nat
    /\ s # NoLocks => s.queue \in RecordQueue

Waiting(f) == {t \in Task : rq[t] # None /\ rcall[t].file = f}

RecordTypes ==
    /\ script \in Script
    /\ locks = [f \in File |-> locks[f]]
    /\ rpc \in [Task -> RecordPc] /\ rcall \in [Task -> script.lock \cup {None}]
    /\ rq \in [Task -> RecordQueue \cup {None}] /\ rlist \in [Task -> Seq(RecordQueue)]

RecordCalls ==
    \A t \in Task :
        /\ rpc[t] # "idle" => rcall[t] \in script.lock
        /\ rq[t] # None <=> rpc[t] \in RecordWaits
        /\ rpc[t] = "notify" => rlist[t] # <<>>
        /\ rpc[t] \notin {"release", "notify"} => rlist[t] = <<>>

KeepInv ==
    \A f \in File :
        /\ IsLockState(locks[f])
        /\ locks[f].waiters = Cardinality(Waiting(f))
        /\ \A t \in Waiting(f) : rq[t] = locks[f].queue

RecordInv == RecordTypes /\ RecordCalls /\ KeepInv

(* Changes of the entries change nothing else. *)
LEMMA EntriesOnly ==
  ASSUME NEW s, NEW e, IsLockState(s)
  PROVE  LET r == [s EXCEPT !.entries = e]
         IN  /\ r = [entries |-> e, queue |-> s.queue, waiters |-> s.waiters]
             /\ r.entries = e /\ r.queue = s.queue /\ r.waiters = s.waiters
BY SMT DEF IsLockState

(* A record of these fields is a state. *)
LEMMA ShapeOf ==
  ASSUME NEW e, NEW q \in RecordQueue, NEW n \in Nat, NEW r,
         r = [entries |-> e, queue |-> q, waiters |-> n]
  PROVE  IsLockState(r) /\ r.queue = q /\ r.waiters = n /\ r.entries = e
BY SMT DEF IsLockState

(* A file without a state has no entries and no waiters. *)
LEMMA NoLocksShape == IsLockState(NoLocks) /\ NoLocks.waiters = 0 /\ NoLocks.entries = {}
BY SMT DEF IsLockState, NoLocks

(* RecordLockState::set changes the entries only. *)
LEMMA SetShape ==
  ASSUME NEW s, NEW o, NEW r, NEW ty, NEW x, IsLockState(s), s.queue \in RecordQueue,
         x = set(s, o, r, ty)
  PROVE  IsLockState(x) /\ x.queue = s.queue /\ x.waiters = s.waiters
<1>1. PICK e : clear_owner_range(s, o, r) = [s EXCEPT !.entries = e]
  BY DEF clear_owner_range
<1>2. PICK y : y = [s EXCEPT !.entries = e]
  OBVIOUS
<1>3. y = [entries |-> e, queue |-> s.queue, waiters |-> s.waiters]
  BY <1>2, EntriesOnly
<1>4. IsLockState(y) /\ y.queue = s.queue /\ y.waiters = s.waiters
  BY <1>3, ShapeOf DEF IsLockState
<1>5. PICK d : set(s, o, r, ty) = coalesce([y EXCEPT !.entries = d])
  BY <1>1, <1>2 DEF set
<1>6. PICK z : z = [y EXCEPT !.entries = d]
  OBVIOUS
<1>7. z = [entries |-> d, queue |-> s.queue, waiters |-> s.waiters]
  BY <1>4, <1>6, EntriesOnly
<1>8. IsLockState(z) /\ z.queue = s.queue /\ z.waiters = s.waiters
  BY <1>7, ShapeOf DEF IsLockState
<1>9. PICK c : coalesce(z) = [z EXCEPT !.entries = c]
  BY DEF coalesce
<1>11. x = [z EXCEPT !.entries = c]
  BY <1>5, <1>6, <1>9
<1>12. x = [entries |-> c, queue |-> z.queue, waiters |-> z.waiters]
  BY <1>8, <1>11, EntriesOnly
<1>13. x = [entries |-> c, queue |-> s.queue, waiters |-> s.waiters] /\ s.waiters \in Nat
  BY <1>8, <1>12 DEF IsLockState
<1>14. IsLockState(x) /\ x.queue = s.queue /\ x.waiters = s.waiters
  BY SMT, <1>13 DEF IsLockState
<1> QED BY <1>14

(* What unlock_lock, release_owner_target and release_owner make of a state. *)
Shrunk(x, s, o, r) == x = clear_owner_range(s, o, r) \/ x = release_owner(s, o)

(* It differs in the entries only, and none is made where there was none. *)
LEMMA ReleaseShape ==
  ASSUME NEW s, NEW o, NEW r, NEW x, IsLockState(s), Shrunk(x, s, o, r)
  PROVE  /\ x.queue = s.queue /\ x.waiters = s.waiters
         /\ s = NoLocks => x = NoLocks
         /\ IsLockState(x)
<1>1. PICK e : x = [s EXCEPT !.entries = e] /\ (s.entries = {} => e = {})
  <2>1. CASE x = release_owner(s, o)
    <3>1. x = [s EXCEPT !.entries = {e \in s.entries : e.owner # o}]
      BY <2>1 DEF release_owner
    <3> QED BY <3>1
  <2>2. CASE x = clear_owner_range(s, o, r)
    <3>1. PICK h : h = Hit(s, o, r)
      OBVIOUS
    <3>2. PICK a, b : x = [s EXCEPT !.entries = (s.entries \ h) \cup a \cup b]
                      /\ (h = {} => a = {} /\ b = {})
      BY <2>2, <3>1 DEF clear_owner_range
    <3>3. s.entries = {} => h = {}
      BY <3>1 DEF Hit
    <3> QED BY <3>2, <3>3
  <2> QED BY <2>1, <2>2 DEF Shrunk
<1>2. x = [entries |-> e, queue |-> s.queue, waiters |-> s.waiters]
  BY <1>1, EntriesOnly
<1>3. s = NoLocks => x = NoLocks
  <2>1. s = NoLocks => s.entries = {} /\ s.queue = None /\ s.waiters = 0
    BY SMT DEF NoLocks
  <2> QED BY <1>1, <1>2, <2>1 DEF NoLocks
<1>4. x.queue = s.queue /\ x.waiters = s.waiters
  BY SMT, <1>2
<1>5. CASE s # NoLocks
  BY <1>2, <1>5, ShapeOf DEF IsLockState
<1>6. CASE s = NoLocks
  BY <1>3, <1>4, <1>6, NoLocksShape
<1> QED BY <1>3, <1>4, <1>5, <1>6

(* The part of a step that concerns the caller. *)
RecordMove(t, l, c, q, s) ==
    /\ l \in RecordPc /\ c \in script.lock \cup {None} /\ q \in RecordQueue \cup {None}
    /\ s \in Seq(RecordQueue)
    /\ rpc' = [rpc EXCEPT ![t] = l] /\ rcall' = [rcall EXCEPT ![t] = c]
    /\ rq' = [rq EXCEPT ![t] = q] /\ rlist' = [rlist EXCEPT ![t] = s]
    /\ l # "idle" => c \in script.lock
    /\ q # None <=> l \in RecordWaits
    /\ l = "notify" => s # <<>>
    /\ l \notin {"release", "notify"} => s = <<>>

(* What it means for the other parts of the invariant. *)
RecordMoved(t, c, q) ==
    /\ RecordCalls' /\ rpc' \in [Task -> RecordPc]
    /\ rcall' \in [Task -> script.lock \cup {None}]
    /\ rq' \in [Task -> RecordQueue \cup {None}] /\ rlist' \in [Task -> Seq(RecordQueue)]
    /\ rq'[t] = q /\ rcall'[t] = c
    /\ \A u \in Task \ {t} : rq'[u] = rq[u] /\ rcall'[u] = rcall[u]

(* Such a step keeps what is said of calls and types. *)
LEMMA RecordMoveStep ==
  ASSUME RecordInv, UNCHANGED script, NEW t \in Task, NEW l, NEW c, NEW q, NEW s,
         RecordMove(t, l, c, q, s)
  PROVE  RecordMoved(t, c, q)
<1>m. /\ l \in RecordPc /\ c \in script.lock \cup {None} /\ q \in RecordQueue \cup {None}
      /\ s \in Seq(RecordQueue)
      /\ rpc' = [rpc EXCEPT ![t] = l] /\ rcall' = [rcall EXCEPT ![t] = c]
      /\ rq' = [rq EXCEPT ![t] = q] /\ rlist' = [rlist EXCEPT ![t] = s]
  BY DEF RecordMove
<1>n. /\ l # "idle" => c \in script.lock
      /\ q # None <=> l \in RecordWaits
      /\ l = "notify" => s # <<>>
      /\ l \notin {"release", "notify"} => s = <<>>
  BY DEF RecordMove
<1>t. /\ rpc \in [Task -> RecordPc] /\ rcall \in [Task -> script.lock \cup {None}]
      /\ rq \in [Task -> RecordQueue \cup {None}] /\ rlist \in [Task -> Seq(RecordQueue)]
  BY DEF RecordInv, RecordTypes
<1>1. /\ rpc' \in [Task -> RecordPc] /\ rcall' \in [Task -> script.lock \cup {None}]
      /\ rq' \in [Task -> RecordQueue \cup {None}] /\ rlist' \in [Task -> Seq(RecordQueue)]
  BY <1>m, <1>t, Replaced
<1>2. rpc'[t] = l /\ rcall'[t] = c /\ rq'[t] = q /\ rlist'[t] = s
  BY <1>m, <1>t
<1>3. \A u \in Task \ {t} : /\ rpc'[u] = rpc[u] /\ rcall'[u] = rcall[u]
                             /\ rq'[u] = rq[u] /\ rlist'[u] = rlist[u]
  BY <1>m, <1>t
<1>4. RecordCalls'
  <2> SUFFICES ASSUME NEW u \in Task
               PROVE  /\ rpc'[u] # "idle" => rcall'[u] \in script.lock
                      /\ rq'[u] # None <=> rpc'[u] \in RecordWaits
                      /\ rpc'[u] = "notify" => rlist'[u] # <<>>
                      /\ rpc'[u] \notin {"release", "notify"} => rlist'[u] = <<>>
    BY DEF RecordCalls
  <2>1. CASE u = t
    BY <1>n, <1>2, <2>1
  <2>2. CASE u # t
    BY <1>3, <2>2 DEF RecordInv, RecordCalls
  <2> QED BY <2>1, <2>2
<1> QED BY <1>1, <1>2, <1>3, <1>4 DEF RecordMoved

(* Where nobody begins or ends to wait, the state of one file may change. *)
WaitsOn(t, c, q) == (rq[t] = None /\ q = None) \/ (q = rq[t] /\ c = rcall[t])

OneState ==
    \/ UNCHANGED locks
    \/ \E f \in File : \E r :
           /\ locks' = [locks EXCEPT ![f] = r] /\ IsLockState(r)
           /\ r.waiters = locks[f].waiters
           /\ r.queue = locks[f].queue \/ r.waiters = 0

(* The counts stay right when nobody begins or ends to wait, ... *)
LEMMA KeepSame ==
  ASSUME RecordInv, UNCHANGED script, NEW t \in Task, NEW c, NEW q, RecordMoved(t, c, q),
         WaitsOn(t, c, q), OneState
  PROVE  RecordInv'
<1>1. /\ RecordCalls' /\ rpc' \in [Task -> RecordPc]
      /\ rcall' \in [Task -> script.lock \cup {None}]
      /\ rq' \in [Task -> RecordQueue \cup {None}] /\ rlist' \in [Task -> Seq(RecordQueue)]
      /\ rq'[t] = q /\ rcall'[t] = c
      /\ \A u \in Task \ {t} : rq'[u] = rq[u] /\ rcall'[u] = rcall[u]
  BY DEF RecordMoved
<1>2. \A f : Waiting(f)' = Waiting(f) /\ \A u \in Waiting(f) : rq'[u] = rq[u]
  BY <1>1 DEF Waiting, WaitsOn
<1>t. locks = [f \in File |-> locks[f]] /\ script \in Script
  BY DEF RecordInv, RecordTypes
<1>k. ASSUME NEW g \in File
      PROVE  /\ IsLockState(locks[g]) /\ locks[g].waiters = Cardinality(Waiting(g))
             /\ \A u \in Waiting(g) : rq[u] = locks[g].queue
  BY DEF RecordInv, KeepInv
<1>3. CASE UNCHANGED locks
  <2>1. KeepInv'
    BY <1>2, <1>3, <1>k DEF KeepInv
  <2> QED BY <1>1, <1>3, <1>t, <2>1 DEF RecordInv, RecordTypes
<1>4. ASSUME NEW f \in File, NEW r, locks' = [locks EXCEPT ![f] = r], IsLockState(r),
             r.waiters = locks[f].waiters, r.queue = locks[f].queue \/ r.waiters = 0
      PROVE  RecordInv'
  <2>1. locks'[f] = r /\ (\A g \in File \ {f} : locks'[g] = locks[g])
        /\ locks' = [g \in File |-> locks'[g]]
    BY <1>t, <1>4
  <2>2. r.waiters = 0 => Waiting(f) = {}
    <3>1. IsFiniteSet(Waiting(f))
      BY RecordAssumption, FS_Subset DEF Waiting
    <3>2. Cardinality(Waiting(f)) = r.waiters
      BY <1>k, <1>4
    <3> QED BY <3>1, <3>2, FS_EmptySet
  <2>3. KeepInv'
    <3> SUFFICES ASSUME NEW g \in File
                 PROVE  /\ IsLockState(locks'[g]) /\ locks'[g].waiters = Cardinality(Waiting(g))
                        /\ \A u \in Waiting(g) : rq[u] = locks'[g].queue
      BY <1>2 DEF KeepInv
    <3>1. CASE g = f
      BY <1>k, <1>4, <2>1, <2>2, <3>1
    <3>2. CASE g # f
      BY <1>k, <2>1, <3>2
    <3> QED BY <3>1, <3>2
  <2> QED BY <1>1, <1>t, <2>1, <2>3 DEF RecordInv, RecordTypes
<1> QED BY <1>3, <1>4 DEF OneState

(* ... who begins to wait is counted, ... *)
LEMMA KeepMore ==
  ASSUME RecordInv, UNCHANGED script, NEW t \in Task, NEW c, NEW q,
         RecordMoved(t, c, q), rq[t] = None, q # None, c = rcall[t], NEW f \in File,
         c.file = f, q = locks[f].queue,
         locks' = [locks EXCEPT ![f] = [locks[f] EXCEPT !.waiters = locks[f].waiters + 1]]
  PROVE  RecordInv'
<1>1. /\ RecordCalls' /\ rpc' \in [Task -> RecordPc]
      /\ rcall' \in [Task -> script.lock \cup {None}]
      /\ rq' \in [Task -> RecordQueue \cup {None}] /\ rlist' \in [Task -> Seq(RecordQueue)]
      /\ rq'[t] = q /\ rcall'[t] = c
      /\ \A u \in Task \ {t} : rq'[u] = rq[u] /\ rcall'[u] = rcall[u]
  BY DEF RecordMoved
<1>2. Waiting(f)' = Waiting(f) \cup {t} /\ t \notin Waiting(f)
  BY <1>1 DEF Waiting
<1>3. \A g \in File \ {f} : Waiting(g)' = Waiting(g)
  BY <1>1 DEF Waiting
<1>4. \A g \in File : \A u \in Waiting(g) : rq'[u] = rq[u]
  BY <1>1 DEF Waiting
<1>t. locks = [g \in File |-> locks[g]] /\ script \in Script
  BY DEF RecordInv, RecordTypes
<1>k. ASSUME NEW g \in File
      PROVE  /\ IsLockState(locks[g]) /\ locks[g].waiters = Cardinality(Waiting(g))
             /\ \A u \in Waiting(g) : rq[u] = locks[g].queue
  BY DEF RecordInv, KeepInv
<1>5. PICK r : r = [locks[f] EXCEPT !.waiters = locks[f].waiters + 1]
  OBVIOUS
<1>6. locks[f].queue \in RecordQueue
  <2>1. q \in RecordQueue \cup {None}
    BY <1>1
  <2> QED BY <2>1
<1>7. IsLockState(r) /\ r.waiters = locks[f].waiters + 1 /\ r.queue = locks[f].queue
  <2>1. IsLockState(locks[f])
    BY <1>k
  <2>2. r = [entries |-> locks[f].entries, queue |-> locks[f].queue,
             waiters |-> locks[f].waiters + 1]
    BY SMT, <1>5, <2>1 DEF IsLockState
  <2>3. locks[f].waiters + 1 \in Nat
    BY SMT, <2>1 DEF IsLockState
  <2> QED BY SMT, <1>6, <2>2, <2>3 DEF IsLockState
<1>8. locks'[f] = r /\ (\A g \in File \ {f} : locks'[g] = locks[g])
      /\ locks' = [g \in File |-> locks'[g]]
  BY <1>t, <1>5
<1>9. Cardinality(Waiting(f)') = Cardinality(Waiting(f)) + 1
  <2>1. IsFiniteSet(Waiting(f))
    BY RecordAssumption, FS_Subset DEF Waiting
  <2>2. Cardinality(Waiting(f) \cup {t}) = Cardinality(Waiting(f)) + 1
    BY <1>2, <2>1, FS_AddElement
  <2> QED BY <1>2, <2>2
<1>10. KeepInv'
  <2> SUFFICES ASSUME NEW g \in File
               PROVE  /\ IsLockState(locks'[g]) /\ locks'[g].waiters = Cardinality(Waiting(g)')
                      /\ \A u \in Waiting(g)' : rq'[u] = locks'[g].queue
    BY DEF KeepInv
  <2>1. CASE g = f
    <3>1. locks'[g].waiters = Cardinality(Waiting(g)')
      BY <1>k, <1>7, <1>8, <1>9, <2>1
    <3>2. \A u \in Waiting(g)' : rq'[u] = locks'[g].queue
      <4>1. locks'[g].queue = locks[f].queue /\ rq'[t] = locks[f].queue
        BY <1>1, <1>7, <1>8, <2>1
      <4>2. \A u \in Waiting(f) : rq'[u] = locks[f].queue
        BY <1>4, <1>k
      <4> QED BY <1>2, <2>1, <4>1, <4>2
    <3> QED BY <1>7, <1>8, <2>1, <3>1, <3>2
  <2>2. CASE g # f
    <3>1. locks'[g] = locks[g] /\ Waiting(g)' = Waiting(g)
      BY <1>3, <1>8, <2>2
    <3>2. \A u \in Waiting(g) : rq'[u] = rq[u]
      BY <1>4, <3>1
    <3> QED BY <1>k, <3>1, <3>2
  <2> QED BY <2>1, <2>2
<1> QED BY <1>1, <1>t, <1>8, <1>10 DEF RecordInv, RecordTypes

(* ... and is no longer counted when it is through. *)
LEMMA KeepLess ==
  ASSUME RecordInv, UNCHANGED script, NEW t \in Task, NEW c,
         RecordMoved(t, c, None), rq[t] # None, NEW f \in File,
         rcall[t].file = f, NEW left,
         left = IF locks[f].waiters > 0 THEN locks[f].waiters - 1 ELSE 0,
         locks' = [locks EXCEPT ![f] = Kept([locks[f] EXCEPT !.waiters = left])]
  PROVE  RecordInv'
<1>1. /\ RecordCalls' /\ rpc' \in [Task -> RecordPc]
      /\ rcall' \in [Task -> script.lock \cup {None}]
      /\ rq' \in [Task -> RecordQueue \cup {None}] /\ rlist' \in [Task -> Seq(RecordQueue)]
      /\ rq'[t] = None /\ rcall'[t] = c
      /\ \A u \in Task \ {t} : rq'[u] = rq[u] /\ rcall'[u] = rcall[u]
  BY DEF RecordMoved
<1>2. Waiting(f)' = Waiting(f) \ {t} /\ t \in Waiting(f)
  BY <1>1 DEF Waiting
<1>3. \A g \in File \ {f} : Waiting(g)' = Waiting(g)
  BY <1>1 DEF Waiting
<1>4. \A g \in File : \A u \in Waiting(g)' : rq'[u] = rq[u]
  BY <1>1 DEF Waiting
<1>t. locks = [g \in File |-> locks[g]] /\ script \in Script
      /\ rq \in [Task -> RecordQueue \cup {None}]
  BY DEF RecordInv, RecordTypes
<1>k. ASSUME NEW g \in File
      PROVE  /\ IsLockState(locks[g]) /\ locks[g].waiters = Cardinality(Waiting(g))
             /\ \A u \in Waiting(g) : rq[u] = locks[g].queue
  BY DEF RecordInv, KeepInv
<1>9. Cardinality(Waiting(f)') = Cardinality(Waiting(f)) - 1 /\ IsFiniteSet(Waiting(f)')
  <2>1. IsFiniteSet(Waiting(f))
    BY RecordAssumption, FS_Subset DEF Waiting
  <2>2. Cardinality(Waiting(f) \ {t}) = Cardinality(Waiting(f)) - 1
        /\ IsFiniteSet(Waiting(f) \ {t})
    BY <1>2, <2>1, FS_RemoveElement
  <2> QED BY <1>2, <2>2
<1>5. left = Cardinality(Waiting(f)') /\ left \in Nat
  <2>1. Cardinality(Waiting(f)') \in Nat
    BY <1>9, FS_CardinalityType
  <2>2. locks[f].waiters = Cardinality(Waiting(f)) /\ locks[f].waiters \in Nat
    BY <1>k DEF IsLockState
  <2> QED BY SMT, <1>9, <2>1, <2>2
<1>6. PICK r : r = [locks[f] EXCEPT !.waiters = left]
  OBVIOUS
<1>q. locks[f].queue \in RecordQueue
  <2>1. rq[t] = locks[f].queue /\ rq[t] \in RecordQueue
    BY <1>2, <1>k, <1>t
  <2> QED BY <2>1
<1>7. IsLockState(r) /\ r.waiters = left /\ r.queue = locks[f].queue
  <2>1. IsLockState(locks[f])
    BY <1>k
  <2>2. r = [entries |-> locks[f].entries, queue |-> locks[f].queue, waiters |-> left]
    BY SMT, <1>6, <2>1 DEF IsLockState
  <2> QED BY SMT, <1>5, <1>q, <2>2 DEF IsLockState
<1>u. PICK k : k = Kept(r)
  OBVIOUS
<1>v. /\ IsLockState(k) /\ k.waiters = left
      /\ k.queue = locks[f].queue \/ left = 0
  <2>1. CASE Unneeded(r)
    <3>1. k = NoLocks /\ left = 0
      BY <1>7, <1>u, <2>1 DEF Kept, Unneeded
    <3> QED BY <3>1, NoLocksShape
  <2>2. CASE ~Unneeded(r)
    BY <1>7, <1>u, <2>2 DEF Kept
  <2> QED BY <2>1, <2>2
<1>8. locks'[f] = k /\ (\A g \in File \ {f} : locks'[g] = locks[g])
      /\ locks' = [g \in File |-> locks'[g]]
  BY <1>t, <1>6, <1>u
<1>w. left = 0 => Waiting(f)' = {}
  BY <1>5, <1>9, FS_EmptySet
<1>10. KeepInv'
  <2> SUFFICES ASSUME NEW g \in File
               PROVE  /\ IsLockState(locks'[g]) /\ locks'[g].waiters = Cardinality(Waiting(g)')
                      /\ \A u \in Waiting(g)' : rq'[u] = locks'[g].queue
    BY DEF KeepInv
  <2>1. CASE g = f
    <3>1. locks'[g].waiters = Cardinality(Waiting(g)')
      BY <1>5, <1>v, <1>8, <2>1
    <3>2. \A u \in Waiting(g)' : rq'[u] = locks'[g].queue
      BY <1>2, <1>4, <1>k, <1>v, <1>w, <1>8, <2>1
    <3> QED BY <1>v, <1>8, <2>1, <3>1, <3>2
  <2>2. CASE g # f
    <3>1. locks'[g] = locks[g] /\ Waiting(g)' = Waiting(g)
      BY <1>3, <1>8, <2>2
    <3>2. \A u \in Waiting(g) : rq'[u] = rq[u]
      BY <1>4, <3>1
    <3> QED BY <1>k, <3>1, <3>2
  <2> QED BY <2>1, <2>2
<1> QED BY <1>1, <1>t, <1>8, <1>10 DEF RecordInv, RecordTypes

(* A step that leaves the variables of record locks alone keeps the invariant. *)
LEMMA RecordInvStable ==
  ASSUME RecordInv, UNCHANGED <<script, recordVars>>
  PROVE  RecordInv'
BY DEF RecordInv, RecordTypes, RecordCalls, KeepInv, Waiting, recordVars

(* Every step of a record-lock call keeps the invariant. *)
LEMMA RecordStep ==
  ASSUME RecordInv, UNCHANGED script, NEW t \in Task, RecordOperation(t)
  PROVE  RecordInv'
<1>t. /\ script \in Script /\ rpc \in [Task -> RecordPc]
      /\ rcall \in [Task -> script.lock \cup {None}]
      /\ rq \in [Task -> RecordQueue \cup {None}] /\ rlist \in [Task -> Seq(RecordQueue)]
  BY DEF RecordInv, RecordTypes
<1>i. /\ rpc[t] # "idle" => rcall[t] \in script.lock
      /\ rq[t] # None <=> rpc[t] \in RecordWaits
      /\ rpc[t] = "notify" => rlist[t] # <<>>
      /\ rpc[t] \notin {"release", "notify"} => rlist[t] = <<>>
      /\ rlist[t] \in Seq(RecordQueue) /\ rq[t] \in RecordQueue \cup {None}
  BY <1>t DEF RecordInv, RecordCalls
<1>f. \A c \in script.lock : c.file \in File
  BY <1>t, LockCallAssumption
<1>k. ASSUME NEW g \in File
      PROVE  /\ IsLockState(locks[g]) /\ locks[g].waiters = Cardinality(Waiting(g))
             /\ \A u \in Waiting(g) : rq[u] = locks[g].queue
  BY DEF RecordInv, KeepInv
<1>0. /\ rcall = [rcall EXCEPT ![t] = rcall[t]] /\ rq = [rq EXCEPT ![t] = rq[t]]
      /\ rlist = [rlist EXCEPT ![t] = rlist[t]] /\ rpc = [rpc EXCEPT ![t] = rpc[t]]
  BY <1>t
<1>z. <<>> \in Seq(RecordQueue)
  BY SMT
<1>r. ASSUME RecordReturn(t), UNCHANGED rq, rlist' = [rlist EXCEPT ![t] = <<>>],
             rpc[t] \notin RecordWaits, UNCHANGED locks
      PROVE  RecordInv'
  <2>1. RecordMove(t, "idle", None, None, <<>>)
    BY <1>0, <1>i, <1>r, <1>z DEF RecordMove, RecordReturn, RecordGoto, RecordPc, RecordWaits
  <2>2. RecordMoved(t, None, None)
    BY <2>1, RecordMoveStep
  <2>3. WaitsOn(t, None, None) /\ OneState
    BY <1>i, <1>r DEF WaitsOn, OneState
  <2> QED BY <2>2, <2>3, KeepSame
<1>s. ASSUME NEW l \in RecordPc \ {"idle"}, rpc' = [rpc EXCEPT ![t] = l], rpc[t] # "idle",
             l \in RecordWaits <=> rpc[t] \in RecordWaits,
             l = "notify" => rlist[t] # <<>>,
             l \notin {"release", "notify"} => rpc[t] \notin {"release", "notify"},
             UNCHANGED <<rcall, rq, rlist, locks>>
      PROVE  RecordInv'
  <2>1. RecordMove(t, l, rcall[t], rq[t], rlist[t])
    BY <1>0, <1>i, <1>s DEF RecordMove
  <2>2. RecordMoved(t, rcall[t], rq[t])
    BY <2>1, RecordMoveStep
  <2>3. WaitsOn(t, rcall[t], rq[t]) /\ OneState
    BY <1>s DEF WaitsOn, OneState
  <2> QED BY <2>2, <2>3, KeepSame
<1>a. CASE \E c \in script.lock : sys_fcntl_record_lock(t, c)
  <2>1. PICK c \in script.lock : sys_fcntl_record_lock(t, c)
    BY <1>a
  <2>2. PICK l : l = IF c.cmd = "set" THEN "try" ELSE "release"
    OBVIOUS
  <2>3. rpc[t] = "idle"
    BY <2>1 DEF sys_fcntl_record_lock, RecordAt
  <2>4. rpc' = [rpc EXCEPT ![t] = l] /\ rcall' = [rcall EXCEPT ![t] = c]
        /\ UNCHANGED <<locks, rq, rlist>>
    BY <2>1, <2>2 DEF sys_fcntl_record_lock, RecordGoto
  <2>5. l \in RecordPc /\ l \notin RecordWaits /\ l # "notify" /\ rpc[t] \notin RecordWaits
    BY <2>2, <2>3 DEF RecordPc, RecordWaits
  <2>6. RecordMove(t, l, c, None, <<>>)
    BY <1>0, <1>i, <1>z, <2>3, <2>4, <2>5 DEF RecordMove
  <2>7. RecordMoved(t, c, None)
    BY <2>6, RecordMoveStep
  <2>8. WaitsOn(t, c, None) /\ OneState
    BY <1>i, <2>4, <2>5 DEF WaitsOn, OneState
  <2> QED BY <2>7, <2>8, KeepSame
<1>b. CASE SetAcquires(t)
  <2>1. PICK c : c = rcall[t]
    OBVIOUS
  <2>2. PICK f : f = c.file
    OBVIOUS
  <2>3. rpc[t] = "try" /\ c \in script.lock /\ f \in File
    BY <1>b, <1>i, <1>f, <2>1, <2>2 DEF SetAcquires, RecordAt
  <2>4. PICK s : s = StateOf(f)
    OBVIOUS
  <2>5. /\ locks' = [locks EXCEPT ![f] = set(s, c.owner, RangeOf(c), c.type)]
        /\ rlist' = [rlist EXCEPT ![t] = <<s.queue>>] /\ rpc' = [rpc EXCEPT ![t] = "notify"]
        /\ UNCHANGED <<rcall, rq>> /\ StateLeft(f)
    BY <1>b, <2>1, <2>2, <2>4 DEF SetAcquires, RecordGoto
  <2>6. IsLockState(s) /\ s.queue \in RecordQueue /\ s.waiters = locks[f].waiters
        /\ (s.queue = locks[f].queue \/ s.waiters = 0)
    <3>1. CASE locks[f] # NoLocks
      BY <1>k, <2>3, <2>4, <3>1 DEF StateOf, IsLockState
    <3>2. CASE locks[f] = NoLocks
      <4>1. PICK q : q = CHOOSE p \in RecordQueue : Unreferenced(p)
        OBVIOUS
      <4>2. q \in RecordQueue
        BY <2>5, <3>2, <4>1 DEF StateLeft
      <4>3. s = [NoLocks EXCEPT !.queue = q]
        BY <2>4, <3>2, <4>1 DEF StateOf
      <4>4. s = [entries |-> {}, queue |-> q, waiters |-> 0]
        BY SMT, <4>3 DEF NoLocks
      <4>5. IsLockState(s) /\ s.queue = q /\ s.waiters = 0
        BY SMT, <4>2, <4>4 DEF IsLockState
      <4> QED BY <3>2, <4>2, <4>5, NoLocksShape
    <3> QED BY <3>1, <3>2
  <2>7. PICK x : x = set(s, c.owner, RangeOf(c), c.type)
    OBVIOUS
  <2>8. IsLockState(x) /\ x.queue = s.queue /\ x.waiters = s.waiters
    BY SMT, <2>6, <2>7, SetShape
  <2>9. <<s.queue>> \in Seq(RecordQueue) /\ <<s.queue>> # <<>>
    BY SMT, <2>6
  <2>10. RecordMove(t, "notify", c, None, <<s.queue>>)
    BY <1>0, <1>i, <2>1, <2>3, <2>5, <2>9 DEF RecordMove, RecordPc, RecordWaits
  <2>11. RecordMoved(t, c, None)
    BY <2>10, RecordMoveStep
  <2>12. locks' = [locks EXCEPT ![f] = x] /\ x.waiters = locks[f].waiters
         /\ (x.queue = locks[f].queue \/ x.waiters = 0)
    BY <2>5, <2>6, <2>7, <2>8
  <2>13. rq[t] = None
    BY <1>i, <2>3 DEF RecordWaits
  <2>14. OneState
    BY <2>3, <2>8, <2>12 DEF OneState
  <2>15. WaitsOn(t, c, None)
    BY <2>13 DEF WaitsOn
  <2> QED BY <2>11, <2>14, <2>15, KeepSame
<1>c. CASE SetAgain(t)
  <2>1. rpc[t] = "try" /\ RecordReturn(t) /\ UNCHANGED <<rq, rlist, locks>>
    BY <1>c DEF SetAgain, RecordAt
  <2>2. rlist' = [rlist EXCEPT ![t] = <<>>] /\ rpc[t] \notin RecordWaits
    BY <1>0, <1>i, <2>1 DEF RecordWaits
  <2> QED BY <1>r, <2>1, <2>2
<1>d. CASE SetWaits(t)
  <2>1. PICK c : c = rcall[t]
    OBVIOUS
  <2>2. PICK f : f = c.file
    OBVIOUS
  <2>3. rpc[t] = "try" /\ c \in script.lock /\ f \in File
    BY <1>d, <1>i, <1>f, <2>1, <2>2 DEF SetWaits, RecordAt
  <2>4. conflict(StateOf(f), c.owner, RangeOf(c), c.type) # {}
    BY <1>d, <2>1, <2>2 DEF SetWaits
  <2>5. locks[f] # NoLocks
    <3>1. SUFFICES ASSUME locks[f] = NoLocks PROVE FALSE
      OBVIOUS
    <3>2. StateOf(f).entries = {}
      BY SMT, <3>1 DEF StateOf, NoLocks
    <3> QED BY <2>4, <3>2 DEF conflict
  <2>6. StateOf(f) = locks[f]
    BY <2>5 DEF StateOf
  <2>7. locks[f].queue \in RecordQueue
    BY <1>k, <2>3, <2>5 DEF IsLockState
  <2>8. /\ locks' = [locks EXCEPT ![f] = [locks[f] EXCEPT !.waiters = locks[f].waiters + 1]]
        /\ rq' = [rq EXCEPT ![t] = locks[f].queue] /\ rpc' = [rpc EXCEPT ![t] = "signal"]
        /\ UNCHANGED <<rcall, rlist>>
    BY <1>d, <2>1, <2>2, <2>6 DEF SetWaits, RecordGoto
  <2>9. locks[f].queue # None
    BY <2>7, RecordAssumption, QueueAssumption
  <2>10. RecordMove(t, "signal", c, locks[f].queue, <<>>)
    BY <1>0, <1>i, <2>1, <2>3, <2>7, <2>8, <2>9 DEF RecordMove, RecordPc, RecordWaits
  <2>11. RecordMoved(t, c, locks[f].queue)
    BY <2>10, RecordMoveStep
  <2>12. rq[t] = None
    BY <1>i, <2>3 DEF RecordWaits
  <2> QED BY <2>1, <2>2, <2>3, <2>8, <2>9, <2>11, <2>12, KeepMore
<1>e. CASE SetSignal(t)
  <2>1. PICK l \in {"finish", "test"} : rpc' = [rpc EXCEPT ![t] = l]
    BY <1>e DEF SetSignal, RecordGoto
  <2>2. rpc[t] = "signal" /\ UNCHANGED <<rcall, rq, rlist, locks>>
    BY <1>e DEF SetSignal, RecordAt
  <2> QED BY <1>s, <2>1, <2>2 DEF RecordPc, RecordWaits
<1>g. CASE SetTest(t)
  <2>1. PICK l \in {"cancel", "block"} : rpc' = [rpc EXCEPT ![t] = l]
    BY <1>g DEF SetTest, RecordGoto
  <2>2. rpc[t] = "test" /\ UNCHANGED <<rcall, rq, rlist, locks>>
    BY <1>g DEF SetTest, RecordAt
  <2> QED BY <1>s, <2>1, <2>2 DEF RecordPc, RecordWaits
<1>h. CASE SetBlock(t) \/ SetCancel(t)
  <2>1. PICK l \in {"test", "finish"} : rpc' = [rpc EXCEPT ![t] = l]
    BY <1>h DEF SetBlock, SetCancel, RecordGoto
  <2>2. rpc[t] \in {"block", "cancel"} /\ UNCHANGED <<rcall, rq, rlist, locks>>
    BY <1>h DEF SetBlock, SetCancel, RecordAt
  <2> QED BY <1>s, <2>1, <2>2 DEF RecordPc, RecordWaits
<1>j. CASE finish_wait(t)
  <2>1. PICK f : f = rcall[t].file
    OBVIOUS
  <2>2. rpc[t] = "finish" /\ rcall[t] \in script.lock /\ f \in File
    BY <1>j, <1>i, <1>f, <2>1 DEF finish_wait, RecordAt
  <2>3. PICK left : left = IF locks[f].waiters > 0 THEN locks[f].waiters - 1 ELSE 0
    OBVIOUS
  <2>4. /\ locks' = [locks EXCEPT ![f] = Kept([locks[f] EXCEPT !.waiters = left])]
        /\ rq' = [rq EXCEPT ![t] = None] /\ UNCHANGED rlist
    BY <1>j, <2>1, <2>3 DEF finish_wait
  <2>5. rq[t] # None
    BY <1>i, <2>2 DEF RecordWaits
  <2>6. CASE RecordReturn(t)
    <3>1. RecordMove(t, "idle", None, None, <<>>)
      BY <1>0, <1>i, <2>2, <2>4, <2>6 DEF RecordMove, RecordReturn, RecordGoto, RecordPc,
           RecordWaits
    <3>2. RecordMoved(t, None, None)
      BY <3>1, RecordMoveStep
    <3> QED BY <2>1, <2>2, <2>3, <2>4, <2>5, <3>2, KeepLess
  <2>7. CASE RecordGoto(t, "try") /\ UNCHANGED rcall
    <3>1. RecordMove(t, "try", rcall[t], None, <<>>)
      BY <1>0, <1>i, <2>2, <2>4, <2>7 DEF RecordMove, RecordGoto, RecordPc, RecordWaits
    <3>2. RecordMoved(t, rcall[t], None)
      BY <3>1, RecordMoveStep
    <3> QED BY <2>1, <2>2, <2>3, <2>4, <2>5, <3>2, KeepLess
  <2> QED BY <1>j, <2>6, <2>7 DEF finish_wait
<1>l. CASE \E f \in File : ReleaseIn(t, f)
  <2>1. PICK f \in File : ReleaseIn(t, f)
    BY <1>l
  <2>2. PICK c : c = rcall[t]
    OBVIOUS
  <2>3. PICK x : x = IF c.cmd = "unlock" THEN clear_owner_range(locks[f], c.owner, RangeOf(c))
                                          ELSE release_owner(locks[f], c.owner)
    OBVIOUS
  <2>4. PICK s : s = IF x # locks[f] THEN Append(rlist[t], locks[f].queue) ELSE rlist[t]
    OBVIOUS
  <2>5. /\ rpc[t] = "release" /\ locks' = [locks EXCEPT ![f] = Kept(x)]
        /\ rlist' = [rlist EXCEPT ![t] = s] /\ UNCHANGED <<rpc, rcall, rq>>
    BY <2>1, <2>2, <2>3, <2>4 DEF ReleaseIn, RecordAt
  <2>6. /\ x.queue = locks[f].queue /\ x.waiters = locks[f].waiters
        /\ locks[f] = NoLocks => x = NoLocks
        /\ IsLockState(x)
    <3>1. IsLockState(locks[f])
      BY <1>k
    <3>2. Shrunk(x, locks[f], c.owner, RangeOf(c))
      BY <2>3 DEF Shrunk
    <3> QED BY <3>1, <3>2, ReleaseShape
  <2>7. s \in Seq(RecordQueue)
    <3>1. x # locks[f] => locks[f].queue \in RecordQueue
      BY <1>k, <2>6 DEF IsLockState
    <3>2. x # locks[f] => Append(rlist[t], locks[f].queue) \in Seq(RecordQueue)
      BY SMT, <1>i, <3>1
    <3> QED BY <1>i, <2>4, <3>2
  <2>8. RecordMove(t, "release", c, None, s)
    BY <1>0, <1>i, <2>2, <2>5, <2>7 DEF RecordMove, RecordPc, RecordWaits
  <2>9. RecordMoved(t, c, None)
    BY <2>8, RecordMoveStep
  <2>10. PICK k : k = Kept(x)
    OBVIOUS
  <2>11. IsLockState(k) /\ k.waiters = locks[f].waiters
         /\ (k.queue = locks[f].queue \/ k.waiters = 0)
    <3>1. CASE Unneeded(x)
      BY <2>6, <2>10, <3>1, NoLocksShape DEF Kept, Unneeded
    <3>2. CASE ~Unneeded(x)
      BY <2>6, <2>10, <3>2 DEF Kept
    <3> QED BY <3>1, <3>2
  <2>12. rq[t] = None
    BY <1>i, <2>5 DEF RecordWaits
  <2>13. locks' = [locks EXCEPT ![f] = k]
    BY <2>5, <2>10
  <2>14. OneState
    BY <2>11, <2>13 DEF OneState
  <2>15. WaitsOn(t, c, None)
    BY <2>12 DEF WaitsOn
  <2> QED BY <2>9, <2>14, <2>15, KeepSame
<1>m. CASE Released(t)
  <2>1. rpc[t] = "release" /\ UNCHANGED <<rq, rlist, locks>>
    BY <1>m DEF Released, RecordAt
  <2>2. CASE rlist[t] = <<>> /\ RecordReturn(t)
    BY <1>0, <1>r, <2>1, <2>2 DEF RecordWaits
  <2>3. CASE rlist[t] # <<>> /\ RecordGoto(t, "notify") /\ UNCHANGED <<fpc, rcall>>
    BY <1>s, <2>1, <2>3 DEF RecordGoto, RecordPc, RecordWaits
  <2> QED BY <1>m, <2>2, <2>3 DEF Released
<1>n. CASE RecordNotify(t) \/ RecordNotifyInside(t)
  BY <1>n, RecordInvStable DEF RecordNotify, RecordNotifyInside
<1>o. CASE RecordNotified(t)
  <2>1. /\ rpc[t] = "notify" /\ UNCHANGED <<rq, locks>>
        /\ rlist' = [rlist EXCEPT ![t] = Tail(rlist[t])]
    BY <1>o DEF RecordNotified, RecordAt
  <2>2. /\ Tail(rlist[t]) \in Seq(RecordQueue)
        /\ Tail(rlist[t]) = <<>> <=> Len(rlist[t]) = 1
    <3>1. rlist[t] \in Seq(RecordQueue) /\ rlist[t] # <<>>
      BY <1>i, <2>1
    <3>2. Len(rlist[t]) \in Nat /\ Len(Tail(rlist[t])) = Len(rlist[t]) - 1
          /\ Tail(rlist[t]) \in Seq(RecordQueue)
      BY SMT, <3>1
    <3>3. ASSUME NEW x \in Seq(RecordQueue) PROVE x = <<>> <=> Len(x) = 0
      BY SMT
    <3>4. Tail(rlist[t]) = <<>> <=> Len(Tail(rlist[t])) = 0
      BY <3>2, <3>3
    <3>5. Len(Tail(rlist[t])) = 0 <=> Len(rlist[t]) = 1
      BY SMT, <3>2
    <3> QED BY <3>2, <3>4, <3>5
  <2>3. CASE Len(rlist[t]) = 1 /\ RecordReturn(t)
    BY <1>r, <2>1, <2>2, <2>3 DEF RecordWaits
  <2>4. CASE Len(rlist[t]) # 1 /\ UNCHANGED <<rpc, fpc, rcall>>
    <3>1. RecordMove(t, "notify", rcall[t], None, Tail(rlist[t]))
      BY <1>0, <1>i, <2>1, <2>2, <2>4 DEF RecordMove, RecordPc, RecordWaits
    <3>2. RecordMoved(t, rcall[t], None)
      BY <3>1, RecordMoveStep
    <3>3. rq[t] = None
      BY <1>i, <2>1 DEF RecordWaits
    <3>4. WaitsOn(t, rcall[t], None) /\ OneState
      BY <2>1, <3>3 DEF WaitsOn, OneState
    <3> QED BY <3>2, <3>4, KeepSame
  <2> QED BY <1>o, <2>3, <2>4 DEF RecordNotified
<1> QED BY <1>a, <1>b, <1>c, <1>d, <1>e, <1>g, <1>h, <1>j, <1>l, <1>m, <1>n, <1>o
     DEF RecordOperation

(* WaiterKeepsState: while a task waits in set_lock the file keeps its state, *)
(* with the queue the task sleeps in, and counts exactly those who wait.      *)
THEOREM RecordWaiterIsKept == Spec => []WaiterKeepsState
<1>1. Init => RecordInv
  <2> SUFFICES ASSUME Init PROVE RecordInv
    OBVIOUS
  <2>1. script \in Script
    BY DEF Init, SemInit, FutexInit
  <2>2. /\ locks = [f \in File |-> NoLocks]
        /\ rpc = [t \in Task |-> "idle"] /\ rcall = [t \in Task |-> None]
        /\ rq = [t \in Task |-> None] /\ rlist = [t \in Task |-> <<>>]
    BY DEF Init, RecordInit
  <2>3. <<>> \in Seq(RecordQueue)
    BY SMT
  <2>4. RecordTypes /\ RecordCalls
    BY <2>1, <2>2, <2>3 DEF RecordTypes, RecordPc, RecordCalls, RecordWaits
  <2>5. \A f \in File : locks[f] = NoLocks /\ Waiting(f) = {}
    BY <2>2 DEF Waiting
  <2>6. KeepInv
    BY <2>5, NoLocksShape, FS_EmptySet DEF KeepInv
  <2> QED BY <2>4, <2>6 DEF RecordInv
<1>2. RecordInv /\ [Next]_vars => RecordInv'
  <2> SUFFICES ASSUME RecordInv, [Next]_vars PROVE RecordInv'
    OBVIOUS
  <2>0. UNCHANGED script
    BY ScriptStable
  <2>1. CASE UNCHANGED recordVars
    BY <2>0, <2>1, RecordInvStable
  <2>2. CASE RecordNext
    BY <2>0, <2>2, RecordStep DEF RecordNext
  <2> QED BY <2>1, <2>2 DEF Next, vars
<1>3. RecordInv => WaiterKeepsState
  BY DEF RecordInv, KeepInv, Waiting, WaiterKeepsState
<1> QED BY <1>1, <1>2, <1>3, PTL DEF Spec
================================================================================
