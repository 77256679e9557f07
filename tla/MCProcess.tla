------------------------------- MODULE MCProcess ------------------------------
(***************************************************************************)
(* Process instances for TLC.                                              *)
(***************************************************************************)
EXTENDS Process, TLC

CONSTANTS t1, t2, n1, n2, k1, k2, p1, p2, s1, s2, o1, o2, f1, r1, r2, r3, l1, l2, l3, x1, x2

One == {1}
Full == {1, 2}
Masks == {One, Full}

Wakes(n, k, count) == [by |-> n, op |-> "wake", key |-> k, target |-> k,
                       wake |-> count, move |-> 0, mask |-> Full]
Requeues(n, k, count, l, move) == [by |-> n, op |-> "requeue", key |-> k, target |-> l,
                                   wake |-> count, move |-> move, mask |-> Full]
Exits(n) == [by |-> n, op |-> "exit", key |-> k1, target |-> k1,
             wake |-> 0, move |-> 0, mask |-> Full]

Waits(t, k, m, timed) == [task |-> t, key |-> k, mask |-> m, timed |-> timed]
FutexQueues == (Key \X Masks) \cup {x1, x2}
Queues == FutexQueues \cup {SemQueue} \cup RecordQueue \cup FlockQueue
Processes == (t1 :> p1) @@ (t2 :> p2)

(* The parts of a script for calls of one kind only. *)
Quiet == [wait |-> {}, wake |-> {}, signalled |-> {},
          sem |-> {}, ctl |-> {}, exit |-> {}, value |-> [i \in Sem |-> 0],
          lock |-> {}, flock |-> {}]

(* t1 may time out, so that it leaves an entry behind where it was moved to. *)
MoveTimeout == [Quiet EXCEPT !.wait = {Waits(t1, k1, Full, TRUE), Waits(t2, k1, Full, FALSE)},
                             !.wake = {Requeues(n1, k1, 0, k2, 2), Wakes(n1, k2, 2)}]

(* A wake of all during a requeue on the same key; and a requeue that finds *)
(* waiters with different bitsets, wakes one and moves the other.           *)
MoveWake == [Quiet EXCEPT !.wait = {Waits(t1, k1, Full, FALSE), Waits(t2, k1, Full, FALSE)},
                          !.wake = {Requeues(n1, k1, 0, k2, 2), Wakes(n2, k1, 2)}]
MoveBits == [Quiet EXCEPT !.wait = {Waits(t1, k1, Full, FALSE), Waits(t2, k1, One, FALSE)},
                          !.wake = {Requeues(n1, k1, 1, k2, 1), Wakes(n1, k1, 2)}]

(* The process exits during a requeue, during a wake, and amid signals. *)
MoveExit == [Quiet EXCEPT !.wait = {Waits(t1, k1, Full, FALSE), Waits(t2, k1, Full, FALSE)},
                          !.wake = {Requeues(n1, k1, 0, k2, 1), Exits(n2)}]
WakeExit == [Quiet EXCEPT !.wait = {Waits(t1, k1, Full, FALSE), Waits(t2, k1, One, FALSE)},
                          !.wake = {Wakes(n1, k1, 1), Exits(n2)}]
Signals == [Quiet EXCEPT !.wait = {Waits(t1, k1, Full, TRUE)},
                         !.wake = {Wakes(n1, k1, 1), Exits(n2)},
                         !.signalled = {t1}]

(* Two processes share two tokens of s1 and exit, or remove the set.  One      *)
(* takes both at once; the other also takes s2, for whose zero the first waits. *)
Op(i, n) == [num |-> i, op |-> n, undo |-> TRUE]
Calls(t, ops, timed) == [task |-> t, ops |-> ops, nowait |-> FALSE, timed |-> timed, own |-> TRUE]
Tokens == [Quiet EXCEPT
    !.sem = {Calls(t1, <<Op(s1, -1)>>, FALSE), Calls(t1, <<Op(s1, 1)>>, FALSE),
             Calls(t1, <<Op(s2, -1)>>, FALSE),
             Calls(t2, <<Op(s1, -1), Op(s1, -1)>>, FALSE),
             Calls(t2, <<Op(s1, 1), Op(s1, 1)>>, FALSE),
             Calls(t2, <<Op(s2, 0)>>, TRUE)},
    !.ctl = {[task |-> t1, cmd |-> "IPC_RMID", num |-> s1, vals |-> Quiet.value]},
    !.exit = Process,
    !.value = [i \in Sem |-> IF i = s1 THEN 2 ELSE 1]]

(* A producer posts beyond the largest value, a consumer takes or polls. *)
Post(t, n, nowait) == [task |-> t, ops |-> <<[num |-> s1, op |-> n, undo |-> FALSE]>>,
                       nowait |-> nowait, timed |-> FALSE, own |-> FALSE]
Posts == [Quiet EXCEPT
    !.sem = {Post(t1, 2, FALSE), Post(t2, -3, FALSE), Post(t2, -1, TRUE)},
    !.ctl = {[task |-> t1, cmd |-> "SETVAL", num |-> s1, vals |-> Quiet.value],
             [task |-> t1, cmd |-> "SETALL", num |-> s1, vals |-> [i \in Sem |-> IF i = s1 THEN 3 ELSE 0]]},
    !.signalled = {t2}]

(* Two owners lock, downgrade, split and release ranges of one file. *)
Locks(t, o, type, rel, len, blocking) ==
    [task |-> t, owner |-> o, file |-> f1, cmd |-> "set", base |-> 0, rel |-> rel, len |-> len,
     type |-> type, blocking |-> blocking]
Unlocks(t, o, cmd, rel, len) == [Locks(t, o, "Read", rel, len, FALSE) EXCEPT !.cmd = cmd]
Ranges == [Quiet EXCEPT
    !.lock = {Locks(t1, o1, "Write", 0, 0, TRUE), Locks(t1, o1, "Read", 1, 1, TRUE),
              Unlocks(t1, o1, "unlock", 2, -1), Unlocks(t1, o1, "close", 0, 0),
              Locks(t2, o2, "Read", 1, 1, TRUE), Locks(t2, o2, "Write", 3, -2, FALSE),
              Unlocks(t2, o2, "release", 0, 0)},
    !.signalled = {t2}]

(* Two open files, each used by a task of its own; and one that both use. *)
Flocks(t, o, op, nb) == [task |-> t, owner |-> o, file |-> f1, op |-> op, nb |-> nb]
Owners == [Quiet EXCEPT
    !.flock = {Flocks(t1, o1, "Shared", FALSE), Flocks(t1, o1, "Exclusive", FALSE),
               Flocks(t1, o1, "unlock", FALSE),
               Flocks(t2, o2, "Shared", TRUE), Flocks(t2, o2, "Exclusive", FALSE),
               Flocks(t2, o2, "drop", FALSE)},
    !.signalled = {t2}]
SharedFile == [Quiet EXCEPT
    !.flock = {Flocks(t1, o1, "Exclusive", FALSE), Flocks(t1, o1, "Shared", FALSE),
               Flocks(t2, o1, "Shared", FALSE), Flocks(t2, o2, "Exclusive", FALSE),
               Flocks(t2, o2, "unlock", FALSE)}]

Scripts == {MoveTimeout, MoveWake, MoveBits, MoveExit, WakeExit, Signals, Tokens, Posts,
            Ranges, Owners, SharedFile}

(* flock alone. *)
OpenFiles == {Owners}

(* A wake on the target of a requeue. *)
TargetRace == {[Quiet EXCEPT !.wait = {Waits(t1, k1, Full, FALSE)},
                           !.wake = {Requeues(n1, k1, 0, k2, 1), Wakes(n2, k2, 1)}]}
==============================================================================
