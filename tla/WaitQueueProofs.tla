--------------------------- MODULE WaitQueueProofs ---------------------------
(* Lemmas about the sequence operators the wait-queue model is built from, and  *)
(* about what the steps of its operations do, for the proofs about its users.   *)
EXTENDS WaitQueue, FunctionTheorems, FiniteSetTheorems, TLAPS

(* push_back adds its argument to the entries and nothing else. *)
LEMMA AppendElems ==
  ASSUME NEW S, NEW s \in Seq(S), NEW t \in S
  PROVE  /\ Append(s, t) \in Seq(S)
         /\ Elems(Append(s, t)) = Elems(s) \cup {t}
<1>1. Append(s, t) \in Seq(S) /\ Len(Append(s, t)) = Len(s) + 1
  OBVIOUS
<1>2. Elems(Append(s, t)) \subseteq Elems(s) \cup {t}
  BY DEF Elems
<1>3. ASSUME NEW i \in DOMAIN s PROVE s[i] \in Elems(Append(s, t))
  <2>1. i \in DOMAIN Append(s, t) /\ Append(s, t)[i] = s[i]
    OBVIOUS
  <2> QED BY <2>1 DEF Elems
<1>4. t \in Elems(Append(s, t))
  <2>1. Len(s) + 1 \in DOMAIN Append(s, t) /\ Append(s, t)[Len(s) + 1] = t
    OBVIOUS
  <2> QED BY <2>1 DEF Elems
<1> QED BY <1>1, <1>2, <1>3, <1>4 DEF Elems

(* pop_front splits the entries into the front one and the others. *)
LEMMA HeadTailElems ==
  ASSUME NEW S, NEW s \in Seq(S), s # <<>>
  PROVE  /\ Head(s) \in S
         /\ Tail(s) \in Seq(S)
         /\ Elems(s) = Elems(Tail(s)) \cup {Head(s)}
<1>1. /\ Head(s) \in S /\ Tail(s) \in Seq(S)
      /\ Len(s) \in Nat \ {0} /\ Len(Tail(s)) = Len(s) - 1
  OBVIOUS
<1>2. ASSUME NEW i \in DOMAIN Tail(s) PROVE Tail(s)[i] \in Elems(s)
  <2>1. i + 1 \in DOMAIN s /\ Tail(s)[i] = s[i + 1]
    BY <1>1
  <2> QED BY <2>1 DEF Elems
<1>3. Head(s) \in Elems(s)
  <2>1. 1 \in DOMAIN s /\ Head(s) = s[1]
    BY <1>1
  <2> QED BY <2>1 DEF Elems
<1>4. ASSUME NEW i \in DOMAIN s PROVE s[i] \in Elems(Tail(s)) \cup {Head(s)}
  <2>1. CASE i = 1
    BY <2>1
  <2>2. CASE i # 1
    <3>1. i - 1 \in DOMAIN Tail(s) /\ Tail(s)[i - 1] = s[i]
      BY <2>2, <1>1
    <3> QED BY <3>1 DEF Elems
  <2> QED BY <2>1, <2>2
<1> QED BY <1>1, <1>2, <1>3, <1>4 DEF Elems

(* retain keeps exactly the entries of the other tasks.  The position of an *)
(* entry among the kept ones is injective, hence (there are as many kept    *)
(* entries as positions) every position has an entry and every entry one.   *)
LEMMA RetainElems ==
  ASSUME NEW S, NEW s \in Seq(S), NEW t
  PROVE  /\ Retain(s, t) \in Seq(S)
         /\ Elems(Retain(s, t)) = Elems(s) \ {t}
<1> DEFINE keep    == {i \in DOMAIN s : s[i] # t}
           upto(j) == {k \in keep : k <= j}
           rank    == [j \in keep |-> Cardinality(upto(j))]
           n       == Cardinality(keep)
<1>1. IsFiniteSet(keep) /\ n \in Nat /\ keep \subseteq Nat
  <2>1. DOMAIN s = 1..Len(s) /\ Len(s) \in Nat
    OBVIOUS
  <2>2. IsFiniteSet(1..Len(s))
    BY <2>1, FS_Interval
  <2>3. keep \in SUBSET (1..Len(s))
    BY <2>1
  <2>4. IsFiniteSet(keep)
    BY <2>2, <2>3, FS_Subset
  <2> QED BY <2>1, <2>3, <2>4, FS_CardinalityType
<1>2. ASSUME NEW j \in keep
      PROVE  IsFiniteSet(upto(j)) /\ rank[j] = Cardinality(upto(j)) /\ rank[j] \in 1..n
  <2>1. upto(j) \in SUBSET keep /\ upto(j) # {}
    BY <1>1
  <2>2. IsFiniteSet(upto(j)) /\ Cardinality(upto(j)) <= n
    BY <1>1, <2>1, FS_Subset
  <2>3. Cardinality(upto(j)) \in Nat /\ Cardinality(upto(j)) # 0
    BY <2>1, <2>2, FS_CardinalityType, FS_EmptySet
  <2> QED BY <1>1, <2>2, <2>3
<1>3. ASSUME NEW j \in keep, NEW k \in keep, j < k PROVE rank[j] < rank[k]
  <2>1. upto(j) \in SUBSET upto(k) /\ k \in upto(k) /\ k \notin upto(j)
    BY <1>1, <1>3
  <2> HIDE DEF upto, rank
  <2>2. Cardinality(upto(j)) <= Cardinality(upto(k))
        /\ Cardinality(upto(j)) # Cardinality(upto(k))
    BY ZenonT(60), <1>2, <2>1, FS_Subset
  <2> HIDE DEF keep, n
  <2>3. rank[j] \in Nat /\ rank[k] \in Nat
    BY <1>1, <1>2
  <2> QED BY <1>2, <2>2, <2>3
<1>4. rank \in Injection(keep, 1..n)
  <2>1. rank \in [keep -> 1..n]
    BY <1>2
  <2> HIDE DEF rank, keep, upto, n
  <2>2. ASSUME NEW j \in keep, NEW k \in keep, rank[j] = rank[k] PROVE j = k
    <3>1. j \in Nat /\ k \in Nat /\ rank[j] \in Nat /\ rank[k] \in Nat
      BY <1>1, <1>2
    <3> QED BY <1>3, <2>2, <3>1
  <2> QED BY <2>1, <2>2 DEF Injection, IsInjective
<1>5. \A i \in 1..n : \E j \in keep : rank[j] = i
  <2>1. IsFiniteSet(1..n) /\ Cardinality(1..n) = n
    BY <1>1, FS_Interval
  <2>2. rank \in Surjection(keep, 1..n)
    BY <1>4, <2>1, FS_Injection
  <2> QED BY SMTT(60), <2>2 DEF Surjection
<1> DEFINE nth(i) == CHOOSE j \in keep : Cardinality(upto(j)) = i
<1>6. ASSUME NEW i \in 1..n PROVE nth(i) \in keep /\ rank[nth(i)] = i
  <2>1. PICK j \in keep : rank[j] = i
    BY ZenonT(60), <1>5
  <2>2. Cardinality(upto(j)) = i
    BY <2>1, <1>2
  <2>3. nth(i) \in keep /\ Cardinality(upto(nth(i))) = i
    <3> HIDE DEF upto, keep
    <3> QED BY <2>2
  <2> QED BY <2>3, <1>2
<1>7. Retain(s, t) = [i \in 1..n |-> s[nth(i)]]
  BY DEF Retain
<1>8. ASSUME NEW i \in 1..n PROVE s[nth(i)] \in S /\ s[nth(i)] \in Elems(s) \ {t}
  <2>1. nth(i) \in keep
    BY ZenonT(60), <1>6
  <2> HIDE DEF nth, n
  <2> QED BY <2>1 DEF Elems
<1>9. Retain(s, t) \in Seq(S) /\ DOMAIN Retain(s, t) = 1..n
  <2> HIDE DEF nth, n
  <2> QED BY <1>1, <1>7, <1>8
<1>10. ASSUME NEW k \in keep PROVE s[k] \in Elems(Retain(s, t))
  <2>1. rank[k] \in 1..n
    BY <1>2
  <2>2. nth(rank[k]) \in keep /\ rank[nth(rank[k])] = rank[k]
    <3> HIDE DEF nth, rank, n, keep
    <3> QED BY <1>6, <2>1
  <2>3. nth(rank[k]) = k
    <3> HIDE DEF nth, rank, n, keep
    <3> QED BY <1>4, <2>2 DEF Injection, IsInjective
  <2> HIDE DEF nth, rank, n, keep
  <2>4. Retain(s, t)[rank[k]] = s[k]
    BY <2>1, <2>3, <1>7
  <2> QED BY <2>1, <2>4, <1>9 DEF Elems
<1>11. Elems(Retain(s, t)) \subseteq Elems(s) \ {t}
  <2> HIDE DEF nth, rank, n, keep
  <2>1. \A i \in 1..n : Retain(s, t)[i] = s[nth(i)]
    BY <1>7
  <2> QED BY <1>9, <2>1, <1>8 DEF Elems
<1>12. Elems(s) \ {t} \subseteq Elems(Retain(s, t))
  BY <1>10 DEF Elems
<1> QED BY <1>9, <1>11, <1>12
------------------------------------------------------------------------------
(* What the steps of the wait-queue operations do.                         *)

USE ZenonT(60)

(* The tasks a notifier at step l with h in hand will still look at and, if   *)
(* they sleep, wake: not the one it has just seen awake.                      *)
Wakes(l, h) == Elems(IF l \in {"consume", "stale", "skip"} THEN Tail(h) ELSE h)

(* The steps of notify_all. *)
AllPc == {"none", "each", "clear_all", "cas_all", "skip", "woke"}

(* What a notifier has in hand at each of its positions. *)
HandFits(l, h) ==
    /\ l \in {"none", "pop", "woke", "empty"} => h = <<>>
    /\ l \notin {"none", "pop", "woke", "empty", "each"} => h # <<>>
    /\ l \in {"consume", "stale", "clear_one", "cas_one"} => Tail(h) = <<>>

(* notify_one holds the queue's lock while it looks for a target. *)
NotifierInv ==
    \A a \in Agent :
        /\ HandFits(npc[a], hand[a])
        /\ npc[a] \in {"pop", "consume", "stale"} => wq_lock[nq[a]] = a

WQInv == WQTypeOK /\ NotifierInv

(* a step of a that touches no queue but q, no other notifier and no lock of *)
(* another agent, and that puts nobody else to sleep.                        *)
Local(a, q) ==
    /\ \A p \in Queue \ {q} : queue'[p] = queue[p] /\ wq_lock'[p] = wq_lock[p]
    /\ \A p \in Queue : wq_lock[p] \notin {None, a} => wq_lock'[p] = wq_lock[p]
    /\ \A b \in Agent \ {a} : npc'[b] = npc[b] /\ hand'[b] = hand[b] /\ nq'[b] = nq[b]
    /\ \A t \in Task : state'[t] = "Blocked" => state[t] = "Blocked" \/ t = a

(* An assignment of the right type to one element of a function. *)
LEMMA Assign ==
  ASSUME NEW S, NEW T, NEW f \in [S -> T], NEW s, NEW v \in T
  PROVE  [f EXCEPT ![s] = v] \in [S -> T]
<1>1. \A x \in S : f[x] \in T
  OBVIOUS
<1>2. \A x \in S : (IF x = s THEN v ELSE f[x]) \in T
  BY <1>1
<1> QED BY <1>2

(* A step of notifier a that changes its position, its hand, its queue q and   *)
(* that queue's lock, and puts nobody to sleep.                                *)
Moves(a, q, l, h, x) ==
    /\ l \in NotifyPc /\ h \in Seq(Task) /\ x \in Agent \cup {None}
    /\ npc' = [npc EXCEPT ![a] = l] /\ hand' = [hand EXCEPT ![a] = h] /\ HandFits(l, h)
    /\ nq' = [nq EXCEPT ![a] = q] /\ wq_lock' = [wq_lock EXCEPT ![q] = x]
    /\ x = wq_lock[q] \/ (wq_lock[q] \in {None, a} /\ x \in {None, a})
    /\ l \in {"pop", "consume", "stale"} => x = a
    /\ queue' \in [Queue -> Seq(Task)] /\ \A p \in Queue \ {q} : queue'[p] = queue[p]
    /\ in_wait_queue' \in [Task -> BOOLEAN] /\ state' \in [Task -> TaskState]
    /\ \A t \in Task : state'[t] = "Blocked" => state[t] = "Blocked"

(* Such a step keeps the types and the positions of all notifiers. *)
LEMMA NotifierStep ==
  ASSUME WQInv, NEW a \in Agent, NEW q \in Queue, NEW l, NEW h, NEW x, Moves(a, q, l, h, x)
  PROVE  /\ WQInv' /\ Local(a, q)
         /\ npc'[a] = l /\ hand'[a] = h
<1>m. /\ l \in NotifyPc /\ h \in Seq(Task) /\ x \in Agent \cup {None}
      /\ npc' = [npc EXCEPT ![a] = l] /\ hand' = [hand EXCEPT ![a] = h] /\ HandFits(l, h)
      /\ nq' = [nq EXCEPT ![a] = q] /\ wq_lock' = [wq_lock EXCEPT ![q] = x]
      /\ x = wq_lock[q] \/ (wq_lock[q] \in {None, a} /\ x \in {None, a})
      /\ l \in {"pop", "consume", "stale"} => x = a
      /\ queue' \in [Queue -> Seq(Task)] /\ \A p \in Queue \ {q} : queue'[p] = queue[p]
      /\ in_wait_queue' \in [Task -> BOOLEAN] /\ state' \in [Task -> TaskState]
      /\ \A t \in Task : state'[t] = "Blocked" => state[t] = "Blocked"
  BY DEF Moves
<1>t. /\ npc \in [Agent -> NotifyPc] /\ hand \in [Agent -> Seq(Task)] /\ nq \in [Agent -> Queue]
      /\ wq_lock \in [Queue -> Agent \cup {None}]
  BY DEF WQInv, WQTypeOK
<1>1. WQTypeOK'
  <2>1. npc' \in [Agent -> NotifyPc] /\ hand' \in [Agent -> Seq(Task)]
        /\ nq' \in [Agent -> Queue]
        /\ wq_lock' \in [Queue -> Agent \cup {None}]
    BY <1>m, <1>t, Assign
  <2> QED BY <1>m, <2>1 DEF WQTypeOK
<1>2. \A b \in Agent \ {a} : npc'[b] = npc[b] /\ hand'[b] = hand[b] /\ nq'[b] = nq[b]
  BY <1>m, <1>t
<1>3. npc'[a] = l /\ hand'[a] = h /\ nq'[a] = q /\ wq_lock'[q] = x
  BY <1>m, <1>t
<1>4. \A p \in Queue \ {q} : wq_lock'[p] = wq_lock[p]
  BY <1>m, <1>t
<1>5. \A p \in Queue : wq_lock[p] \notin {None, a} => wq_lock'[p] = wq_lock[p]
  BY <1>m, <1>3, <1>4
<1>6. NotifierInv'
  <2> SUFFICES ASSUME NEW b \in Agent
               PROVE  /\ HandFits(npc'[b], hand'[b])
                      /\ npc'[b] \in {"pop", "consume", "stale"} => wq_lock'[nq'[b]] = b
    BY DEF NotifierInv, HandFits
  <2>1. CASE b = a
    BY <1>m, <1>3, <2>1
  <2>2. CASE b # a
    <3>1. /\ HandFits(npc[b], hand[b]) /\ nq[b] \in Queue
          /\ npc[b] \in {"pop", "consume", "stale"} => wq_lock[nq[b]] = b
      BY <1>t DEF WQInv, NotifierInv
    <3> QED BY <1>2, <1>5, <2>2, <3>1, NoneIsNoAgent
  <2> QED BY <2>1, <2>2
<1> QED BY <1>m, <1>1, <1>2, <1>3, <1>4, <1>5, <1>6 DEF WQInv, Local

(* A step of a notifier that leaves the queues alone, and its sleepers. *)
Notified(a) ==
    /\ \A t \in Task : state'[t] = "Blocked" /\ t \in Wakes(npc[a], hand[a])
                          => t \in Wakes(npc'[a], hand'[a])
    /\ \A t \in Task, q \in Queue : state'[t] = "Blocked" /\ t \in Entries(q)
                          => t \in Entries(q)' \/ t \in Wakes(npc'[a], hand'[a])
    /\ npc[a] \in AllPc => npc'[a] \in AllPc \ {"none"} /\ queue' = queue /\ wq_lock' = wq_lock

(* What such a step does to the notifier's position, its hand and the lock. *)
Effect(a, q, l, h, x) ==
    /\ l \in NotifyPc /\ h \in Seq(Task) /\ x \in Agent \cup {None}
    /\ npc' = [npc EXCEPT ![a] = l] /\ hand' = [hand EXCEPT ![a] = h] /\ HandFits(l, h)
    /\ nq' = nq /\ wq_lock' = [wq_lock EXCEPT ![q] = x]
    /\ x = wq_lock[q] \/ (wq_lock[q] \in {None, a} /\ x \in {None, a})
    /\ l \in {"pop", "consume", "stale"} => x = a
    /\ queue' \in [Queue -> Seq(Task)] /\ \A p \in Queue \ {q} : queue'[p] = queue[p]
    /\ in_wait_queue' \in [Task -> BOOLEAN] /\ state' \in [Task -> TaskState]
    /\ \A t \in Task : state'[t] = "Blocked" =>
          /\ state[t] = "Blocked"
          /\ t \in Wakes(npc[a], hand[a]) => t \in Wakes(l, h)
          /\ t \in Entries(q) => t \in Elems(queue'[q]) \/ t \in Wakes(l, h)
    /\ npc[a] \in AllPc => l \in AllPc \ {"none"} /\ queue' = queue /\ wq_lock' = wq_lock

(* A notifier touches its queue only; an entry of a sleeper leaves the queue    *)
(* only for a hand that will wake it, and the sleeper leaves that hand awake.   *)
LEMMA NotifyStepEffect ==
  ASSUME WQInv, NEW a \in Agent, NotifyStep(a)
  PROVE  WQInv' /\ Local(a, nq[a]) /\ Notified(a) /\ nq' = nq
<1>t. /\ state \in [Task -> TaskState] /\ in_wait_queue \in [Task -> BOOLEAN]
      /\ queue \in [Queue -> Seq(Task)] /\ wq_lock \in [Queue -> Agent \cup {None}]
      /\ npc \in [Agent -> NotifyPc] /\ nq \in [Agent -> Queue] /\ hand \in [Agent -> Seq(Task)]
      /\ hand[a] \in Seq(Task) /\ HandFits(npc[a], hand[a])
      /\ npc[a] \in {"pop", "consume", "stale"} => wq_lock[nq[a]] = a
  BY DEF WQInv, WQTypeOK, NotifierInv
<1>e. Elems(<<>>) = {} /\ <<>> \in Seq(Task)
  BY SMT DEF Elems
<1>q. PICK q \in Queue : q = nq[a]
  BY <1>t
<1>l. wq_lock = [wq_lock EXCEPT ![q] = wq_lock[q]] /\ wq_lock[q] \in Agent \cup {None}
  BY <1>t
<1>h. hand = [hand EXCEPT ![a] = hand[a]] /\ nq = [nq EXCEPT ![a] = q]
  BY <1>t, <1>q
<1>s. ASSUME NEW l, NEW h, NEW x, Effect(a, q, l, h, x)
      PROVE  WQInv' /\ Local(a, nq[a]) /\ Notified(a) /\ nq' = nq
  <2>0. /\ l \in NotifyPc /\ h \in Seq(Task) /\ x \in Agent \cup {None}
        /\ npc' = [npc EXCEPT ![a] = l] /\ hand' = [hand EXCEPT ![a] = h] /\ HandFits(l, h)
        /\ nq' = nq /\ wq_lock' = [wq_lock EXCEPT ![q] = x]
        /\ x = wq_lock[q] \/ (wq_lock[q] \in {None, a} /\ x \in {None, a})
        /\ l \in {"pop", "consume", "stale"} => x = a
        /\ queue' \in [Queue -> Seq(Task)] /\ \A p \in Queue \ {q} : queue'[p] = queue[p]
        /\ in_wait_queue' \in [Task -> BOOLEAN] /\ state' \in [Task -> TaskState]
    BY <1>s DEF Effect
  <2>1. \A t \in Task : state'[t] = "Blocked" =>
          /\ state[t] = "Blocked"
          /\ t \in Wakes(npc[a], hand[a]) => t \in Wakes(l, h)
          /\ t \in Entries(q) => t \in Elems(queue'[q]) \/ t \in Wakes(l, h)
    BY <1>s DEF Effect
  <2>2. nq' = [nq EXCEPT ![a] = q]
    BY <1>h, <2>0
  <2>m. Moves(a, q, l, h, x)
    BY <2>0, <2>1, <2>2 DEF Moves
  <2>3. /\ WQInv' /\ Local(a, q)
        /\ npc'[a] = l /\ hand'[a] = h
    BY <2>m, NotifierStep
  <2>4. ASSUME NEW t \in Task, NEW p \in Queue, state'[t] = "Blocked", t \in Entries(p)
        PROVE  t \in Entries(p)' \/ t \in Wakes(l, h)
    BY <2>0, <2>1, <2>4 DEF Entries
  <2>5. npc[a] \in AllPc => l \in AllPc \ {"none"} /\ queue' = queue /\ wq_lock' = wq_lock
    BY <1>s DEF Effect
  <2> QED BY <1>q, <2>0, <2>1, <2>3, <2>4, <2>5 DEF Notified
<1>1. CASE NotifyOneEmpty(a)
  <2>1. /\ npc[a] = "pop" /\ npc' = [npc EXCEPT ![a] = "empty"] /\ wq_lock[q] = a
        /\ wq_lock' = [wq_lock EXCEPT ![q] = None]
           /\ UNCHANGED <<state, in_wait_queue, queue, nq, hand>>
    BY <1>1, <1>q DEF NotifyOneEmpty, UnlockQueue
  <2>2. "empty" \in NotifyPc /\ "pop" \notin AllPc /\ HandFits("empty", hand[a])
        /\ Wakes("empty", hand[a]) = Wakes("pop", hand[a])
    BY <1>t, <2>1 DEF NotifyPc, AllPc, HandFits, Wakes
  <2>e. Effect(a, q, "empty", hand[a], None)
    BY <1>t, <1>h, <2>1, <2>2 DEF Effect, Entries
  <2> QED BY <1>s, <2>e
<1>2. CASE NotifyOnePop(a)
  <2>1. /\ npc[a] = "pop" /\ queue[q] # <<>> /\ wq_lock[q] = a /\ hand[a] = <<>>
        /\ queue' = [queue EXCEPT ![q] = Tail(queue[q])]
        /\ hand' = [hand EXCEPT ![a] = <<Head(queue[q])>>]
        /\ UNCHANGED <<state, in_wait_queue, nq>>
    BY <1>t, <1>2, <1>q DEF NotifyOnePop, HandFits
  <2>2. PICK u \in Task : u = Head(queue[q])
    BY <1>t, <2>1, HeadTailElems
  <2>3. Tail(queue[q]) \in Seq(Task) /\ Entries(q) = Elems(Tail(queue[q])) \cup {u}
    BY <1>t, <2>1, <2>2, HeadTailElems DEF Entries
  <2>4. queue' \in [Queue -> Seq(Task)] /\ queue'[q] = Tail(queue[q])
        /\ \A p \in Queue \ {q} : queue'[p] = queue[p]
    BY <1>t, <2>1, <2>3, Assign
  <2>h. PICK h : h = <<u>>
    OBVIOUS
  <2>5. h \in Seq(Task) /\ h = <<u>> /\ h # <<>> /\ Tail(h) = <<>> /\ u \in Elems(h)
    <3>1. h \in Seq(Task) /\ h # <<>> /\ Len(h) = 1 /\ h[1] = u
      BY SMT, <2>h
    <3>2. Tail(h) = <<>>
      BY SMT, <2>h
    <3>3. u \in Elems(h)
      BY SMT, <3>1 DEF Elems
    <3> QED BY <2>h, <3>1, <3>2, <3>3
  <2>6. Wakes(npc[a], hand[a]) = {}
    BY <1>e, <2>1 DEF Wakes
  <2>7. CASE state[u] = "Blocked"
    <3>1. npc' = [npc EXCEPT ![a] = "clear_one"] /\ wq_lock' = [wq_lock EXCEPT ![q] = None]
      BY <1>2, <1>q, <2>2, <2>7 DEF NotifyOnePop
    <3>2. "clear_one" \in NotifyPc /\ "pop" \notin AllPc /\ HandFits("clear_one", h)
          /\ u \in Wakes("clear_one", h)
      BY <2>5 DEF NotifyPc, AllPc, HandFits, Wakes
    <3>e. Effect(a, q, "clear_one", h, None)
      BY <1>t, <2>1, <2>2, <2>3, <2>4, <2>5, <2>6, <3>1, <3>2 DEF Effect, Entries
    <3> QED BY <1>s, <3>e
  <2>8. CASE state[u] # "Blocked"
    <3>1. PICK l \in {"consume", "stale"} : npc' = [npc EXCEPT ![a] = l] /\ wq_lock' = wq_lock
      BY <1>2, <1>q, <2>2, <2>8 DEF NotifyOnePop
    <3>2. l \in NotifyPc /\ "pop" \notin AllPc /\ HandFits(l, h)
      BY <2>5, <3>1 DEF NotifyPc, AllPc, HandFits
    <3>3. \A t \in Task : state'[t] = "Blocked" => t # u
      BY <2>1, <2>8
    <3>e. Effect(a, q, l, h, a)
      BY <1>l, <1>t, <2>1, <2>2, <2>3, <2>4, <2>5, <2>6, <3>1, <3>2, <3>3 DEF Effect, Entries
    <3> QED BY <1>s, <3>e
  <2> QED BY <2>7, <2>8
<1>3. CASE NotifyOneConsume(a) \/ NotifyOneStale(a) \/ NotifyAllSkip(a)
  <2>1. hand[a] # <<>> /\ npc[a] \in {"consume", "stale", "skip"}
        /\ UNCHANGED <<state, queue, nq>>
    BY <1>t, <1>3 DEF HandFits, NotifyOneConsume, NotifyOneStale, NotifyAllSkip
  <2>2. PICK u \in Task : u = Head(hand[a])
    BY <1>t, <2>1, HeadTailElems
  <2>3. in_wait_queue' = [in_wait_queue EXCEPT ![u] = FALSE]
    BY <1>3, <2>2 DEF NotifyOneConsume, NotifyOneStale, NotifyAllSkip
  <2>4. in_wait_queue' \in [Task -> BOOLEAN] /\ Tail(hand[a]) \in Seq(Task)
    BY <1>t, <2>1, <2>3, Assign, HeadTailElems
  <2>5. Wakes(npc[a], hand[a]) = Elems(Tail(hand[a]))
    BY <2>1 DEF Wakes
  <2>6. CASE NotifyAllSkip(a)
    <3>1. npc[a] = "skip" /\ npc' = [npc EXCEPT ![a] = "each"]
          /\ hand' = [hand EXCEPT ![a] = Tail(hand[a])] /\ UNCHANGED wq_lock
      BY <2>6 DEF NotifyAllSkip
    <3>2. /\ "each" \in NotifyPc /\ "each" \in AllPc \ {"none"}
             /\ HandFits("each", Tail(hand[a]))
          /\ Wakes("each", Tail(hand[a])) = Elems(Tail(hand[a]))
      BY DEF NotifyPc, AllPc, HandFits, Wakes
    <3>e. Effect(a, q, "each", Tail(hand[a]), wq_lock[q])
      BY <1>l, <1>t, <2>1, <2>4, <2>5, <3>1, <3>2 DEF Effect, Entries
    <3> QED BY <1>s, <3>e
  <2>7. CASE NotifyOneConsume(a) \/ NotifyOneStale(a)
    <3>1. npc[a] \in {"consume", "stale"} /\ Tail(hand[a]) = <<>>
          /\ hand' = [hand EXCEPT ![a] = <<>>]
      BY <1>t, <2>7 DEF NotifyOneConsume, NotifyOneStale, HandFits
    <3>2. wq_lock[q] = a /\ npc[a] \notin AllPc
      BY <1>t, <1>q, <3>1 DEF AllPc
    <3>3. PICK l \in {"woke", "pop"}, x \in {None, a} :
             npc' = [npc EXCEPT ![a] = l] /\ wq_lock' = [wq_lock EXCEPT ![q] = x]
             /\ (l = "pop" => x = a)
      BY <1>l, <1>q, <2>7, <3>2 DEF NotifyOneConsume, NotifyOneStale, UnlockQueue
    <3>4. l \in NotifyPc /\ HandFits(l, <<>>) /\ Wakes(l, <<>>) = Elems(Tail(hand[a]))
      BY <3>1, <3>3 DEF NotifyPc, HandFits, Wakes
    <3>5. l \notin {"consume", "stale"}
      BY <3>3
    <3>e. Effect(a, q, l, <<>>, x)
      BY <1>e, <1>t, <2>1, <2>4, <2>5, <3>1, <3>2, <3>3, <3>4, <3>5 DEF Effect, Entries
    <3> QED BY <1>s, <3>e
  <2> QED BY <1>3, <2>6, <2>7
<1>4. CASE NotifyAllEach(a)
  <2>1. npc[a] = "each" /\ UNCHANGED <<state, in_wait_queue, queue, wq_lock, nq, hand>>
        /\ Wakes(npc[a], hand[a]) = Elems(hand[a])
    BY <1>4 DEF NotifyAllEach, Wakes
  <2>2. CASE hand[a] = <<>>
    <3>1. npc' = [npc EXCEPT ![a] = "woke"] /\ "woke" \in NotifyPc
          /\ "woke" \in AllPc \ {"none"}
          /\ HandFits("woke", hand[a]) /\ Wakes("woke", hand[a]) = Elems(hand[a])
      BY <1>4, <2>2 DEF NotifyAllEach, NotifyPc, AllPc, HandFits, Wakes
    <3>2. "woke" \notin {"pop", "consume", "stale"}
      OBVIOUS
    <3>e. Effect(a, q, "woke", hand[a], wq_lock[q])
      BY <1>h, <1>l, <1>t, <2>1, <3>1, <3>2 DEF Effect, Entries
    <3> QED BY <1>s, <3>e
  <2>3. CASE hand[a] # <<>> /\ state[Head(hand[a])] = "Blocked"
    <3>1. npc' = [npc EXCEPT ![a] = "clear_all"] /\ "clear_all" \in NotifyPc
          /\ "clear_all" \in AllPc \ {"none"}
          /\ HandFits("clear_all", hand[a]) /\ Wakes("clear_all", hand[a]) = Elems(hand[a])
      BY <1>4, <2>3 DEF NotifyAllEach, NotifyPc, AllPc, HandFits, Wakes
    <3>2. "clear_all" \notin {"pop", "consume", "stale"}
      OBVIOUS
    <3>e. Effect(a, q, "clear_all", hand[a], wq_lock[q])
      BY <1>h, <1>l, <1>t, <2>1, <3>1, <3>2 DEF Effect, Entries
    <3> QED BY <1>s, <3>e
  <2>4. CASE hand[a] # <<>> /\ state[Head(hand[a])] # "Blocked"
    <3>1. npc' = [npc EXCEPT ![a] = "skip"] /\ "skip" \in NotifyPc
          /\ "skip" \in AllPc \ {"none"}
          /\ HandFits("skip", hand[a]) /\ Wakes("skip", hand[a]) = Elems(Tail(hand[a]))
      BY <1>4, <2>4 DEF NotifyAllEach, NotifyPc, AllPc, HandFits, Wakes
    <3>2. Elems(hand[a]) = Elems(Tail(hand[a])) \cup {Head(hand[a])}
      BY <1>t, <2>4, HeadTailElems
    <3>3. \A t \in Task : state'[t] = "Blocked" =>
             state[t] = "Blocked"
             /\ (t \in Wakes(npc[a], hand[a]) => t \in Wakes("skip", hand[a]))
      BY <2>1, <2>4, <3>1, <3>2
    <3>4. "skip" \notin {"pop", "consume", "stale"}
      OBVIOUS
    <3>e. Effect(a, q, "skip", hand[a], wq_lock[q])
      BY <1>h, <1>l, <1>t, <2>1, <3>1, <3>3, <3>4 DEF Effect, Entries
    <3> QED BY <1>s, <3>e
  <2> QED BY <2>2, <2>3, <2>4
<1>5. CASE UnblockClear(a)
  <2>1. PICK l \in {"cas_one", "cas_all"} :
           npc' = [npc EXCEPT ![a] = l] /\ (npc[a] = "clear_all" <=> l = "cas_all")
    BY <1>5 DEF UnblockClear
  <2>2. /\ npc[a] \in {"clear_one", "clear_all"}
           /\ UNCHANGED <<state, queue, wq_lock, nq, hand>>
        /\ in_wait_queue' = [in_wait_queue EXCEPT ![Head(hand[a])] = FALSE]
    BY <1>5 DEF UnblockClear
  <2>3. in_wait_queue' \in [Task -> BOOLEAN]
    BY <1>t, <2>2, Assign
  <2>4. l \in NotifyPc /\ Wakes(npc[a], hand[a]) = Wakes(l, hand[a]) /\ HandFits(l, hand[a])
        /\ l \notin {"pop", "consume", "stale"}
    BY <1>t, <2>1, <2>2 DEF NotifyPc, Wakes, HandFits
  <2>5. npc[a] \in AllPc => l \in AllPc \ {"none"}
    BY <2>1, <2>2 DEF AllPc
  <2>e. Effect(a, q, l, hand[a], wq_lock[q])
    BY <1>h, <1>l, <1>t, <2>1, <2>2, <2>3, <2>4, <2>5 DEF Effect, Entries
  <2> QED BY <1>s, <2>e
<1>6. CASE UnblockCas(a)
  <2>0. hand[a] # <<>> /\ npc[a] \in {"cas_one", "cas_all"}
        /\ UNCHANGED <<in_wait_queue, queue, wq_lock, nq>>
    BY <1>t, <1>6 DEF HandFits, UnblockCas
  <2>1. PICK t \in Task : t = Head(hand[a])
    BY <1>t, <2>0, HeadTailElems
  <2>2. Tail(hand[a]) \in Seq(Task) /\ Elems(hand[a]) = Elems(Tail(hand[a])) \cup {t}
    BY <1>t, <2>0, <2>1, HeadTailElems
  <2>3. PICK l \in {"woke", "each"} : npc' = [npc EXCEPT ![a] = l]
        /\ (l = "woke" <=> npc[a] = "cas_one")
    BY <1>6 DEF UnblockCas
  <2>4. PICK y \in TaskState : state' = [state EXCEPT ![t] = y] /\ y # "Blocked"
    <3>1. PICK y : y = IF state[t] = "Blocked" THEN "Ready" ELSE state[t]
      OBVIOUS
    <3>2. y \in TaskState /\ y # "Blocked"
      BY <1>t, <3>1 DEF TaskState
    <3> QED BY <1>6, <2>1, <3>1, <3>2 DEF UnblockCas
  <2>5. state' \in [Task -> TaskState] /\ state'[t] # "Blocked"
        /\ \A u \in Task \ {t} : state'[u] = state[u]
    BY <1>t, <2>4, Assign
  <2>6. /\ l \in NotifyPc /\ Wakes(npc[a], hand[a]) = Elems(hand[a])
        /\ Wakes(l, Tail(hand[a])) = Elems(Tail(hand[a]))
           /\ l \notin {"pop", "consume", "stale"}
    BY <2>0, <2>3 DEF NotifyPc, Wakes
  <2>7. HandFits(l, Tail(hand[a])) /\ (npc[a] \in AllPc => l \in AllPc \ {"none"})
    BY <1>t, <2>0, <2>3 DEF HandFits, AllPc
  <2>8. \A u \in Task : state'[u] = "Blocked" =>
          state[u] = "Blocked"
          /\ (u \in Wakes(npc[a], hand[a]) => u \in Wakes(l, Tail(hand[a])))
    BY <2>2, <2>5, <2>6
  <2>9. hand' = [hand EXCEPT ![a] = Tail(hand[a])]
    BY <1>6 DEF UnblockCas
  <2>e. Effect(a, q, l, Tail(hand[a]), wq_lock[q])
    BY <1>l, <1>t, <2>0, <2>2, <2>3, <2>5, <2>6, <2>7, <2>8, <2>9 DEF Effect, Entries
  <2> QED BY <1>s, <2>e
<1> QED BY <1>1, <1>2, <1>3, <1>4, <1>5, <1>6 DEF NotifyStep

(* notify_all has all the entries in hand afterwards. *)
LEMMA NotifyAllEffect ==
  ASSUME WQInv, NEW a \in Agent, NEW q \in Queue, notify_all(a, q)
  PROVE  /\ WQInv' /\ Local(a, q) /\ npc'[a] = "each"
         /\ Wakes(npc'[a], hand'[a]) = Entries(q)
<1>t. /\ state \in [Task -> TaskState] /\ in_wait_queue \in [Task -> BOOLEAN]
      /\ queue \in [Queue -> Seq(Task)] /\ wq_lock \in [Queue -> Agent \cup {None}]
  BY DEF WQInv, WQTypeOK
<1>1. /\ npc' = [npc EXCEPT ![a] = "each"] /\ hand' = [hand EXCEPT ![a] = queue[q]]
      /\ nq' = [nq EXCEPT ![a] = q] /\ queue' = [queue EXCEPT ![q] = <<>>]
      /\ UNCHANGED <<state, in_wait_queue, wq_lock>>
  BY DEF notify_all
<1>2. wq_lock = [wq_lock EXCEPT ![q] = wq_lock[q]] /\ wq_lock[q] \in Agent \cup {None}
  BY <1>t
<1>3. <<>> \in Seq(Task)
  BY SMT
<1>4. queue' \in [Queue -> Seq(Task)] /\ \A p \in Queue \ {q} : queue'[p] = queue[p]
  BY <1>t, <1>1, <1>3, Assign
<1>5. "each" \in NotifyPc /\ HandFits("each", queue[q])
      /\ "each" \notin {"pop", "consume", "stale"}
  BY DEF NotifyPc, HandFits
<1>6. Moves(a, q, "each", queue[q], wq_lock[q])
  BY <1>t, <1>1, <1>2, <1>4, <1>5 DEF Moves
<1>7. WQInv' /\ Local(a, q) /\ npc'[a] = "each" /\ hand'[a] = queue[q]
  BY <1>6, NotifierStep
<1>8. Wakes("each", queue[q]) = Entries(q)
  BY DEF Wakes, Entries
<1> QED BY <1>7, <1>8

(* notify_one starts with the queue's lock. *)
LEMMA NotifyOneEffect ==
  ASSUME WQInv, NEW a \in Agent, NEW q \in Queue, notify_one(a, q)
  PROVE  WQInv' /\ Local(a, q) /\ npc'[a] = "pop" /\ hand' = hand /\ queue' = queue
<1>t. /\ state \in [Task -> TaskState] /\ in_wait_queue \in [Task -> BOOLEAN]
      /\ queue \in [Queue -> Seq(Task)] /\ hand \in [Agent -> Seq(Task)]
      /\ hand[a] \in Seq(Task) /\ HandFits(npc[a], hand[a])
  BY DEF WQInv, WQTypeOK, NotifierInv
<1>1. /\ npc' = [npc EXCEPT ![a] = "pop"] /\ npc[a] = "none" /\ wq_lock[q] = None
      /\ nq' = [nq EXCEPT ![a] = q] /\ wq_lock' = [wq_lock EXCEPT ![q] = a]
      /\ UNCHANGED <<state, in_wait_queue, queue, hand>>
  BY DEF notify_one, LockQueue
<1>2. hand = [hand EXCEPT ![a] = hand[a]]
  BY <1>t
<1>5. "pop" \in NotifyPc /\ HandFits("pop", hand[a])
  BY <1>t, <1>1 DEF NotifyPc, HandFits
<1>6. Moves(a, q, "pop", hand[a], a)
  BY <1>t, <1>1, <1>2, <1>5 DEF Moves
<1>7. WQInv' /\ Local(a, q) /\ npc'[a] = "pop"
  BY <1>6, NotifierStep
<1> QED BY <1>1, <1>7

(* The caller of a notify operation takes its result. *)
LEMMA NotifyReturnEffect ==
  ASSUME WQInv, NEW a \in Agent, NEW q, NotifyReturn(a)
  PROVE  WQInv' /\ Local(a, q) /\ npc'[a] = "none" /\ UNCHANGED <<queue, wq_lock, hand, state>>
<1>t. /\ state \in [Task -> TaskState] /\ in_wait_queue \in [Task -> BOOLEAN]
      /\ queue \in [Queue -> Seq(Task)] /\ wq_lock \in [Queue -> Agent \cup {None}]
      /\ hand \in [Agent -> Seq(Task)] /\ nq \in [Agent -> Queue]
      /\ hand[a] \in Seq(Task) /\ HandFits(npc[a], hand[a])
  BY DEF WQInv, WQTypeOK, NotifierInv
<1>1. /\ npc' = [npc EXCEPT ![a] = "none"] /\ npc[a] \in {"woke", "empty"}
      /\ UNCHANGED <<state, in_wait_queue, queue, wq_lock, nq, hand>>
  BY DEF NotifyReturn
<1>q. PICK p \in Queue : p = nq[a]
  BY <1>t
<1>2. /\ hand = [hand EXCEPT ![a] = hand[a]] /\ nq = [nq EXCEPT ![a] = p]
      /\ wq_lock = [wq_lock EXCEPT ![p] = wq_lock[p]] /\ wq_lock[p] \in Agent \cup {None}
  BY <1>t, <1>q
<1>5. "none" \in NotifyPc /\ HandFits("none", hand[a])
      /\ "none" \notin {"pop", "consume", "stale"}
  BY <1>t, <1>1 DEF NotifyPc, HandFits
<1>6. Moves(a, p, "none", hand[a], wq_lock[p])
  BY <1>t, <1>1, <1>2, <1>5 DEF Moves
<1>7. WQInv' /\ Local(a, p) /\ npc'[a] = "none"
  BY <1>6, NotifierStep
<1> QED BY <1>1, <1>7 DEF Local

(* A task that goes to sleep has put its entry into the queue. *)
LEMMA BlockedReschedEffect ==
  ASSUME WQInv, NEW t \in Task, NEW q \in Queue, blocked_resched(t, q), npc[t] \in AllPc
  PROVE  /\ WQInv' /\ Local(t, q) /\ UNCHANGED <<npc, hand>>
         /\ Entries(q)' = Entries(q) \cup {t} /\ state'[t] = "Blocked"
         /\ \A u \in Task \ {t} : state'[u] = state[u]
<1>t. /\ state \in [Task -> TaskState] /\ in_wait_queue \in [Task -> BOOLEAN]
      /\ queue \in [Queue -> Seq(Task)] /\ wq_lock \in [Queue -> Agent \cup {None}]
      /\ npc \in [Agent -> NotifyPc] /\ hand \in [Agent -> Seq(Task)] /\ nq \in [Agent -> Queue]
  BY DEF WQInv, WQTypeOK
<1>a. t \in Agent
  BY TaskIsAgent
<1>1. /\ state' = [state EXCEPT ![t] = "Blocked"]
         /\ in_wait_queue' = [in_wait_queue EXCEPT ![t] = TRUE]
      /\ queue' = [queue EXCEPT ![q] = Append(queue[q], t)]
      /\ wq_lock[q] = t /\ wq_lock' = [wq_lock EXCEPT ![q] = None]
         /\ UNCHANGED <<npc, nq, hand>>
  BY DEF blocked_resched, UnlockQueue, notifyVars
<1>2. Append(queue[q], t) \in Seq(Task) /\ Elems(Append(queue[q], t)) = Elems(queue[q]) \cup {t}
  BY <1>t, AppendElems
<1>3. "Blocked" \in TaskState
  BY DEF TaskState
<1>4. /\ state' \in [Task -> TaskState] /\ in_wait_queue' \in [Task -> BOOLEAN]
      /\ queue' \in [Queue -> Seq(Task)] /\ wq_lock' \in [Queue -> Agent \cup {None}]
  BY <1>t, <1>1, <1>2, <1>3, Assign
<1>5. \A p \in Queue \ {q} : queue'[p] = queue[p] /\ wq_lock'[p] = wq_lock[p]
  BY <1>t, <1>1
<1>6. queue'[q] = Append(queue[q], t) /\ wq_lock'[q] = None /\ state'[t] = "Blocked"
      /\ \A u \in Task \ {t} : state'[u] = state[u]
  BY <1>t, <1>1
<1>7. Local(t, q)
  <2>1. \A p \in Queue : wq_lock[p] \notin {None, t} => wq_lock'[p] = wq_lock[p]
    BY <1>1, <1>5
  <2> QED BY <1>1, <1>5, <1>6, <2>1 DEF Local
<1>8. WQTypeOK'
  BY <1>t, <1>1, <1>4 DEF WQTypeOK
<1>9. NotifierInv'
  <2> SUFFICES ASSUME NEW b \in Agent
               PROVE  /\ HandFits(npc[b], hand[b])
                      /\ npc[b] \in {"pop", "consume", "stale"} => wq_lock'[nq[b]] = b
    BY <1>1 DEF NotifierInv, HandFits
  <2>1. /\ HandFits(npc[b], hand[b]) /\ nq[b] \in Queue
        /\ npc[b] \in {"pop", "consume", "stale"} => wq_lock[nq[b]] = b
    BY <1>t DEF WQInv, NotifierInv
  <2>2. b = t => npc[b] \notin {"pop", "consume", "stale"}
    BY DEF AllPc
  <2>3. b # t /\ nq[b] = q => npc[b] \notin {"pop", "consume", "stale"}
    BY <1>1, <2>1
  <2> QED BY <1>5, <2>1, <2>2, <2>3
<1> QED BY <1>1, <1>2, <1>6, <1>7, <1>8, <1>9 DEF WQInv, Entries

(* cancel_events takes all entries of its caller out of the queue. *)
LEMMA CancelEventsEffect ==
  ASSUME WQInv, NEW t \in Task, NEW q \in Queue, cancel_events(t, q)
  PROVE  /\ WQInv' /\ Local(t, q) /\ UNCHANGED <<state, npc, hand, wq_lock>>
         /\ Entries(q)' = Entries(q) \ {t}
<1>t. /\ state \in [Task -> TaskState] /\ in_wait_queue \in [Task -> BOOLEAN]
      /\ queue \in [Queue -> Seq(Task)] /\ wq_lock \in [Queue -> Agent \cup {None}]
      /\ npc \in [Agent -> NotifyPc] /\ hand \in [Agent -> Seq(Task)] /\ nq \in [Agent -> Queue]
  BY DEF WQInv, WQTypeOK
<1>1. /\ queue' = [queue EXCEPT ![q] = Retain(queue[q], t)]
         /\ UNCHANGED <<state, wq_lock, npc, nq, hand>>
  BY DEF cancel_events, notifyVars
<1>2. in_wait_queue' \in [Task -> BOOLEAN]
  <2>1. PICK b \in BOOLEAN : in_wait_queue' = [in_wait_queue EXCEPT ![t] = b]
    BY DEF cancel_events
  <2> QED BY <1>t, <2>1, Assign
<1>3. Retain(queue[q], t) \in Seq(Task) /\ Elems(Retain(queue[q], t)) = Elems(queue[q]) \ {t}
  BY <1>t, RetainElems
<1>4. queue' \in [Queue -> Seq(Task)] /\ queue'[q] = Retain(queue[q], t)
      /\ \A p \in Queue \ {q} : queue'[p] = queue[p]
  BY <1>t, <1>1, <1>3, Assign
<1>5. Local(t, q)
  BY <1>1, <1>4 DEF Local
<1>6. WQTypeOK'
  BY <1>t, <1>1, <1>2, <1>4 DEF WQTypeOK
<1>7. NotifierInv'
  BY <1>1 DEF WQInv, NotifierInv, HandFits
<1> QED BY <1>1, <1>3, <1>4, <1>5, <1>6, <1>7 DEF WQInv, Entries

(* Taking and releasing a queue's lock, and the scheduler's steps. *)
LEMMA LockEffect ==
  ASSUME WQInv, NEW t \in Task, NEW q \in Queue, npc[t] \in AllPc,
         LockQueue(t, q) \/ UnlockQueue(t, q),
         UNCHANGED <<state, in_wait_queue, queue, npc, nq, hand>>
  PROVE  WQInv' /\ Local(t, q)
<1>t. /\ state \in [Task -> TaskState] /\ in_wait_queue \in [Task -> BOOLEAN]
      /\ queue \in [Queue -> Seq(Task)] /\ wq_lock \in [Queue -> Agent \cup {None}]
      /\ npc \in [Agent -> NotifyPc] /\ hand \in [Agent -> Seq(Task)] /\ nq \in [Agent -> Queue]
  BY DEF WQInv, WQTypeOK
<1>a. t \in Agent
  BY TaskIsAgent
<1>1. PICK x \in {None, t} : wq_lock' = [wq_lock EXCEPT ![q] = x] /\ wq_lock[q] \in {None, t}
  <2>1. CASE LockQueue(t, q)
    BY <2>1 DEF LockQueue
  <2>2. CASE UnlockQueue(t, q)
    BY <2>2 DEF UnlockQueue
  <2> QED BY <2>1, <2>2
<1>2. wq_lock' \in [Queue -> Agent \cup {None}]
  <2>1. x \in Agent \cup {None}
    BY <1>a, <1>1
  <2> QED BY <1>t, <1>1, <2>1, Assign
<1>3. \A p \in Queue \ {q} : wq_lock'[p] = wq_lock[p]
  BY <1>t, <1>1
<1>4. \A p \in Queue : wq_lock[p] \notin {None, t} => wq_lock'[p] = wq_lock[p]
  BY <1>1, <1>3
<1>5. Local(t, q)
  BY <1>3, <1>4 DEF Local
<1>6. WQTypeOK'
  BY <1>t, <1>2 DEF WQTypeOK
<1>7. NotifierInv'
  <2> SUFFICES ASSUME NEW b \in Agent
               PROVE  /\ HandFits(npc[b], hand[b])
                      /\ npc[b] \in {"pop", "consume", "stale"} => wq_lock'[nq[b]] = b
    BY DEF NotifierInv, HandFits
  <2>1. /\ HandFits(npc[b], hand[b]) /\ nq[b] \in Queue
        /\ npc[b] \in {"pop", "consume", "stale"} => wq_lock[nq[b]] = b
    BY <1>t DEF WQInv, NotifierInv
  <2>2. b = t => npc[b] \notin {"pop", "consume", "stale"}
    BY DEF AllPc
  <2> QED BY <1>4, <2>1, <2>2, NoneIsNoAgent
<1> QED BY <1>5, <1>6, <1>7 DEF WQInv

(* A step that changes the state of one task, and wakes it at most. *)
LEMMA WakeEffect ==
  ASSUME WQInv, NEW t \in Task, NEW s \in TaskState, s # "Blocked",
         state' = [state EXCEPT ![t] = s],
         UNCHANGED <<in_wait_queue, queue, wq_lock, npc, nq, hand>>
  PROVE  WQInv' /\ (\A u \in Task : state'[u] = "Blocked" => state[u] = "Blocked")
<1>t. state \in [Task -> TaskState]
  BY DEF WQInv, WQTypeOK
<1>1. state' \in [Task -> TaskState]
  BY <1>t, Assign
<1>2. \A u \in Task : state'[u] = "Blocked" => state[u] = "Blocked"
  BY <1>t
<1> QED BY <1>1, <1>2 DEF WQInv, WQTypeOK, NotifierInv, HandFits

(* The length of what requeue takes, and what it takes. *)
LEMMA TakeFront ==
  ASSUME NEW S, NEW s \in Seq(S), NEW n \in 0..Len(s)
  PROVE  /\ SubSeq(s, 1, n) \in Seq(S) /\ SubSeq(s, n + 1, Len(s)) \in Seq(S)
         /\ n = 0 => SubSeq(s, 1, n) = <<>>
         /\ n > 0 => SubSeq(s, 1, n) # <<>>
<1>1. SubSeq(s, 1, n) \in Seq(S) /\ Len(SubSeq(s, 1, n)) = n
  BY SMT
<1>2. SubSeq(s, n + 1, Len(s)) \in Seq(S)
  BY SMT
<1>3. n = 0 => SubSeq(s, 1, n) = <<>>
  BY SMT, <1>1
<1>4. n > 0 => SubSeq(s, 1, n) # <<>>
  BY SMT, <1>1
<1> QED BY <1>1, <1>2, <1>3, <1>4

(* requeue takes entries out of one queue ... *)
LEMMA RequeueEffect ==
  ASSUME WQInv, NEW a \in Agent, NEW count \in Nat, NEW q \in Queue, NEW target \in Queue,
         requeue(a, count, q, target)
  PROVE  WQInv' /\ Local(a, q) /\ npc'[a] \in {"moving", "woke"} /\ UNCHANGED <<state, wq_lock>>
<1>t. /\ state \in [Task -> TaskState] /\ in_wait_queue \in [Task -> BOOLEAN]
      /\ queue \in [Queue -> Seq(Task)] /\ wq_lock \in [Queue -> Agent \cup {None}]
      /\ npc \in [Agent -> NotifyPc] /\ hand \in [Agent -> Seq(Task)] /\ nq \in [Agent -> Queue]
  BY DEF WQInv, WQTypeOK
<1>n. PICK n : n = IF count <= Len(queue[q]) THEN count ELSE Len(queue[q])
  OBVIOUS
<1>1. n \in 0..Len(queue[q])
  <2>1. Len(queue[q]) \in Nat
    BY SMT, <1>t
  <2> QED BY SMT, <2>1, <1>n
<1>2. PICK l \in {"moving", "woke"} :
        /\ npc' = [npc EXCEPT ![a] = l] /\ (l = "moving" <=> n > 0)
        /\ hand' = [hand EXCEPT ![a] = SubSeq(queue[q], 1, n)]
        /\ queue' = [queue EXCEPT ![q] = SubSeq(queue[q], n + 1, Len(queue[q]))]
        /\ nq' = [nq EXCEPT ![a] = target] /\ UNCHANGED <<state, in_wait_queue, wq_lock>>
  BY <1>n DEF requeue
<1>3. PICK h \in Seq(Task) : /\ h = SubSeq(queue[q], 1, n)
                             /\ l = "woke" => h = <<>>
                             /\ l = "moving" => h # <<>>
  <2>1. queue[q] \in Seq(Task)
    BY <1>t
  <2>2. l = "woke" => ~(n > 0)
    BY <1>2
  <2>3. n > 0 \/ n = 0
    BY SMT, <1>1
  <2> QED BY <1>1, <1>2, <2>1, <2>2, <2>3, TakeFront
<1>4. queue' \in [Queue -> Seq(Task)] /\ \A p \in Queue \ {q} : queue'[p] = queue[p]
  <2>1. SubSeq(queue[q], n + 1, Len(queue[q])) \in Seq(Task)
    BY <1>t, <1>1, TakeFront
  <2> QED BY <1>t, <1>2, <2>1, Assign
<1>5. l \in NotifyPc /\ HandFits(l, h) /\ l \notin {"pop", "consume", "stale"}
  BY <1>2, <1>3 DEF NotifyPc, HandFits
<1>6. /\ npc' \in [Agent -> NotifyPc] /\ hand' \in [Agent -> Seq(Task)]
         /\ nq' \in [Agent -> Queue]
  BY <1>t, <1>2, <1>3, <1>5, Assign
<1>7. /\ npc'[a] = l /\ hand'[a] = h
      /\ \A b \in Agent \ {a} : npc'[b] = npc[b] /\ hand'[b] = hand[b] /\ nq'[b] = nq[b]
  BY <1>t, <1>2, <1>3
<1>8. NotifierInv'
  <2> SUFFICES ASSUME NEW b \in Agent
               PROVE  /\ HandFits(npc'[b], hand'[b])
                      /\ npc'[b] \in {"pop", "consume", "stale"} => wq_lock'[nq'[b]] = b
    BY DEF NotifierInv, HandFits
  <2>1. CASE b = a
    BY <1>5, <1>7, <2>1
  <2>2. CASE b # a
    BY <1>2, <1>7, <2>2 DEF WQInv, NotifierInv
  <2> QED BY <2>1, <2>2
<1>9. WQTypeOK'
  BY <1>t, <1>2, <1>4, <1>6 DEF WQTypeOK
<1>10. Local(a, q)
  BY <1>2, <1>4, <1>7 DEF Local
<1> QED BY <1>2, <1>7, <1>8, <1>9, <1>10 DEF WQInv

(* ... and appends them to another. *)
LEMMA RequeueExtendEffect ==
  ASSUME WQInv, NEW a \in Agent, RequeueExtend(a)
  PROVE  WQInv' /\ Local(a, nq[a]) /\ npc'[a] = "woke" /\ UNCHANGED <<state, wq_lock, nq>>
<1>t. /\ state \in [Task -> TaskState] /\ in_wait_queue \in [Task -> BOOLEAN]
      /\ queue \in [Queue -> Seq(Task)] /\ wq_lock \in [Queue -> Agent \cup {None}]
      /\ npc \in [Agent -> NotifyPc] /\ hand \in [Agent -> Seq(Task)] /\ nq \in [Agent -> Queue]
  BY DEF WQInv, WQTypeOK
<1>q. PICK q \in Queue : q = nq[a]
  BY <1>t
<1>1. /\ npc' = [npc EXCEPT ![a] = "woke"] /\ hand' = [hand EXCEPT ![a] = <<>>]
      /\ queue' = [queue EXCEPT ![q] = queue[q] \o hand[a]]
      /\ UNCHANGED <<state, in_wait_queue, wq_lock, nq>>
  BY <1>q DEF RequeueExtend
<1>2. <<>> \in Seq(Task) /\ queue[q] \o hand[a] \in Seq(Task)
  <2>1. queue[q] \in Seq(Task) /\ hand[a] \in Seq(Task)
    BY <1>t
  <2> QED BY SMT, <2>1
<1>3. /\ nq = [nq EXCEPT ![a] = q]
      /\ wq_lock = [wq_lock EXCEPT ![q] = wq_lock[q]] /\ wq_lock[q] \in Agent \cup {None}
  BY <1>t, <1>q
<1>4. queue' \in [Queue -> Seq(Task)] /\ \A p \in Queue \ {q} : queue'[p] = queue[p]
  BY <1>t, <1>1, <1>2, Assign
<1>5. "woke" \in NotifyPc /\ HandFits("woke", <<>>) /\ "woke" \notin {"pop", "consume", "stale"}
  BY DEF NotifyPc, HandFits
<1>6. Moves(a, q, "woke", <<>>, wq_lock[q])
  BY <1>t, <1>1, <1>2, <1>3, <1>4, <1>5 DEF Moves
<1>7. WQInv' /\ Local(a, q) /\ npc'[a] = "woke"
  BY <1>6, NotifierStep
<1> QED BY <1>1, <1>7, <1>q
==============================================================================
