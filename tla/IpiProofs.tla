------------------------------- MODULE IpiProofs -------------------------------
(***************************************************************************)
(* Proofs about TlbFlush and Ipi, for every set of CPUs, address spaces    *)
(* and pages, every capacity of the mailbox and every limit on ranges:     *)
(* merging loses nothing, and a flush that has returned has happened.      *)
(***************************************************************************)
EXTENDS Ipi, TLAPS

USE ZenonT(60)

(* A batch holds at most one request of an address space. *)
OnePerAsid(b) == \A i, j \in DOMAIN b : SameAsid(b[i], b[j]) => i = j

(* merge_tlb_flush covers both requests, whichever limit makes it give up the *)
(* range for the whole address space, and stays in that address space.        *)
LEMMA MergeCovers ==
  ASSUME NEW p \in TlbFlushRequest, NEW r \in TlbFlushRequest, SameAsid(p, r)
  PROVE  /\ merge_tlb_flush(p, r) \in TlbFlushRequest
         /\ merge_tlb_flush(p, r).type # "All" /\ merge_tlb_flush(p, r).asid = r.asid
         /\ Covered(p) \subseteq Covered(merge_tlb_flush(p, r))
         /\ Covered(r) \subseteq Covered(merge_tlb_flush(p, r))
<1> USE PageAssumption, LimitAssumption DEF SameAsid
<1>1. p \in RangeRequest \cup AsidRequest /\ r \in RangeRequest \cup AsidRequest
  BY DEF TlbFlushRequest, RangeRequest, AsidRequest, AllRequest
<1>2. p.asid = r.asid /\ r.asid \in Asid
  BY <1>1 DEF RangeRequest, AsidRequest
<1>3. CASE p.type = "Range" /\ r.type = "Range"
  <2>1. p \in RangeRequest /\ r \in RangeRequest
    BY <1>1, <1>3 DEF RangeRequest, AsidRequest
  <2> DEFINE start == Least(p.start, r.start)
             end   == Greatest(p.end, r.end)
  <2>2. /\ start \in Nat /\ start <= p.start /\ start <= r.start
        /\ end \in Nat /\ p.end <= end /\ r.end <= end
    BY SMT, <2>1 DEF Least, Greatest, RangeRequest
  <2>3. merge_tlb_flush(p, r) \in {Range(r.asid, start, end), WholeAsid(r.asid)}
    BY <1>3 DEF merge_tlb_flush
  <2> HIDE DEF start, end
  <2>4. CASE merge_tlb_flush(p, r) = Range(r.asid, start, end)
    <3>1. Range(r.asid, start, end) \in TlbFlushRequest
      BY <1>2, <2>2 DEF Range, RangeRequest, TlbFlushRequest
    <3>2. /\ Covered(p) \subseteq Covered(Range(r.asid, start, end))
          /\ Covered(r) \subseteq Covered(Range(r.asid, start, end))
      <4> SUFFICES ASSUME NEW x \in Translation, x \in Covered(p) \cup Covered(r)
                   PROVE  x \in Covered(Range(r.asid, start, end))
        BY DEF Covered
      <4>1. /\ x.page \in Nat /\ p.start \in Nat /\ p.end \in Nat
            /\ r.start \in Nat /\ r.end \in Nat
        BY <2>1 DEF Translation, RangeRequest
      <4>2. \/ x.asid = p.asid /\ p.start <= x.page /\ x.page < p.end
            \/ x.asid = r.asid /\ r.start <= x.page /\ x.page < r.end
        BY <1>3 DEF Covered
      <4>3. x.asid = r.asid /\ start <= x.page /\ x.page < end
        BY SMT, <1>2, <2>2, <4>1, <4>2
      <4> QED BY <4>3 DEF Covered, Range
    <3> QED BY SMT, <2>4, <3>1, <3>2 DEF Range
  <2>5. CASE merge_tlb_flush(p, r) = WholeAsid(r.asid)
    BY SMT, <1>2, <1>3, <2>5 DEF Covered, WholeAsid, AsidRequest, TlbFlushRequest
  <2> QED BY <2>3, <2>4, <2>5
<1>4. CASE ~(p.type = "Range" /\ r.type = "Range")
  <2>1. merge_tlb_flush(p, r) = WholeAsid(r.asid)
    BY <1>4 DEF merge_tlb_flush
  <2> QED BY SMT, <1>2, <2>1 DEF Covered, WholeAsid, AsidRequest, TlbFlushRequest
<1> QED BY <1>3, <1>4

(* TlbFlushBatch::enqueue covers the batch and the request, and keeps one     *)
(* request per address space.                                                 *)
LEMMA EnqueueCovers ==
  ASSUME NEW b \in Seq(TlbFlushRequest), OnePerAsid(b), NEW r \in TlbFlushRequest
  PROVE  /\ enqueue(b, r) \in Seq(TlbFlushRequest) /\ OnePerAsid(enqueue(b, r))
         /\ BatchCovered(b) \subseteq BatchCovered(enqueue(b, r))
         /\ Covered(r) \subseteq BatchCovered(enqueue(b, r))
<1> DEFINE same == {i \in DOMAIN b : SameAsid(b[i], r)}
           first == CHOOSE i \in same : \A j \in same : i <= j
<1>1. /\ <<All>> \in Seq(TlbFlushRequest) /\ OnePerAsid(<<All>>)
      /\ BatchCovered(<<All>>) = Translation
  BY SMT DEF All, AllRequest, TlbFlushRequest, OnePerAsid, SameAsid, BatchCovered, Covered
<1>2. BatchCovered(b) \subseteq Translation /\ Covered(r) \subseteq Translation
  BY DEF BatchCovered, Covered
<1>3. CASE r = All \/ b = <<All>>
  BY <1>1, <1>2, <1>3 DEF enqueue
<1>4. CASE r # All /\ b # <<All>> /\ same # {}
  <2>1. PICK k \in same : TRUE
    BY <1>4
  <2>2. k \in DOMAIN b /\ SameAsid(b[k], r) /\ b[k] \in TlbFlushRequest
    BY SMT, <2>1
  <2>3. same = {k}
    BY <2>2 DEF OnePerAsid, SameAsid
  <2>4. first = k
    <3>1. k \in Nat
      BY SMT, <2>2
    <3> QED BY SMT, <2>3, <3>1
  <2> DEFINE m == merge_tlb_flush(b[k], r)
             e == [b EXCEPT ![k] = m]
  <2>5. enqueue(b, r) = e
    BY <1>4, <2>4 DEF enqueue
  <2>6. /\ m \in TlbFlushRequest /\ m.type # "All" /\ m.asid = r.asid
        /\ Covered(b[k]) \subseteq Covered(m) /\ Covered(r) \subseteq Covered(m)
    BY <2>2, MergeCovers
  <2> HIDE DEF m, same, first
  <2>7. e \in Seq(TlbFlushRequest) /\ DOMAIN e = DOMAIN b
    BY SMT, <2>2, <2>6
  <2>8. e[k] = m /\ \A i \in DOMAIN b \ {k} : e[i] = b[i]
    BY <2>2
  <2> HIDE DEF e
  <2>9. OnePerAsid(e)
    <3> SUFFICES ASSUME NEW i \in DOMAIN b, NEW j \in DOMAIN b, SameAsid(e[i], e[j]) PROVE i = j
      BY <2>7 DEF OnePerAsid
    <3>1. SameAsid(b[i], b[j])
      BY <2>2, <2>6, <2>8 DEF SameAsid
    <3> QED BY <3>1 DEF OnePerAsid
  <2>10. BatchCovered(b) \subseteq BatchCovered(e)
    <3> SUFFICES ASSUME NEW i \in DOMAIN b PROVE Covered(b[i]) \subseteq Covered(e[i])
      BY <2>7 DEF BatchCovered
    <3> QED BY <2>6, <2>8
  <2>11. Covered(r) \subseteq BatchCovered(e)
    BY <2>2, <2>6, <2>7, <2>8 DEF BatchCovered
  <2> QED BY <2>5, <2>7, <2>9, <2>10, <2>11
<1>5. CASE r # All /\ b # <<All>> /\ same = {}
  <2>1. enqueue(b, r) \in {Append(b, r), <<All>>}
    BY <1>5 DEF enqueue
  <2>2. CASE enqueue(b, r) = Append(b, r)
    <3> DEFINE e == Append(b, r)
    <3>1. /\ e \in Seq(TlbFlushRequest) /\ DOMAIN e = 1..(Len(b) + 1)
          /\ e[Len(b) + 1] = r /\ \A i \in DOMAIN b : e[i] = b[i]
      BY SMT
    <3>2. DOMAIN b = 1..Len(b) /\ Len(b) \in Nat
      BY SMT
    <3> HIDE DEF e
    <3>3. OnePerAsid(e)
      <4> SUFFICES ASSUME NEW i \in DOMAIN e, NEW j \in DOMAIN e, SameAsid(e[i], e[j]) PROVE i = j
        BY DEF OnePerAsid
      <4>1. CASE i \in DOMAIN b /\ j \in DOMAIN b
        BY <3>1, <4>1 DEF OnePerAsid
      <4>2. CASE i = Len(b) + 1 \/ j = Len(b) + 1
        BY SMT, <1>5, <3>1, <3>2, <4>2 DEF SameAsid
      <4> QED BY SMT, <3>1, <3>2, <4>1, <4>2
    <3>4. BatchCovered(b) \subseteq BatchCovered(e) /\ Covered(r) \subseteq BatchCovered(e)
      BY SMT, <3>1, <3>2 DEF BatchCovered
    <3> QED BY <2>2, <3>1, <3>3, <3>4 DEF e
  <2>3. CASE enqueue(b, r) = <<All>>
    BY <1>1, <1>2, <2>3
  <2> QED BY <2>1, <2>2, <2>3
<1> QED BY <1>3, <1>4, <1>5
------------------------------------------------------------------------------
(* The inductive invariant.                                                  *)

(* Tickets are drawn from requested, and completed does not run ahead of it. *)
TicketInv ==
    \A d \in Cpu : completed[d] <= requested[d] /\ \A c \in Cpu : ticket[c][d] <= requested[d]

TodoInv ==
    \A c \in Cpu :
        /\ todo[c] \subseteq targets[c] \ {c}
        /\ pc[c] = "wait" => todo[c] = {}
        /\ pc[c] = "idle" => targets[c] = {}

BatchInv == \A d \in Cpu : OnePerAsid(batch[d])

(* A request that was sent is in the mailbox, or has been carried out. *)
SentInv ==
    \A c, d \in Cpu :
        pc[c] # "idle" /\ d \in targets[c] /\ d \notin todo[c] /\ c # d =>
            \/ completed[d] < ticket[c][d] /\ Covered(req[c]) \subseteq BatchCovered(batch[d])
            \/ completed[d] >= ticket[c][d] /\ tlb[d] \cap Covered(req[c]) = {}

(* The local flush comes first. *)
SelfInv ==
    \A c \in Cpu : pc[c] # "idle" /\ c \in targets[c] => tlb[c] \cap Covered(req[c]) = {}

IInv ==
    /\ TypeOK
    /\ TicketInv
    /\ TodoInv
    /\ BatchInv
    /\ SentInv
    /\ SelfInv
    /\ ReturnedIsFlushed

(* IInv holds initially: no flush is under way and none has returned. *)
LEMMA InitIInv == Init => IInv
<1> SUFFICES ASSUME Init PROVE IInv
  OBVIOUS
<1> USE DEF Init
<1>1. TypeOK
  BY SMT DEF TypeOK, HandlerPc, FlushPc, Outcome, All, AllRequest, TlbFlushRequest
<1>2. TicketInv /\ TodoInv /\ BatchInv
  BY SMT DEF TicketInv, TodoInv, BatchInv, OnePerAsid
<1>3. SentInv /\ SelfInv /\ ReturnedIsFlushed
  BY DEF SentInv, SelfInv, ReturnedIsFlushed
<1> QED BY <1>1, <1>2, <1>3 DEF IInv

(* A call of flush_tlb_on_cpus. *)
LEMMA CallStep ==
  ASSUME IInv, NEW f \in Flush, flush_tlb_on_cpus(f.cpu, f.request, f.mask, f.irqs_off)
  PROVE  IInv'
<1> DEFINE c == f.cpu
<1>1. c \in Cpu /\ f.request \in TlbFlushRequest /\ f.mask \subseteq Cpu /\ f.irqs_off \in BOOLEAN
  BY FlushAssumption
<1> HIDE DEF c
<1>2. flush_tlb_on_cpus(c, f.request, f.mask, f.irqs_off)
  BY DEF c
<1> USE DEF IInv, flush_tlb_on_cpus, boxVars, eventVars
<1>t. /\ tlb \in [Cpu -> SUBSET Translation] /\ pc \in [Cpu -> FlushPc]
      /\ req \in [Cpu -> TlbFlushRequest]
      /\ todo \in [Cpu -> SUBSET Cpu] /\ targets \in [Cpu -> SUBSET Cpu]
  BY DEF TypeOK
<1>3. TypeOK'
  <2>1. tlb' \in [Cpu -> SUBSET Translation]
    BY SMT, <1>1, <1>2, <1>t
  <2>2. /\ pc' \in [Cpu -> FlushPc] /\ req' \in [Cpu -> TlbFlushRequest]
        /\ todo' \in [Cpu -> SUBSET Cpu] /\ targets' \in [Cpu -> SUBSET Cpu]
    BY SMT, <1>1, <1>2, <1>t DEF FlushPc
  <2>3. started \in [Cpu -> Nat] /\ masked \in [Cpu -> BOOLEAN]
    BY DEF TypeOK
  <2>4. started' \in [Cpu -> Nat] /\ masked' \in [Cpu -> BOOLEAN]
    BY SMT, <1>1, <1>2, <2>3
  <2>5. UNCHANGED <<batch, requested, completed, ipi, hpc, events, outcome, ran, ticket, failed, gone>>
    BY <1>2
  <2> HIDE DEF flush_tlb_on_cpus
  <2> QED BY <2>1, <2>2, <2>4, <2>5 DEF TypeOK
<1>4. TicketInv' /\ BatchInv'
  BY <1>2 DEF TicketInv, BatchInv
<1>5. TodoInv'
  BY SMT, <1>1, <1>2, <1>t DEF TodoInv
<1>6. \A d \in Cpu : tlb'[d] \subseteq tlb[d]
  BY SMT, <1>1, <1>2, <1>t
<1>7. SentInv'
  <2> SUFFICES ASSUME NEW a \in Cpu, NEW d \in Cpu, pc'[a] # "idle", d \in targets'[a],
                      d \notin todo'[a], a # d
               PROVE  \/ completed[d] < ticket[a][d] /\ Covered(req'[a]) \subseteq BatchCovered(batch[d])
                      \/ completed[d] >= ticket[a][d] /\ tlb'[d] \cap Covered(req'[a]) = {}
    BY <1>2 DEF SentInv
  <2>1. a # c
    BY SMT, <1>1, <1>2, <1>t
  <2>2. pc'[a] = pc[a] /\ targets'[a] = targets[a] /\ todo'[a] = todo[a] /\ req'[a] = req[a]
    BY SMT, <1>1, <1>2, <1>t, <2>1
  <2> QED BY <1>6, <2>2 DEF SentInv
<1>8. SelfInv'
  <2> SUFFICES ASSUME NEW a \in Cpu, pc'[a] # "idle", a \in targets'[a]
               PROVE  tlb'[a] \cap Covered(req'[a]) = {}
    BY DEF SelfInv
  <2>1. CASE a = c
    BY <1>1, <1>2, <1>t, <2>1
  <2>2. CASE a # c
    <3>1. pc'[a] = pc[a] /\ targets'[a] = targets[a] /\ req'[a] = req[a]
      BY <1>1, <1>2, <1>t, <2>2
    <3> QED BY <1>6, <3>1 DEF SelfInv
  <2> QED BY <2>1, <2>2
<1>9. ReturnedIsFlushed'
  BY <1>2, <1>6 DEF ReturnedIsFlushed
<1> QED BY <1>3, <1>4, <1>5, <1>7, <1>8, <1>9

(* A request is put into a mailbox: the batch grows, and the new ticket is    *)
(* beyond what the mailbox has completed.                                     *)
LEMMA PublishStep ==
  ASSUME IInv, NEW c \in Cpu, NEW d \in Cpu, PublishRequest(c, d)
  PROVE  IInv'
<1> USE DEF IInv, PublishRequest, eventVars
<1>1. /\ batch[d] \in Seq(TlbFlushRequest) /\ OnePerAsid(batch[d])
      /\ req[c] \in TlbFlushRequest /\ d \in todo[c] /\ c # d
  BY DEF TypeOK, BatchInv, TodoInv
<1> DEFINE e == enqueue(batch[d], req[c])
<1>2. /\ e \in Seq(TlbFlushRequest) /\ OnePerAsid(e)
      /\ BatchCovered(batch[d]) \subseteq BatchCovered(e)
      /\ Covered(req[c]) \subseteq BatchCovered(e)
  BY <1>1, EnqueueCovers
<1> HIDE DEF e
<1>3. batch' = [batch EXCEPT ![d] = e]
  BY DEF e
<1>t. /\ batch \in [Cpu -> Seq(TlbFlushRequest)] /\ pc \in [Cpu -> FlushPc]
      /\ requested \in [Cpu -> Nat] /\ completed \in [Cpu -> Nat]
      /\ ticket \in [Cpu -> [Cpu -> Nat]] /\ todo \in [Cpu -> SUBSET Cpu]
      /\ ipi \in [Cpu -> BOOLEAN] /\ failed \in [Cpu -> BOOLEAN]
  BY DEF TypeOK
<1>n. requested[d] \in Nat /\ requested[d] + 1 \in Nat /\ requested[d] <= requested[d] + 1
  <2> HIDE DEF PublishRequest, IInv
  <2>1. requested[d] \in Nat
    BY <1>t
  <2> QED BY SMT, <2>1
<1>p. /\ requested' = [requested EXCEPT ![d] = requested[d] + 1]
      /\ ticket' = [ticket EXCEPT ![c] = [ticket[c] EXCEPT ![d] = requested[d] + 1]]
  OBVIOUS
<1>4. TypeOK'
  <2>1. batch' \in [Cpu -> Seq(TlbFlushRequest)]
    BY <1>2, <1>3, <1>t
  <2>2. requested' \in [Cpu -> Nat] /\ ticket' \in [Cpu -> [Cpu -> Nat]]
    <3> HIDE DEF PublishRequest, IInv
    <3>1. requested' \in [Cpu -> Nat]
      BY <1>n, <1>p, <1>t
    <3>2. [ticket[c] EXCEPT ![d] = requested[d] + 1] \in [Cpu -> Nat]
      BY <1>n, <1>t
    <3>3. ticket' \in [Cpu -> [Cpu -> Nat]]
      BY <1>p, <1>t, <3>2
    <3> QED BY <3>1, <3>3
  <2>3. pc' \in [Cpu -> FlushPc] /\ todo' \in [Cpu -> SUBSET Cpu]
    BY <1>t DEF FlushPc
  <2>4. ipi' \in [Cpu -> BOOLEAN] /\ failed' \in [Cpu -> BOOLEAN]
    BY <1>t
  <2>5. UNCHANGED <<tlb, gone, completed, hpc, events, outcome, ran, req, targets, masked, started>>
    OBVIOUS
  <2> HIDE DEF PublishRequest
  <2> QED BY <2>1, <2>2, <2>3, <2>4, <2>5 DEF TypeOK
<1>5. BatchInv'
  BY <1>2, <1>3, <1>t DEF BatchInv
<1>6. TicketInv'
  <2> SUFFICES ASSUME NEW x \in Cpu
               PROVE  completed[x] <= requested'[x] /\ \A a \in Cpu : ticket'[a][x] <= requested'[x]
    BY DEF TicketInv
  <2>1. requested[x] \in Nat /\ requested'[x] \in Nat /\ requested[x] <= requested'[x] /\ completed[x] \in Nat
    <3> HIDE DEF PublishRequest, IInv
    <3>1. requested[x] \in Nat /\ completed[x] \in Nat
      BY <1>t
    <3>2. requested'[x] = IF x = d THEN requested[d] + 1 ELSE requested[x]
      BY <1>p, <1>t
    <3> QED BY SMT, <1>n, <3>1, <3>2
  <2>2. completed[x] <= requested'[x]
    BY SMT, <2>1 DEF TicketInv
  <2>3. ASSUME NEW a \in Cpu PROVE ticket'[a][x] <= requested'[x]
    <3>1. CASE a = c /\ x = d
      BY SMT, <1>t, <3>1
    <3>2. CASE ~(a = c /\ x = d)
      <4>1. ticket'[a][x] = ticket[a][x] /\ ticket[a][x] \in Nat /\ ticket[a][x] <= requested[x]
        BY <1>t, <3>2 DEF TicketInv
      <4> QED BY SMT, <2>1, <4>1
    <3> QED BY <3>1, <3>2
  <2> QED BY <2>2, <2>3
<1>7. TodoInv'
  BY <1>t DEF TodoInv
<1>8. SelfInv' /\ ReturnedIsFlushed'
  BY <1>t DEF SelfInv, ReturnedIsFlushed
<1>9. SentInv'
  <2> SUFFICES ASSUME NEW a \in Cpu, NEW x \in Cpu, pc'[a] # "idle", x \in targets[a],
                      x \notin todo'[a], a # x
               PROVE  \/ completed[x] < ticket'[a][x] /\ Covered(req[a]) \subseteq BatchCovered(batch'[x])
                      \/ completed[x] >= ticket'[a][x] /\ tlb[x] \cap Covered(req[a]) = {}
    BY DEF SentInv
  <2>1. CASE a = c /\ x = d
    <3>1. ticket'[a][x] = requested[d] + 1 /\ completed[d] <= requested[d]
      BY <1>t, <2>1 DEF TicketInv
    <3>2. batch'[x] = e
      BY <1>3, <1>t, <2>1
    <3>3. completed[d] \in Nat /\ requested[d] \in Nat
      BY <1>t
    <3> QED BY SMT, <1>2, <2>1, <3>1, <3>2, <3>3
  <2>2. CASE ~(a = c /\ x = d)
    <3>1. ticket'[a][x] = ticket[a][x] /\ x \notin todo[a] /\ pc[a] # "idle"
      BY <1>t, <2>2
    <3>2. BatchCovered(batch[x]) \subseteq BatchCovered(batch'[x])
      BY <1>2, <1>3, <1>t
    <3> QED BY <3>1, <3>2 DEF SentInv
  <2> QED BY <2>1, <2>2
<1> QED BY <1>4, <1>5, <1>6, <1>7, <1>8, <1>9

(* A CPU serves its mailbox, in the handler, in the timer interrupt or while  *)
(* it waits: what the batch covers leaves the TLB as the tickets complete.    *)
LEMMA ServiceStep ==
  ASSUME IInv, NEW c \in Cpu, service_tlb_shootdown(c),
         hpc' \in [Cpu -> HandlerPc],
         UNCHANGED <<ipi, events, outcome, ran>>, UNCHANGED flushVars
  PROVE  IInv'
<1> USE DEF IInv, flushVars
<1>t. /\ tlb \in [Cpu -> SUBSET Translation] /\ batch \in [Cpu -> Seq(TlbFlushRequest)]
      /\ requested \in [Cpu -> Nat] /\ completed \in [Cpu -> Nat]
      /\ ticket \in [Cpu -> [Cpu -> Nat]]
  BY DEF TypeOK
<1>n. /\ requested[c] \in Nat /\ completed[c] \in Nat /\ completed[c] <= requested[c]
      /\ \A a \in Cpu : ticket[a][c] \in Nat /\ ticket[a][c] <= requested[c]
  BY <1>t DEF TicketInv
<1>1. CASE completed[c] >= requested[c]
  <2>1. UNCHANGED <<tlb, batch, requested, completed>>
    <3>1. ~(completed[c] < requested[c])
      BY SMT, <1>n, <1>1
    <3> QED BY <3>1 DEF service_tlb_shootdown
  <2> QED BY <2>1 DEF TypeOK, TicketInv, TodoInv, BatchInv, SentInv, SelfInv, ReturnedIsFlushed
<1>2. CASE completed[c] < requested[c]
  <2>1. /\ tlb' = [tlb EXCEPT ![c] = @ \ BatchCovered(batch[c])]
        /\ batch' = [batch EXCEPT ![c] = <<>>]
        /\ completed' = [completed EXCEPT ![c] = requested[c]]
        /\ requested' = requested
    BY <1>2 DEF service_tlb_shootdown
  <2>2. \A d \in Cpu : tlb'[d] \subseteq tlb[d]
    BY <1>t, <2>1
  <2>3. TypeOK'
    <3>1. /\ tlb' \in [Cpu -> SUBSET Translation] /\ batch' \in [Cpu -> Seq(TlbFlushRequest)]
          /\ completed' \in [Cpu -> Nat]
      BY SMT, <1>t, <1>n, <2>1
    <3> QED BY <2>1, <3>1 DEF TypeOK
  <2>4. TicketInv'
    BY SMT, <1>t, <1>n, <2>1 DEF TicketInv
  <2>5. BatchInv'
    BY SMT, <1>t, <2>1 DEF BatchInv, OnePerAsid
  <2>6. TodoInv' /\ SelfInv' /\ ReturnedIsFlushed'
    BY <2>2 DEF TodoInv, SelfInv, ReturnedIsFlushed
  <2>7. SentInv'
    <3> SUFFICES ASSUME NEW a \in Cpu, NEW d \in Cpu, pc[a] # "idle", d \in targets[a],
                        d \notin todo[a], a # d
                 PROVE  \/ completed'[d] < ticket[a][d] /\ Covered(req[a]) \subseteq BatchCovered(batch'[d])
                        \/ completed'[d] >= ticket[a][d] /\ tlb'[d] \cap Covered(req[a]) = {}
      BY DEF SentInv
    <3>1. \/ completed[d] < ticket[a][d] /\ Covered(req[a]) \subseteq BatchCovered(batch[d])
          \/ completed[d] >= ticket[a][d] /\ tlb[d] \cap Covered(req[a]) = {}
      BY DEF SentInv
    <3>2. CASE d = c
      <4>1. completed'[d] = requested[c] /\ tlb'[d] = tlb[c] \ BatchCovered(batch[c])
        BY <1>t, <2>1, <3>2
      <4>2. completed'[d] >= ticket[a][d]
        BY <1>n, <3>2, <4>1
      <4>3. tlb'[d] \cap Covered(req[a]) = {}
        BY <3>1, <3>2, <4>1
      <4> QED BY <4>2, <4>3
    <3>3. CASE d # c
      <4>1. completed'[d] = completed[d] /\ tlb'[d] = tlb[d] /\ batch'[d] = batch[d]
        BY <1>t, <2>1, <3>3
      <4> QED BY <3>1, <4>1
    <3> QED BY <3>2, <3>3
  <2> QED BY <2>3, <2>4, <2>5, <2>6, <2>7
<1> QED BY SMT, <1>n, <1>1, <1>2

(* The flush returns: every target has carried it out. *)
LEMMA ReturnStep ==
  ASSUME IInv, NEW c \in Cpu, FlushReturn(c)
  PROVE  IInv'
<1> USE DEF IInv, FlushReturn, boxVars, eventVars
<1>t. /\ pc \in [Cpu -> FlushPc] /\ gone \in [Cpu -> SUBSET Translation]
      /\ req \in [Cpu -> TlbFlushRequest] /\ targets \in [Cpu -> SUBSET Cpu]
      /\ ticket \in [Cpu -> [Cpu -> Nat]] /\ requested \in [Cpu -> Nat]
      /\ completed \in [Cpu -> Nat]
      /\ failed \in [Cpu -> BOOLEAN] /\ masked \in [Cpu -> BOOLEAN]
  BY DEF TypeOK
<1>1. TypeOK'
  <2>1. pc' \in [Cpu -> FlushPc] /\ failed' \in [Cpu -> BOOLEAN] /\ masked' \in [Cpu -> BOOLEAN]
    BY <1>t DEF FlushPc
  <2>2. gone' \in [Cpu -> SUBSET Translation]
    BY <1>t DEF Covered
  <2>3. req' \in [Cpu -> TlbFlushRequest] /\ targets' \in [Cpu -> SUBSET Cpu]
    BY <1>t DEF All, AllRequest, TlbFlushRequest
  <2>4. ticket' \in [Cpu -> [Cpu -> Nat]]
    BY <1>t
  <2>5. UNCHANGED <<tlb, batch, requested, completed, ipi, hpc, events, outcome, ran, todo, started>>
    OBVIOUS
  <2> HIDE DEF FlushReturn
  <2> QED BY <2>1, <2>2, <2>3, <2>4, <2>5 DEF TypeOK
<1>2. \A a \in Cpu \ {c} : /\ pc'[a] = pc[a] /\ targets'[a] = targets[a] /\ req'[a] = req[a]
                           /\ ticket'[a] = ticket[a]
  BY <1>t
<1>3. /\ pc'[c] = "idle" /\ targets'[c] = {} /\ ticket'[c] = [d \in Cpu |-> 0]
  BY <1>t
<1>4. todo[c] = {}
  BY DEF TodoInv
<1>5. BatchInv' /\ TodoInv'
  BY <1>2, <1>3, <1>4 DEF BatchInv, TodoInv
<1>6. TicketInv'
  <2> SUFFICES ASSUME NEW d \in Cpu, NEW a \in Cpu PROVE ticket'[a][d] <= requested[d]
    BY DEF TicketInv
  <2>1. CASE a = c
    BY SMT, <1>t, <1>3, <2>1
  <2>2. CASE a # c
    BY <1>2, <2>2 DEF TicketInv
  <2> QED BY <2>1, <2>2
<1>7. SentInv' /\ SelfInv'
  BY <1>2, <1>3 DEF SentInv, SelfInv
<1>8. ReturnedIsFlushed'
  <2> SUFFICES ASSUME NEW d \in Cpu PROVE tlb[d] \cap gone'[d] = {}
    BY DEF ReturnedIsFlushed
  <2>1. CASE d \notin targets[c]
    BY <2>1 DEF ReturnedIsFlushed
  <2>2. CASE d \in targets[c]
    <3>1. gone'[d] = gone[d] \cup Covered(req[c])
      BY <2>2
    <3>2. tlb[d] \cap Covered(req[c]) = {}
      <4>1. CASE d = c
        BY <2>2, <4>1 DEF SelfInv
      <4>2. CASE d # c
        <5>1. completed[d] >= ticket[c][d] /\ completed[d] \in Nat /\ ticket[c][d] \in Nat
          BY <1>t, <2>2, <4>2 DEF Answered
        <5> QED BY SMT, <1>4, <2>2, <4>2, <5>1 DEF SentInv
      <4> QED BY <4>1, <4>2
    <3> QED BY <3>1, <3>2 DEF ReturnedIsFlushed
  <2> QED BY <2>1, <2>2
<1> QED BY <1>1, <1>5, <1>6, <1>7, <1>8

(* Callbacks and the entry of the handler do not touch the mailboxes. *)
LEMMA EventStep ==
  ASSUME IInv, NEW c \in Cpu,
         TakeInterrupt(c) \/ HandlerPop(c) \/ \E k \in Callback : run_on_cpu(c, k)
  PROVE  IInv'
<1> USE DEF IInv, boxVars, eventVars, flushVars
<1>t. /\ ipi \in [Cpu -> BOOLEAN] /\ hpc \in [Cpu -> HandlerPc] /\ ran \subseteq Callback
      /\ events \in [Cpu -> Seq(Callback)] /\ outcome \in [Callback -> Outcome]
      /\ started \in [Cpu -> Nat]
  BY DEF TypeOK
<1>1. UNCHANGED <<tlb, batch, requested, completed, pc, req, todo, targets, ticket, failed, masked, gone>>
  BY DEF TakeInterrupt, HandlerPop, run_on_cpu
<1> DEFINE Typed ==
      /\ ipi' \in [Cpu -> BOOLEAN] /\ hpc' \in [Cpu -> HandlerPc] /\ ran' \subseteq Callback
      /\ events' \in [Cpu -> Seq(Callback)] /\ outcome' \in [Callback -> Outcome]
      /\ started' \in [Cpu -> Nat]
<1>2. Typed
  <2>1. CASE TakeInterrupt(c)
    BY <1>t, <2>1 DEF TakeInterrupt, HandlerPc
  <2>2. CASE HandlerPop(c)
    <3>1. CASE events[c] = <<>>
      BY <1>t, <2>2, <3>1 DEF HandlerPop, HandlerPc
    <3>2. CASE events[c] # <<>>
      <4>1. Head(events[c]) \in Callback /\ Tail(events[c]) \in Seq(Callback)
        BY SMT, <1>t, <3>2
      <4> QED BY <1>t, <2>2, <3>2, <4>1 DEF HandlerPop
    <3> QED BY <3>1, <3>2
  <2>3. ASSUME NEW k \in Callback, run_on_cpu(c, k)
        PROVE  Typed
    <3>1. k.dest \in Cpu /\ Append(events[k.dest], k) \in Seq(Callback)
      BY SMT, <1>t, CallbackAssumption
    <3>2. UNCHANGED <<hpc, ran>> /\ started' = [started EXCEPT ![c] = started[c] + 1]
      BY <2>3 DEF run_on_cpu
    <3>3. started[c] + 1 \in Nat
      BY SMT, <1>t
    <3>4. started' \in [Cpu -> Nat]
      BY <1>t, <3>2, <3>3
    <3>5. /\ events' \in {events, [events EXCEPT ![k.dest] = Append(events[k.dest], k)]}
          /\ ipi' \in {ipi, [ipi EXCEPT ![k.dest] = TRUE]}
      BY <2>3 DEF run_on_cpu
    <3>6. ipi' \in [Cpu -> BOOLEAN] /\ events' \in [Cpu -> Seq(Callback)]
      BY <1>t, <3>1, <3>5
    <3>7. outcome' \in [Callback -> Outcome]
      BY <1>t, <2>3 DEF run_on_cpu, Outcome
    <3> QED BY <1>t, <3>2, <3>6, <3>7, <3>4
  <2> QED BY <2>1, <2>2, <2>3
<1>3. TypeOK'
  BY <1>1, <1>2 DEF TypeOK
<1> QED BY <1>1, <1>3 DEF TicketInv, TodoInv, BatchInv, SentInv, SelfInv, ReturnedIsFlushed

(* Every step of Ipi preserves IInv. *)
LEMMA NextIInv == IInv /\ [Next]_vars => IInv'
<1> SUFFICES ASSUME IInv, [Next]_vars PROVE IInv'
  OBVIOUS
<1>1. CASE UNCHANGED vars
  BY <1>1 DEF vars, IInv, TypeOK, TicketInv, TodoInv, BatchInv, SentInv, SelfInv, ReturnedIsFlushed
<1>2. ASSUME NEW c \in Cpu, Call(c) PROVE IInv'
  BY <1>2, CallStep, EventStep DEF Call
<1>3. ASSUME NEW c \in Cpu, FlushStep(c) PROVE IInv'
  <2>1. CASE WaitService(c)
    <3>1. hpc' \in [Cpu -> HandlerPc]
      BY <2>1 DEF WaitService, IInv, TypeOK
    <3> QED BY <2>1, <3>1, ServiceStep DEF WaitService, eventVars
  <2> QED BY <1>3, <2>1, ReturnStep, PublishStep DEF FlushStep
<1>4. ASSUME NEW c \in Cpu, Handler(c) PROVE IInv'
  <2>1. CASE HandlerService(c)
    <3>1. hpc' \in [Cpu -> HandlerPc]
      BY <2>1 DEF HandlerService, IInv, TypeOK, HandlerPc
    <3> QED BY <2>1, <3>1, ServiceStep DEF HandlerService, eventVars
  <2> QED BY <1>4, <2>1, EventStep DEF Handler
<1>5. ASSUME NEW c \in Cpu, TimerTick(c) PROVE IInv'
  <2>1. hpc' \in [Cpu -> HandlerPc]
    BY <1>5 DEF TimerTick, IInv, TypeOK
  <2> QED BY <1>5, <2>1, ServiceStep DEF TimerTick, eventVars
<1> QED BY <1>1, <1>2, <1>3, <1>4, <1>5, EventStep DEF Next, Step

(* IInv is an invariant. *)
LEMMA IInvInvariant == Spec => []IInv
  BY InitIInv, NextIInv, PTL DEF Spec

(* Type correctness of the mailboxes, the callbacks and the flushes. *)
THEOREM IpiTypeOK == Spec => []TypeOK
<1>1. IInv => TypeOK
  BY DEF IInv
<1> QED BY <1>1, IInvInvariant, PTL

(* flush_tlb_on_cpus keeps its promise: a translation that a returned flush    *)
(* was to remove from a CPU is in that CPU's TLB no more.                      *)
THEOREM IpiReturnedIsFlushed == Spec => []ReturnedIsFlushed
<1>1. IInv => ReturnedIsFlushed
  BY DEF IInv
<1> QED BY <1>1, IInvInvariant, PTL

(* An unanswered ticket is backed by a batch that covers its request, though    *)
(* enqueue merges and promotes requests of several senders.                     *)
THEOREM IpiBatchCovers == Spec => []BatchCoversTickets
<1>1. IInv => BatchCoversTickets
  <2> SUFFICES ASSUME IInv, NEW c \in Cpu, NEW d \in Cpu, pc[c] # "idle",
                      d \in targets[c] \ (todo[c] \cup {c}), completed[d] < ticket[c][d]
               PROVE  Covered(req[c]) \subseteq BatchCovered(batch[d])
    BY DEF BatchCoversTickets
  <2>1. completed[d] \in Nat /\ ticket[c][d] \in Nat
    BY DEF IInv, TypeOK
  <2> QED BY SMT, <2>1 DEF IInv, SentInv
<1> QED BY <1>1, IInvInvariant, PTL
------------------------------------------------------------------------------
(* No request waits for an interrupt that nobody tried to send.              *)

(* A flush has no ticket of a CPU it does not target. *)
UntargetedInv ==
    \A c, d \in Cpu : d \notin targets[c] \/ c = d => ticket[c][d] = 0

SInv == RequestIsSignalled /\ UntargetedInv

(* Some interrupt to d is on its way, or its sender knows that it is not. *)
Signalled(d) ==
    \/ ipi[d] \/ hpc[d] = "first"
    \/ \E c \in Cpu : failed[c] /\ completed[d] < ticket[c][d]

(* A CPU that serves its mailbox has nothing outstanding afterwards. *)
LEMMA ServiceSignal ==
  ASSUME IInv, SInv, NEW c \in Cpu, service_tlb_shootdown(c),
         UNCHANGED <<ipi, failed, ticket, targets>>,
         \A d \in Cpu \ {c} : hpc'[d] = hpc[d]
  PROVE  SInv'
<1>1. UntargetedInv'
  BY DEF SInv, UntargetedInv
<1>2. /\ requested \in [Cpu -> Nat] /\ completed \in [Cpu -> Nat]
      /\ ticket \in [Cpu -> [Cpu -> Nat]]
  BY DEF IInv, TypeOK
<1>3. completed'[c] = requested'[c] /\ \A d \in Cpu \ {c} : completed'[d] = completed[d]
  <2>1. completed[c] <= requested[c]
    BY DEF IInv, TicketInv
  <2> QED BY SMT, <1>2, <2>1 DEF service_tlb_shootdown
<1>4. RequestIsSignalled'
  <2> SUFFICES ASSUME NEW d \in Cpu, completed'[d] < requested'[d] PROVE Signalled(d)'
    BY DEF RequestIsSignalled, Signalled
  <2>1. d # c
    BY SMT, <1>2, <1>3 DEF service_tlb_shootdown
  <2>2. completed[d] < requested[d]
    BY <1>3, <2>1 DEF service_tlb_shootdown
  <2> QED BY <1>3, <2>1, <2>2 DEF SInv, RequestIsSignalled, Signalled
<1> QED BY <1>1, <1>4 DEF SInv

(* A request brings an interrupt, or a failure its sender remembers, unless   *)
(* the request before it has brought one.                                     *)
LEMMA PublishSignal ==
  ASSUME IInv, SInv, NEW c \in Cpu, NEW d \in Cpu, PublishRequest(c, d)
  PROVE  SInv'
<1>t. /\ requested \in [Cpu -> Nat] /\ completed \in [Cpu -> Nat]
      /\ ticket \in [Cpu -> [Cpu -> Nat]] /\ ipi \in [Cpu -> BOOLEAN]
      /\ failed \in [Cpu -> BOOLEAN]
  BY DEF IInv, TypeOK
<1>1. d \in targets[c] /\ c # d
  BY DEF IInv, TodoInv, PublishRequest
<1>2. /\ requested' = [requested EXCEPT ![d] = requested[d] + 1]
      /\ ticket' = [ticket EXCEPT ![c] = [ticket[c] EXCEPT ![d] = requested[d] + 1]]
      /\ UNCHANGED <<completed, hpc, targets>>
  BY DEF PublishRequest
<1>3. UntargetedInv'
  BY <1>t, <1>1, <1>2 DEF SInv, UntargetedInv
<1>4. \A a, x \in Cpu : ticket'[a][x] = IF a = c /\ x = d THEN requested[d] + 1 ELSE ticket[a][x]
  BY <1>t, <1>2
<1>5. \A a \in Cpu : failed[a] => failed'[a]
  BY <1>t DEF PublishRequest
<1>6. \A x \in Cpu : ipi[x] => ipi'[x]
  BY <1>t DEF PublishRequest
<1>7. /\ requested[d] \in Nat /\ completed[d] \in Nat /\ completed[d] <= requested[d]
      /\ \A a \in Cpu : ticket[a][d] \in Nat /\ ticket[a][d] <= requested[d]
  BY <1>t DEF IInv, TicketInv
<1>8. \A a, x \in Cpu : completed[x] < ticket[a][x] => completed[x] < ticket'[a][x]
  BY SMT, <1>4, <1>7
<1>9. RequestIsSignalled'
  <2> SUFFICES ASSUME NEW x \in Cpu, completed[x] < requested'[x] PROVE Signalled(x)'
    BY <1>2 DEF RequestIsSignalled, Signalled
  <2>1. CASE completed[x] < requested[x]
    <3>1. Signalled(x)
      BY <2>1 DEF SInv, RequestIsSignalled, Signalled
    <3>2. CASE ipi[x] \/ hpc[x] = "first"
      BY <1>2, <1>6, <3>2 DEF Signalled
    <3>3. CASE \E a \in Cpu : failed[a] /\ completed[x] < ticket[a][x]
      BY <1>2, <1>5, <1>8, <3>3 DEF Signalled
    <3> QED BY <3>1, <3>2, <3>3 DEF Signalled
  <2>2. CASE ~(completed[x] < requested[x])
    <3>1. x = d
      BY <1>t, <1>2, <2>2
    <3>2. completed[d] >= requested[d]
      BY SMT, <1>7, <2>2, <3>1
    <3>3. ipi' = [ipi EXCEPT ![d] = TRUE] \/ failed' = [failed EXCEPT ![c] = TRUE]
      BY SMT, <1>7, <3>2 DEF PublishRequest
    <3>4. ipi'[d] \/ failed'[c]
      BY <1>t, <3>3
    <3>5. completed[d] < ticket'[c][d]
      BY SMT, <1>4, <1>7
    <3> QED BY <1>2, <3>1, <3>4, <3>5 DEF Signalled
  <2> QED BY <2>1, <2>2
<1> QED BY <1>3, <1>9 DEF SInv

(* A sender that returns leaves no request of its own behind. *)
LEMMA ReturnSignal ==
  ASSUME IInv, SInv, NEW c \in Cpu, FlushReturn(c)
  PROVE  SInv'
<1>t. /\ ticket \in [Cpu -> [Cpu -> Nat]] /\ completed \in [Cpu -> Nat]
      /\ failed \in [Cpu -> BOOLEAN] /\ targets \in [Cpu -> SUBSET Cpu]
  BY DEF IInv, TypeOK
<1>1. /\ ticket' = [ticket EXCEPT ![c] = [d \in Cpu |-> 0]]
      /\ failed' = [failed EXCEPT ![c] = FALSE] /\ targets' = [targets EXCEPT ![c] = {}]
      /\ UNCHANGED <<requested, completed, ipi, hpc>>
  BY DEF FlushReturn, boxVars
<1>2. UntargetedInv'
  BY <1>t, <1>1 DEF SInv, UntargetedInv
<1>3. \A d \in Cpu : ~(completed[d] < ticket[c][d])
  <2> SUFFICES ASSUME NEW d \in Cpu PROVE ~(completed[d] < ticket[c][d])
    OBVIOUS
  <2>1. completed[d] \in Nat /\ ticket[c][d] \in Nat
    BY <1>t
  <2>2. CASE d \in targets[c] \ {c}
    BY SMT, <2>1, <2>2 DEF FlushReturn, Answered
  <2>3. CASE d \notin targets[c] \/ c = d
    BY SMT, <2>1, <2>3 DEF SInv, UntargetedInv
  <2> QED BY <2>2, <2>3
<1>4. \A a \in Cpu \ {c} : failed'[a] = failed[a] /\ ticket'[a] = ticket[a]
  BY <1>t, <1>1
<1>5. RequestIsSignalled'
  <2> SUFFICES ASSUME NEW d \in Cpu, completed[d] < requested[d] PROVE Signalled(d)'
    BY <1>1 DEF RequestIsSignalled, Signalled
  <2>1. Signalled(d)
    BY DEF SInv, RequestIsSignalled, Signalled
  <2> QED BY <1>1, <1>3, <1>4, <2>1 DEF Signalled
<1> QED BY <1>2, <1>5 DEF SInv

(* The other steps take no interrupt away without entering the handler. *)
LEMMA OtherSignal ==
  ASSUME IInv, SInv, NEW c \in Cpu,
         \/ \E f \in Flush : flush_tlb_on_cpus(f.cpu, f.request, f.mask, f.irqs_off)
         \/ \E k \in Callback : run_on_cpu(c, k)
         \/ TakeInterrupt(c) \/ HandlerPop(c)
  PROVE  SInv'
<1>t. /\ ipi \in [Cpu -> BOOLEAN] /\ hpc \in [Cpu -> HandlerPc]
      /\ targets \in [Cpu -> SUBSET Cpu] /\ pc \in [Cpu -> FlushPc]
  BY DEF IInv, TypeOK
<1>1. UNCHANGED <<requested, completed, ticket, failed>>
  BY DEF flush_tlb_on_cpus, run_on_cpu, TakeInterrupt, HandlerPop, boxVars, flushVars
<1>2. \A d \in Cpu : ipi[d] \/ hpc[d] = "first" => ipi'[d] \/ hpc'[d] = "first"
  <2>1. CASE \E f \in Flush : flush_tlb_on_cpus(f.cpu, f.request, f.mask, f.irqs_off)
    BY <2>1 DEF flush_tlb_on_cpus
  <2>2. ASSUME NEW k \in Callback, run_on_cpu(c, k)
        PROVE  \A d \in Cpu : ipi[d] \/ hpc[d] = "first" => ipi'[d] \/ hpc'[d] = "first"
    <3>1. hpc' = hpc /\ ipi' \in {ipi, [ipi EXCEPT ![k.dest] = TRUE]}
      BY <2>2 DEF run_on_cpu
    <3> QED BY <1>t, <3>1
  <2>3. CASE TakeInterrupt(c)
    BY <1>t, <2>3 DEF TakeInterrupt
  <2>4. CASE HandlerPop(c)
    BY <1>t, <2>4 DEF HandlerPop
  <2> QED BY <2>1, <2>2, <2>3, <2>4
<1>3. RequestIsSignalled'
  BY <1>1, <1>2 DEF SInv, RequestIsSignalled
<1>4. UntargetedInv'
  <2>1. CASE UNCHANGED targets
    BY <1>1, <2>1 DEF SInv, UntargetedInv
  <2>2. ASSUME NEW f \in Flush, flush_tlb_on_cpus(f.cpu, f.request, f.mask, f.irqs_off)
        PROVE  UntargetedInv'
    <3>1. f.cpu \in Cpu /\ pc[f.cpu] = "idle" /\ targets' = [targets EXCEPT ![f.cpu] = f.mask]
      BY <2>2, FlushAssumption DEF flush_tlb_on_cpus
    <3>2. targets[f.cpu] = {}
      BY <3>1 DEF IInv, TodoInv
    <3> QED BY <1>t, <1>1, <3>1, <3>2 DEF SInv, UntargetedInv
  <2> QED BY <2>1, <2>2 DEF run_on_cpu, TakeInterrupt, HandlerPop, flushVars
<1> QED BY <1>3, <1>4 DEF SInv

(* Every step preserves SInv. *)
LEMMA NextSInv == IInv /\ SInv /\ [Next]_vars => SInv'
<1> SUFFICES ASSUME IInv, SInv, [Next]_vars PROVE SInv'
  OBVIOUS
<1>t. hpc \in [Cpu -> HandlerPc]
  BY DEF IInv, TypeOK
<1>1. CASE UNCHANGED vars
  BY <1>1 DEF vars, SInv, RequestIsSignalled, UntargetedInv
<1>2. ASSUME NEW c \in Cpu, Call(c) PROVE SInv'
  BY <1>2, OtherSignal DEF Call
<1>3. ASSUME NEW c \in Cpu, FlushStep(c) PROVE SInv'
  <2>1. CASE WaitService(c)
    BY <2>1, ServiceSignal DEF WaitService, flushVars
  <2> QED BY <1>3, <2>1, ReturnSignal, PublishSignal DEF FlushStep
<1>4. ASSUME NEW c \in Cpu, Handler(c) PROVE SInv'
  <2>1. CASE HandlerService(c)
    <3>1. \A d \in Cpu \ {c} : hpc'[d] = hpc[d]
      BY <1>t, <2>1 DEF HandlerService
    <3> QED BY <2>1, <3>1, ServiceSignal DEF HandlerService, flushVars
  <2> QED BY <1>4, <2>1, OtherSignal DEF Handler
<1>5. ASSUME NEW c \in Cpu, TimerTick(c) PROVE SInv'
  BY <1>5, ServiceSignal DEF TimerTick, flushVars
<1> QED BY <1>1, <1>2, <1>3, <1>4, <1>5, OtherSignal DEF Next, Step

(* While a mailbox has unanswered requests, an interrupt to its CPU is pending *)
(* or in its handler, or the sender whose interrupt failed is still waiting.   *)
THEOREM IpiRequestIsSignalled == Spec => []RequestIsSignalled
<1>1. Init => SInv
  BY SMT DEF Init, SInv, RequestIsSignalled, UntargetedInv
<1>2. SInv => RequestIsSignalled
  BY DEF SInv
<1> QED BY <1>1, <1>2, IInvInvariant, NextSInv, PTL DEF Spec

(* A queued callback is one that run_on_cpu accepted. *)
QueuedInv == \A c \in Cpu : \A i \in DOMAIN events[c] : outcome[events[c][i]] = "ok"

EventInv == QueuedInv /\ RejectedNeverRuns

(* run_on_cpu decides on a callback that is in no queue and has not run. *)
LEMMA RunEvent ==
  ASSUME IInv, EventInv, NEW c \in Cpu, NEW k \in Callback, run_on_cpu(c, k)
  PROVE  EventInv'
<1>t. /\ events \in [Cpu -> Seq(Callback)] /\ outcome \in [Callback -> Outcome]
      /\ ran \subseteq Callback
  BY DEF IInv, TypeOK
<1>1. /\ outcome[k] = "none" /\ ran' = ran /\ k.dest \in Cpu
      /\ \/ /\ events' = [events EXCEPT ![k.dest] = Append(events[k.dest], k)]
            /\ outcome' = [outcome EXCEPT ![k] = "ok"]
         \/ events' = events /\ outcome' = [outcome EXCEPT ![k] = "error"]
  BY CallbackAssumption DEF run_on_cpu
<1>2. \A j \in Callback : outcome[j] = "ok" => outcome'[j] = "ok"
  BY <1>t, <1>1
<1>3. RejectedNeverRuns'
  BY <1>t, <1>1, <1>2 DEF EventInv, RejectedNeverRuns
<1>4. QueuedInv'
  <2> SUFFICES ASSUME NEW d \in Cpu, NEW i \in DOMAIN events'[d]
               PROVE  outcome'[events'[d][i]] = "ok"
    BY DEF QueuedInv
  <2>1. CASE i \in DOMAIN events[d] /\ events'[d][i] = events[d][i]
    <3>1. events[d][i] \in Callback
      BY SMT, <1>t, <2>1
    <3> QED BY <1>2, <2>1, <3>1 DEF EventInv, QueuedInv
  <2>2. CASE ~(i \in DOMAIN events[d] /\ events'[d][i] = events[d][i])
    <3>1. events[d] \in Seq(Callback) /\ events' # events
      BY <1>t, <2>2
    <3>2. /\ events' = [events EXCEPT ![k.dest] = Append(events[k.dest], k)]
          /\ outcome' = [outcome EXCEPT ![k] = "ok"]
      BY <1>1, <3>1
    <3>3. d = k.dest /\ events'[d] = Append(events[d], k)
      BY <1>t, <1>1, <2>2, <3>2
    <3>4. events'[d][i] = k
      BY SMT, <2>2, <3>1, <3>3
    <3> QED BY <1>t, <3>2, <3>4
  <2> QED BY <2>1, <2>2
<1> QED BY <1>3, <1>4 DEF EventInv

(* The handler calls what is at the head of the queue. *)
LEMMA PopEvent ==
  ASSUME IInv, EventInv, NEW c \in Cpu, HandlerPop(c)
  PROVE  EventInv'
<1>t. events \in [Cpu -> Seq(Callback)]
  BY DEF IInv, TypeOK
<1>1. CASE events[c] = <<>>
  BY <1>1 DEF HandlerPop, EventInv, QueuedInv, RejectedNeverRuns
<1>2. CASE events[c] # <<>>
  <2>1. /\ ran' = ran \cup {Head(events[c])} /\ outcome' = outcome
        /\ events' = [events EXCEPT ![c] = Tail(events[c])]
    BY <1>2 DEF HandlerPop
  <2>2. events[c] \in Seq(Callback)
    BY <1>t
  <2>3. 1 \in DOMAIN events[c] /\ Head(events[c]) = events[c][1]
    BY SMT, <1>2, <2>2
  <2>4. \A i \in DOMAIN Tail(events[c]) :
            \E j \in DOMAIN events[c] : Tail(events[c])[i] = events[c][j]
    <3> TAKE i \in DOMAIN Tail(events[c])
    <3>1. i + 1 \in DOMAIN events[c] /\ Tail(events[c])[i] = events[c][i + 1]
      BY SMT, <1>2, <2>2
    <3> QED BY <3>1
  <2>5. RejectedNeverRuns'
    BY <2>1, <2>3 DEF EventInv, QueuedInv, RejectedNeverRuns
  <2>6. QueuedInv'
    <3> SUFFICES ASSUME NEW d \in Cpu, NEW i \in DOMAIN events'[d]
                 PROVE  outcome[events'[d][i]] = "ok"
      BY <2>1 DEF QueuedInv
    <3>1. CASE d = c
      <4>1. events'[d] = Tail(events[c])
        BY <1>t, <2>1, <3>1
      <4>2. i \in DOMAIN Tail(events[c])
        BY <4>1
      <4>3. PICK j \in DOMAIN events[c] : Tail(events[c])[i] = events[c][j]
        BY <2>4, <4>2
      <4> QED BY <4>1, <4>3 DEF EventInv, QueuedInv
    <3>2. CASE d # c
      <4>1. events'[d] = events[d]
        BY <1>t, <2>1, <3>2
      <4> QED BY <4>1 DEF EventInv, QueuedInv
    <3> QED BY <3>1, <3>2
  <2> QED BY <2>5, <2>6 DEF EventInv
<1> QED BY <1>1, <1>2

(* Every step preserves EventInv. *)
LEMMA NextEventInv == IInv /\ EventInv /\ [Next]_vars => EventInv'
<1> SUFFICES ASSUME IInv, EventInv, [Next]_vars PROVE EventInv'
  OBVIOUS
<1>1. CASE UNCHANGED <<events, outcome, ran>>
  BY <1>1 DEF EventInv, QueuedInv, RejectedNeverRuns
<1>2. CASE UNCHANGED vars
  BY <1>1, <1>2 DEF vars
<1>3. ASSUME NEW c \in Cpu, Call(c) PROVE EventInv'
  BY <1>1, <1>3, RunEvent DEF Call, flush_tlb_on_cpus, eventVars
<1>4. ASSUME NEW c \in Cpu, Step(c) PROVE EventInv'
  BY <1>1, <1>4, PopEvent DEF Step, FlushStep, Handler, WaitService, FlushReturn,
     PublishRequest, TakeInterrupt, HandlerService, TimerTick, eventVars
<1> QED BY <1>2, <1>3, <1>4 DEF Next

(* run_on_cpu is all or nothing: a callback that it reports as not sent is    *)
(* never called, whatever else the queue holds.                               *)
THEOREM RejectedCallbackNeverRuns == Spec => []RejectedNeverRuns
<1>1. Init => EventInv
  BY SMT DEF Init, EventInv, QueuedInv, RejectedNeverRuns
<1>2. EventInv => RejectedNeverRuns
  BY DEF EventInv
<1> QED BY <1>1, <1>2, IInvInvariant, NextEventInv, PTL DEF Spec

(* The contract's flush requests are Ipi's: both come from TlbFlush. *)
LEMMA SameRequests ==
  /\ Contract!All = All
  /\ Contract!Translation = Translation
  /\ \A r : Contract!Covered(r) = Covered(r)
BY DEF Contract!All, All, Contract!Translation, Translation, Contract!Covered, Covered

(* The initial state maps to the contract's. *)
LEMMA InitRefines == Init => Contract!Init
<1> SUFFICES ASSUME Init PROVE Contract!Init
  OBVIOUS
<1>1. \A c \in Cpu : ~(pc[c] # "idle") /\ Pending(c) = {}
  BY DEF Init, Pending
<1> QED BY <1>1, SameRequests DEF Init, Contract!Init

(* What the contract sees of a step that changes none of its variables. *)
LEMMA Stutter ==
  ASSUME tlb' = tlb, req' = req, \A c \in Cpu : (pc'[c] = "idle") = (pc[c] = "idle"),
         \A c \in Cpu : Pending(c)' = Pending(c)
  PROVE  UNCHANGED Contract!vars
<1>1. [c \in Cpu |-> pc[c] # "idle"]' = [c \in Cpu |-> pc[c] # "idle"]
  OBVIOUS
<1>2. [c \in Cpu |-> Pending(c)]' = [c \in Cpu |-> Pending(c)]
  OBVIOUS
<1> QED BY <1>1, <1>2 DEF Contract!vars

(* A call of flush_tlb_on_cpus is the contract's Call. *)
LEMMA CallRefines ==
  ASSUME IInv, NEW f \in Flush, flush_tlb_on_cpus(f.cpu, f.request, f.mask, f.irqs_off)
  PROVE  Contract!Next
<1> DEFINE c == f.cpu
<1>t. /\ c \in Cpu /\ pc \in [Cpu -> FlushPc] /\ targets \in [Cpu -> SUBSET Cpu]
      /\ todo \in [Cpu -> SUBSET Cpu]
  BY FlushAssumption DEF IInv, TypeOK
<1>1. /\ pc[c] = "idle"
      /\ pc' = [pc EXCEPT ![c] = IF f.mask \subseteq {c} THEN "wait" ELSE "send"]
      /\ tlb' = [tlb EXCEPT ![c] = IF c \in f.mask THEN tlb[c] \ Covered(f.request) ELSE tlb[c]]
      /\ req' = [req EXCEPT ![c] = f.request]
      /\ targets' = [targets EXCEPT ![c] = f.mask]
      /\ todo' = [todo EXCEPT ![c] = f.mask \ {c}]
      /\ UNCHANGED <<completed, ticket>>
  BY DEF flush_tlb_on_cpus, boxVars
<1> HIDE DEF c
<1>2. [a \in Cpu |-> pc[a] # "idle"]' = [[a \in Cpu |-> pc[a] # "idle"] EXCEPT ![c] = TRUE]
  BY <1>t, <1>1
<1>3. \A a \in Cpu : Pending(a)' = IF a = c THEN f.mask \ {c} ELSE Pending(a)
  BY <1>t, <1>1 DEF Pending
<1>4. [a \in Cpu |-> Pending(a)]' = [[a \in Cpu |-> Pending(a)] EXCEPT ![c] = f.mask \ {c}]
  BY <1>t, <1>3
<1>5. Contract!Call(c, f.request, f.mask)
  BY <1>t, <1>1, <1>2, <1>4, SameRequests DEF Contract!Call
<1> QED BY <1>5 DEF c, Contract!Next

(* Publishing a request changes nothing that the contract knows: its target   *)
(* was owed before and is owed after.                                         *)
LEMMA PublishRefines ==
  ASSUME IInv, NEW c \in Cpu, NEW d \in Cpu, PublishRequest(c, d)
  PROVE  UNCHANGED Contract!vars
<1>t. /\ pc \in [Cpu -> FlushPc] /\ requested \in [Cpu -> Nat] /\ completed \in [Cpu -> Nat]
      /\ ticket \in [Cpu -> [Cpu -> Nat]] /\ todo \in [Cpu -> SUBSET Cpu]
  BY DEF IInv, TypeOK
<1>1. /\ pc[c] = "send" /\ d \in todo[c] /\ d \in targets[c] \ {c}
      /\ pc' = [pc EXCEPT ![c] = IF todo[c] = {d} THEN "wait" ELSE "send"]
      /\ todo' = [todo EXCEPT ![c] = todo[c] \ {d}]
      /\ UNCHANGED <<tlb, req, targets, completed>>
  BY DEF PublishRequest, IInv, TodoInv
<1>2. ticket' = [ticket EXCEPT ![c] = [ticket[c] EXCEPT ![d] = requested[d] + 1]]
  BY DEF PublishRequest
<1>3. completed[d] < requested[d] + 1
  BY SMT, <1>t DEF IInv, TicketInv
<1>4. \A a \in Cpu : Pending(a)' = Pending(a)
  <2> SUFFICES ASSUME NEW a \in Cpu, NEW x \in targets[a] \ {a}
               PROVE  (x \in todo'[a] \/ completed[x] < ticket'[a][x])
                      = (x \in todo[a] \/ completed[x] < ticket[a][x])
    BY <1>1 DEF Pending
  <2>0. x \in Cpu
    BY DEF IInv, TypeOK
  <2>1. CASE a = c /\ x = d
    BY <1>t, <1>1, <1>2, <1>3, <2>1
  <2>2. CASE a # c
    BY <1>t, <1>1, <1>2, <2>2
  <2>3. CASE a = c /\ x # d
    BY <1>t, <1>1, <1>2, <2>0, <2>3
  <2> QED BY <2>1, <2>2, <2>3
<1>5. \A a \in Cpu : (pc'[a] = "idle") = (pc[a] = "idle")
  BY <1>t, <1>1
<1> QED BY <1>1, <1>4, <1>5, Stutter

(* A CPU that serves its mailbox serves the calls whose tickets it answers,    *)
(* at once, by flushing what the batch covers; or it has nothing to serve.     *)
LEMMA ServiceRefines ==
  ASSUME IInv, NEW d \in Cpu, service_tlb_shootdown(d), UNCHANGED flushVars
  PROVE  [Contract!Next]_(Contract!vars)
<1>t. /\ tlb \in [Cpu -> SUBSET Translation] /\ requested \in [Cpu -> Nat]
      /\ completed \in [Cpu -> Nat] /\ ticket \in [Cpu -> [Cpu -> Nat]]
      /\ targets \in [Cpu -> SUBSET Cpu]
  BY DEF IInv, TypeOK
<1>u. UNCHANGED <<pc, req, todo, targets, ticket>>
  BY DEF flushVars
<1>1. CASE ~(completed[d] < requested[d])
  <2>1. UNCHANGED <<tlb, completed>>
    BY <1>1 DEF service_tlb_shootdown
  <2>2. \A a \in Cpu : Pending(a)' = Pending(a)
    BY <1>u, <2>1 DEF Pending
  <2> QED BY <1>u, <2>1, <2>2, Stutter
<1>2. CASE completed[d] < requested[d]
  <2> DEFINE lost == BatchCovered(batch[d])
             callers == {a \in Cpu : /\ d \in targets[a] \ {a} /\ d \notin todo[a]
                                     /\ completed[d] < ticket[a][d]}
  <2>1. /\ tlb' = [tlb EXCEPT ![d] = tlb[d] \ lost]
        /\ completed' = [completed EXCEPT ![d] = requested[d]]
    BY <1>2 DEF service_tlb_shootdown
  <2>2. lost \subseteq Translation
    BY DEF BatchCovered, Covered
  <2>3. ASSUME NEW a \in callers
        PROVE  d \in Pending(a) /\ Covered(req[a]) \subseteq lost
    <3>1. a \in Cpu /\ completed[d] \in Nat /\ ticket[a][d] \in Nat
      BY <1>t, <2>3
    <3>2. pc[a] # "idle"
      BY <2>3 DEF IInv, TodoInv
    <3>3. d \in targets[a] \ {a} /\ d \notin todo[a] /\ completed[d] < ticket[a][d]
      BY <2>3
    <3>4. \/ completed[d] < ticket[a][d] /\ Covered(req[a]) \subseteq lost
          \/ completed[d] >= ticket[a][d]
      BY <3>1, <3>2, <3>3 DEF IInv, SentInv
    <3>5. ~(completed[d] >= ticket[a][d])
      BY SMT, <3>1, <3>3
    <3>6. d \in Pending(a)
      BY <3>3 DEF Pending
    <3> QED BY <3>4, <3>5, <3>6
  <2>4. \A a \in Cpu : Pending(a)' = IF a \in callers THEN Pending(a) \ {d} ELSE Pending(a)
    <3> SUFFICES ASSUME NEW a \in Cpu, NEW x \in targets[a] \ {a}
                 PROVE  (x \in todo[a] \/ completed'[x] < ticket[a][x])
                        = /\ x \in todo[a] \/ completed[x] < ticket[a][x]
                          /\ ~(a \in callers /\ x = d)
      BY <1>u DEF Pending
    <3>0. x \in Cpu
      BY <1>t
    <3>1. CASE x # d
      BY <1>t, <2>1, <3>0, <3>1
    <3>2. CASE x = d
      <4>1. completed'[d] = requested[d] /\ ticket[a][d] <= requested[d]
        BY <1>t, <2>1 DEF IInv, TicketInv
      <4>2. ~(completed'[d] < ticket[a][d])
        BY SMT, <1>t, <4>1
      <4> QED BY <3>2, <4>2
    <3> QED BY <3>1, <3>2
  <2> HIDE DEF lost, callers
  <2>5. callers \subseteq Cpu
    BY DEF callers
  <2>6. /\ [a \in Cpu |-> pc[a] # "idle"]' = [a \in Cpu |-> pc[a] # "idle"]
        /\ [a \in Cpu |-> Pending(a)]' =
               [a \in Cpu |-> IF a \in callers THEN [b \in Cpu |-> Pending(b)][a] \ {d}
                                               ELSE [b \in Cpu |-> Pending(b)][a]]
    BY <1>u, <2>4
  <2>7. Contract!Serve(d, callers, lost)
    BY <1>u, <2>1, <2>3, <2>5, <2>6, SameRequests DEF Contract!Serve
  <2> QED BY <2>2, <2>5, <2>7, SameRequests DEF Contract!Next
<1> QED BY <1>1, <1>2

(* flush_tlb_on_cpus returns when it is owed nothing any more. *)
LEMMA ReturnRefines ==
  ASSUME IInv, NEW c \in Cpu, FlushReturn(c)
  PROVE  Contract!Next
<1>t. /\ pc \in [Cpu -> FlushPc] /\ completed \in [Cpu -> Nat] /\ targets \in [Cpu -> SUBSET Cpu]
      /\ ticket \in [Cpu -> [Cpu -> Nat]]
  BY DEF IInv, TypeOK
<1>1. /\ pc[c] = "wait" /\ Answered(c) /\ todo[c] = {}
      /\ pc' = [pc EXCEPT ![c] = "idle"] /\ req' = [req EXCEPT ![c] = All]
      /\ targets' = [targets EXCEPT ![c] = {}]
      /\ ticket' = [ticket EXCEPT ![c] = [d \in Cpu |-> 0]]
      /\ UNCHANGED <<tlb, todo, completed>>
  BY DEF FlushReturn, boxVars, IInv, TodoInv
<1>2. Pending(c) = {}
  <2> SUFFICES ASSUME NEW d \in targets[c] \ {c} PROVE ~(completed[d] < ticket[c][d])
    BY <1>1 DEF Pending
  <2>1. completed[d] \in Nat /\ ticket[c][d] \in Nat /\ completed[d] >= ticket[c][d]
    BY <1>t, <1>1 DEF Answered
  <2> QED BY SMT, <2>1
<1>3. \A a \in Cpu : Pending(a)' = Pending(a)
  <2>1. Pending(c)' = {}
    BY <1>t, <1>1 DEF Pending
  <2>2. ASSUME NEW a \in Cpu \ {c} PROVE Pending(a)' = Pending(a)
    BY <1>t, <1>1 DEF Pending
  <2> QED BY <1>2, <2>1, <2>2
<1>4. [a \in Cpu |-> Pending(a)]' = [a \in Cpu |-> Pending(a)]
  BY <1>3
<1>5. [a \in Cpu |-> pc[a] # "idle"]' = [[a \in Cpu |-> pc[a] # "idle"] EXCEPT ![c] = FALSE]
  BY <1>t, <1>1
<1>6. Contract!Return(c)
  BY <1>1, <1>2, <1>4, <1>5, SameRequests DEF Contract!Return
<1> QED BY <1>6 DEF Contract!Next

(* Callbacks and the entry of the handler are not the contract's business. *)
LEMMA EventRefines ==
  ASSUME NEW c \in Cpu,
         TakeInterrupt(c) \/ HandlerPop(c) \/ \E k \in Callback : run_on_cpu(c, k)
  PROVE  UNCHANGED Contract!vars
<1>1. UNCHANGED <<tlb, completed, pc, req, todo, targets, ticket>>
  BY DEF TakeInterrupt, HandlerPop, run_on_cpu, boxVars, flushVars
<1>2. \A a \in Cpu : Pending(a)' = Pending(a)
  BY <1>1 DEF Pending
<1> QED BY <1>1, <1>2, Stutter

(* Every step of Ipi is a step of the contract or changes nothing there. *)
LEMMA NextRefines == IInv /\ [Next]_vars => [Contract!Next]_(Contract!vars)
<1> SUFFICES ASSUME IInv, [Next]_vars PROVE [Contract!Next]_(Contract!vars)
  OBVIOUS
<1>1. CASE UNCHANGED vars
  <2>1. UNCHANGED <<tlb, completed, pc, req, todo, targets, ticket>>
    BY <1>1 DEF vars
  <2>2. \A a \in Cpu : Pending(a)' = Pending(a)
    BY <2>1 DEF Pending
  <2> QED BY <2>1, <2>2, Stutter
<1>2. ASSUME NEW c \in Cpu, Call(c) PROVE [Contract!Next]_(Contract!vars)
  BY <1>2, CallRefines, EventRefines DEF Call
<1>3. ASSUME NEW c \in Cpu, Step(c) PROVE [Contract!Next]_(Contract!vars)
  <2>1. CASE FlushStep(c)
    BY <2>1, ServiceRefines, ReturnRefines, PublishRefines DEF FlushStep, WaitService
  <2>2. CASE Handler(c)
    BY <2>2, ServiceRefines, EventRefines DEF Handler, HandlerService
  <2>3. CASE TimerTick(c)
    BY <2>3, ServiceRefines DEF TimerTick
  <2>4. CASE TakeInterrupt(c)
    BY <2>4, EventRefines
  <2> QED BY <1>3, <2>1, <2>2, <2>3, <2>4 DEF Step
<1> QED BY <1>1, <1>2, <1>3 DEF Next

(* Mailboxes, tickets, merging, lost interrupts and nested service keep the     *)
(* contract of flush_tlb_on_cpus that TlbShootdown is written against.          *)
THEOREM IpiKeepsContract == Spec => KeepsContract
<1>1. Spec => Contract!Init
  BY InitRefines DEF Spec
<1>2. IInv /\ [Next]_vars => [Contract!Next]_(Contract!vars)
  BY NextRefines
<1> QED BY <1>1, <1>2, IInvInvariant, PTL DEF Spec, KeepsContract, Contract!Spec
==============================================================================
