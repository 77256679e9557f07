------------------------------- MODULE TlbFlush -------------------------------
(***************************************************************************)
(* The flush requests of modules/axipi/src/lib.rs and how a mailbox merges *)
(* them: TlbFlushRequest, TlbFlushBatch and merge_tlb_flush.  Addresses    *)
(* are page numbers.  TlbFlushRequest::None is never put into a batch and  *)
(* has no counterpart here.                                                *)
(***************************************************************************)
EXTENDS Naturals, Sequences

CONSTANTS
    Asid,
    Page,                        \* page numbers
    TLB_RANGE_PAGE_LIMIT,
    TLB_MAILBOX_REQUEST_CAPACITY

ASSUME PageAssumption == Page \subseteq Nat
ASSUME LimitAssumption ==
    TLB_RANGE_PAGE_LIMIT \in Nat /\ TLB_MAILBOX_REQUEST_CAPACITY \in Nat \ {0}

(* What a TLB caches: a page under an address-space ID. *)
Translation == [asid : Asid, page : Page]

RangeRequest == [type : {"Range"}, asid : Asid, start : Nat, end : Nat]
AsidRequest == [type : {"Asid"}, asid : Asid]
AllRequest == [type : {"All"}]
TlbFlushRequest == RangeRequest \cup AsidRequest \cup AllRequest

Range(asid, start, end) == [type |-> "Range", asid |-> asid, start |-> start, end |-> end]
WholeAsid(asid) == [type |-> "Asid", asid |-> asid]
All == [type |-> "All"]

(* execute_tlb_flush: the translations a request removes from a TLB. *)
Covered(r) ==
    {x \in Translation :
        \/ r.type = "All"
        \/ r.type = "Asid" /\ x.asid = r.asid
        \/ r.type = "Range" /\ x.asid = r.asid /\ r.start <= x.page /\ x.page < r.end}

BatchCovered(b) == UNION {Covered(b[i]) : i \in DOMAIN b}

Least(m, n) == IF m <= n THEN m ELSE n
Greatest(m, n) == IF m >= n THEN m ELSE n

(* A faulty merge, which keeps the two ends of the later range. *)
MergeKeepsLater(pending, r) ==
    IF pending.type = "Range" /\ r.type = "Range"
    THEN LET start == Least(pending.start, r.start)
         IN  IF r.end - start <= TLB_RANGE_PAGE_LIMIT
             THEN Range(r.asid, start, r.end) ELSE WholeAsid(r.asid)
    ELSE WholeAsid(r.asid)

(* merge_tlb_flush, for two requests of one ASID. *)
merge_tlb_flush(pending, r) ==
    IF pending.type = "Range" /\ r.type = "Range"
    THEN LET start == Least(pending.start, r.start)
             end   == Greatest(pending.end, r.end)
         IN  IF end - start <= TLB_RANGE_PAGE_LIMIT
             THEN Range(r.asid, start, end) ELSE WholeAsid(r.asid)
    ELSE WholeAsid(r.asid)

SameAsid(p, r) == p.type # "All" /\ r.type # "All" /\ p.asid = r.asid

(* TlbFlushBatch::enqueue. *)
enqueue(b, r) ==
    LET same == {i \in DOMAIN b : SameAsid(b[i], r)}
        first == CHOOSE i \in same : \A j \in same : i <= j
    IN  IF r = All THEN <<All>>
        ELSE IF b = <<All>> THEN b
        ELSE IF same # {} THEN [b EXCEPT ![first] = merge_tlb_flush(@, r)]
        ELSE IF Len(b) < TLB_MAILBOX_REQUEST_CAPACITY THEN Append(b, r)
        ELSE <<All>>
==============================================================================
