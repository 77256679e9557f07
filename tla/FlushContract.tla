---------------------------- MODULE FlushContract ----------------------------
(***************************************************************************)
(* What flush_tlb_on_cpus of modules/axipi/src/lib.rs promises, without    *)
(* mailboxes, tickets or interrupts: a call flushes its own CPU at once,   *)
(* every other target flushes some time before the call returns, and a     *)
(* flush may remove more than it was asked for.  Ipi implements it, and    *)
(* TlbShootdown is written against it.                                     *)
(***************************************************************************)
EXTENDS TlbFlush

CONSTANTS
    Cpu,
    Flush     \* the flushes that may be asked for

VARIABLES
    tlb,      \* [Cpu -> SUBSET Translation]
    busy,     \* [Cpu -> BOOLEAN]          a call is in progress
    request,  \* [Cpu -> TlbFlushRequest]  what it asks for
    pending   \* [Cpu -> SUBSET Cpu]       the targets that have yet to flush

vars == <<tlb, busy, request, pending>>

Init ==
    /\ tlb = [c \in Cpu |-> Translation]
    /\ busy = [c \in Cpu |-> FALSE]
    /\ request = [c \in Cpu |-> All]
    /\ pending = [c \in Cpu |-> {}]

Call(c, r, mask) ==
    /\ ~busy[c]
    /\ busy' = [busy EXCEPT ![c] = TRUE]
    /\ request' = [request EXCEPT ![c] = r]
    /\ pending' = [pending EXCEPT ![c] = mask \ {c}]
    /\ tlb' = [tlb EXCEPT ![c] = IF c \in mask THEN @ \ Covered(r) ELSE @]

(* CPU d removes the translations in lost, and by that satisfies the calls  *)
(* of the CPUs in callers.                                                  *)
Serve(d, callers, lost) ==
    /\ \A c \in callers : d \in pending[c] /\ Covered(request[c]) \subseteq lost
    /\ tlb' = [tlb EXCEPT ![d] = @ \ lost]
    /\ pending' = [c \in Cpu |-> IF c \in callers THEN pending[c] \ {d} ELSE pending[c]]
    /\ UNCHANGED <<busy, request>>

Return(c) ==
    /\ busy[c] /\ pending[c] = {}
    /\ busy' = [busy EXCEPT ![c] = FALSE]
    /\ request' = [request EXCEPT ![c] = All]
    /\ UNCHANGED <<tlb, pending>>

Next ==
    \/ \E f \in Flush : Call(f.cpu, f.request, f.mask)
    \/ \E d \in Cpu, callers \in SUBSET Cpu, lost \in SUBSET Translation : Serve(d, callers, lost)
    \/ \E c \in Cpu : Return(c)

Spec == Init /\ [][Next]_vars
==============================================================================
