---------------------------------- MODULE Ipi ----------------------------------
(***************************************************************************)
(* The inter-processor interrupts of modules/axipi/src/lib.rs: the TLB     *)
(* mailboxes with their tickets (flush_tlb_on_cpus, service_tlb_shootdown, *)
(* wait_for_tlb_shootdowns), the callback queues (run_on_cpu), the handler *)
(* of the interrupt, and the timer interrupt that serves the mailbox too.  *)
(* Sending an interrupt may fail.                                          *)
(*                                                                         *)
(* All CPUs are online and ready, as they are once main() runs.  A CPU     *)
(* runs one flush_tlb_on_cpus at a time, with interrupts on or off.  What  *)
(* generations and activation add to this is in TlbShootdown.              *)
(***************************************************************************)
EXTENDS TlbFlush

CONSTANTS
    Cpu,
    Flush,       \* the flushes the CPUs may ask for
    Callback,    \* the callbacks they may have run elsewhere, each at most once
    MaxCalls     \* bound: calls a CPU may start

ASSUME FlushAssumption ==
    Flush \subseteq [cpu : Cpu, request : TlbFlushRequest, mask : SUBSET Cpu, irqs_off : BOOLEAN]
ASSUME CallbackAssumption == Callback \subseteq {k \in [cpu : Cpu, dest : Cpu] : k.cpu # k.dest}
ASSUME MaxCallsAssumption == MaxCalls \in Nat

VARIABLES
    tlb,         \* [Cpu -> SUBSET Translation]
    batch,       \* [Cpu -> Seq(TlbFlushRequest)]  TLB_SHOOTDOWN_MAILBOXES
    requested,   \* [Cpu -> Nat]                   TLB_SHOOTDOWN_REQUESTED
    completed,   \* [Cpu -> Nat]                   TLB_SHOOTDOWN_COMPLETED
    ipi,         \* [Cpu -> BOOLEAN]               the interrupt is pending
    hpc,         \* [Cpu -> HandlerPc]             ipi_handler
    events,      \* [Cpu -> Seq(Callback)]         IPI_EVENT_QUEUE
    outcome,     \* [Callback -> Outcome]          what run_on_cpu returned
    ran,         \* SUBSET Callback                callbacks that were called
    pc,          \* [Cpu -> FlushPc]               flush_tlb_on_cpus
    req, todo, targets, ticket, failed, masked,   \* its arguments and local variables
    started,     \* [Cpu -> Nat]                   calls begun
    gone         \* [Cpu -> SUBSET Translation]    what returned flushes promised of a CPU

boxVars == <<batch, requested, completed>>
eventVars == <<events, outcome, ran>>
flushVars == <<pc, req, todo, targets, ticket, failed, masked, started, gone>>
vars == <<tlb, batch, requested, completed, ipi, hpc, events, outcome, ran,
          pc, req, todo, targets, ticket, failed, masked, started, gone>>

HandlerPc == {"no", "first", "pop", "last"}
FlushPc == {"idle", "send", "wait"}
Outcome == {"none", "ok", "error"}

TypeOK ==
    /\ tlb \in [Cpu -> SUBSET Translation] /\ gone \in [Cpu -> SUBSET Translation]
    /\ batch \in [Cpu -> Seq(TlbFlushRequest)]
    /\ requested \in [Cpu -> Nat] /\ completed \in [Cpu -> Nat]
    /\ ipi \in [Cpu -> BOOLEAN] /\ hpc \in [Cpu -> HandlerPc]
    /\ events \in [Cpu -> Seq(Callback)]
    /\ outcome \in [Callback -> Outcome] /\ ran \subseteq Callback
    /\ pc \in [Cpu -> FlushPc] /\ req \in [Cpu -> TlbFlushRequest]
    /\ todo \in [Cpu -> SUBSET Cpu] /\ targets \in [Cpu -> SUBSET Cpu]
    /\ ticket \in [Cpu -> [Cpu -> Nat]]
    /\ failed \in [Cpu -> BOOLEAN] /\ masked \in [Cpu -> BOOLEAN]
    /\ started \in [Cpu -> Nat]

Init ==
    /\ tlb = [c \in Cpu |-> Translation] /\ gone = [c \in Cpu |-> {}]
    /\ batch = [c \in Cpu |-> <<>>]
    /\ requested = [c \in Cpu |-> 0] /\ completed = [c \in Cpu |-> 0]
    /\ ipi = [c \in Cpu |-> FALSE] /\ hpc = [c \in Cpu |-> "no"]
    /\ events = [c \in Cpu |-> <<>>]
    /\ outcome = [k \in Callback |-> "none"] /\ ran = {}
    /\ pc = [c \in Cpu |-> "idle"] /\ req = [c \in Cpu |-> All]
    /\ todo = [c \in Cpu |-> {}] /\ targets = [c \in Cpu |-> {}]
    /\ ticket = [c \in Cpu |-> [d \in Cpu |-> 0]]
    /\ failed = [c \in Cpu |-> FALSE] /\ masked = [c \in Cpu |-> FALSE]
    /\ started = [c \in Cpu |-> 0]

(* Interrupts are off in the handler, and in a flush made with them off. *)
IrqsOff(c) == hpc[c] # "no" \/ (pc[c] # "idle" /\ masked[c])

(* The CPU executes its task, not its interrupt handler. *)
InTask(c) == hpc[c] = "no"
------------------------------------------------------------------------------
(* A faulty call, which leaves its own CPU to the loop over the remote ones. *)
FlushRemoteOnly(c, r, mask, irqs_off) ==
    /\ InTask(c) /\ pc[c] = "idle" /\ started[c] < MaxCalls
    /\ pc' = [pc EXCEPT ![c] = IF mask \subseteq {c} THEN "wait" ELSE "send"]
    /\ req' = [req EXCEPT ![c] = r]
    /\ targets' = [targets EXCEPT ![c] = mask]
    /\ todo' = [todo EXCEPT ![c] = mask \ {c}]
    /\ masked' = [masked EXCEPT ![c] = irqs_off]
    /\ started' = [started EXCEPT ![c] = @ + 1]
    /\ UNCHANGED <<tlb, ipi, hpc, ticket, failed, gone>>
    /\ UNCHANGED boxVars /\ UNCHANGED eventVars

(* flush_tlb_on_cpus.  The local flush is one step with the call: no other   *)
(* CPU reads this CPU's TLB.                                                 *)
flush_tlb_on_cpus(c, r, mask, irqs_off) ==
    /\ InTask(c) /\ pc[c] = "idle" /\ started[c] < MaxCalls
    /\ tlb' = [tlb EXCEPT ![c] = IF c \in mask THEN @ \ Covered(r) ELSE @]
    /\ pc' = [pc EXCEPT ![c] = IF mask \subseteq {c} THEN "wait" ELSE "send"]
    /\ req' = [req EXCEPT ![c] = r]
    /\ targets' = [targets EXCEPT ![c] = mask]
    /\ todo' = [todo EXCEPT ![c] = mask \ {c}]
    /\ masked' = [masked EXCEPT ![c] = irqs_off]
    /\ started' = [started EXCEPT ![c] = @ + 1]
    /\ UNCHANGED <<ipi, hpc, ticket, failed, gone>>
    /\ UNCHANGED boxVars /\ UNCHANGED eventVars

(* A faulty request that takes its own ticket for an outstanding one. *)
RequestUnsignalled(c, d) ==
    /\ InTask(c) /\ pc[c] = "send" /\ d \in todo[c]
    /\ batch' = [batch EXCEPT ![d] = enqueue(@, req[c])]
    /\ requested' = [requested EXCEPT ![d] = @ + 1]
    /\ ticket' = [ticket EXCEPT ![c][d] = requested[d] + 1]
    /\ \/ completed[d] > requested[d] /\ ipi' = [ipi EXCEPT ![d] = TRUE] /\ UNCHANGED failed
       \/ completed[d] > requested[d] /\ failed' = [failed EXCEPT ![c] = TRUE] /\ UNCHANGED ipi
       \/ completed[d] <= requested[d] /\ UNCHANGED <<ipi, failed>>
    /\ todo' = [todo EXCEPT ![c] = @ \ {d}]
    /\ pc' = [pc EXCEPT ![c] = IF todo[c] = {d} THEN "wait" ELSE "send"]
    /\ UNCHANGED <<tlb, completed, hpc, req, targets, masked, started, gone>>
    /\ UNCHANGED eventVars

(* One request, under the lock of d's mailbox.  The interrupt is sent unless *)
(* an earlier request is outstanding, and sending it may fail.               *)
PublishRequest(c, d) ==
    /\ InTask(c) /\ pc[c] = "send" /\ d \in todo[c]
    /\ batch' = [batch EXCEPT ![d] = enqueue(@, req[c])]
    /\ requested' = [requested EXCEPT ![d] = @ + 1]
    /\ ticket' = [ticket EXCEPT ![c][d] = requested[d] + 1]
    /\ \/ completed[d] >= requested[d] /\ ipi' = [ipi EXCEPT ![d] = TRUE] /\ UNCHANGED failed
       \/ completed[d] >= requested[d] /\ failed' = [failed EXCEPT ![c] = TRUE] /\ UNCHANGED ipi
       \/ completed[d] < requested[d] /\ UNCHANGED <<ipi, failed>>
    /\ todo' = [todo EXCEPT ![c] = @ \ {d}]
    /\ pc' = [pc EXCEPT ![c] = IF todo[c] = {d} THEN "wait" ELSE "send"]
    /\ UNCHANGED <<tlb, completed, hpc, req, targets, masked, started, gone>>
    /\ UNCHANGED eventVars

(* service_tlb_shootdown, under the lock of the own mailbox. *)
service_tlb_shootdown(c) ==
    /\ IF completed[c] < requested[c]
       THEN /\ tlb' = [tlb EXCEPT ![c] = @ \ BatchCovered(batch[c])]
            /\ batch' = [batch EXCEPT ![c] = <<>>]
            /\ completed' = [completed EXCEPT ![c] = requested[c]]
       ELSE UNCHANGED <<tlb, batch, completed>>
    /\ UNCHANGED requested

(* A faulty test, which takes the first answer for all of them. *)
AnsweredBySome(c) ==
    \/ targets[c] \subseteq {c}
    \/ \E d \in targets[c] \ {c} : completed[d] >= ticket[c][d]

Answered(c) == \A d \in targets[c] \ {c} : completed[d] >= ticket[c][d]

(* A faulty wait that leaves the own mailbox to the interrupt. *)
WaitOnly(c) ==
    /\ InTask(c) /\ pc[c] = "wait" /\ ~Answered(c)
    /\ UNCHANGED vars

(* wait_for_tlb_shootdowns serves its own mailbox while it waits. *)
WaitService(c) ==
    /\ InTask(c) /\ pc[c] = "wait" /\ ~Answered(c)
    /\ completed[c] < requested[c]
    /\ service_tlb_shootdown(c)
    /\ UNCHANGED <<ipi, hpc>>
    /\ UNCHANGED eventVars /\ UNCHANGED flushVars

(* flush_tlb_on_cpus returns, Ok or Completed(error).  Either way its caller *)
(* takes the translations for flushed on every target.                       *)
FlushReturn(c) ==
    /\ InTask(c) /\ pc[c] = "wait" /\ Answered(c)
    /\ pc' = [pc EXCEPT ![c] = "idle"]
    /\ gone' = [d \in Cpu |-> IF d \in targets[c] THEN gone[d] \cup Covered(req[c]) ELSE gone[d]]
    /\ req' = [req EXCEPT ![c] = All]
    /\ targets' = [targets EXCEPT ![c] = {}]
    /\ ticket' = [ticket EXCEPT ![c] = [d \in Cpu |-> 0]]
    /\ failed' = [failed EXCEPT ![c] = FALSE]
    /\ masked' = [masked EXCEPT ![c] = FALSE]
    /\ UNCHANGED <<tlb, ipi, hpc, todo, started>>
    /\ UNCHANGED boxVars /\ UNCHANGED eventVars
------------------------------------------------------------------------------
(* A faulty run_on_cpu, which does not take back the event it cannot signal. *)
RunKeepsEvent(c, k) ==
    /\ InTask(c) /\ pc[c] = "idle" /\ started[c] < MaxCalls
    /\ c = k.cpu /\ outcome[k] = "none"
    /\ started' = [started EXCEPT ![c] = @ + 1]
    /\ events' = [events EXCEPT ![k.dest] = Append(@, k)]
    /\ \/ outcome' = [outcome EXCEPT ![k] = "ok"] /\ ipi' = [ipi EXCEPT ![k.dest] = TRUE]
       \/ outcome' = [outcome EXCEPT ![k] = "error"] /\ UNCHANGED ipi
    /\ UNCHANGED <<tlb, hpc, ran, pc, req, todo, targets, ticket, failed, masked, gone>>
    /\ UNCHANGED boxVars

(* run_on_cpu for another CPU, under the lock of its event queue: an event    *)
(* whose interrupt cannot be sent is taken back.                              *)
run_on_cpu(c, k) ==
    /\ InTask(c) /\ pc[c] = "idle" /\ started[c] < MaxCalls
    /\ c = k.cpu /\ outcome[k] = "none"
    /\ started' = [started EXCEPT ![c] = @ + 1]
    /\ \/ /\ events' = [events EXCEPT ![k.dest] = Append(@, k)]
          /\ outcome' = [outcome EXCEPT ![k] = "ok"]
          /\ ipi' = [ipi EXCEPT ![k.dest] = TRUE]
       \/ /\ outcome' = [outcome EXCEPT ![k] = "error"]
          /\ UNCHANGED <<events, ipi>>
    /\ UNCHANGED <<tlb, hpc, ran, pc, req, todo, targets, ticket, failed, masked, gone>>
    /\ UNCHANGED boxVars

(* ipi_handler: the mailbox, the events one by one, the mailbox again. *)
TakeInterrupt(c) ==
    /\ ipi[c] /\ ~IrqsOff(c)
    /\ ipi' = [ipi EXCEPT ![c] = FALSE]
    /\ hpc' = [hpc EXCEPT ![c] = "first"]
    /\ UNCHANGED tlb /\ UNCHANGED boxVars /\ UNCHANGED eventVars /\ UNCHANGED flushVars

HandlerService(c) ==
    /\ hpc[c] \in {"first", "last"}
    /\ service_tlb_shootdown(c)
    /\ hpc' = [hpc EXCEPT ![c] = IF @ = "first" THEN "pop" ELSE "no"]
    /\ UNCHANGED ipi /\ UNCHANGED eventVars /\ UNCHANGED flushVars

(* A faulty handler that calls one event per interrupt. *)
HandlerPopOne(c) ==
    /\ hpc[c] = "pop"
    /\ hpc' = [hpc EXCEPT ![c] = "last"]
    /\ IF events[c] = <<>> THEN UNCHANGED <<events, ran>>
       ELSE /\ ran' = ran \cup {Head(events[c])}
            /\ events' = [events EXCEPT ![c] = Tail(@)]
    /\ UNCHANGED <<tlb, ipi, outcome>> /\ UNCHANGED boxVars /\ UNCHANGED flushVars

HandlerPop(c) ==
    /\ hpc[c] = "pop"
    /\ IF events[c] = <<>>
       THEN hpc' = [hpc EXCEPT ![c] = "last"] /\ UNCHANGED <<events, ran>>
       ELSE /\ ran' = ran \cup {Head(events[c])}
            /\ events' = [events EXCEPT ![c] = Tail(@)]
            /\ UNCHANGED hpc
    /\ UNCHANGED <<tlb, ipi, outcome>> /\ UNCHANGED boxVars /\ UNCHANGED flushVars

(* The timer interrupt: nothing else serves a mailbox whose interrupt was    *)
(* not delivered.                                                            *)
TimerTick(c) ==
    /\ ~IrqsOff(c) /\ completed[c] < requested[c]
    /\ service_tlb_shootdown(c)
    /\ UNCHANGED <<ipi, hpc>> /\ UNCHANGED eventVars /\ UNCHANGED flushVars
------------------------------------------------------------------------------
FlushStep(c) == WaitService(c) \/ FlushReturn(c) \/ \E d \in Cpu : PublishRequest(c, d)

Handler(c) == HandlerService(c) \/ HandlerPop(c)

Call(c) ==
    \/ \E f \in Flush : c = f.cpu /\ flush_tlb_on_cpus(c, f.request, f.mask, f.irqs_off)
    \/ \E k \in Callback : run_on_cpu(c, k)

(* What a CPU does by itself. *)
Step(c) == FlushStep(c) \/ TakeInterrupt(c) \/ Handler(c) \/ TimerTick(c)

Next == \E c \in Cpu : Call(c) \/ Step(c)

Spec == Init /\ [][Next]_vars

(* A CPU does not stop while it has a call to finish, an interrupt to take,   *)
(* or a mailbox that its timer interrupt would serve.  Calls are not forced.  *)
FairSpec == Spec /\ \A c \in Cpu : WF_vars(Step(c))

(* The targets that have yet to flush for c's call. *)
Pending(c) == {d \in targets[c] \ {c} : d \in todo[c] \/ completed[d] < ticket[c][d]}

Contract == INSTANCE FlushContract WITH
    busy <- [c \in Cpu |-> pc[c] # "idle"],
    request <- req,
    pending <- [c \in Cpu |-> Pending(c)]
------------------------------------------------------------------------------
(* What flush_tlb_on_cpus promised is so, and stays so: when it returns, with *)
(* Ok or with Completed(error), no target caches a translation it was asked   *)
(* to flush, however its request was merged, promoted or signalled.           *)
ReturnedIsFlushed == \A c \in Cpu : tlb[c] \cap gone[c] = {}

(* The mailboxes keep the contract that TlbShootdown relies on: every step of *)
(* flush_tlb_on_cpus and of its targets is a step of FlushContract or changes *)
(* nothing there.                                                             *)
KeepsContract == Contract!Spec

(* The mailbox owes no less than its senders asked for: an unanswered ticket  *)
(* is backed by a batch that covers the sender's request.                     *)
BatchCoversTickets ==
    \A c, d \in Cpu :
        pc[c] # "idle" /\ d \in targets[c] \ (todo[c] \cup {c}) /\ completed[d] < ticket[c][d]
            => Covered(req[c]) \subseteq BatchCovered(batch[d])

(* An interrupt is left out only when one is on its way, or was tried and     *)
(* failed by a sender who still waits: no outstanding request relies on the   *)
(* timer alone while every send succeeds.                                     *)
RequestIsSignalled ==
    \A d \in Cpu : completed[d] < requested[d] =>
        \/ ipi[d] \/ hpc[d] = "first"
        \/ \E c \in Cpu : failed[c] /\ completed[d] < ticket[c][d]

(* run_on_cpu is all or nothing: a callback it reports as not sent never runs *)
RejectedNeverRuns == \A k \in ran : outcome[k] = "ok"

(* ... and one it accepted does. *)
AcceptedRuns == \A k \in Callback : outcome[k] = "ok" ~> k \in ran

(* flush_tlb_on_cpus returns, though interrupts may get lost and CPUs that    *)
(* flush each other may have theirs masked.                                   *)
FlushReturns == \A c \in Cpu : pc[c] # "idle" ~> pc[c] = "idle"
==============================================================================
