---------------------------- MODULE TlbShootdown ----------------------------
(***************************************************************************)
(* The TLB shootdown of modules/axipi/src/lib.rs, for one address-space ID *)
(* (ASID) shared by the threads of a process.  A thread unmaps a page,     *)
(* publishes a new generation of the ASID, flushes the CPUs that run it,   *)
(* waits, and retires the page's frame.  A CPU that did not run the ASID   *)
(* meanwhile catches up when it activates it.                              *)
(*                                                                         *)
(* Threads are preempted and resumed, by another CPU if their affinity     *)
(* allows it, anywhere outside a switch.  One step is one access to a      *)
(* shared atomic.  How the remote CPUs are reached is left to              *)
(* FlushContract, which Ipi implements with mailboxes and interrupts: here *)
(* each of them flushes some time before the call returns.                 *)
(***************************************************************************)
EXTENDS Naturals, FiniteSets

CONSTANTS
    Cpu,
    Task,        \* threads of the process
    Page,
    Shooter,     \* the threads that unmap pages
    Affinity,    \* [Task -> SUBSET Cpu]
    MaxOwners,   \* bound: address spaces that have the ASID one after the other
    Delayed,     \* CPUs whose store to active may become visible after a later load
    None

ASSUME AffinityAssumption == Affinity \in [Task -> SUBSET Cpu]
ASSUME ShooterAssumption == Shooter \subseteq Task
ASSUME OwnersAssumption == MaxOwners \in Nat \ {0}
ASSUME DelayedAssumption == Delayed \subseteq Cpu
ASSUME NoneAssumption == None \notin Task /\ None \notin Cpu

VARIABLES
    owner,       \* the address space that has the ASID, as a number
    alive,       \* it has not been dropped
    mapped,      \* pages its page table maps
    retired,     \* SUBSET Translation        those whose frame has been given back
    tlb,         \* [Cpu -> SUBSET Translation]  what a CPU has cached
    hw,          \* [Cpu -> BOOLEAN]          the ASID is in the CPU's satp
    running,     \* [Cpu -> Task or None]     None is a task of another ASID
    generation,  \* ASID_GENERATIONS
    seen,        \* [Cpu -> Nat]              CPU_ASID_GENERATIONS
    active,      \* [Cpu -> BOOLEAN]          CPU_ACTIVE_ASIDS names the ASID
    late,        \* [Cpu -> BOOLEAN]          ... or will once the store is visible
    apc,         \* [Cpu -> ActPc]            mark_current_cpu_asid_active
    expected,    \* [Cpu -> Nat]              its local variable
    tpc,         \* [Task -> TaskPc]          the shootdown of a task
    page, gen, mask, todo, me   \* its local variables

memVars == <<owner, alive, mapped, retired>>
cpuVars == <<hw, running, apc, expected>>
asidVars == <<generation, seen, active, late>>
taskVars == <<tpc, page, gen, mask, todo, me>>
vars == <<owner, alive, mapped, retired, tlb, hw, running, generation, seen, active, late, apc, expected,
          tpc, page, gen, mask, todo, me>>

(* A cached translation: a page of one of the owners.  The TLB itself does  *)
(* not tell the owners apart.                                               *)
Translation == (1..MaxOwners) \X Page

ActPc == {"no", "load", "check", "publish", "recheck"}
TaskPc == {"run", "gen", "scan", "self", "enter", "local", "wait", "record"}

TypeOK ==
    /\ owner \in 1..MaxOwners /\ alive \in BOOLEAN
    /\ mapped \subseteq Page /\ retired \subseteq Translation
    /\ tlb \in [Cpu -> SUBSET Translation]
    /\ hw \in [Cpu -> BOOLEAN] /\ active \in [Cpu -> BOOLEAN]
    /\ late \in [Cpu -> BOOLEAN]
    /\ running \in [Cpu -> Task \cup {None}]
    /\ generation \in Nat
    /\ seen \in [Cpu -> Nat] /\ expected \in [Cpu -> Nat]
    /\ apc \in [Cpu -> ActPc]
    /\ tpc \in [Task -> TaskPc]
    /\ page \in [Task -> Page \cup {None}] /\ gen \in [Task -> Nat]
    /\ mask \in [Task -> SUBSET Cpu] /\ todo \in [Task -> SUBSET Cpu]
    /\ me \in [Task -> Cpu \cup {None}]

Init ==
    /\ owner = 1 /\ alive = TRUE
    /\ mapped = Page /\ retired = {}
    /\ tlb = [c \in Cpu |-> {}]
    /\ hw = [c \in Cpu |-> FALSE] /\ active = [c \in Cpu |-> FALSE]
    /\ late = [c \in Cpu |-> FALSE]
    /\ running = [c \in Cpu |-> None]
    /\ generation = 0
    /\ seen = [c \in Cpu |-> 0] /\ expected = [c \in Cpu |-> 0]
    /\ apc = [c \in Cpu |-> "no"]
    /\ tpc = [s \in Task |-> "run"]
    /\ page = [s \in Task |-> None] /\ gen = [s \in Task |-> 0]
    /\ mask = [s \in Task |-> {}] /\ todo = [s \in Task |-> {}]
    /\ me = [s \in Task |-> None]

(* The CPU executes its task, and is not inside a switch. *)
Runs(c, s) == running[c] = s /\ apc[c] = "no"

GoTask(s, l) == tpc' = [tpc EXCEPT ![s] = l]

GoCpu(c, l) == apc' = [apc EXCEPT ![c] = l]
------------------------------------------------------------------------------
(* Switching to a thread of the process: mark_current_cpu_asid_active, then  *)
(* the write of satp.                                                        *)

SwitchIn(c, s) ==
    /\ alive /\ running[c] = None /\ c \in Affinity[s]
    /\ \A d \in Cpu : running[d] # s
    /\ running' = [running EXCEPT ![c] = s]
    /\ GoCpu(c, "load")
    /\ UNCHANGED <<tlb, hw, expected>>
    /\ UNCHANGED memVars /\ UNCHANGED asidVars /\ UNCHANGED taskVars

LoadGeneration(c) ==
    /\ apc[c] = "load"
    /\ expected' = [expected EXCEPT ![c] = generation]
    /\ GoCpu(c, "check")
    /\ UNCHANGED <<tlb, hw, running>>
    /\ UNCHANGED memVars /\ UNCHANGED asidVars /\ UNCHANGED taskVars

(* A faulty activation that records the generation and forgets the flush. *)
CatchUpUnflushed(c) ==
    /\ apc[c] = "check"
    /\ seen' = [seen EXCEPT ![c] = expected[c]]
    /\ GoCpu(c, "publish")
    /\ UNCHANGED <<tlb, hw, running, expected, generation, active, late>>
    /\ UNCHANGED memVars /\ UNCHANGED taskVars

CatchUp(c) ==
    /\ apc[c] = "check"
    /\ IF seen[c] # expected[c]
       THEN tlb' = [tlb EXCEPT ![c] = {}] /\ seen' = [seen EXCEPT ![c] = expected[c]]
       ELSE UNCHANGED <<tlb, seen>>
    /\ GoCpu(c, "publish")
    /\ UNCHANGED <<hw, running, expected, generation, active, late>>
    /\ UNCHANGED memVars /\ UNCHANGED taskVars

(* A release store: nothing orders it before the acquire load that follows. *)
Publish(c) ==
    /\ apc[c] = "publish"
    /\ \/ active' = [active EXCEPT ![c] = TRUE] /\ UNCHANGED late
       \/ c \in Delayed /\ late' = [late EXCEPT ![c] = TRUE] /\ UNCHANGED active
    /\ GoCpu(c, "recheck")
    /\ UNCHANGED <<tlb, hw, running, expected, generation, seen>>
    /\ UNCHANGED memVars /\ UNCHANGED taskVars

StoreVisible(c) ==
    /\ late[c]
    /\ active' = [active EXCEPT ![c] = TRUE]
    /\ late' = [late EXCEPT ![c] = FALSE]
    /\ UNCHANGED <<tlb, generation, seen>>
    /\ UNCHANGED memVars /\ UNCHANGED cpuVars /\ UNCHANGED taskVars

(* A faulty activation that does not look at the generation again. *)
ActivateUnchecked(c) ==
    /\ apc[c] = "recheck"
    /\ hw' = [hw EXCEPT ![c] = TRUE] /\ GoCpu(c, "no")
    /\ UNCHANGED <<tlb, running, expected, generation, seen, active, late>>
    /\ UNCHANGED memVars /\ UNCHANGED taskVars

RecheckGeneration(c) ==
    /\ apc[c] = "recheck"
    /\ IF generation = expected[c]
       THEN hw' = [hw EXCEPT ![c] = TRUE] /\ GoCpu(c, "no") /\ UNCHANGED <<active, late>>
       ELSE /\ active' = [active EXCEPT ![c] = FALSE] /\ late' = [late EXCEPT ![c] = FALSE]
            /\ GoCpu(c, "load") /\ UNCHANGED hw
    /\ UNCHANGED <<tlb, running, expected, generation, seen>>
    /\ UNCHANGED memVars /\ UNCHANGED taskVars

(* The thread is preempted, or blocks, for a task of another address space. *)
SwitchOut(c) ==
    /\ running[c] # None /\ apc[c] = "no"
    /\ running' = [running EXCEPT ![c] = None]
    /\ active' = [active EXCEPT ![c] = FALSE] /\ late' = [late EXCEPT ![c] = FALSE]
    /\ hw' = [hw EXCEPT ![c] = FALSE]
    /\ UNCHANGED <<tlb, apc, expected, generation, seen>>
    /\ UNCHANGED memVars /\ UNCHANGED taskVars

(* The CPU uses a mapped page and caches its translation. *)
Touch(c, p) ==
    /\ hw[c] /\ apc[c] = "no"
    /\ p \in mapped
    /\ tlb' = [tlb EXCEPT ![c] = @ \cup {<<owner, p>>}]
    /\ UNCHANGED memVars /\ UNCHANGED cpuVars /\ UNCHANGED asidVars
    /\ UNCHANGED taskVars
------------------------------------------------------------------------------
(* Unmapping a page: flush_asid_request and flush_tlb_on_cpus.              *)

Unmap(c, s, p) ==
    /\ Runs(c, s) /\ s \in Shooter /\ tpc[s] = "run"
    /\ p \in mapped
    /\ mapped' = mapped \ {p}
    /\ page' = [page EXCEPT ![s] = p]
    /\ GoTask(s, "gen")
    /\ UNCHANGED <<owner, alive, retired, tlb, gen, mask, todo, me>>
    /\ UNCHANGED cpuVars /\ UNCHANGED asidVars

NewGeneration(c, s) ==
    /\ Runs(c, s) /\ tpc[s] = "gen"
    /\ generation' = generation + 1
    /\ gen' = [gen EXCEPT ![s] = generation + 1]
    /\ todo' = [todo EXCEPT ![s] = Cpu]
    /\ GoTask(s, "scan")
    /\ UNCHANGED <<tlb, seen, active, late, page, mask, me>>
    /\ UNCHANGED memVars /\ UNCHANGED cpuVars

(* asid_active_cpu_mask looks at one CPU after the other. *)
asid_active_cpu_mask(c, s, d) ==
    /\ Runs(c, s) /\ tpc[s] = "scan" /\ d \in todo[s]
    /\ mask' = [mask EXCEPT ![s] = IF active[d] THEN @ \cup {d} ELSE @]
    /\ todo' = [todo EXCEPT ![s] = @ \ {d}]
    /\ GoTask(s, IF todo[s] = {d} THEN "self" ELSE "scan")
    /\ UNCHANGED <<tlb, page, gen, me>>
    /\ UNCHANGED memVars /\ UNCHANGED cpuVars /\ UNCHANGED asidVars

IncludeSelf(c, s) ==
    /\ Runs(c, s) /\ tpc[s] = "self"
    /\ mask' = [mask EXCEPT ![s] = IF hw[c] THEN @ \cup {c} ELSE @]
    /\ GoTask(s, "enter")
    /\ UNCHANGED <<tlb, page, gen, todo, me>>
    /\ UNCHANGED memVars /\ UNCHANGED cpuVars /\ UNCHANGED asidVars

(* flush_tlb_on_cpus reads which CPU it is on ... *)
Enter(c, s) ==
    /\ Runs(c, s) /\ tpc[s] = "enter"
    /\ me' = [me EXCEPT ![s] = c]
    /\ todo' = [todo EXCEPT ![s] = mask[s] \ {c}]
    /\ GoTask(s, "local")
    /\ UNCHANGED <<tlb, page, gen, mask>>
    /\ UNCHANGED memVars /\ UNCHANGED cpuVars /\ UNCHANGED asidVars

(* What flushing a page removes: its translations, whoever's they are. *)
Flushed(p) == {x \in Translation : x[2] = p}

(* ... and flushes the CPU it is on by then. *)
LocalFlush(c, s) ==
    /\ Runs(c, s) /\ tpc[s] = "local"
    /\ tlb' = [tlb EXCEPT ![c] = IF me[s] \in mask[s] THEN @ \ Flushed(page[s]) ELSE @]
    /\ GoTask(s, "wait")
    /\ UNCHANGED <<page, gen, mask, todo, me>>
    /\ UNCHANGED memVars /\ UNCHANGED cpuVars /\ UNCHANGED asidVars

(* A target flushes for s, outside its own switches: Serve of FlushContract. *)
RemoteFlush(s, d) ==
    /\ tpc[s] = "wait" /\ d \in todo[s]
    /\ apc[d] = "no"
    /\ tlb' = [tlb EXCEPT ![d] = @ \ Flushed(page[s])]
    /\ todo' = [todo EXCEPT ![s] = @ \ {d}]
    /\ UNCHANGED <<tpc, page, gen, mask, me>>
    /\ UNCHANGED memVars /\ UNCHANGED cpuVars /\ UNCHANGED asidVars

WaitDone(c, s) ==
    /\ Runs(c, s) /\ tpc[s] = "wait" /\ todo[s] = {}
    /\ todo' = [todo EXCEPT ![s] = mask[s]]
    /\ GoTask(s, "record")
    /\ UNCHANGED <<tlb, page, gen, mask, me>>
    /\ UNCHANGED memVars /\ UNCHANGED cpuVars /\ UNCHANGED asidVars

(* A target has nothing to catch up on for this generation. *)
record_completed_generation(c, s, d) ==
    /\ Runs(c, s) /\ tpc[s] = "record" /\ d \in todo[s]
    /\ seen' = [seen EXCEPT ![d] = IF @ < gen[s] THEN gen[s] ELSE @]
    /\ todo' = [todo EXCEPT ![s] = @ \ {d}]
    /\ UNCHANGED <<tlb, generation, active, late, tpc, page, gen, mask, me>>
    /\ UNCHANGED memVars /\ UNCHANGED cpuVars

(* complete_after_unlock gives the frame back and returns. *)
Retire(c, s) ==
    /\ Runs(c, s) /\ tpc[s] = "record" /\ todo[s] = {}
    /\ retired' = retired \cup {<<owner, page[s]>>}
    /\ GoTask(s, "run")
    /\ page' = [page EXCEPT ![s] = None] /\ gen' = [gen EXCEPT ![s] = 0]
    /\ mask' = [mask EXCEPT ![s] = {}] /\ me' = [me EXCEPT ![s] = None]
    /\ UNCHANGED <<owner, alive, mapped, tlb, todo>>
    /\ UNCHANGED cpuVars /\ UNCHANGED asidVars
------------------------------------------------------------------------------
(* The ASID passes from one address space to the next.                       *)

(* AddrSpace::drop, once no thread runs or refers to it: a shootdown of the  *)
(* whole ASID, for which no CPU is active any more, and all frames go back.  *)
DropAddrSpace ==
    /\ alive /\ owner < MaxOwners
    /\ \A c \in Cpu : running[c] = None
    /\ \A s \in Task : tpc[s] = "run"
    /\ alive' = FALSE
    /\ generation' = generation + 1
    /\ mapped' = {}
    /\ retired' = retired \cup ({owner} \X Page)
    /\ UNCHANGED <<owner, tlb, seen, active, late>>
    /\ UNCHANGED cpuVars /\ UNCHANGED taskVars

(* new_empty takes the freed ASID for another process: a new generation,     *)
(* while the CPUs keep theirs.                                               *)
new_empty ==
    /\ ~alive
    /\ alive' = TRUE
    /\ owner' = owner + 1
    /\ generation' = generation + 1
    /\ mapped' = Page
    /\ UNCHANGED <<retired, tlb, seen, active, late>>
    /\ UNCHANGED cpuVars /\ UNCHANGED taskVars
------------------------------------------------------------------------------
Activate(c) == LoadGeneration(c) \/ CatchUp(c) \/ Publish(c) \/ RecheckGeneration(c)

Shootdown(c, s) ==
    \/ NewGeneration(c, s) \/ IncludeSelf(c, s) \/ Enter(c, s) \/ LocalFlush(c, s)
    \/ WaitDone(c, s) \/ Retire(c, s)
    \/ \E d \in Cpu : asid_active_cpu_mask(c, s, d) \/ record_completed_generation(c, s, d)

Next ==
    \/ \E c \in Cpu : Activate(c) \/ StoreVisible(c) \/ SwitchOut(c)
    \/ \E c \in Cpu, s \in Task : RemoteFlush(s, c)
    \/ DropAddrSpace \/ new_empty
    \/ \E c \in Cpu, p \in Page : Touch(c, p)
    \/ \E c \in Cpu, s \in Task :
         SwitchIn(c, s) \/ Shootdown(c, s) \/ \E p \in Page : Unmap(c, s, p)

Spec == Init /\ [][Next]_vars
------------------------------------------------------------------------------
(* No CPU that runs a process can reach a frame that was given back, by the   *)
(* process itself or by an earlier owner of its ASID: the CPUs published as   *)
(* active answered, and a CPU that switches in later flushes first.           *)
NoStaleTranslation ==
    \A c \in Cpu : hw[c] /\ apc[c] = "no" => tlb[c] \cap retired = {}

(* A CPU's recorded generation stands for a flush: whatever a CPU has cached  *)
(* but the page table no longer maps is under way to it, or it will flush     *)
(* before it next runs the process.                                           *)
StaleIsCovered ==
    \A c \in Cpu : \A x \in tlb[c] \ ({owner} \X mapped) :
        \/ seen[c] < generation
        \/ \E s \in Task : /\ page[s] = x[2]
                            /\ \/ tpc[s] \in {"gen", "scan", "self", "enter", "local"}
                               \/ tpc[s] = "wait" /\ c \in todo[s]
==============================================================================
