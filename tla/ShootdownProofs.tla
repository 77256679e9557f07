--------------------------- MODULE ShootdownProofs ---------------------------
(***************************************************************************)
(* An inductive invariant of TlbShootdown, for every set of CPUs, threads  *)
(* and pages and any number of owners of the ASID, when one thread unmaps, *)
(* pinned to its CPU, and stores are delayed on that CPU at most: the       *)
(* switches of the CPUs, their memory accesses, the change of the ASID's    *)
(* owner and the steps of a shootdown keep it.  What follows: no CPU that   *)
(* runs the process reaches a frame that was given back.                    *)
(***************************************************************************)
EXTENDS TlbShootdown, TLAPS

USE ZenonT(60)

shooter == CHOOSE s \in Shooter : TRUE
home == CHOOSE c \in Affinity[shooter] : TRUE

(* What the shootdown relies on: shootdowns of an address space do not       *)
(* overlap, the thread does not move, and the other CPUs see stores in order. *)
OnePinnedShooter ==
    /\ Shooter = {shooter} /\ shooter \in Task
    /\ Affinity[shooter] = {home} /\ home \in Cpu
    /\ Delayed \subseteq {home}

(* A CPU has the ASID in satp exactly while it runs a thread outside a       *)
(* switch, and has then, and in the second look at the generation, published *)
(* it.                                                                       *)
SwitchInv ==
    \A c \in Cpu :
        /\ hw[c] <=> running[c] # None /\ apc[c] = "no"
        /\ apc[c] # "no" => running[c] # None
        /\ running[c] # None => alive
        /\ running[c] = shooter => c = home
        /\ active[c] \/ late[c] <=> hw[c] \/ apc[c] = "recheck"
        /\ late[c] => c = home

CountInv ==
    /\ \A c \in Cpu : seen[c] <= generation /\ expected[c] <= generation
    /\ ~alive => owner < MaxOwners

(* The shooter's local variables. *)
After == {"scan", "self", "enter", "local", "wait", "record"}

ShooterInv ==
    /\ \A s \in Task : s # shooter => tpc[s] = "run"
    /\ tpc[shooter] # "run" => alive /\ page[shooter] \in Page \ mapped
    /\ tpc[shooter] \in {"run", "gen"} => mask[shooter] = {}
    /\ tpc[shooter] \in After => gen[shooter] = generation
    /\ tpc[shooter] \in {"enter", "local"} => home \in mask[shooter]
    /\ tpc[shooter] = "local" => /\ me[shooter] = home
                                /\ todo[shooter] = mask[shooter] \ {home}
    /\ tpc[shooter] \in {"wait", "record"} => todo[shooter] \subseteq mask[shooter]

(* The translation is the present owner's and mapped, or about to be flushed. *)
Mapped(x) == x[1] = owner /\ x[2] \in mapped
Unmapped(x) == x[1] = owner /\ tpc[shooter] # "run" /\ x[2] = page[shooter]

(* No generation has been published for the page that the shooter unmapped. *)
Fresh(c) == \A x \in tlb[c] : Mapped(x) \/ (tpc[shooter] = "gen" /\ Unmapped(x))

(* A CPU that has seen the generation, or has caught up with it in a switch,  *)
(* has nothing to flush but the page whose generation is still to come.       *)
SeenInv == \A c \in Cpu : seen[c] = generation => Fresh(c)
CaughtUpInv ==
    \A c \in Cpu : apc[c] \in {"publish", "recheck"} /\ expected[c] = generation => Fresh(c)

(* The shootdown will reach CPU c. *)
Owed(c) ==
    \/ tpc[shooter] = "gen"
    \/ tpc[shooter] = "scan" /\ c \in todo[shooter] \cup mask[shooter] \cup {home}
    \/ tpc[shooter] = "self" /\ c \in mask[shooter] \cup {home}
    \/ tpc[shooter] \in {"enter", "local"} /\ c \in mask[shooter]
    \/ tpc[shooter] = "wait" /\ c \in todo[shooter]

(* A CPU that runs the process caches what is mapped and what it is owed. *)
RunningInv ==
    \A c \in Cpu : hw[c] => \A x \in tlb[c] : Mapped(x) \/ (Unmapped(x) /\ Owed(c))

(* A CPU in the mask has no other page to flush, and none once it has flushed: *)
(* so it may be credited with the generation.                                  *)
TargetInv ==
    \A c \in Cpu :
        c \in mask[shooter] /\ apc[c] = "no" => \A x \in tlb[c] : Mapped(x) \/ Unmapped(x)
FlushedInv ==
    \A c \in Cpu : /\ c \in mask[shooter]
                   /\ \/ tpc[shooter] = "record"
                      \/ tpc[shooter] = "wait" /\ c \notin todo[shooter]
                   => \A x \in tlb[c] : Mapped(x)

(* What was given back is not in use. *)
RetiredInv ==
    \A x \in retired :
        \/ x[1] < owner
        \/ x[1] = owner /\ (alive => ~Mapped(x) /\ ~Unmapped(x))

IInv ==
    /\ TypeOK /\ SwitchInv /\ CountInv /\ ShooterInv
    /\ SeenInv /\ CaughtUpInv /\ RunningInv /\ TargetInv /\ FlushedInv /\ RetiredInv
------------------------------------------------------------------------------
(* Each conjunct of the invariant is about a few of the variables.          *)

(* SwitchInv depends on no other variable. *)
LEMMA SwitchKept ==
  ASSUME SwitchInv, UNCHANGED <<hw, running, apc, alive, active, late>>
  PROVE  SwitchInv'
BY DEF SwitchInv

(* CountInv depends on no other variable. *)
LEMMA CountKept ==
  ASSUME CountInv, UNCHANGED <<seen, expected, generation, alive, owner>>
  PROVE  CountInv'
BY DEF CountInv

(* ShooterInv depends on no other variable. *)
LEMMA ShooterKept ==
  ASSUME ShooterInv, UNCHANGED <<tpc, page, mapped, mask, gen, generation, me, todo, alive>>
  PROVE  ShooterInv'
BY DEF ShooterInv, After

(* SeenInv depends on no other variable. *)
LEMMA SeenKept ==
  ASSUME SeenInv, UNCHANGED <<seen, generation, tlb, owner, mapped, tpc, page>>
  PROVE  SeenInv'
BY DEF SeenInv, Fresh, Mapped, Unmapped

(* CaughtUpInv depends on no other variable. *)
LEMMA CaughtUpKept ==
  ASSUME CaughtUpInv, UNCHANGED <<apc, expected, generation, tlb, owner, mapped, tpc, page>>
  PROVE  CaughtUpInv'
BY DEF CaughtUpInv, Fresh, Mapped, Unmapped

(* RunningInv depends on no other variable. *)
LEMMA RunningKept ==
  ASSUME RunningInv, UNCHANGED <<hw, tlb, owner, mapped, tpc, page, todo, mask>>
  PROVE  RunningInv'
BY DEF RunningInv, Owed, Mapped, Unmapped

(* TargetInv depends on no other variable. *)
LEMMA TargetKept ==
  ASSUME TargetInv, UNCHANGED <<mask, apc, tlb, owner, mapped, tpc, page>>
  PROVE  TargetInv'
BY DEF TargetInv, Mapped, Unmapped

(* FlushedInv depends on no other variable. *)
LEMMA FlushedKept ==
  ASSUME FlushedInv, UNCHANGED <<mask, tpc, todo, tlb, owner, mapped>>
  PROVE  FlushedInv'
BY DEF FlushedInv, Mapped

(* RetiredInv depends on no other variable. *)
LEMMA RetiredKept ==
  ASSUME RetiredInv, UNCHANGED <<retired, owner, alive, mapped, tpc, page>>
  PROVE  RetiredInv'
BY DEF RetiredInv, Mapped, Unmapped

(* A switch begins: the thread is not on another CPU, and the shooter's is home. *)
LEMMA SwitchInStep ==
  ASSUME OnePinnedShooter, IInv, NEW c \in Cpu, NEW s \in Task, SwitchIn(c, s)
  PROVE  IInv'
<1>u. UNCHANGED <<owner, alive, mapped, retired, tlb, hw, generation, seen, active,
                   late, expected, tpc, page, gen, mask, todo, me>>
  BY DEF SwitchIn, memVars, asidVars, taskVars
<1>f. /\ alive /\ running[c] = None /\ c \in Affinity[s]
      /\ running' = [running EXCEPT ![c] = s] /\ apc' = [apc EXCEPT ![c] = "load"]
  BY DEF SwitchIn, GoCpu
<1>g. hw[c] = FALSE /\ (s = shooter => c = home)
  BY <1>f DEF OnePinnedShooter, IInv, SwitchInv, TypeOK
<1>0. TypeOK'
  BY <1>u, <1>f DEF IInv, TypeOK, ActPc
<1>k. (CountInv /\ ShooterInv /\ SeenInv /\ RunningInv /\ FlushedInv /\ RetiredInv)'
  BY <1>u, CountKept, ShooterKept, SeenKept, RunningKept, FlushedKept, RetiredKept DEF
     IInv
<1>1. SwitchInv'
  BY <1>u, <1>f, <1>g, NoneAssumption DEF IInv, SwitchInv, TypeOK
<1>5. CaughtUpInv'
  BY <1>u, <1>f DEF IInv, CaughtUpInv, Fresh, Mapped, Unmapped, TypeOK
<1>7. TargetInv'
  BY <1>u, <1>f DEF IInv, TargetInv, Mapped, Unmapped, TypeOK
<1> QED BY <1>0, <1>k, <1>1, <1>5, <1>7 DEF IInv

(* The generation that the switch expects is the present one. *)
LEMMA LoadStep ==
  ASSUME OnePinnedShooter, IInv, NEW c \in Cpu, LoadGeneration(c)
  PROVE  IInv'
<1>u. UNCHANGED <<owner, alive, mapped, retired, tlb, hw, running, generation, seen,
                   active, late, tpc, page, gen, mask, todo, me>>
  BY DEF LoadGeneration, memVars, asidVars, taskVars
<1>f. /\ apc[c] = "load" /\ expected' = [expected EXCEPT ![c] = generation]
      /\ apc' = [apc EXCEPT ![c] = "check"]
  BY DEF LoadGeneration, GoCpu
<1>0. TypeOK'
  BY <1>u, <1>f DEF IInv, TypeOK, ActPc
<1>k. (ShooterInv /\ SeenInv /\ RunningInv /\ FlushedInv /\ RetiredInv)'
  BY <1>u, ShooterKept, SeenKept, RunningKept, FlushedKept, RetiredKept DEF IInv
<1>1. SwitchInv'
  BY <1>u, <1>f DEF IInv, SwitchInv, TypeOK
<1>2. CountInv'
  BY SMT, <1>u, <1>f DEF IInv, CountInv, TypeOK
<1>5. CaughtUpInv'
  BY <1>u, <1>f DEF IInv, CaughtUpInv, Fresh, Mapped, Unmapped, TypeOK
<1>7. TargetInv'
  BY <1>u, <1>f DEF IInv, TargetInv, Mapped, Unmapped, TypeOK
<1> QED BY <1>0, <1>k, <1>1, <1>2, <1>5, <1>7 DEF IInv

(* After it the CPU has either flushed everything or had seen the generation. *)
LEMMA CatchUpStep ==
  ASSUME OnePinnedShooter, IInv, NEW c \in Cpu, CatchUp(c)
  PROVE  IInv'
<1>u. UNCHANGED <<owner, alive, mapped, retired, hw, running, generation, active,
                   late, expected, tpc, page, gen, mask, todo, me>>
  BY DEF CatchUp, memVars, taskVars
<1>f. /\ apc[c] = "check" /\ apc' = [apc EXCEPT ![c] = "publish"] /\ seen'[c] = expected[c]
      /\ \A e \in Cpu \ {c} : tlb'[e] = tlb[e] /\ seen'[e] = seen[e]
  BY DEF CatchUp, GoCpu, IInv, TypeOK
<1>g. tlb'[c] = {} \/ (tlb'[c] = tlb[c] /\ seen[c] = expected[c])
  BY DEF CatchUp, IInv, TypeOK
<1>h. ~hw[c]
  BY <1>f DEF IInv, SwitchInv
<1>0. TypeOK'
  BY <1>u DEF CatchUp, GoCpu, IInv, TypeOK, ActPc
<1>k. (ShooterInv /\ RetiredInv)'
  BY <1>u, ShooterKept, RetiredKept DEF IInv
<1>1. SwitchInv'
  BY <1>u, <1>f DEF IInv, SwitchInv, TypeOK
<1>2. CountInv'
  BY <1>u, <1>f DEF IInv, CountInv
<1>4. SeenInv'
  BY <1>u, <1>f, <1>g DEF IInv, SeenInv, Fresh, Mapped, Unmapped
<1>5. CaughtUpInv'
  BY SMT, <1>u, <1>f, <1>g DEF IInv, CaughtUpInv, SeenInv, Fresh, Mapped, Unmapped, TypeOK
<1>6. RunningInv'
  BY <1>u, <1>f, <1>h DEF IInv, RunningInv, Owed, Mapped, Unmapped
<1>7. TargetInv'
  BY <1>u, <1>f, <1>g DEF IInv, TargetInv, Mapped, Unmapped, TypeOK
<1>8. FlushedInv'
  BY <1>u, <1>f, <1>g DEF IInv, FlushedInv, Mapped
<1> QED BY <1>0, <1>k, <1>1, <1>2, <1>4, <1>5, <1>6, <1>7, <1>8 DEF IInv

(* From here on a scan finds the CPU, or only home's own store is still to come. *)
LEMMA PublishStep ==
  ASSUME OnePinnedShooter, IInv, NEW c \in Cpu, Publish(c)
  PROVE  IInv'
<1>u. UNCHANGED <<owner, alive, mapped, retired, tlb, hw, running, generation, seen,
                   expected, tpc, page, gen, mask, todo, me>>
  BY DEF Publish, memVars, taskVars
<1>f. /\ apc[c] = "publish" /\ apc' = [apc EXCEPT ![c] = "recheck"]
      /\ active'[c] \/ late'[c]
      /\ \A e \in Cpu : late'[e] => late[e] \/ e = home
      /\ \A e \in Cpu \ {c} : active'[e] = active[e] /\ late'[e] = late[e]
  BY DEF Publish, GoCpu, OnePinnedShooter, IInv, TypeOK
<1>0. TypeOK'
  BY <1>u DEF Publish, GoCpu, IInv, TypeOK, ActPc
<1>k. (CountInv /\ ShooterInv /\ SeenInv /\ RunningInv /\ FlushedInv /\ RetiredInv)'
  BY <1>u, CountKept, ShooterKept, SeenKept, RunningKept, FlushedKept, RetiredKept DEF
     IInv
<1>1. SwitchInv'
  BY <1>u, <1>f DEF IInv, SwitchInv, TypeOK
<1>5. CaughtUpInv'
  BY SMT, <1>u, <1>f DEF IInv, CaughtUpInv, Fresh, Mapped, Unmapped, TypeOK
<1>7. TargetInv'
  BY SMT, <1>u, <1>f DEF IInv, TargetInv, Mapped, Unmapped, TypeOK
<1> QED BY <1>0, <1>k, <1>1, <1>5, <1>7 DEF IInv

(* The late store of home arrives. *)
LEMMA VisibleStep ==
  ASSUME OnePinnedShooter, IInv, NEW c \in Cpu, StoreVisible(c)
  PROVE  IInv'
<1>u. UNCHANGED <<owner, alive, mapped, retired, tlb, hw, running, generation, seen,
                   apc, expected, tpc, page, gen, mask, todo, me>>
  BY DEF StoreVisible, memVars, cpuVars, taskVars
<1>f. /\ late[c] /\ active'[c] /\ ~late'[c]
      /\ \A e \in Cpu \ {c} : active'[e] = active[e] /\ late'[e] = late[e]
  BY DEF StoreVisible, IInv, TypeOK
<1>0. TypeOK'
  BY <1>u DEF StoreVisible, IInv, TypeOK
<1>k. (CountInv /\ ShooterInv /\ SeenInv /\ CaughtUpInv /\ RunningInv /\ TargetInv /\
       FlushedInv /\ RetiredInv)'
  BY <1>u, CountKept, ShooterKept, SeenKept, CaughtUpKept, RunningKept, TargetKept,
     FlushedKept, RetiredKept DEF IInv
<1>1. SwitchInv'
  BY <1>u, <1>f DEF IInv, SwitchInv
<1> QED BY <1>0, <1>k, <1>1 DEF IInv

(* An unchanged generation means that nothing was unmapped since the catch-up. *)
LEMMA RecheckStep ==
  ASSUME OnePinnedShooter, IInv, NEW c \in Cpu, RecheckGeneration(c)
  PROVE  IInv'
<1>u. UNCHANGED <<owner, alive, mapped, retired, tlb, running, generation, seen,
                   expected, tpc, page, gen, mask, todo, me>>
  BY DEF RecheckGeneration, memVars, taskVars
<1>f. /\ apc[c] = "recheck"
      /\ \A e \in Cpu \ {c} : /\ active'[e] = active[e] /\ late'[e] = late[e]
                              /\ hw'[e] = hw[e] /\ apc'[e] = apc[e]
  BY DEF RecheckGeneration, GoCpu, IInv, TypeOK
<1>g. \/ generation = expected[c] /\ hw'[c] /\ apc'[c] = "no" /\ UNCHANGED <<active, late>>
      \/ ~active'[c] /\ ~late'[c] /\ apc'[c] = "load" /\ hw'[c] = hw[c]
  BY DEF RecheckGeneration, GoCpu, IInv, TypeOK
<1>h. hw[c] = FALSE /\ (apc'[c] = "no" => Fresh(c))
  BY <1>f, <1>g DEF IInv, SwitchInv, CaughtUpInv, TypeOK
<1>0. TypeOK'
  BY <1>u DEF RecheckGeneration, GoCpu, IInv, TypeOK, ActPc
<1>k. (CountInv /\ ShooterInv /\ SeenInv /\ FlushedInv /\ RetiredInv)'
  BY <1>u, CountKept, ShooterKept, SeenKept, FlushedKept, RetiredKept DEF IInv
<1>1. SwitchInv'
  BY <1>u, <1>f, <1>g, <1>h DEF IInv, SwitchInv
<1>5. CaughtUpInv'
  BY <1>u, <1>f, <1>g DEF IInv, CaughtUpInv, Fresh, Mapped, Unmapped
<1>6. RunningInv'
  BY <1>u, <1>f, <1>g, <1>h DEF IInv, RunningInv, Fresh, Owed, Mapped, Unmapped
<1>7. TargetInv'
  BY <1>u, <1>f, <1>g, <1>h DEF IInv, TargetInv, Fresh, Mapped, Unmapped
<1> QED BY <1>0, <1>k, <1>1, <1>5, <1>6, <1>7 DEF IInv

(* The CPU leaves the process and keeps what it has cached. *)
LEMMA SwitchOutStep ==
  ASSUME OnePinnedShooter, IInv, NEW c \in Cpu, SwitchOut(c)
  PROVE  IInv'
<1>u. UNCHANGED <<owner, alive, mapped, retired, tlb, generation, seen, apc, expected,
                   tpc, page, gen, mask, todo, me>>
  BY DEF SwitchOut, memVars, taskVars
<1>f. /\ running'[c] = None /\ apc[c] = "no" /\ ~active'[c] /\ ~late'[c] /\ hw'[c] = FALSE
      /\ \A e \in Cpu \ {c} : /\ active'[e] = active[e] /\ late'[e] = late[e]
                              /\ hw'[e] = hw[e] /\ running'[e] = running[e]
  BY DEF SwitchOut, IInv, TypeOK
<1>0. TypeOK'
  BY <1>u DEF SwitchOut, IInv, TypeOK
<1>k. (CountInv /\ ShooterInv /\ SeenInv /\ CaughtUpInv /\ TargetInv /\ FlushedInv /\
       RetiredInv)'
  BY <1>u, CountKept, ShooterKept, SeenKept, CaughtUpKept, TargetKept, FlushedKept,
     RetiredKept DEF IInv
<1>1. SwitchInv'
  BY <1>u, <1>f, NoneAssumption DEF OnePinnedShooter, IInv, SwitchInv
<1>6. RunningInv'
  BY <1>u, <1>f DEF IInv, RunningInv, Owed, Mapped, Unmapped
<1> QED BY <1>0, <1>k, <1>1, <1>6 DEF IInv

(* Only what is mapped is cached. *)
LEMMA TouchStep ==
  ASSUME OnePinnedShooter, IInv, NEW c \in Cpu, NEW p \in Page, Touch(c, p)
  PROVE  IInv'
<1>u. UNCHANGED <<owner, alive, mapped, retired, hw, running, generation, seen,
                   active, late, apc, expected, tpc, page, gen, mask, todo, me>>
  BY DEF Touch, memVars, cpuVars, asidVars, taskVars
<1>f. \A e \in Cpu : \A x \in tlb'[e] : x \in tlb[e] \/ Mapped(x)
  BY SMT DEF Touch, Mapped, IInv, TypeOK
<1>g. <<owner, p>> \in Translation
  BY DEF IInv, TypeOK, Translation
<1>0. TypeOK'
  BY <1>u, <1>g DEF Touch, IInv, TypeOK
<1>k. (SwitchInv /\ CountInv /\ ShooterInv /\ RetiredInv)'
  BY <1>u, SwitchKept, CountKept, ShooterKept, RetiredKept DEF IInv
<1>4. SeenInv'
  BY <1>u, <1>f DEF IInv, SeenInv, Fresh, Mapped, Unmapped
<1>5. CaughtUpInv'
  BY <1>u, <1>f DEF IInv, CaughtUpInv, Fresh, Mapped, Unmapped
<1>6. RunningInv'
  BY <1>u, <1>f DEF IInv, RunningInv, Owed, Mapped, Unmapped
<1>7. TargetInv'
  BY <1>u, <1>f DEF IInv, TargetInv, Mapped, Unmapped
<1>8. FlushedInv'
  BY <1>u, <1>f DEF IInv, FlushedInv, Mapped
<1> QED BY <1>0, <1>k, <1>4, <1>5, <1>6, <1>7, <1>8 DEF IInv

(* The address space is dropped while no CPU runs it. *)
LEMMA DropStep ==
  ASSUME OnePinnedShooter, IInv, DropAddrSpace
  PROVE  IInv'
<1>u. UNCHANGED <<owner, tlb, hw, running, seen, active, late, apc, expected, tpc,
                   page, gen, mask, todo, me>>
  BY DEF DropAddrSpace, cpuVars, taskVars
<1>f. /\ tpc[shooter] = "run" /\ mask[shooter] = {} /\ owner < MaxOwners
      /\ generation' = generation + 1 /\ alive' = FALSE
      /\ \A c \in Cpu : running[c] = None /\ ~hw[c] /\ apc[c] = "no"
  BY DEF DropAddrSpace, OnePinnedShooter, IInv, SwitchInv, ShooterInv
<1>n. /\ generation + 1 \in Nat
      /\ \A e \in Cpu : /\ seen[e] <= generation + 1 /\ expected[e] <= generation + 1
                        /\ seen[e] # generation + 1 /\ expected[e] # generation + 1
  BY SMT DEF IInv, TypeOK, CountInv
<1>p. {owner} \X Page \subseteq Translation
  BY DEF IInv, TypeOK, Translation
<1>r. retired' \subseteq Translation
  BY <1>p DEF DropAddrSpace, IInv, TypeOK
<1>m. mapped' \subseteq Page /\ alive' \in BOOLEAN
  BY DEF DropAddrSpace
<1>x. \A x \in retired' : x \in retired \/ x[1] = owner
  BY DEF DropAddrSpace
<1>0. TypeOK'
  BY <1>u, <1>f, <1>n, <1>r, <1>m DEF IInv, TypeOK
<1>1. SwitchInv'
  BY <1>u, <1>f DEF IInv, SwitchInv
<1>2. CountInv'
  BY <1>u, <1>f, <1>n DEF CountInv
<1>3. ShooterInv'
  BY <1>u, <1>f DEF IInv, ShooterInv, After
<1>4. SeenInv'
  BY <1>u, <1>f, <1>n DEF SeenInv
<1>5. CaughtUpInv'
  BY <1>u, <1>f DEF CaughtUpInv
<1>6. RunningInv'
  BY <1>u, <1>f DEF RunningInv
<1>7. TargetInv'
  BY <1>u, <1>f DEF TargetInv
<1>8. FlushedInv'
  BY <1>u, <1>f DEF FlushedInv
<1>9. RetiredInv'
  BY <1>u, <1>f, <1>x DEF IInv, RetiredInv, Mapped, Unmapped
<1> QED BY <1>0, <1>1, <1>2, <1>3, <1>4, <1>5, <1>6, <1>7, <1>8, <1>9 DEF IInv

(* The next owner's generation is one that no CPU has seen. *)
LEMMA NewStep ==
  ASSUME OnePinnedShooter, IInv, new_empty
  PROVE  IInv'
<1>u. UNCHANGED <<retired, tlb, hw, running, seen, active, late, apc, expected, tpc,
                   page, gen, mask, todo, me>>
  BY DEF new_empty, cpuVars, taskVars
<1>f. /\ tpc[shooter] = "run" /\ mask[shooter] = {} /\ owner < MaxOwners
      /\ generation' = generation + 1 /\ owner' = owner + 1 /\ alive'
      /\ \A c \in Cpu : running[c] = None /\ ~hw[c] /\ apc[c] = "no"
  BY DEF new_empty, OnePinnedShooter, IInv, SwitchInv, CountInv, ShooterInv
<1>n. /\ generation + 1 \in Nat
      /\ \A e \in Cpu : /\ seen[e] <= generation + 1 /\ expected[e] <= generation + 1
                        /\ seen[e] # generation + 1 /\ expected[e] # generation + 1
  BY SMT DEF IInv, TypeOK, CountInv
<1>r. \A x \in retired : x[1] \in Nat /\ x[1] <= owner
  BY SMT DEF IInv, RetiredInv, TypeOK, Translation
<1>0. TypeOK'
  BY SMT, <1>u, <1>f, <1>n, OwnersAssumption DEF new_empty, IInv, TypeOK
<1>1. SwitchInv'
  BY <1>u, <1>f DEF IInv, SwitchInv
<1>2. CountInv'
  BY <1>u, <1>f, <1>n DEF CountInv
<1>3. ShooterInv'
  BY <1>u, <1>f DEF IInv, ShooterInv, After
<1>4. SeenInv'
  BY <1>u, <1>f, <1>n DEF SeenInv
<1>5. CaughtUpInv'
  BY <1>u, <1>f DEF CaughtUpInv
<1>6. RunningInv'
  BY <1>u, <1>f DEF RunningInv
<1>7. TargetInv'
  BY <1>u, <1>f DEF TargetInv
<1>8. FlushedInv'
  BY <1>u, <1>f DEF FlushedInv
<1>9. RetiredInv'
  BY SMT, <1>u, <1>f, <1>r DEF IInv, RetiredInv, TypeOK
<1> QED BY <1>0, <1>1, <1>2, <1>3, <1>4, <1>5, <1>6, <1>7, <1>8, <1>9 DEF IInv

(* A step that changes nothing. *)
LEMMA StutterStep ==
  ASSUME IInv, UNCHANGED vars
  PROVE  IInv'
<1> USE DEF IInv, vars
<1>1. (TypeOK /\ SwitchInv /\ CountInv /\ ShooterInv)'
  BY DEF TypeOK, SwitchInv, CountInv, ShooterInv
<1>2. (SeenInv /\ CaughtUpInv)'
  BY DEF SeenInv, CaughtUpInv, Fresh, Mapped, Unmapped
<1>3. (RunningInv /\ TargetInv /\ FlushedInv /\ RetiredInv)'
  BY DEF RunningInv, TargetInv, FlushedInv, RetiredInv, Owed, Mapped, Unmapped
<1> QED BY <1>1, <1>2, <1>3

(* Initially no CPU has cached anything. *)
LEMMA InitIInv ==
  ASSUME OnePinnedShooter, Init
  PROVE  IInv
<1> USE OwnersAssumption DEF OnePinnedShooter, Init
<1>1. TypeOK BY SMT DEF TypeOK, Translation, ActPc, TaskPc
<1>2. SwitchInv /\ CountInv /\ ShooterInv
  BY SMT, NoneAssumption DEF SwitchInv, CountInv, ShooterInv, After
<1>3. SeenInv /\ CaughtUpInv /\ RunningInv /\ TargetInv /\ FlushedInv /\ RetiredInv
  BY DEF SeenInv, CaughtUpInv, RunningInv, TargetInv, FlushedInv, RetiredInv, Fresh
<1> QED BY <1>1, <1>2, <1>3 DEF IInv

------------------------------------------------------------------------------
(* The steps of a shootdown.                                               *)

(* The page is owed to every CPU until its generation is published. *)
LEMMA UnmapStep ==
  ASSUME OnePinnedShooter, IInv, NEW c \in Cpu, NEW s \in Task, NEW p \in Page,
         Unmap(c, s, p)
  PROVE  IInv'
<1>u. UNCHANGED <<owner, alive, retired, tlb, hw, running, generation, seen, active,
                   late, apc, expected, gen, mask, todo, me>>
  BY DEF Unmap, cpuVars, asidVars
<1>s. s = shooter /\ alive
  BY NoneAssumption DEF Unmap, Runs, OnePinnedShooter, IInv, SwitchInv
<1>f. /\ tpc[shooter] = "run" /\ tpc'[shooter] = "gen" /\ p \in mapped /\ mapped' = mapped \ {p}
      /\ page'[shooter] = p
      /\ \A q \in Task \ {shooter} : tpc'[q] = tpc[q]
  BY <1>s DEF Unmap, GoTask, OnePinnedShooter, IInv, TypeOK
<1>0. TypeOK'
  BY <1>u DEF Unmap, GoTask, IInv, TypeOK, TaskPc
<1>k. (SwitchInv /\ CountInv)'
  BY <1>u, SwitchKept, CountKept DEF IInv
<1>3. ShooterInv'
  BY <1>u, <1>s, <1>f DEF IInv, ShooterInv, After
<1>4. SeenInv'
  BY <1>u, <1>f DEF IInv, SeenInv, Fresh, Mapped, Unmapped
<1>5. CaughtUpInv'
  BY <1>u, <1>f DEF IInv, CaughtUpInv, Fresh, Mapped, Unmapped
<1>6. RunningInv'
  BY <1>u, <1>f DEF IInv, RunningInv, Owed, Mapped, Unmapped
<1>7. TargetInv'
  BY <1>u, <1>f DEF IInv, TargetInv, ShooterInv
<1>8. FlushedInv'
  BY <1>u, <1>f DEF FlushedInv
<1>9. RetiredInv'
  BY <1>u, <1>f DEF IInv, RetiredInv, Mapped, Unmapped
<1> QED BY <1>0, <1>k, <1>3, <1>4, <1>5, <1>6, <1>7, <1>8, <1>9 DEF IInv

(* No CPU has seen the new generation; those that run the process are scanned. *)
LEMMA NewGenerationStep ==
  ASSUME OnePinnedShooter, IInv, NEW c \in Cpu, NEW s \in Task, NewGeneration(c, s)
  PROVE  IInv'
<1>u. UNCHANGED <<owner, alive, mapped, retired, tlb, hw, running, seen, active, late,
                   apc, expected, page, mask, me>>
  BY DEF NewGeneration, memVars, cpuVars
<1>s. s = shooter
  BY DEF NewGeneration, IInv, ShooterInv
<1>f. /\ tpc[shooter] = "gen" /\ tpc'[shooter] = "scan" /\ generation' = generation + 1
      /\ gen'[shooter] = generation + 1 /\ todo'[shooter] = Cpu
      /\ \A q \in Task \ {shooter} : tpc'[q] = tpc[q]
  BY <1>s DEF NewGeneration, GoTask, IInv, TypeOK
<1>n. /\ generation + 1 \in Nat
      /\ \A e \in Cpu : /\ seen[e] <= generation + 1 /\ expected[e] <= generation + 1
                        /\ seen[e] # generation + 1 /\ expected[e] # generation + 1
  BY SMT DEF IInv, TypeOK, CountInv
<1>0. TypeOK'
  BY SMT, <1>u DEF NewGeneration, GoTask, IInv, TypeOK, TaskPc
<1>k. SwitchInv' BY <1>u, SwitchKept DEF IInv
<1>2. CountInv'
  BY <1>u, <1>f, <1>n DEF IInv, CountInv
<1>3. ShooterInv'
  BY <1>u, <1>f DEF IInv, ShooterInv, After
<1>4. SeenInv'
  BY <1>u, <1>f, <1>n DEF SeenInv
<1>5. CaughtUpInv'
  BY <1>u, <1>f, <1>n DEF CaughtUpInv
<1>6. RunningInv'
  BY <1>u, <1>f DEF IInv, RunningInv, Owed, Mapped, Unmapped
<1>7. TargetInv'
  BY <1>u, <1>f DEF IInv, TargetInv, ShooterInv
<1>8. FlushedInv'
  BY <1>u, <1>f DEF FlushedInv
<1>9. RetiredInv'
  BY <1>u, <1>f DEF IInv, RetiredInv, Mapped, Unmapped
<1> QED BY <1>0, <1>k, <1>2, <1>3, <1>4, <1>5, <1>6, <1>7, <1>8, <1>9 DEF IInv

(* A CPU that runs the process is active, or it is home. *)
LEMMA ScanStep ==
  ASSUME OnePinnedShooter, IInv, NEW c \in Cpu, NEW s \in Task, NEW d \in Cpu,
         asid_active_cpu_mask(c, s, d)
  PROVE  IInv'
<1>u. UNCHANGED <<owner, alive, mapped, retired, tlb, hw, running, generation, seen,
                   active, late, apc, expected, page, gen, me>>
  BY DEF asid_active_cpu_mask, memVars, cpuVars, asidVars
<1>s. s = shooter
  BY DEF asid_active_cpu_mask, IInv, ShooterInv
<1>f. /\ tpc[shooter] = "scan" /\ tpc'[shooter] \in {"scan", "self"}
      /\ tpc'[shooter] = "self" => todo[shooter] = {d}
      /\ todo'[shooter] = todo[shooter] \ {d}
      /\ \A q \in Task \ {shooter} : tpc'[q] = tpc[q]
  BY <1>s DEF asid_active_cpu_mask, GoTask, IInv, TypeOK
<1>m. /\ mask[shooter] \subseteq mask'[shooter] /\ mask'[shooter] \subseteq mask[shooter] \cup {d}
      /\ d \in mask'[shooter] => d \in mask[shooter] \/ active[d]
      /\ active[d] => d \in mask'[shooter]
  BY <1>s DEF asid_active_cpu_mask, IInv, TypeOK
<1>a. hw[d] => active[d] \/ d = home
  BY DEF IInv, SwitchInv
<1>o. \A e \in Cpu : hw[e] /\ Owed(e) => Owed(e)'
  BY <1>f, <1>m, <1>a DEF Owed
<1>h. active[d] /\ apc[d] = "no" => hw[d]
  BY DEF IInv, SwitchInv
<1>0. TypeOK'
  BY <1>u DEF asid_active_cpu_mask, GoTask, IInv, TypeOK, TaskPc
<1>k. (SwitchInv /\ CountInv)'
  BY <1>u, SwitchKept, CountKept DEF IInv
<1>3. ShooterInv'
  BY <1>u, <1>f DEF IInv, ShooterInv, After
<1>4. SeenInv'
  BY <1>u, <1>f DEF IInv, SeenInv, Fresh, Mapped, Unmapped
<1>5. CaughtUpInv'
  BY <1>u, <1>f DEF IInv, CaughtUpInv, Fresh, Mapped, Unmapped
<1>6. RunningInv'
  BY <1>u, <1>f, <1>o DEF IInv, RunningInv, Mapped, Unmapped
<1>7. TargetInv'
  BY <1>u, <1>f, <1>m, <1>h DEF IInv, TargetInv, RunningInv, Mapped, Unmapped
<1>8. FlushedInv'
  BY <1>u, <1>f DEF FlushedInv
<1>9. RetiredInv'
  BY <1>u, <1>f DEF IInv, RetiredInv, Mapped, Unmapped
<1> QED BY <1>0, <1>k, <1>3, <1>4, <1>5, <1>6, <1>7, <1>8, <1>9 DEF IInv

(* The shooter runs at home and adds it, whatever the scan saw of its store. *)
LEMMA SelfStep ==
  ASSUME OnePinnedShooter, IInv, NEW c \in Cpu, NEW s \in Task, IncludeSelf(c, s)
  PROVE  IInv'
<1>u. UNCHANGED <<owner, alive, mapped, retired, tlb, hw, running, generation, seen,
                   active, late, apc, expected, page, gen, todo, me>>
  BY DEF IncludeSelf, memVars, cpuVars, asidVars
<1>s. s = shooter
  BY DEF IncludeSelf, IInv, ShooterInv
<1>c. c = home /\ hw[home]
  BY <1>s, NoneAssumption DEF IncludeSelf, Runs, OnePinnedShooter, IInv, SwitchInv
<1>f. /\ tpc[shooter] = "self" /\ tpc'[shooter] = "enter"
      /\ mask'[shooter] = mask[shooter] \cup {home}
      /\ \A q \in Task \ {shooter} : tpc'[q] = tpc[q]
  BY <1>s, <1>c DEF IncludeSelf, GoTask, IInv, TypeOK
<1>0. TypeOK'
  BY <1>u DEF IncludeSelf, GoTask, IInv, TypeOK, TaskPc
<1>k. (SwitchInv /\ CountInv)'
  BY <1>u, SwitchKept, CountKept DEF IInv
<1>3. ShooterInv'
  BY <1>u, <1>f DEF IInv, ShooterInv, After
<1>4. SeenInv'
  BY <1>u, <1>f DEF IInv, SeenInv, Fresh, Mapped, Unmapped
<1>5. CaughtUpInv'
  BY <1>u, <1>f DEF IInv, CaughtUpInv, Fresh, Mapped, Unmapped
<1>6. RunningInv'
  BY <1>u, <1>f DEF IInv, RunningInv, Owed, Mapped, Unmapped
<1>7. TargetInv'
  BY <1>u, <1>c, <1>f DEF IInv, TargetInv, RunningInv, Mapped, Unmapped
<1>8. FlushedInv'
  BY <1>u, <1>f DEF FlushedInv
<1>9. RetiredInv'
  BY <1>u, <1>f DEF IInv, RetiredInv, Mapped, Unmapped
<1> QED BY <1>0, <1>k, <1>3, <1>4, <1>5, <1>6, <1>7, <1>8, <1>9 DEF IInv

(* The shooter reads that it is at home. *)
LEMMA EnterStep ==
  ASSUME OnePinnedShooter, IInv, NEW c \in Cpu, NEW s \in Task, Enter(c, s)
  PROVE  IInv'
<1>u. UNCHANGED <<owner, alive, mapped, retired, tlb, hw, running, generation, seen,
                   active, late, apc, expected, page, gen, mask>>
  BY DEF Enter, memVars, cpuVars, asidVars
<1>s. s = shooter
  BY DEF Enter, IInv, ShooterInv
<1>f. /\ c = home /\ tpc[shooter] = "enter" /\ tpc'[shooter] = "local"
      /\ me'[shooter] = c /\ todo'[shooter] = mask[shooter] \ {c}
      /\ \A q \in Task \ {shooter} : tpc'[q] = tpc[q]
  BY SMT, <1>s DEF Enter, Runs, GoTask, IInv, TypeOK, SwitchInv
<1>0. TypeOK'
  BY <1>u DEF Enter, GoTask, IInv, TypeOK, TaskPc
<1>k. (SwitchInv /\ CountInv)'
  BY <1>u, SwitchKept, CountKept DEF IInv
<1>3. ShooterInv'
  BY <1>u, <1>f DEF IInv, ShooterInv, After
<1>4. SeenInv'
  BY <1>u, <1>f DEF IInv, SeenInv, Fresh, Mapped, Unmapped
<1>5. CaughtUpInv'
  BY <1>u, <1>f DEF IInv, CaughtUpInv, Fresh, Mapped, Unmapped
<1>6. RunningInv'
  BY <1>u, <1>f DEF IInv, RunningInv, Owed, Mapped, Unmapped
<1>7. TargetInv'
  BY <1>u, <1>f DEF IInv, TargetInv, Mapped, Unmapped
<1>8. FlushedInv'
  BY <1>u, <1>f DEF FlushedInv
<1>9. RetiredInv'
  BY <1>u, <1>f DEF IInv, RetiredInv, Mapped, Unmapped
<1> QED BY <1>0, <1>k, <1>3, <1>4, <1>5, <1>6, <1>7, <1>8, <1>9 DEF IInv

(* It flushes home, where it still is. *)
LEMMA LocalStep ==
  ASSUME OnePinnedShooter, IInv, NEW c \in Cpu, NEW s \in Task, LocalFlush(c, s)
  PROVE  IInv'
<1>u. UNCHANGED <<owner, alive, mapped, retired, hw, running, generation, seen,
                   active, late, apc, expected, page, gen, mask, todo, me>>
  BY DEF LocalFlush, memVars, cpuVars, asidVars
<1>s. s = shooter
  BY DEF LocalFlush, IInv, ShooterInv
<1>c. /\ c = home /\ apc[home] = "no" /\ tpc[shooter] = "local"
      /\ me[shooter] = home /\ home \in mask[shooter] /\ todo[shooter] = mask[shooter] \ {home}
  BY <1>s DEF LocalFlush, Runs, IInv, SwitchInv, ShooterInv
<1>f. /\ tpc'[shooter] = "wait" /\ \A e \in Cpu \ {home} : tlb'[e] = tlb[e]
      /\ \A q \in Task \ {shooter} : tpc'[q] = tpc[q]
  BY <1>s, <1>c DEF LocalFlush, GoTask, IInv, TypeOK
<1>g. \A x \in tlb'[home] : x \in tlb[home] /\ x[2] # page[shooter]
  BY <1>s, <1>c DEF LocalFlush, Flushed, IInv, TypeOK
<1>m. \A e \in Cpu : \A x \in tlb'[e] : x \in tlb[e]
  BY <1>f, <1>g
<1>h. \A x \in tlb'[home] : Mapped(x)
  BY <1>c, <1>g DEF OnePinnedShooter, IInv, TargetInv, Unmapped
<1>0. TypeOK'
  BY <1>u DEF LocalFlush, GoTask, IInv, TypeOK, TaskPc
<1>k. (SwitchInv /\ CountInv)'
  BY <1>u, SwitchKept, CountKept DEF IInv
<1>3. ShooterInv'
  BY <1>u, <1>c, <1>f DEF IInv, ShooterInv, After
<1>4. SeenInv'
  BY <1>u, <1>c, <1>f, <1>m DEF IInv, SeenInv, Fresh, Mapped, Unmapped
<1>5. CaughtUpInv'
  BY <1>u, <1>c, <1>f, <1>m DEF IInv, CaughtUpInv, Fresh, Mapped, Unmapped
<1>6. RunningInv'
  BY <1>u, <1>c, <1>f, <1>h DEF IInv, RunningInv, Owed, Mapped, Unmapped
<1>7. TargetInv'
  BY <1>u, <1>c, <1>f, <1>m DEF IInv, TargetInv, Mapped, Unmapped
<1>8. FlushedInv'
  BY <1>u, <1>c, <1>f, <1>h DEF FlushedInv, Mapped
<1>9. RetiredInv'
  BY <1>u, <1>c, <1>f DEF IInv, RetiredInv, Mapped, Unmapped
<1> QED BY <1>0, <1>k, <1>3, <1>4, <1>5, <1>6, <1>7, <1>8, <1>9 DEF IInv

(* A target flushes: it holds no stale page any more. *)
LEMMA RemoteStep ==
  ASSUME OnePinnedShooter, IInv, NEW s \in Task, NEW d \in Cpu, RemoteFlush(s, d)
  PROVE  IInv'
<1>u. UNCHANGED <<owner, alive, mapped, retired, hw, running, generation, seen,
                   active, late, apc, expected, tpc, page, gen, mask, me>>
  BY DEF RemoteFlush, memVars, cpuVars, asidVars
<1>s. s = shooter
  BY DEF RemoteFlush, IInv, ShooterInv
<1>f. /\ tpc[shooter] = "wait" /\ d \in mask[shooter] /\ apc[d] = "no"
      /\ todo'[shooter] = todo[shooter] \ {d}
      /\ \A e \in Cpu \ {d} : tlb'[e] = tlb[e]
  BY <1>s DEF RemoteFlush, IInv, TypeOK, ShooterInv
<1>g. \A x \in tlb'[d] : x \in tlb[d] /\ x[2] # page[shooter]
  BY <1>s DEF RemoteFlush, Flushed, IInv, TypeOK
<1>m. \A e \in Cpu : \A x \in tlb'[e] : x \in tlb[e]
  BY <1>f, <1>g
<1>h. \A x \in tlb'[d] : Mapped(x)
  BY <1>f, <1>g DEF IInv, TargetInv, Unmapped
<1>0. TypeOK'
  BY <1>u DEF RemoteFlush, IInv, TypeOK
<1>k. (SwitchInv /\ CountInv /\ RetiredInv)'
  BY <1>u, SwitchKept, CountKept, RetiredKept DEF IInv
<1>3. ShooterInv'
  BY <1>u, <1>f DEF IInv, ShooterInv, After
<1>4. SeenInv'
  BY <1>u, <1>m DEF IInv, SeenInv, Fresh, Mapped, Unmapped
<1>5. CaughtUpInv'
  BY <1>u, <1>m DEF IInv, CaughtUpInv, Fresh, Mapped, Unmapped
<1>6. RunningInv'
  BY <1>u, <1>f, <1>h DEF IInv, RunningInv, Owed, Mapped, Unmapped
<1>7. TargetInv'
  BY <1>u, <1>m DEF IInv, TargetInv, Mapped, Unmapped
<1>8. FlushedInv'
  BY <1>u, <1>f, <1>h DEF IInv, FlushedInv, Mapped
<1> QED BY <1>0, <1>k, <1>3, <1>4, <1>5, <1>6, <1>7, <1>8 DEF IInv

(* Nobody is left to flush. *)
LEMMA WaitStep ==
  ASSUME OnePinnedShooter, IInv, NEW c \in Cpu, NEW s \in Task, WaitDone(c, s)
  PROVE  IInv'
<1>u. UNCHANGED <<owner, alive, mapped, retired, tlb, hw, running, generation, seen,
                   active, late, apc, expected, page, gen, mask, me>>
  BY DEF WaitDone, memVars, cpuVars, asidVars
<1>s. s = shooter
  BY DEF WaitDone, IInv, ShooterInv
<1>f. /\ tpc[shooter] = "wait" /\ tpc'[shooter] = "record"
      /\ todo[shooter] = {} /\ todo'[shooter] = mask[shooter]
      /\ \A q \in Task \ {shooter} : tpc'[q] = tpc[q]
  BY <1>s DEF WaitDone, GoTask, IInv, TypeOK
<1>0. TypeOK'
  BY <1>u DEF WaitDone, GoTask, IInv, TypeOK, TaskPc
<1>k. (SwitchInv /\ CountInv)'
  BY <1>u, SwitchKept, CountKept DEF IInv
<1>3. ShooterInv'
  BY <1>u, <1>f DEF IInv, ShooterInv, After
<1>4. SeenInv'
  BY <1>u, <1>f DEF IInv, SeenInv, Fresh, Mapped, Unmapped
<1>5. CaughtUpInv'
  BY <1>u, <1>f DEF IInv, CaughtUpInv, Fresh, Mapped, Unmapped
<1>6. RunningInv'
  BY <1>u, <1>f DEF IInv, RunningInv, Owed, Mapped, Unmapped
<1>7. TargetInv'
  BY <1>u, <1>f DEF IInv, TargetInv, Mapped, Unmapped
<1>8. FlushedInv'
  BY <1>u, <1>f DEF IInv, FlushedInv, Mapped
<1>9. RetiredInv'
  BY <1>u, <1>f DEF IInv, RetiredInv, Mapped, Unmapped
<1> QED BY <1>0, <1>k, <1>3, <1>4, <1>5, <1>6, <1>7, <1>8, <1>9 DEF IInv

(* A target that has flushed is credited with the generation. *)
LEMMA RecordStep ==
  ASSUME OnePinnedShooter, IInv, NEW c \in Cpu, NEW s \in Task, NEW d \in Cpu,
         record_completed_generation(c, s, d)
  PROVE  IInv'
<1>u. UNCHANGED <<owner, alive, mapped, retired, tlb, hw, running, generation, active,
                   late, apc, expected, tpc, page, gen, mask, me>>
  BY DEF record_completed_generation, memVars, cpuVars
<1>s. s = shooter
  BY DEF record_completed_generation, IInv, ShooterInv
<1>f. /\ tpc[shooter] = "record" /\ d \in todo[shooter] /\ gen[shooter] = generation
      /\ todo'[shooter] = todo[shooter] \ {d}
      /\ \A e \in Cpu \ {d} : seen'[e] = seen[e]
  BY <1>s DEF record_completed_generation, IInv, TypeOK, ShooterInv, After
<1>e. seen'[d] = generation /\ generation <= generation
  BY SMT, <1>s, <1>f DEF CountInv, record_completed_generation, IInv, TypeOK
<1>h. \A x \in tlb[d] : Mapped(x)
  BY <1>f DEF IInv, ShooterInv, FlushedInv
<1>0. TypeOK'
  BY <1>u DEF record_completed_generation, IInv, TypeOK
<1>k. (SwitchInv /\ CaughtUpInv /\ TargetInv /\ RetiredInv)'
  BY <1>u, SwitchKept, CaughtUpKept, TargetKept, RetiredKept DEF IInv
<1>2. CountInv'
  BY <1>u, <1>f, <1>e DEF IInv, CountInv
<1>3. ShooterInv'
  BY <1>u, <1>f DEF IInv, ShooterInv, After
<1>4. SeenInv'
  BY <1>u, <1>f, <1>h DEF IInv, SeenInv, Fresh, Mapped, Unmapped
<1>6. RunningInv'
  BY <1>u, <1>f DEF IInv, RunningInv, Owed, Mapped, Unmapped
<1>8. FlushedInv'
  BY <1>u, <1>f DEF IInv, FlushedInv, Mapped
<1> QED BY <1>0, <1>k, <1>2, <1>3, <1>4, <1>6, <1>8 DEF IInv

(* The page given back is cached by no CPU that runs the process. *)
LEMMA RetireStep ==
  ASSUME OnePinnedShooter, IInv, NEW c \in Cpu, NEW s \in Task, Retire(c, s)
  PROVE  IInv'
<1>u. UNCHANGED <<owner, alive, mapped, tlb, hw, running, generation, seen, active,
                   late, apc, expected, todo>>
  BY DEF Retire, cpuVars, asidVars
<1>s. s = shooter
  BY DEF Retire, IInv, ShooterInv
<1>f. /\ tpc[shooter] = "record" /\ tpc'[shooter] = "run" /\ mask'[shooter] = {}
      /\ \A q \in Task \ {shooter} : tpc'[q] = tpc[q]
  BY <1>s DEF Retire, GoTask, IInv, TypeOK
<1>p. page[shooter] \in Page /\ page[shooter] \notin mapped
  BY <1>f DEF IInv, ShooterInv
<1>x. /\ retired' = retired \cup {<<owner, page[shooter]>>}
      /\ <<owner, page[shooter]>> \in Translation
  BY <1>s, <1>p DEF Retire, IInv, TypeOK, Translation
<1>0. TypeOK'
  BY <1>u, <1>x DEF Retire, GoTask, IInv, TypeOK, TaskPc
<1>k. (SwitchInv /\ CountInv)'
  BY <1>u, SwitchKept, CountKept DEF IInv
<1>3. ShooterInv'
  BY <1>u, <1>f DEF IInv, ShooterInv, After
<1>4. SeenInv'
  BY <1>u, <1>f DEF IInv, SeenInv, Fresh, Mapped, Unmapped
<1>5. CaughtUpInv'
  BY <1>u, <1>f DEF IInv, CaughtUpInv, Fresh, Mapped, Unmapped
<1>6. RunningInv'
  BY <1>u, <1>f DEF IInv, RunningInv, Owed, Mapped, Unmapped
<1>7. TargetInv'
  BY <1>u, <1>f DEF TargetInv
<1>8. FlushedInv'
  BY <1>u, <1>f DEF FlushedInv
<1>9. RetiredInv'
  BY SMT, <1>u, <1>f, <1>p, <1>x DEF IInv, RetiredInv, Mapped, Unmapped
<1> QED BY <1>0, <1>k, <1>3, <1>4, <1>5, <1>6, <1>7, <1>8, <1>9 DEF IInv

(* The invariant is inductive. *)
LEMMA NextIInv ==
  ASSUME OnePinnedShooter, IInv, [Next]_vars
  PROVE  IInv'
<1>1. CASE \E c \in Cpu : Activate(c) \/ StoreVisible(c) \/ SwitchOut(c)
  BY <1>1, LoadStep, CatchUpStep, PublishStep, RecheckStep, VisibleStep, SwitchOutStep
  DEF Activate
<1>2. CASE \E c \in Cpu, s \in Task : RemoteFlush(s, c)
  BY <1>2, RemoteStep
<1>3. CASE DropAddrSpace \/ new_empty
  BY <1>3, DropStep, NewStep
<1>4. CASE \E c \in Cpu, p \in Page : Touch(c, p)
  BY <1>4, TouchStep
<1>5. ASSUME NEW c \in Cpu, NEW s \in Task, Shootdown(c, s)
      PROVE  IInv'
  BY <1>5, NewGenerationStep, ScanStep, SelfStep, EnterStep, LocalStep, WaitStep, RecordStep,
     RetireStep
  DEF Shootdown
<1>6. CASE \E c \in Cpu, s \in Task :
             SwitchIn(c, s) \/ Shootdown(c, s) \/ \E p \in Page : Unmap(c, s, p)
  BY <1>5, <1>6, SwitchInStep, UnmapStep
<1>7. CASE UNCHANGED vars
  BY <1>7, StutterStep
<1> QED BY <1>1, <1>2, <1>3, <1>4, <1>6, <1>7 DEF Next

(* What a CPU that runs the process has cached is mapped or still owed to it, *)
(* and neither of these has been given back.                                  *)
LEMMA IInvNoStale ==
  ASSUME IInv
  PROVE  NoStaleTranslation
<1> SUFFICES ASSUME NEW c \in Cpu, hw[c], NEW x \in tlb[c], x \in retired
             PROVE  FALSE
  BY DEF NoStaleTranslation
<1>1. alive BY DEF IInv, SwitchInv
<1>2. Mapped(x) \/ Unmapped(x) BY DEF IInv, RunningInv
<1>3. x[1] < owner BY <1>1, <1>2 DEF IInv, RetiredInv
<1>4. x[1] = owner /\ owner \in Nat BY SMT, <1>2 DEF Mapped, Unmapped, IInv, TypeOK
<1> QED BY SMT, <1>3, <1>4

(* A CPU that has seen the generation can only lack the flush of a page whose *)
(* generation is still to come.                                               *)
LEMMA IInvCovered ==
  ASSUME OnePinnedShooter, IInv
  PROVE  StaleIsCovered
<1> SUFFICES ASSUME NEW c \in Cpu, NEW x \in tlb[c], x \notin {owner} \X mapped,
                    ~(seen[c] < generation)
             PROVE  tpc[shooter] = "gen" /\ page[shooter] = x[2]
  BY DEF StaleIsCovered, OnePinnedShooter
<1>1. seen[c] = generation BY SMT DEF IInv, CountInv, TypeOK
<1>2. x = <<x[1], x[2]>> BY SMT DEF IInv, TypeOK, Translation
<1>3. ~Mapped(x) BY <1>2 DEF Mapped
<1> QED BY <1>1, <1>3 DEF IInv, SeenInv, Fresh, Unmapped
------------------------------------------------------------------------------
(* flush_asid_request and mark_current_cpu_asid_active together: no CPU that  *)
(* runs a process reaches a frame given back by it or by an earlier owner of  *)
(* its ASID, however the scan, the flushes and the switches interleave.       *)
THEOREM ShootdownIsSafe ==
  ASSUME OnePinnedShooter
  PROVE  Spec => []NoStaleTranslation
<1>1. Init => IInv BY InitIInv
<1>2. IInv /\ [Next]_vars => IInv' BY NextIInv
<1>3. IInv => NoStaleTranslation BY IInvNoStale
<1> QED BY <1>1, <1>2, <1>3, PTL DEF Spec

(* The generation that a CPU has recorded (CPU_ASID_GENERATIONS), by its own  *)
(* catch-up or by record_completed_generation on its behalf, stands for a     *)
(* flush of everything unmapped before it.                                    *)
THEOREM GenerationIsCredit ==
  ASSUME OnePinnedShooter
  PROVE  Spec => []StaleIsCovered
<1>1. Init => IInv BY InitIInv
<1>2. IInv /\ [Next]_vars => IInv' BY NextIInv
<1>3. IInv => StaleIsCovered BY IInvCovered
<1> QED BY <1>1, <1>2, <1>3, PTL DEF Spec
==============================================================================
