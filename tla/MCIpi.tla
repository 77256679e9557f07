--------------------------------- MODULE MCIpi ---------------------------------
(* A small instance of Ipi.  The mailbox of c3 gets requests from c1 and c2,   *)
(* in either order: ranges that merge, ranges too far apart, and one of another *)
(* ASID, which overflows the mailbox.  c1 and c2 also flush each other.        *)
EXTENDS Ipi, TLC

CONSTANTS c1, c2, c3

Requests(c) ==
    CASE c = c1 -> {Range(1, 0, 1)}
      [] c = c2 -> {Range(1, 1, 2), Range(1, 2, 3), Range(2, 0, 1)}
      [] OTHER  -> {}

Flushes == {f \in [cpu : Cpu, request : UNION {Requests(c) : c \in Cpu}, mask : {Cpu},
                   irqs_off : BOOLEAN] : f.request \in Requests(f.cpu) /\ (f.cpu = c1 => f.irqs_off)}

Callbacks == {[cpu |-> c1, dest |-> c3], [cpu |-> c2, dest |-> c3]}
==============================================================================
