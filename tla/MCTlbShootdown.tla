--------------------------- MODULE MCTlbShootdown ---------------------------
(* Small instances of TlbShootdown.  Pinned threads stay on their own CPU,    *)
(* the others run anywhere.                                                   *)
EXTENDS TlbShootdown, TLC

CONSTANTS c1, c2, c3, t1, t2, t3

TwoCpus == {c1, c2}
TwoTasks == {t1, t2}
ThreeCpus == {c1, c2, c3}
ThreeTasks == {t1, t2, t3}

Pinned == [t \in Task |-> IF t = t1 THEN {c1} ELSE IF t = t2 THEN {c2} ELSE {c3}]
FirstPinned == [t \in Task |-> IF t = t1 THEN {c1} ELSE Cpu]
Shared == [t \in Task |-> IF t = t3 THEN {c2} ELSE {c1}]
Anywhere == [t \in Task |-> Cpu]

Alike == Permutations(Page) \cup Permutations({t2, t3})
==============================================================================
