----------------------------- MODULE MCRunQueue -----------------------------
(* Small instances of RunQueue: the masks are "anywhere" and each single CPU. *)
EXTENDS RunQueue, TLC

Masks == {Cpu} \cup {{c} : c \in Cpu}
AllCpus == {Cpu}

Symmetry == Permutations(Task) \cup Permutations(Cpu)
==============================================================================
