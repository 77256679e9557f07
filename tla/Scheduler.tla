------------------------------ MODULE Scheduler ------------------------------
(***************************************************************************)
(* What the scheduler of axtask promises the rest of the kernel: the life  *)
(* of a task as a state machine, and one owner of its saved context.       *)
(* WaitQueue builds on these transitions; RunQueue implements them.        *)
(***************************************************************************)
CONSTANTS Task, Cpu, None

VARIABLES
    state,   \* [Task -> State]       TaskInner::state
    owner    \* [Task -> Cpu or None] the CPU on which its context is live

svars == <<state, owner>>

Init ==
    /\ state = [t \in Task |-> "New"]
    /\ owner = [t \in Task |-> None]

Spawn(t) ==
    /\ state[t] = "New"
    /\ state' = [state EXCEPT ![t] = "Ready"]
    /\ UNCHANGED owner

(* A Ready task runs, on a CPU that may load its context: nobody else's is  *)
(* live, or this CPU never left it.                                         *)
Dispatch(c, t) ==
    /\ state[t] = "Ready"
    /\ owner[t] \in {None, c}
    /\ state' = [state EXCEPT ![t] = "Running"]
    /\ owner' = [owner EXCEPT ![t] = c]

(* The running task blocks, exits, or is made to wait for its next turn. *)
Leave(t) ==
    /\ state[t] = "Running"
    /\ \E s \in {"Ready", "Blocked", "Exited"} : state' = [state EXCEPT ![t] = s]
    /\ UNCHANGED owner

(* A task that has not left its CPU takes its decision to block back. *)
Relent(t) ==
    /\ state[t] = "Blocked"
    /\ owner[t] # None
    /\ state' = [state EXCEPT ![t] = "Running"]
    /\ UNCHANGED owner

(* The CPU has saved the context of a task that left. *)
Save(t) ==
    /\ state[t] # "Running"
    /\ owner[t] # None
    /\ owner' = [owner EXCEPT ![t] = None]
    /\ UNCHANGED state

Wake(t) ==
    /\ state[t] = "Blocked"
    /\ state' = [state EXCEPT ![t] = "Ready"]
    /\ UNCHANGED owner

Next ==
    \E t \in Task :
        \/ Spawn(t) \/ Leave(t) \/ Relent(t) \/ Save(t) \/ Wake(t)
        \/ \E c \in Cpu : Dispatch(c, t)

Spec == Init /\ [][Next]_svars
==============================================================================
