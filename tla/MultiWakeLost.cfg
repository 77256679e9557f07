CONSTANTS
    None = None
    q1 = q1
    q2 = q2
    Task = {t1}
    Agent = {t1, n1}
    Queue = {q1, q2}
    MaxEntries = 2
    Op = {"wait_multiple"}
    NotifyOp = {"one"}
    MultiQueues <- TwoQueues
SPECIFICATION Spec
INVARIANTS
    SleeperHearsEveryQueue
