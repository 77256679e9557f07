CONSTANTS
    None = None
    q1 = q1
    q2 = q2
    Task = {t1}
    Agent = {t1, n1, n2}
    Queue = {q1, q2}
    MaxEntries = 2
    Op = {"wait_timeout_until", "wait_multiple", "wait_multiple_timeout"}
    NotifyOp = {"one"}
    MultiQueues <- TwoQueues
SPECIFICATION Spec
SYMMETRY Notifiers
INVARIANTS
    CleanReturn
