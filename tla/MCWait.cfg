CONSTANTS
    None = None
    q1 = q1
    q2 = q2
    Task = {t1}
    Agent = {t1, n1, n2}
    Queue = {q1}
    MaxEntries = 2
    Op = {"wait", "wait_timeout", "wait_until"}
    NotifyOp = {"one", "all"}
    MultiQueues <- OneQueue
SPECIFICATION FairSpec
INVARIANTS
    SleeperHearsEveryQueue
    CleanReturn
PROPERTIES
    NotifiedCallReturns
    TimedCallReturns
