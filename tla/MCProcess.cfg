CONSTANTS
    None = None
    t1 = t1
    t2 = t2
    n1 = n1
    n2 = n2
    k1 = k1
    k2 = k2
    p1 = p1
    p2 = p2
    s1 = s1
    s2 = s2
    SemQueue = SemQueue
    Process = {p1, p2}
    ProcessOf <- Processes
    Sem = {s1, s2}
    Width = 3
    o1 = o1
    o2 = o2
    f1 = f1
    r1 = r1
    r2 = r2
    r3 = r3
    l1 = l1
    l2 = l2
    l3 = l3
    x1 = x1
    x2 = x2
    File = {f1}
    RecordQueue = {r1, r2, r3}
    OffsetMax = 3
    FlockFile = {f1}
    FlockQueue = {l1, l2, l3}
    Task = {t1, t2}
    Agent = {t1, t2, n1, n2}
    Queue <- Queues
    FutexQueue <- FutexQueues
    MaxEntries = 2
    Key = {k1, k2}
    Mask <- Masks
    FullMask <- Full
    Script <- Scripts
SPECIFICATION Spec
INVARIANTS
    SleeperIsFindable
    NoLostFutexWake
    ExitLeavesNoSleeper
    TableIsPruned
    
    SemWaitersCounted
    NoLostSemWake
    EntriesAreBytes
    RecordExclusion
    WaiterKeepsState
    NoLostRecordWake
    FlockExclusion
    NoLostFlockWake
CHECK_DEADLOCK FALSE
