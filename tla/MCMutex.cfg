CONSTANTS
    None = None
    Task = {t1, t2, t3}
    Agent = {t1, t2, t3}
    Queue = {q1}
    wq = q1
    MaxEntries = 2
SPECIFICATION FairSpec
INVARIANTS
    MutualExclusion
    NoLostWakeup
PROPERTIES
    HandOver
