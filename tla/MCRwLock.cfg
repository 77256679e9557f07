CONSTANTS
    None = None
    Task = {t1, t2, t3}
    Agent = {t1, t2, t3}
    Queue = {q1}
    wq = q1
    ReadTask = {t1, t2}
    WriteTask = {t2, t3}
    MaxEntries = 1
SPECIFICATION FairSpec
INVARIANTS
    ReadersExcludeWriter
    WaitersCounted
    NoLostWakeup
PROPERTIES
    WriterGetsIn
