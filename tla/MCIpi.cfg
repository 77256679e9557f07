SPECIFICATION FairSpec
CONSTANTS
    c1 = c1
    c2 = c2
    c3 = c3
    Cpu = {c1, c2, c3}
    Asid = {1, 2}
    Page = {0, 1, 2}
    TLB_RANGE_PAGE_LIMIT = 2
    TLB_MAILBOX_REQUEST_CAPACITY = 1
    Callback <- Callbacks
    Flush <- Flushes
    MaxCalls = 1
INVARIANTS
    
    BatchCoversTickets
    RequestIsSignalled
    RejectedNeverRuns
PROPERTIES
    AcceptedRuns
    FlushReturns
    
CHECK_DEADLOCK FALSE
