SPECIFICATION Spec
CONSTANTS
    Task = {t1, t2}
    Cpu = {c1, c2}
    None = None
    Mask <- Masks
SYMMETRY Symmetry
INVARIANTS
    ExecutionIsOwned
    ReadyIsHeldOnce
    
    MigrationLands
PROPERTY SchedulerSpec
