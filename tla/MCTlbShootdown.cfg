SPECIFICATION Spec
SYMMETRY Alike
CONSTANTS
    c1 = c1
    c2 = c2
    c3 = c3
    t1 = t1
    t2 = t2
    t3 = t3
    None = None
    Cpu <- TwoCpus
    Task <- ThreeTasks
    MaxOwners = 2
    Page = {p1, p2}
    Shooter = {t1}
    Affinity <- FirstPinned
    Delayed = {c1}
INVARIANTS
    NoStaleTranslation
    StaleIsCovered
