SPECIFICATION FairSpec
CONSTANTS
    Task = {t1, t2}
    Cpu = {c1, c2}
    None = None
    Mask <- AllCpus
PROPERTY ReadyRuns
