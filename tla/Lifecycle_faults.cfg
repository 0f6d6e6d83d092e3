CONSTANTS
    m1 = m1
    m2 = m2
    t1 = t1
    t2 = t2
    t3 = t3
    w1 = w1
    w2 = w2
    c1 = c1
    c2 = c2
    d0 = d0
    d1 = d1
    None = None
    BootDisk = d0
    Naming = {TRUE, FALSE}
    Migrations <- OneMigration
    Tasks <- TwoTasks
    Workers <- TwoWorkers
    Clients <- OneClient
    Disks <- TwoDisks
    MaxCrash = 1
    MaxTimeLimit = 1
    MaxRedeliver = 0
    MaxCancel = 1
    MaxConvert = 0
    MaxOvertaken = 0
    MaxOverlap = 0
    MaxBrokerFail = 1
    MaxRelapse = 1
    MaxDeadHandler = 1
    RevokeMayFail = TRUE
    PipelineMayFail = TRUE
SPECIFICATION Spec
SYMMETRY Symmetry
CHECK_DEADLOCK FALSE
INVARIANT PopulatesAdaptedDisks
INVARIANT SingleOrchestrator
INVARIANT AuditMirrorsStatus
INVARIANT CompletedIsMigrated
