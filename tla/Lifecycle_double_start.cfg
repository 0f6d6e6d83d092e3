CONSTANTS
    m1 = m1
    m2 = m2
    t1 = t1
    t2 = t2
    t3 = t3
    w1 = w1
    w2 = w2
    c1 = c1
    c2 = c2
    d0 = d0
    d1 = d1
    None = None
    BootDisk = d0
    Naming = {TRUE, FALSE}
    Migrations <- OneMigration
    Tasks <- TwoTasks
    Workers <- TwoWorkers
    Clients <- TwoClients
    Disks <- OneDisk
    MaxCrash = 0
    MaxTimeLimit = 0
    MaxRedeliver = 0
    MaxCancel = 0
    MaxConvert = 0
    MaxOvertaken = 1
    MaxOverlap = 0
    MaxBrokerFail = 0
    MaxRelapse = 0
    MaxDeadHandler = 0
    RevokeMayFail = FALSE
    PipelineMayFail = FALSE
SPECIFICATION Spec
SYMMETRY Symmetry
CHECK_DEADLOCK FALSE
INVARIANT SingleOrchestrator
