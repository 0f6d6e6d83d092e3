CONSTANTS
    p1 = p1
    p2 = p2
    r1 = r1
    r2 = r2
    t1 = t1
    Platform = Platform
    None = None
    Processes <- TwoProcesses
    Requests <- TwoRequests
    Tenants <- OneTenant
    InCluster = TRUE
    EnvMode = "KUBECONFIG"
    EnvComplete = TRUE
    Budgets <- Histories
SPECIFICATION Spec
SYMMETRY Symmetry
INVARIANT RowsConsistent
INVARIANT ClientsFollowSettings
INVARIANT EventsMatchChanges
