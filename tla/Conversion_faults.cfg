CONSTANTS
    j1 = j1
    j2 = j2
    j3 = j3
    w1 = w1
    w2 = w2
    c1 = c1
    None = None
    Jobs <- OneJob
    Passthrough <- NoJob
    Workers <- TwoWorkers
    Clients <- OneClient
    Submitter = c1
    MaxRetries = 1
    ResetAttempts = FALSE
    MaxCrash = 1
    MaxUnacked = 1
    MaxTimeLimit = 1
    MaxRedeliver = 1
    MaxCancel = 1
    MaxRetry = 1
    MaxBrokerFail = 1
    MaxUndeleted = 0
    MaxKinds = 2
SPECIFICATION Spec
SYMMETRY Symmetry
INVARIANT AttemptsConsistent
INVARIANT OneConverterPerJob
PROPERTY CancelledJobStays
