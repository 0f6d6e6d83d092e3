CONSTANTS
    j1 = j1
    j2 = j2
    j3 = j3
    w1 = w1
    w2 = w2
    c1 = c1
    None = None
    Jobs <- ThreeJobs
    Passthrough <- OneJob
    Workers <- TwoWorkers
    Clients <- OneClient
    Submitter = c1
    MaxRetries = 0
    ResetAttempts = FALSE
    MaxCrash = 0
    MaxUnacked = 0
    MaxTimeLimit = 0
    MaxRedeliver = 0
    MaxCancel = 0
    MaxRetry = 0
    MaxBrokerFail = 0
    MaxUndeleted = 1
    MaxKinds = 9
SPECIFICATION FairSpec
INVARIANT ReadyHasOutput
INVARIANT Settled
PROPERTY GroupLives
PROPERTY EnqueuedJobsEnd
