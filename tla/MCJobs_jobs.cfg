SPECIFICATION Spec
CONSTANTS
    j1 = j1
    NoJob = NoJob
    Jobs <- OneJob
    Offers <- TwoOffers
    MaxRetry = 1
    ChanSize = 1
    MaxLosses = 1
    Requests <- OneRequest
    Faults <- WithoutEarlyExit
    MaxRecords = 3
    WireSize = 1
    Callers <- TwoCallers
    CancelInSend = FALSE
    ReloadJobs <- OneJob
    MaxFileChanges = 2
    Identities <- TwoIdentities
    Entrypoints <- TwoOffers
    Waiters <- OneRequest
    MaxJoins = 2
    Pages <- TwoOffers
    Rects <- TwoOffers
    MaxPaints = 3
INVARIANTS LaunchesSafe JobsEndWell NobodyLeftOut PagesSafe
PROPERTY JobsSettle
CHECK_DEADLOCK FALSE
