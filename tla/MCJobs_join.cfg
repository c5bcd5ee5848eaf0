SPECIFICATION Spec
CONSTANTS
    j1 = j1
    NoJob = NoJob
    Jobs <- OneJob
    Offers <- TwoOffers
    MaxRetry = 1
    ChanSize = 1
    MaxLosses = 1
    Requests <- OneRequest
    Faults <- EarlyExit
    MaxRecords = 3
    WireSize = 1
    Callers <- TwoCallers
    CancelInSend = FALSE
    ReloadJobs <- OneJob
    MaxFileChanges = 1
    Identities <- TwoIdentities
    Entrypoints <- TwoOffers
    Waiters <- OneRequest
    MaxJoins = 1
    Pages <- OneRequest
    Rects <- OneRequest
    MaxPaints = 1
PROPERTIES JoinReturns
CHECK_DEADLOCK FALSE
