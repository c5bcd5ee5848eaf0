SPECIFICATION FairSpec
CONSTANTS
    p1 = p1
    p2 = p2
    p3 = p3
    j1 = j1
    j2 = j2
    None = None
    Procs <- ThreeProcs
    Jobs <- TwoJobs
    NumIdle = 2
    Targets <- ScaleToZero
    MaxInit = 1
    MaxFailures = 1
    Calls <- AllCalls
INVARIANTS NoProcessForgotten JobsHaveTheirProcess
PROPERTY PoolSettles
CHECK_DEADLOCK FALSE
