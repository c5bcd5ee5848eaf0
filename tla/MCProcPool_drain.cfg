SPECIFICATION Spec
CONSTANTS
    p1 = p1
    p2 = p2
    p3 = p3
    j1 = j1
    j2 = j2
    None = None
    Procs <- ThreeProcs
    Jobs <- TwoJobs
    NumIdle = 1
    Targets <- NoTarget
    MaxInit = 2
    MaxFailures = 0
    Calls <- OnlyDrain
INVARIANTS DrainWaitsForJobs
CHECK_DEADLOCK FALSE
