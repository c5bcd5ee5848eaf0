SPECIFICATION FairSpec
CONSTANTS
    t1 = t1
    t2 = t2
    t3 = t3
    None = None
    ToolCalls <- ThreeCalls
    Endings <- AllEndings
    Interrupts = TRUE
INVARIANTS ToolsAccounted OutcomesReachTheirUse
PROPERTIES SpeechEnds
CHECK_DEADLOCK FALSE
