SPECIFICATION Spec
CONSTANTS
    t1 = t1
    t2 = t2
    t3 = t3
    None = None
    ToolCalls <- TwoCalls
    Endings <- Values
    Interrupts = FALSE
SYMMETRY SymmetricTwo
INVARIANTS ResultsReachTheirCalls
CHECK_DEADLOCK FALSE
