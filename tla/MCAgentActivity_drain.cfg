SPECIFICATION FairSpec
CONSTANTS
    h1 = h1
    h2 = h2
    h3 = h3
    None = None
    Handles <- ThreeHandles
    LLM = "pipeline"
    ServerTurns = FALSE
    Calls <- RepliesAndDrain
    Allow <- AllowOnly
    Priorities <- NormalOnly
    MaxToolSteps = 2
INVARIANTS LastToolResponse
PROPERTIES DrainReturns
CHECK_DEADLOCK FALSE
