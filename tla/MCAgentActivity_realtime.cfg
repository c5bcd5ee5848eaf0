SPECIFICATION FairSpec
CONSTANTS
    h1 = h1
    h2 = h2
    h3 = h3
    None = None
    Handles <- TwoHandles
    LLM = "realtime"
    ServerTurns = TRUE
    Calls <- Everything
    Allow <- AllowOnly
    Priorities <- NormalOnly
    MaxToolSteps = 1
INVARIANTS OneVoice
  
CHECK_DEADLOCK FALSE
