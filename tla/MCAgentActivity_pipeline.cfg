SPECIFICATION Spec
CONSTANTS
    h1 = h1
    h2 = h2
    h3 = h3
    None = None
    Handles <- TwoHandles
    LLM = "pipeline"
    ServerTurns = FALSE
    Calls <- Everything
    Allow <- BothAllow
    Priorities <- NormalOnly
    MaxToolSteps = 1
INVARIANTS TypeOK OneVoice NobodyForgotten DrainedClean NoOvertaking AnswersFollowTools
PROPERTIES SpokenInTurn KeepsThePromise
CHECK_DEADLOCK FALSE
