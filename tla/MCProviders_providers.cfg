SPECIFICATION Spec
CONSTANTS
    MaxReplyRequests = 1
    MaxResponses = 2
    MaxItemDeltas = 1
    MaxServerEvents = 2
    Dialects <- SttDialects
    MaxUnitsPushed = 2
    MaxMarks = 1
    MaxHeardEvents = 2
    MaxAnew = 1
    FramesPerChunk = 2
    TtsDialects <- WordDialects
    MaxWordsSaid = 2
    MaxFlushes = 1
    MaxTtsUpdates = 1
    ChunkDialects <- SpeechDialects
    MaxPieces = 2
    LlmDialects <- CompletionDialects
    Answers <- SomeAnswers
    MaxPiecesOfBlock = 2
    MaxLlmRetries = 1
    Recognizers <- Providers
    Recognitions <- TwoCalls
    Languages <- TwoLanguages
    NotGiven = NotGiven
    MaxRetry = 1
    MaxOptions = 1
    MaxWindows = 8
    VadOptions <- SlowAndQuick
    MaxVadUpdates = 1
    MaxReplies = 2
    MaxCallsOfReply = 2
    MaxSystems = 1
    ToolNames <- TwoTools
INVARIANTS RealtimeSafe  SynthesisSafe 
 
CHECK_DEADLOCK FALSE
