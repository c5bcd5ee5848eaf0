SPECIFICATION Spec
CONSTANTS
    a1 = a1
    a2 = a2
    a3 = a3
    p1 = p1
    p2 = p2
    NoAgent = NoAgent
    Agents <- ThreeAgents
    RealtimeAgents <- SomeRealtime
    Speeches <- TwoSpeeches
    MaxWords = 3
    NoParticipant = NoParticipant
    Participants <- TwoParticipants
    MaxTracks = 3
    MaxForwarders = 2
    Plays <- TwoSpeeches
    MaxReconnects = 2
    MaxReplies = 2
    MaxDeltas = 1
    MaxToggles = 1
    MaxAvatarReplies = 3
    MaxAvatarFrames = 2
    MaxTexts = 3
    MaxLinks = 1
    MaxReplyWords = 3
    s1 = s1
    s2 = s2
    s3 = s3
    r1 = r1
    i1 = i1
    i2 = i2
    i3 = i3
    NoItem = NoItem
    Senders <- ThreeSenders
    Receivers <- OneReceiver
    MaxSize = 1
    MaxCancelled = 1
    MaxRetry = 1
    MaxInputs = 1
    MaxEvents = 1
    Calls <- TwoSpeeches
    Providers <- TwoSpeeches
    MaxChanges = 2
    SttCount = 3
    MaxHeard = 3
    TtsCount = 2
    MaxSegments = 3
    MinSentence = 2
    MinContext = 2
    MaxWordsPushed = 6
    MaxChunk = 3
    MaxUnits = 3
    MaxAgain = 1
    RemoteItems <- ThreeItems
    MaxUpdates = 2
    MaxOwn = 1
    MaxSaid = 2
    MaxConsoleReplies = 2
    MaxConsoleFrames = 2
INVARIANTS HandoffSafe TurnSafe  OutputSafe StreamsSafe 
  
CHECK_DEADLOCK FALSE
