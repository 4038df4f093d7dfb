SPECIFICATION PartsSpec
CONSTANTS
    MaxLength = 5
    MaxSize = 4
    Room = 3
    Spans <- MCSpans
    Bodies <- MCBodies
    Fitting <- MCFitting
    NoId = "none"
    NoTool = "none"
    Now = 99
    Window = 2
    MaxTranscript = 5
    RowKinds <- MCRowKinds
    RowIds = {"none", "a", "b"}
    RowTools = {"none", "t"}
    MaxChat = 2
    Tools = {"t1"}
    Keys = {"k1"}
    NoKey = "none"
    MaxPiTurns = 2
    MaxRequests = 2
    Procs = {p1, p2}
    Sessions = {s1, s2}
    NoSession = NoSession
    MaxRuns = 2
    MaxTurns = 2
    MaxStarts = 3
    MaxFaults = 1
    Conversations = {s1, s2}
    HookProcs = {p1, p2}
    NoConversation = NoConversation
    MaxRecords = 2
    MaxFailures = 1
    ChatSessions = {"chat"}
    Events = {p1, p2}
    NoChat = "none"
    MaxMessages = 4
    MaxTroubles = 1
SYMMETRY Symmetry
INVARIANTS
    ChunksFit SplitKeepsEverySpan DroppedOnlyIfHopeless
    TurnsByDefinition CutLosesOnlyTail SpansNest TokensCountedOnce
    TraceIsWhole MessageInOneGeneration
    RunsReported RunsReportedOnce ScoresAreOfTheRun
    RecordsReported
    AnswersReported
CHECK_DEADLOCK FALSE
