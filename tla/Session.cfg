SPECIFICATION FairSpec
CONSTANTS
    Sizes = {1, 5}
    Window = 8
    SumAfter = 3
    KeepLast = 2
    PartLimit = 2
    MaxTools = 1
    MaxMessages = 7
    MaxFaults = 1
    ModelMayFail = TRUE
    Torn = Torn
INVARIANTS
    TypeOK
    HistoryIsSuffix
    ShortenedHasSummary
    ContextHasSummary
    SavedTurnsSurvive
PROPERTIES
    SummarizerEnds
CHECK_DEADLOCK FALSE
