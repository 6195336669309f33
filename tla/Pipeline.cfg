SPECIFICATION FairSpec
CONSTANTS
    Chats = {c1, c2, cli}
    Registered = {c1, c2}
    Targets = {c2, cli}
    NoChat = NoChat
    System = System
    InCap = 1
    OutCap = 1
    MaxRequests = 2
    MaxJobs = 1
    MaxTasks = 2
    MaxCalls = 1
    ModelMayFail = TRUE
INVARIANTS
    TypeOK
    OnlySpawnCycleBlocks
PROPERTIES
    RepliesInOrder
    ReportedOnce
    RequestsAreAnswered
CHECK_DEADLOCK FALSE
