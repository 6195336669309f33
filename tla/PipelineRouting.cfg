SPECIFICATION FairSpec
CONSTANTS
    Chats = {c1, c2}
    Registered = {c1, c2}
    Targets = {c1, c2}
    NoChat = NoChat
    System = System
    InCap = 1
    OutCap = 1
    MaxRequests = 1
    MaxJobs = 1
    MaxTasks = 0
    MaxCalls = 1
    ModelMayFail = FALSE
INVARIANTS
    ToolsKeepTheirChat
CHECK_DEADLOCK FALSE
