SPECIFICATION FairSpec
CONSTANTS
    Chats = {c1}
    Registered = {c1}
    Targets = {c1}
    NoChat = NoChat
    System = System
    InCap = 1
    OutCap = 1
    MaxRequests = 2
    MaxJobs = 0
    MaxTasks = 2
    MaxCalls = 2
    ModelMayFail = FALSE
PROPERTIES
    SubagentsReportBack
CHECK_DEADLOCK FALSE
