SPECIFICATION FairSpec
CONSTANTS
    Sizes = {1}
    Window = 1000
    SumAfter = 20
    KeepLast = 4
    PartLimit = 10
    MaxTools = 1
    MaxMessages = 23
    MaxFaults = 0
    ModelMayFail = FALSE
    Torn = Torn
INVARIANTS
    SummaryCoversTheRest
CHECK_DEADLOCK FALSE
