SPECIFICATION FairSpec
CONSTANTS
    u1 = u1
    u2 = u2
    g = g
    Users = {u1, u2}
    Groups = {g}
    NoUser = NoUser
    Device = Device
    Nowhere = Nowhere
    AllowList <- MCAllowList
    Named = {u2}
    Shapes <- MCShapes
    Bound <- MCBound
    Copies = 2
    MaxNotices = 1
    Limit = 1
    Half = 1
    InCap = 1
    OutCap = 1
    None = None
INVARIANTS
    TypeOK
    PublishedOnce
    RepliesGoBack
    AnswersInTheirPlace
PROPERTIES
    AnimationsEnd
CHECK_DEADLOCK FALSE
