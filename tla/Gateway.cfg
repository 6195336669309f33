SPECIFICATION FairSpec
CONSTANTS
    Configs <- MCConfigs
    Unregistered = Unregistered
    Devices = {d1, d2}
    Bridge = Bridge
    Nothing = Nothing
    OutCap = 2
    MaxMessages = 2
INVARIANTS
    TypeOK
    RefusedOnlyWhenDown
    StoppedConnectionsEnd
    OneMessageAfterCancel
PROPERTIES
    DeliversInOrder
    ShutdownEnds
    OutboxDrains
CHECK_DEADLOCK FALSE
