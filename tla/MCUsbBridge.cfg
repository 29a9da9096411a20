SPECIFICATION FairSpec
CONSTANTS
    Frames = {"query", "call", "reject", "junk"}
    QCap = 2
    MaxInbox = 3
    MaxPushes = 1
INVARIANTS
    TypeOK
    OnlineOnly
    ViewSettles
    StoppedQuiet
PROPERTIES
    KeepsContract
    Reconnects
    StopCompletes
CHECK_DEADLOCK FALSE
