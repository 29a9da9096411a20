SPECIFICATION FairSpec
CONSTANTS
    Frames = {"query"}
    QCap = 2
    MaxInbox = 1
    MaxPushes = 1
PROPERTIES
    BrokenWriterRestarts
CHECK_DEADLOCK FALSE
