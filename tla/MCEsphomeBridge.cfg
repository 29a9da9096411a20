SPECIFICATION FairSpec
CONSTANTS
    Requests = {"query", "call", "ping", "bye", "other", "bad"}
    MaxInbox = 1
    MaxPushes = 1
    MaxWaiting = 1
    Nonces = 4
INVARIANTS
    TypeOK
    DeviceInStep
    StoppedQuiet
PROPERTIES
    KeepsContract
    VanishedNoticed
    ComesBack
    StopCompletes
CHECK_DEADLOCK FALSE
