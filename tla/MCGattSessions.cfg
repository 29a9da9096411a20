SPECIFICATION FairSpec
CONSTANTS
    Requests = {"call"}
    LongRequests = FALSE
    QCap = 2
    AnsChunks = 1
    MaxReady = 2
    MaxCalls = 1
    PollMayFail = TRUE
    OtherDevices = TRUE
INVARIANTS
    ViewAgrees
    QuietWhenGone
PROPERTIES
    PhantomSeenCleared
    StopCompletes
CHECK_DEADLOCK FALSE
