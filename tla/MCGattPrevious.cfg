SPECIFICATION Spec
CONSTANTS
    Requests = {"call", "reject"}
    LongRequests = FALSE
    QCap = 3
    AnsChunks = 1
    MaxReady = 2
    MaxCalls = 1
    PollMayFail = FALSE
    OtherDevices = FALSE
INVARIANTS
    NoBytesForPrevious
CHECK_DEADLOCK FALSE
