SPECIFICATION Spec
CONSTANTS
    Requests = {"reject"}
    LongRequests = FALSE
    QCap = 2
    AnsChunks = 1
    MaxReady = 2
    MaxCalls = 0
    PollMayFail = FALSE
    OtherDevices = FALSE
INVARIANTS
    StoppedUnsubscribed
CHECK_DEADLOCK FALSE
