SPECIFICATION Spec
CONSTANTS
    Requests = {"query"}
    LongRequests = TRUE
    QCap = 3
    AnsChunks = 2
    MaxReady = 2
    MaxCalls = 0
    PollMayFail = TRUE
    OtherDevices = FALSE
INVARIANTS
    TypeOK
    TxFramed
    RxRecovers
CHECK_DEADLOCK FALSE
