SPECIFICATION Spec
CONSTANTS
    Hosts = {"device"}
    Adapters = {"hci0", "hci1"}
    Entries = {"entry"}
    Servers = {1, 2, 3}
    NoEntry = NoEntry
    NoServer = NoServer
INVARIANTS
    TypeOK
    KeyCurrent
    NoConflictLeft
    OneServer
    ButtonCurrent
CHECK_DEADLOCK FALSE
