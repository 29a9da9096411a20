SPECIFICATION Spec
CONSTANTS
    Phones = {p1, p2}
    Uuids = {"battery", "audio"}
    Conflicting = {"battery"}
    MaxSetups = 3
SYMMETRY PhoneSymmetry
INVARIANTS
    TypeOK
    NoticeCurrent
    CheckReleased
    CachesCleared
CHECK_DEADLOCK FALSE
