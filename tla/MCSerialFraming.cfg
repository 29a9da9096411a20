SPECIFICATION Spec
CONSTANTS
    Passcode <- MCPasscode
    MaxFrame = 16777216
    Packets <- MCPackets
    Garbage = {10}
    Garbled = {0, 1, 15, 255}
    MaxResync = 2
    MaxPackets = 3
    MaxGarbage = 3
    MaxFaults = 1
INVARIANTS
    TypeOK
    GarbageHarmless
PROPERTIES
    KeepsOrder
CHECK_DEADLOCK FALSE
