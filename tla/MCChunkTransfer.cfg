SPECIFICATION FairSpec
CONSTANTS
    Byte = {0, 1}
    Frames <- SmallFrames
    ChunkSize = 2
    MaxFrames = 2
INVARIANTS
    TypeOK
    PiecesFit
PROPERTIES
    IsChannel
    KeepsDelivering
CHECK_DEADLOCK FALSE
