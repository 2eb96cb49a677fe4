SPECIFICATION FairSpec
CONSTANTS
    MaxImages = 3
    MaxCommands = 2
    OverRead = 5
    OddImages = {2}
INVARIANTS
    TypeOK
    InOrder
    NoneSkipped
    CrashedByLeavers
    PausedAsTold
PROPERTIES
    ImplementsPeer
    LossEndsClient
    HandshakeEnds
    EndNoticed
CHECK_DEADLOCK FALSE
