SPECIFICATION FairSpec
CONSTANTS
    Quarter = 32
    TicksPerMs = 8
    TicksPerDay = 3
    MaxTicks = 20
    Image = {13, 14, 17}
    Null = Null
    MaxKeys = 2
INVARIANTS
    TypeOK
    EndsForCause
    AcceptedByKey
    MisledByTimeouts
PROPERTIES
    InEraOrder
    ImplementsPeer
    Answered
CHECK_DEADLOCK FALSE
