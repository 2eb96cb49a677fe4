SPECIFICATION Spec
CONSTANTS
    Quarter = 32
    TicksPerMs = 8
    TicksPerDay = 3
    MaxTicks = 20
    Image = {13, 14, 17}
    Null = Null
    MaxKeys = 2
INVARIANTS
    KeyReachesImage
CHECK_DEADLOCK FALSE
