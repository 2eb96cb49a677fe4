SPECIFICATION FairSpec
CONSTANTS
    ClientId = {c1}
    OperatorId = {o1}
    Session = {s1, s2, s3}
    Image = {1, 2}
    Null = Null
    Faults = {"operator_loss", "client_loss"}
INVARIANTS
    SoleClientFlagged
PROPERTIES
    BusyEnds
    LossNoticed
    PausedIsResumed
CHECK_DEADLOCK FALSE
