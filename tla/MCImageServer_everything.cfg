SPECIFICATION Spec
CONSTANTS
    ClientId = {c1, c2}
    OperatorId = {o1}
    Session = {s1, s2, s3}
    Image = {1, 2}
    Null = Null
    Faults = {"client_loss", "operator_loss", "early_close", "overlap", "spawn", "clock_back"}
SYMMETRY Symmetry
INVARIANTS
    PausedFlagSound
    AtMostOnce
    SpinsOnlyDeserted
PROPERTIES
    InScanOrder
    ImplementsDispatch
    PeersAsAssumed
CHECK_DEADLOCK FALSE
