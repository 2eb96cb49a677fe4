SPECIFICATION SpecC
CONSTANTS
    ClientId = {c1, c2}
    OperatorId = {o1, o2}
    Session = {s1, s2, s3, s4}
    Image = {1, 2}
    Null = Null
    Faults = {"client_loss", "operator_loss"}
SYMMETRY Symmetry
INVARIANTS
    TypeOK
    PausedMeansBusy
    OneImagePerOperator
    MapsAgree
    NeverCrashes
    IInv
    HandledOnce
    AtMostOneUndecided
CHECK_DEADLOCK FALSE
