SPECIFICATION SpecF
CONSTANTS
    ClientId = {c1}
    OperatorId = {o1, o2}
    Session = {s1, s2, s3, s4}
    Image = {1, 2, 3}
    Null = Null
    Faults = {"overlap"}
SYMMETRY Symmetry
INVARIANTS
    NoOvertaking
    NoLoss
CHECK_DEADLOCK FALSE
