SPECIFICATION Spec
CONSTANTS
    ClientId = {c1}
    OperatorId = {o1, o2}
    Session = {s1, s2, s3}
    Image = {1, 2}
    Null = Null
    Faults = {"operator_loss"}
INVARIANTS
    NoImageDropped
CHECK_DEADLOCK FALSE
