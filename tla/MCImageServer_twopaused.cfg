SPECIFICATION FairSpec
CONSTANTS
    ClientId = {c1, c2}
    OperatorId = {o1}
    Session = {s1, s2, s3}
    Image = {1, 2, 3}
    Null = Null
    Faults = {}
PROPERTIES
    PausedIsResumed
CHECK_DEADLOCK FALSE
