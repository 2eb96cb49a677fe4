SPECIFICATION Spec
CONSTANTS
    Thread = {t1, t2}
    Main = Main
    Null = Null
    DbFails = TRUE
SYMMETRY Symmetry
INVARIANTS
    TypeOK
    CleanAlone
    MembersClearAtRest
    NumbersBounded
CHECK_DEADLOCK FALSE
