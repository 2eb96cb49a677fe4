SPECIFICATION Spec
CONSTANTS
    Thread = {t1, t2}
    Main = Main
    Null = Null
    DbFails = FALSE
SYMMETRY Symmetry
INVARIANTS
    SavesImages
CHECK_DEADLOCK FALSE
