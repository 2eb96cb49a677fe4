SPECIFICATION Spec
CONSTANTS
    MaxImages = 3
    MaxCommands = 2
    OverRead = 5
    OddImages = {2}
INVARIANTS
    PauseStops
CHECK_DEADLOCK FALSE
