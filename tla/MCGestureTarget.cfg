SPECIFICATION GestureSpec
CONSTANTS
    Windows = {w1, w2, w3, w4}
    None = None
    Console = Console
    MaxSteps = 6
SYMMETRY Symmetry
INVARIANTS
    GestureTypeOK
    InnermostFirst
    ClicksItsOwnDump
    InjectedOnce
    UnguardedIsLastResort
CHECK_DEADLOCK FALSE
