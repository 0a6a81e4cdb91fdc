SPECIFICATION GestureSpec
CONSTANTS
    Windows = {w1, w2, w3}
    None = None
    Console = Console
    MaxSteps = 5
SYMMETRY Symmetry
INVARIANT KeysAreNeverBlind
CHECK_DEADLOCK FALSE
