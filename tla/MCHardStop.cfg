SPECIFICATION ExecSpec
CONSTANTS
    Capabilities <- OnlyLater
    Classification <- MCClassification
    NoName = "none"
    None = None
    Contexts <- MCContexts
    Foregrounds <- MCForegrounds
    MaxSwitches = 1
    MaxEdits = 0
    MaxRefusals = 1
INVARIANT UndeclaredIsHardStop
CHECK_DEADLOCK FALSE
