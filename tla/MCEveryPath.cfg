SPECIFICATION ExecSpec
CONSTANTS
    Capabilities <- OnlyOwned
    Classification <- MCClassification
    NoName = "none"
    None = None
    Contexts <- MCContexts
    Foregrounds <- MCForegrounds
    MaxSwitches = 1
    MaxEdits = 0
    MaxRefusals = 1
INVARIANT EveryPathEmitsRecord
CHECK_DEADLOCK FALSE
