SPECIFICATION ExecSpec
CONSTANTS
    Capabilities <- OnlyNamed
    Classification <- MCClassification
    NoName = "none"
    None = None
    Contexts <- MCContexts
    Foregrounds <- MCForegrounds
    MaxSwitches = 1
    MaxEdits = 0
    MaxRefusals = 1
PROPERTY CleanupSparesFound
CHECK_DEADLOCK FALSE
