SPECIFICATION FairCliSpec
CONSTANTS
    Capabilities <- AllSheets
    Classification <- MCClassification
    NoName = "none"
    None = None
    Contexts <- MCContexts
    Foregrounds <- MCForegrounds
    MaxSwitches = 1
    MaxEdits = 1
    MaxRefusals = 1
    Plans <- MCPlans
    Machine = "vm"
    Role = "admin"
INVARIANTS
    ExecTypeOK
    WriteAhead
    CrossedInPreparedContext
    RecordAccepted
    RecordTellsTruth
    RecordedEventsArePrefix
    CleanupComplete
    NoFalseAbsence
    LeaseCoversWork
    ExitTwoMeansUntouched
PROPERTIES
    OwnedRemovalSparesFound
    ExecKeepsPromise
    EndsWithLeaseBack
CHECK_DEADLOCK FALSE
