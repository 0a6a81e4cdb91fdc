SPECIFICATION TxnSpec
CONSTANT MaxRefusals = 3
INVARIANTS
    AuditTrail
    NoReplay
    HardStopHolds
    ExplainedOutcome
PROPERTIES
    KeepsPromise
CHECK_DEADLOCK FALSE
