SPECIFICATION SessionSpec
CONSTANTS
    MaxRequests = 4
    MaxStaleDrain = 1
INVARIANTS
    SessionTypeOK
    RepeatsOnlyForLost
    OffsetDiesOut
    DesyncOnlyAfterTimeouts
CHECK_DEADLOCK FALSE
