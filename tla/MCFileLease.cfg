SPECIFICATION FileLeaseSpec
CONSTANTS
    Processes = {p1, p2, p3}
    Nobody = Nobody
    MaxDeaths = 2
SYMMETRY Symmetry
INVARIANTS
    LockIsAttended
    NameIsHoldersOrSpoiled
PROPERTY IsExclusiveLease
CHECK_DEADLOCK FALSE
