SPECIFICATION DrafterSpec
CONSTANTS
    s1 = s1
    s2 = s2
    s3 = s3
    s4 = s4
    Snapshots = {s1, s2, s3, s4}
    Components = {"dflash2"}
    Limit <- Cascade
    MaxEntries = 3
    MaxLeases = 1
    Faults = TRUE
    Configurations <- Stores
SYMMETRY Interchangeable
CHECK_DEADLOCK FALSE
INVARIANTS
    AccountsAreSound
    WindowHoldsCommittedRows
    SnapshotsHoldTheirPrefix
    PoolServesItsBatch
PROPERTY LeasedStay
