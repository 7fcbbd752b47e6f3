CONSTANTS
    Requests = {"r1", "r2", "r3"}
    Configurations <- StepConfigurations
    Capacity = 2
    CheckpointCapacity = 1
    BlockSize = 2
SPECIFICATION HybridSpec
CHECK_DEADLOCK FALSE
INVARIANTS
    VisibleStateIsCommitted
    BoundariesAgree
    CheckpointsAreExact
    PoolIsSound
    HitsAreExact
    IndexIsSound
    PlansAlwaysFit
PROPERTIES
    CommittedOnlyAtCommit
    RowsGoToUsableEndpoints
