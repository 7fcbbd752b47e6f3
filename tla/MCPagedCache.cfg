CONSTANTS
    Requests = {r1, r2}
    Configurations <- EveryConfiguration
    NumBlocks = 3
    BlockSize = 2
    MaxIdentities = 6
    ChunkHash <- SomeHash
SPECIFICATION Spec
SYMMETRY RequestSymmetry
INVARIANTS
    CommittedSlotsHoldOwnTokens
    BookkeepingIsExact
    StepWritesAreExclusive
    NeverUnhealthy
    BudgetIsSharedOut
    TablesMatchRequests
PROPERTY ImplementsLedger
