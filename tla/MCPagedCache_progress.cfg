CONSTANTS
    Requests = {r1, r2}
    Configurations <- Trickle
    NumBlocks = 3
    BlockSize = 2
    MaxIdentities = 1
    ChunkHash <- SomeHash
SPECIFICATION FairSpec
PROPERTY ResidentTurnsFinish
