CONSTANTS
    Requests = {r1, r2}
    Configurations <- TailFirst
    NumBlocks = 4
    BlockSize = 1
    MaxIdentities = 6
    ChunkHash <- SomeHash
SPECIFICATION Spec
SYMMETRY RequestSymmetry
INVARIANT ChainsAreEvictedFromTheirTail
