CONSTANTS
    Blocks = {b1, b2, b3}
    Requests = {r1, r2, r3}
SPECIFICATION Spec
SYMMETRY Symmetry
INVARIANTS
    CountsAreExact
    SharedOnlyThroughIndex
PROPERTY EvictedBlocksAreUnused
