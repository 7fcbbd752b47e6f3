CONSTANTS
    w1 = w1
    w2 = w2
    s1 = s1
    s2 = s2
    Workers = {w1, w2}
    Submitters = {s1, s2}
    Owner = owner
    None = none
    ChunksPerThread = 1
    Configurations <- Pools
SPECIFICATION ThreadsSpec
INVARIANTS
    LoopsRunOnce
    FunctionOutlivesCalls
    StagesAndUpdatesAgree
PROPERTY EverythingEnds
