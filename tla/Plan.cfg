SPECIFICATION FairSpec
CONSTANTS
    a = a
    b = b
    c = c
    e1 = e1
    e2 = e2
    Plan <- Abc
    Shapes <- JoinAndLine
    Chain <- TwoEngines
    MaxParallel = 2
    MaxNewNodes = 3
    MaxResults = 2
    MaxBatch = 1
    Concurrency = 2
    Quota = 2
    HighWater = 1
INVARIANTS
    TypeOK
    
    
    NewNodesOvershootBounded
PROPERTIES
    PlanEnds
CHECK_DEADLOCK FALSE
