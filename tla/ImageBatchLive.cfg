SPECIFICATION FairSpec
CONSTANTS
    p1 = p1
    p2 = p2
    b1 = b1
    b2 = b2
    u1 = u1
    u2 = u2
    NoBatch = NoBatch
    Beats <- OneBeat
    Batches <- TwoBatches
    Users <- OneUser
    MaxRuns = 2
    MaxUserRuns = 1
    Hazards <- Faulty
    MaxTroubles = 1
INVARIANTS
    OneLiveRun
PROPERTIES
    UnresolvedKept
    BatchEnds
CHECK_DEADLOCK FALSE
