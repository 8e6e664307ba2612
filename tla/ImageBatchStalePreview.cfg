SPECIFICATION Spec
CONSTANTS
    p1 = p1
    p2 = p2
    b1 = b1
    b2 = b2
    u1 = u1
    u2 = u2
    NoBatch = NoBatch
    Beats <- OneBeat
    Batches <- OneBatch
    Users <- OneUser
    MaxRuns = 3
    MaxUserRuns = 1
    Hazards <- GenerateOnly
    MaxTroubles = 0
PROPERTIES UnknownNotResubmitted
CHECK_DEADLOCK FALSE
