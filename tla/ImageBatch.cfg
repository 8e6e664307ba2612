SPECIFICATION Spec
CONSTANTS
    p1 = p1
    p2 = p2
    b1 = b1
    b2 = b2
    u1 = u1
    u2 = u2
    NoBatch = NoBatch
    Beats <- TwoBeats
    Batches <- OneBatch
    Users <- OneUser
    MaxRuns = 3
    MaxUserRuns = 1
    Hazards <- Stoppable
    MaxTroubles = 1
SYMMETRY Symmetry
INVARIANTS
    TypeOK
    EndedIsSettled
PROPERTIES
    PaysOnce
    StopIsFinal
CHECK_DEADLOCK FALSE
