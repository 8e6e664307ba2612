SPECIFICATION FairSpec

CONSTANTS
    u1 = u1
    N = 1
    Users = {u1}
    Hazards = {"crash", "cancel", "garbled"}
    MaxRuns = 2
    MaxRestarts = 1

INVARIANTS
    PaidOnce
    OverIsOver

PROPERTY RunEnds

CHECK_DEADLOCK FALSE
