SPECIFICATION Spec

CONSTANTS
    u1 = u1
    N = 2
    Users = {u1}
    Hazards = {"crash", "cancel", "garbled"}
    MaxRuns = 1
    MaxRestarts = 2

INVARIANTS
    TypeOK
    JobsKept

CHECK_DEADLOCK FALSE
