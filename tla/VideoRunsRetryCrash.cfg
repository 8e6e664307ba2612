SPECIFICATION Spec

CONSTANTS
    u1 = u1
    N = 1
    Users = {u1}
    Hazards = {"crash", "crash_in_retry"}
    MaxRuns = 2
    MaxRestarts = 1

INVARIANT PaidOnce

CHECK_DEADLOCK FALSE
