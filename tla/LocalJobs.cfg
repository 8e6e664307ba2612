SPECIFICATION FairSpec

CONSTANTS
    x1 = x1
    x2 = x2
    u1 = u1
    u2 = u2
    Services = {"depth", "enhancement"}
    Subjects = {x1, x2}
    Users = {u1, u2}
    MaxJobs = 2
    MaxRestarts = 1

INVARIANTS
    TypeOK
    OneActiveJob
    NothingLeftBehind

PROPERTIES
    TerminalStays
    StopStartsNothing
    JobEnds

CHECK_DEADLOCK FALSE
