SPECIFICATION Spec

CONSTANTS
    N = 1
    Hazards = {}
    MaxRuns = 2
    MaxCands = 3
    MaxEdits = 1

INVARIANTS
    TypeOK
    AdoptedUsable
    FlagsTellAge

PROPERTY ChoicesKept

CHECK_DEADLOCK FALSE
