SPECIFICATION FairSpec
CONSTANTS
    k1 = k1
    k2 = k2
    d1 = d1
    d2 = d2
    t1 = t1
    t2 = t2
    Keys = {k1}
    Digests = {d1, d2}
    Files <- TwoFiles
    Targets = {t1, t2}
    NoTarget = NoTarget
    Hazards = {"purge_local", "purge_server", "disconnect"}
    MaxVersion = 2
    MaxJobs = 3
    MaxTroubles = 1
INVARIANTS TypeOK SyncedIsOnServer OneBatchPerEntry
PROPERTIES NoResurrection DueIsSynced
CHECK_DEADLOCK FALSE
