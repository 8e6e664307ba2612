SPECIFICATION FairSpec
CONSTANTS
    Inputs = {h1, h2}
    Shots = 2
    Hazards = {"crash", "cancel"}
    MaxSteps = 2
    MaxEdits = 3
    MaxTroubles = 2
INVARIANTS
    TypeOK
    SavedAnswerReused
PROPERTIES
    EditStands
    StepEnds
CHECK_DEADLOCK FALSE
