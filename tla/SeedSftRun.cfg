SPECIFICATION Spec
CONSTANTS
    Configs <- Samples
    MaxJobs = 3
    MaxLost = 1
    MaxWipes = 1
INVARIANTS
    SlotsWhole
    OpsEarned
    PlannedEffects
    SftStands
CHECK_DEADLOCK FALSE
