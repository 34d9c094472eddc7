SPECIFICATION Spec
CONSTANTS
    Configs <- Samples
    MaxJobs = 3
    MaxLost = 1
    MaxWipes = 1
INVARIANT PostOpsDone
CHECK_DEADLOCK FALSE
