SPECIFICATION Spec
CONSTANTS
    receiver = receiver
    victim = victim
    Users <- TwoUsers
    Receiver = receiver
    Victim = victim
    Nobody = Nobody
    Full = 4
    Part = 2
    Dust = 1
    MaxJobs = 2
    MaxLost = 1
    MaxChanges = 2
INVARIANTS
    MintedOnce
    PaidOnce
    RulesFirst
    CompletedShows
CHECK_DEADLOCK FALSE
