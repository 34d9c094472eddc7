SPECIFICATION Spec
CONSTANTS
    h1 = h1
    h2 = h2
    None = None
    Holders <- TwoHolders
    Want <- WantTwo
    Before <- Earlier
    Frozen = h1
    RetryMax = 2
    MaxSends = 4
    MaxJobs = 2
INVARIANTS
    CompletedFunds
    MintedAsPlanned
    FrozenOnce
CHECK_DEADLOCK FALSE
