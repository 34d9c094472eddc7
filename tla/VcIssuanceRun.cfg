SPECIFICATION Spec
CONSTANTS
    org = org
    user = user
    Flows = {f1, f2}
    Parties = {org, user}
    Aliases <- Names
    NoAlias = NoAlias
    NoDoc = NoDoc
    Requests <- SomeRequests
    Schemas <- TwoSchemas
    MaxRetries = 1
    MaxRuns = 2
    MaxFaults = 1
SYMMETRY AnyFlow
INVARIANTS
    OkMeansThere
    IssuedOnChain
    ServicesBounded
    OptionalNeverBlocks
    SettledRerun
CHECK_DEADLOCK FALSE
