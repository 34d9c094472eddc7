SPECIFICATION FairSpec
CONSTANTS
    j1 = j1
    j2 = j2
    c1 = c1
    k1 = k1
    k2 = k2
    vc = vc
    compliance = compliance
    Jobs <- MCJobs
    Clients <- MCClients
    Cfgs <- MCCfgs
    Order <- MCOrder
    Vc = vc
    Compliance = compliance
    Planned <- MCPlanned
    None = None
    MaxCrashes = 1
    MaxSaveFails = 1
    MaxErrors = 1
CONSTRAINT Canonical
INVARIANTS
    SlotExact
    MarkedWasPerformed
    RepeatNeedsLoss
    VcBeforeCompliance
    CompletedListsAll
PROPERTIES
    ProgressKept
    ImplementsLedger
    SlotFreed
CHECK_DEADLOCK FALSE
