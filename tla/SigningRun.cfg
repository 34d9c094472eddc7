SPECIFICATION SigningSpec
CONSTANTS
    n1 = n1
    n2 = n2
    k1 = k1
    k2 = k2
    r1 = r1
    r2 = r2
    Nets <- MCNets
    Keys <- MCKeys
    Requests <- MCRequests
    Bodies <- MCBodies
    Wrap = 4
    Slots = 3
    MaxSigners = 2
    MaxChanges = 1
    MaxSwitches = 1
    None = None
INVARIANTS
    SubmittedAsSimulated
PROPERTIES
    OnlyStaleRejected
CHECK_DEADLOCK FALSE
