SPECIFICATION Spec
CONSTANTS
    c1 = c1
    c2 = c2
    i1 = i1
    i2 = i2
    Original = Original
    None = None
    Nobody = Nobody
    Boot = Boot
    Clients <- TwoClients
    Ids <- TwoIds
    Bodies <- AllBodies
INVARIANTS
    KeysStripped
    DiskInStep
    GoneStaysGone
PROPERTY
    ImplementsBook
SYMMETRY SymmetryOfClients
CHECK_DEADLOCK FALSE
