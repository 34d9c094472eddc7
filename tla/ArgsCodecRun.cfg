SPECIFICATION Spec
CONSTANTS
    none = none
    None = none
    ByteBits = 3
    Mantissa = 6
    Width <- MCWidth
    SizeOf <- MCSizeOf
    Schemes <- MCSchemes
    Methods <- MCMethods
    Header <- MCHeader
    Fold <- MCFold
    DecOf <- MCDecOf
    HexOf <- MCHexOf
    B58Of <- MCB58Of
    Utf8 <- MCUtf8
    ValidKey <- MCValidKey
    Requests <- MCRequests
    Overflows <- MCOverflows
INVARIANTS
    SignedMeansWritten
    DocumentedFormsAccepted
CHECK_DEADLOCK FALSE
