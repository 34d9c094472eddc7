SPECIFICATION Spec
CONSTANTS
    plain = plain
    checked = checked
    Txs <- MCPlain
    Checked <- MCNone
    MaxRetries = 3
    MaxPolls = 2
INVARIANT OkMeansSuccess
CHECK_DEADLOCK FALSE
