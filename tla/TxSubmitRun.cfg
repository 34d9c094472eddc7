SPECIFICATION FairSpec
CONSTANTS
    plain = plain
    checked = checked
    Txs <- MCTxs
    Checked <- MCChecked
    MaxRetries = 3
    MaxPolls = 2
INVARIANTS
    CheckedOkMeansSuccess
    FirstRejectionIsFinal
PROPERTIES
    ImplementsOutcome
    CallReturns
CHECK_DEADLOCK FALSE
