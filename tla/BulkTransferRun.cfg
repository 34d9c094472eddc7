SPECIFICATION FairSpec
CONSTANTS
    MaxCount = 2
    Default = 1
    Limit = 2
    Amount = 3
    None = None
INVARIANTS
    CountersAddUp
    AnswerNotBehind
    ResultsTrue
PROPERTIES
    JobCompletes
CHECK_DEADLOCK FALSE
