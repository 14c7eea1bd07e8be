\* One worker thread.
SPECIFICATION FairSpec
CONSTANTS
    t1 = t1
    w1 = w1
    w2 = w2
    Tasks = {t1}
    Workers = {w1}
    MaxAttempts = 2
    ClaimBatch = 2
    MaxSteps = 3
    NodeRetries = 0
    Unparsable = {}
    WriteFaults = TRUE
    MaxSubmits = 2
    MaxMishaps = 1
INVARIANTS
    NoneLeftBehind
    CommentedOnce
PROPERTIES
    FinalStays
    EveryTaskEnds
VIEW Unnumbered
