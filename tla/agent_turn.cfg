\* Two tasks of a repository whose file changes once.
SPECIFICATION FairTurnSpec
CONSTANTS
    Tasks = {"t1", "t2"}
    NoFinding = NoFinding
    Sayings = {"s"}
    Length = 2
    Checkout <- MCCheckout
    AddedLines = {1}
    Radius = 1
    Quotes = {1, 2}
    MaxSteps = 2
    TurnRetries = 1
    MaxUpdates = 1
    MaxMishaps = 1
INVARIANTS
    EvidenceReal
    MemoryReleased
PROPERTIES
    TurnEnds
CHECK_DEADLOCK FALSE
