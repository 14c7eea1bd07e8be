\* Two threads, a message, an undecodable entry, any two mishaps.
SPECIFICATION Spec
CONSTANTS
    m1 = m1
    m2 = m2
    g1 = g1
    w1 = w1
    w2 = w2
    Messages = {m1, g1}
    Foreign = {g1}
    Workers = {w1, w2}
    MaxAttempts = 2
    ClaimBatch = 2
    ReadFaults = TRUE
    MaxSubmits = 1
    MaxMishaps = 2
SYMMETRY WorkerSymmetry
INVARIANTS
    NoLoss
    AckCovered
    AttemptsCounted
    DeadLetterJustified
\* The threads may all have ended (ReadFault): the system really stops then.
CHECK_DEADLOCK FALSE
