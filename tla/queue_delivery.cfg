\* Two threads, a message submitted twice (a replay), any mishap but a failed read.
SPECIFICATION FairSpec
CONSTANTS
    m1 = m1
    m2 = m2
    g1 = g1
    w1 = w1
    w2 = w2
    Messages = {m1}
    Foreign = {}
    Workers = {w1, w2}
    MaxAttempts = 2
    ClaimBatch = 2
    ReadFaults = FALSE
    MaxSubmits = 2
    MaxMishaps = 1
PROPERTIES
    EventuallySettled
    KeepsPromise
