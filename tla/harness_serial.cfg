\* Two tasks, one not parsable, one run at a time, deaths and failing writes.
SPECIFICATION Spec
CONSTANTS
    t1 = t1
    t2 = t2
    r1 = r1
    r2 = r2
    Tasks = {t1, t2}
    Unparsable = {t2}
    Runners = {r1}
    MaxSteps = 4
    NodeRetries = 1
    Exclusive = TRUE
    WriteFaults = TRUE
    MaxRuns = 3
    MaxUpsets = 2
INVARIANTS
    CompletedNeverRerun
    TraceAscends
\* The runs are used up and every one has ended.
CHECK_DEADLOCK FALSE
