\* Three runs of one task that may overlap.
SPECIFICATION Spec
CONSTANTS
    t1 = t1
    t2 = t2
    r1 = r1
    r2 = r2
    Tasks = {t1}
    Unparsable = {}
    Runners = {r1, r2}
    MaxSteps = 3
    NodeRetries = 0
    Exclusive = FALSE
    WriteFaults = FALSE
    MaxRuns = 3
    MaxUpsets = 1
SYMMETRY RunnerSymmetry
INVARIANTS
    StagesInOrder
\* The runs are used up and every one has ended.
CHECK_DEADLOCK FALSE
