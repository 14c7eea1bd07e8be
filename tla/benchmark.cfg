\* Two processes on one output directory.
SPECIFICATION Spec
CONSTANTS
    p1 = p1
    p2 = p2
    Runners = {p1, p2}
    Cases = {"a", "b"}
    Invocations <- MCInvocations
    Local = {"local-rules"}
    Teams = {"multi-agent"}
    MaxRepairs = 1
    MaxCalls = 2
    MaxRuns = 2
    MaxEdits = 1
    MaxMishaps = 1
SYMMETRY Alike
INVARIANTS
    ReportTrue
    CostReal
PROPERTIES
    PaidOnce
CHECK_DEADLOCK FALSE
