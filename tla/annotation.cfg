\* Two requests at a time, a case, its twin and one of the holdout split.
SPECIFICATION Spec
CONSTANTS
    r1 = r1
    r2 = r2
    ann = ann
    bob = bob
    mgr = mgr
    risk = risk
    clean = clean
    old = old
    new = new
    Diffs <- MCDiffs
    Earlier <- MCEarlier
    Requests = {r1, r2}
    Cases = {"o/n#1", "O/N#1", "holdout#1"}
    Pull <- MCPull
    HoldoutPulls = {"holdout"}
    Users = {ann, bob, mgr}
    Managers = {mgr}
    Labels = {risk, clean}
    Names = {"v1"}
    MaxCalls = 6
    MaxMishaps = 1
SYMMETRY Alike
INVARIANTS
    Labelled
    DatasetStands
    Settled

    
CHECK_DEADLOCK FALSE
