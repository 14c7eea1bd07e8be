\* Two requests at a time, on either database.
SPECIFICATION Spec
CONSTANTS
    r1 = r1
    r2 = r2
    Requests = {r1, r2}
    Rules <- MCRules
    RuleOf <- MCRuleOf
    Reports <- MCReports
    Manual <- MCManual
    Score <- MCScore
    MinGain = 1
    Backends = {"sqlite", "postgres"}
    MaxReports = 2
    MaxVersions = 2
    MaxCalls = 3
    MaxMishaps = 1
SYMMETRY Alike
INVARIANTS
    LastActivationWins
    OnlyWinnersServe
    ResolvedIsLearned
    LiveFollows
PROPERTIES
    TakeoverEarned
CHECK_DEADLOCK FALSE
