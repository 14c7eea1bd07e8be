\* Two specialists and the fallback, one finding key, one failing write or death.
SPECIFICATION FairSpec
CONSTANTS
    rules = rules
    model = model
    local = local
    k1 = k1
    k2 = k2
    Agents <- Both
    Fallback = local
    Domains <- Declared
    Keys = {k1}
    AgentRetries = 1
    Rounds = 2
    NoOne = NoOne
    NoKey = NoKey
    MaxTries = 2
    MaxUpsets = 1
INVARIANTS
    PublishedSupported
    CritiqueCurrent
    Recorded
    FailuresContained
PROPERTIES
    CollaborationEnds
\* Reviews that returned, or raised once too often, stay as they are.
CHECK_DEADLOCK FALSE
