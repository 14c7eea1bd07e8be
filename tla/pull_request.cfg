\* A pull request that is pushed to twice, with deliveries repeated and repairs
\* requested meanwhile.
SPECIFICATION PullSpec
CONSTANTS
    h1 = h1
    h2 = h2
    Handlers = {h1, h2}
    p1 = p1
    p2 = p2
    Lines <- MCLines
    Changes <- MCChanges
    Findings <- MCFindings
    NoTask = NoTask
    MaxPushes = 2
    MaxTasks = 2
    f1 = f1
    Fixers = {f1}
    b1 = b1
    b2 = b2
    Branches = {b1, b2}
    NoBranch = NoBranch
    MaxFaults = 1
SYMMETRY Symmetric
INVARIANTS
    DeliveryBacked
    FixVerified
    
CHECK_DEADLOCK FALSE
