\* Two reviews, one deployment reconfigured once, one mishap.
SPECIFICATION Spec
CONSTANTS
    v1 = v1 v2 = v2 v3 = v3 r1 = r1 r2 = r2
    Reviews <- TwoReviews
    Versions <- Numbers
    Known <- Recorded
    NoReviewer = NoReviewer
    Stable = Stable
    Buckets = {10}
    Requests <- CanaryOrShadow
    MinSamples = 2
    MaxErrorRate = 40
    MaxDisagreementRate = 40
    MaxAttempts = 1
    MaxConfigs = 2
    MaxMishaps = 1
INVARIANTS CandidateConfined RollbackAnnounced
PROPERTIES VerdictStands VerdictEarned
CHECK_DEADLOCK FALSE
VIEW Relevant
