SPECIFICATION FairSpec

CONSTANTS
    Call = {c1}
    Stream = {s1}
    MaxServeFails = 2
    Heartbeats = {0, 100, 300}
    Elections = {300}
    Leases = {0, 200}
    Intervals = {0}

INVARIANTS DependenciesOutlive FailureReported LeaseFits
PROPERTY Exits
CHECK_DEADLOCK FALSE
