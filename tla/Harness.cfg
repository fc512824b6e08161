SPECIFICATION FairSpec

CONSTANTS
    Core <- MCCore
    n1 = n1
    n2 = n2
    n3 = n3
    Extra = x
    NoNode = NoNode
    Need = 3
    MaxTicks = 3
    MaxSamples = 2
    MaxFaults = 1
    MaxWarns = 1

INVARIANTS RoundLeavesNothing NothingLeftBehind
PROPERTY RunEnds
CHECK_DEADLOCK FALSE
