CONSTANTS
    n1 = n1
    n2 = n2
    Node = {n1, n2}
    Skew <- OneAhead
    MaxSkew = 1
    Name = {a}
    Holder = {h1, h2}
    NoLock = NoLock
    MaxLocks = 1
    MinTTL = 1
    DefaultTTL = 1
    MaxTTL = 1
    Requested = {0, 2}
    MaxTime = 2
    MaxLog = 3
    MaxInFlight = 1
    MaxElections = 1

SPECIFICATION FairSpec
INVARIANTS Agreement Fencing NoEarlyLoss NoEarlyExpire
PROPERTIES Implements NoHolderForever
CHECK_DEADLOCK FALSE
