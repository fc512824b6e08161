SPECIFICATION Spec

CONSTANTS
    Node = {n1, n2}
    Seed = n1
    NoNode = NoNode
    NoMember = NoMember
    Request = {r1, r2}
    Op = {"Join", "JoinObserver", "Guest", "Promote", "Leave", "Rejoin"}
    MaxRequests = 3
    MaxElections = 2
    MaxFailures = 2
    MaxDeaths = 1

CHECK_DEADLOCK FALSE
SYMMETRY RequestSymmetry
INVARIANTS ListedWereAccepted
PROPERTY OkMeansDone
