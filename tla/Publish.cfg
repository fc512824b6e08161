SPECIFICATION PublishSpec

CONSTANTS
    Daemon = {d1, d2}
    NoDaemon = NoDaemon
    Call = {c1, c2}
    Identified = {c1}
    Capacity = 2
    MaxTries = 2
    MaxFaults = 2

CHECK_DEADLOCK FALSE
SYMMETRY DaemonSymmetry
INVARIANTS SecondOnlyAfterEviction PeersHear
