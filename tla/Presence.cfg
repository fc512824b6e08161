SPECIFICATION FairSpec

CONSTANTS
    Node = {n1, n2, n3}
    NoLeader = NoLeader
    FirstLeader = n1
    Victim = {n1, n2}
    MaxMisses = 2
    BufferSize = 1
    MaxToken = 4
    MaxFailures = 1
    MaxElections = 2

CHECK_DEADLOCK FALSE
PROPERTIES DeadAreNoticed PresenceIsHeld LeaderIsAlive
