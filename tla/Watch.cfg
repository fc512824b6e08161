SPECIFICATION Spec

CONSTANTS
    Member = {m1, m2}
    NoNode = NoNode
    Topic = {t1}
    Publisher = {p1}
    Filter <- StateKeys
    Capacity = 1
    MaxSeq = 3
    MaxFaults = 1

CHECK_DEADLOCK FALSE
SYMMETRY MemberSymmetry
INVARIANTS ViewConverges StreamComplete
