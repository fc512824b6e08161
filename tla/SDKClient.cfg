SPECIFICATION Spec

CONSTANTS
    c1 = c1
    c2 = c2
    t1 = t1
    t2 = t2
    t3 = t3
    Conn = {c1, c2}
    Thread = {t1, t2}
    ConnOf <- OwnConn
    MaxToken = 3
    MaxLosses = 1
    MaxTimeouts <- OneTimeoutEach
    MaxElections = 1
    MaxExpiries = 2

CHECK_DEADLOCK FALSE
INVARIANTS RenewedIsReleasable CloseReleases
