SPECIFICATION FairSpec

CONSTANTS
    n1 = n1
    n2 = n2
    o1 = o1
    c1 = c1
    c2 = c2
    a = a
    b = b
    Node = {n1, n2, o1}
    NoNode = NoNode
    Observer = {o1}
    Lagging = {o1}
    Client = {c1, c2}
    Home <- ObserverHome
    AskedHolder <- OwnHolders
    NoHolder = NoHolder
    Holder = {a, b, n1, n2, o1}
    Name = {x}
    NoLock = NoLock
    MaxLocks = 1
    MinTTL = 1
    DefaultTTL = 1
    MaxTTL = 2
    ServiceTTL = 1
    Requested <- OneAsks
    MaxToken = 2
    FirstLeader = n1
    MaxElections = 1

CHECK_DEADLOCK FALSE
INVARIANTS OneClientPerToken
PROPERTIES RenewKeepsTTL FreeingWakesAll ObserversGrantNothing DeadlineEndsCall
