CONSTANTS
    n1 = n1
    n2 = n2
    a = a
    b = b
    h1 = h1
    h2 = h2
    Node = {n1, n2}
    NoMember = NoMember
    Name = {a, b}
    Holder = {h1, h2}
    NoGrant = NoGrant
    MaxGrants = 1
    MinTTL = 1
    DefaultTTL = 1
    MaxTTL = 2
    Command <- AllCommands
    MaxLog = 3
    MaxCrash = 1
SPECIFICATION Spec
INVARIANTS TablesAgree GrantsWithinLimit TokensNameOneGrant AcceptedAreListed
CHECK_DEADLOCK FALSE
