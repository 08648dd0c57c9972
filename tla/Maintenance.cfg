SPECIFICATION FairSpec
CONSTRAINT Stories
CONSTANTS
    n1 = n1
    n2 = n2
    n3 = n3
    n4 = n4
    None = None
    Nodes = {n1, n2, n3, n4}
    Genesis <- Voters
    Leaders = {n1, n2}
    Ops <- Both
    Drain = 1
    MaxTerm = 2
    MaxFaults = 1
INVARIANTS
    RecordsLead
    RevocationDrained
PROPERTY DispatchedResolves
