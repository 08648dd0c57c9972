SPECIFICATION FairSpec
CONSTANTS
    n1 = n1
    n2 = n2
    n3 = n3
    n4 = n4
    None = None
    Nodes = {n1, n2, n3, n4}
    Genesis <- Voters
    Leaders = {n1}
    Ops <- Return
    Drain = 1
    MaxTerm = 1
    MaxFaults = 0
PROPERTIES DispatchedResolves
