CONSTANTS
    None = None
    i1 = i1 i2 = i2 t1 = t1 n1 = n1 n2 = n2 alice = alice
    Commands <- MCCommands
    Ids <- MCIds
    Retried = {}
    Tenants = {t1}
    Incarnations = {i1, i2}
    Nodes = {n1, n2}
    Principals = {alice}
    InitialAdministrators = {alice}
    EnrolledVerifiers = {n1}
    Processes = {p1, p2}
    CredentialLifetimes = {2, 3}
    MaxLease = 3 RateScale = 3 RateError = 1
    DrainCapacity = 1 MaxRegression = 1
    MaxTerm = 2 MaxProposals = 1 MaxOperational = 0
    Capacities <- MCCapacities InitialCapacity <- MCCapacity
SPECIFICATION Spec
CONSTRAINT Stories
INVARIANTS ServedAsActivated ObservedStopIsFinal
PROPERTIES GateNeverRevived ImplementsOwner
SYMMETRY Symmetry
