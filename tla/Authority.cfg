CONSTANTS
    None = None
    i1 = i1 i2 = i2 i3 = i3 t1 = t1 n1 = n1 n2 = n2 alice = alice bob = bob
    Commands <- MCCommands
    Ids <- MCIds
    Retried <- MCRetried
    Tenants = {t1}
    Incarnations = {i1, i2, i3}
    Nodes = {n1, n2}
    Principals = {alice, bob}
    InitialAdministrators = {alice, bob}
    EnrolledVerifiers = {n1}
    MaxLease = 1 RateScale = 1 RateError = 0
    DrainCapacity = 1 MaxRegression = 1
    MaxTerm = 2 MaxProposals = 2 MaxOperational = 9
    Capacities <- MCCapacities InitialCapacity <- MCCapacity
SPECIFICATION LiveAuthoritySpec
CONSTRAINT Stories
INVARIANTS ReplacementNeverForks StoppedTargetNeverActivated EffectsAsOrdered FenceReserveKept
PROPERTIES ReceiptsPermanent FenceEventuallyCompletes
