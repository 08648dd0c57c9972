SPECIFICATION FairSpec
CONSTANTS
    MaxGeneration = 10
    MaxFile = 2
    MaxFaults = 2
    MaxDamage = 2
INVARIANTS
    AnyRootFoundIsUsable
PROPERTIES
    ImplementsRegister
    ReopensEventually
CHECK_DEADLOCK FALSE
