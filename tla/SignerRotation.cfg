SPECIFICATION FairSpec
CONSTRAINT Sides
CONSTANTS
    n1 = n1
    Members = {n1, n2}
    Others = {x}
    Enrolled = {n1, n2}
    Covered = {n1}
    Operated = {n1}
    Requests = {r}
    RetirementDrain = 1
    MaxAttempts = 2
    MaxPending = 1
    MaxEpoch = 2
    MaxTerm = 2
    MaxFaults = 1
    None = None
INVARIANTS
    TrustNeverEarly
    CoverageSound
    IssuedUnderCurrentGeneration
PROPERTY RotationFinishes
