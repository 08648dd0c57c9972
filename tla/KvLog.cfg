CONSTANTS
    Capacity = 3
    MaxOps = 2
    MaxSegment = 4
    MaxAttempts = 3
    MaxFaults = 3
SPECIFICATION FairSpec
INVARIANTS LogPassesItsChecks DeniedStaysUncommitted
PROPERTIES SelectionsOnlyExtend ReturnsToIdle
CHECK_DEADLOCK FALSE
