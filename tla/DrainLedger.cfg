CONSTANTS
    None = None
    Ids = {a, b, c}
    MaxLease = 2 RateScale = 3 RateError = 1
    DrainCapacity = 2 MaxRegression = 3
    MaxTerm = 2
SPECIFICATION LedgerSpec
INVARIANTS ReleasedAfterFullDrain WithinCapacity
SYMMETRY Symmetry
