CONSTANTS
    None = None
    Callers = {a, b, c}
SPECIFICATION LiveSpec
INVARIANTS CustodyKept OutcomesReported
PROPERTIES DrainReturns
