CONSTANTS
    NoJob = NoJob
    a = a b = b c = c
    Jobs = {a, b, c}
    Capacity = 2
SPECIFICATION LiveSpec
CONSTRAINT InOrder
INVARIANTS ShutdownMissesNobody CleanReportIsTrue
PROPERTIES SlotsComeBack ShutdownCompletes
