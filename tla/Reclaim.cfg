SPECIFICATION FairSpec
CONSTANTS
  MaxId = 2
  MaxCommits = 3
  MaxCycles = 1
  MaxFaults = 1
  MAX_GARBAGE = 2
  Pins = {p1}
CHECK_DEADLOCK FALSE
INVARIANTS ConclusionsStayTrue RetainedRootsReadable
PROPERTIES ReclamationCompletes
