SPECIFICATION Spec
CONSTANTS
  Callers = {background, refresh}
  MaxJobs = 3
  MaxScans = 3
SYMMETRY AnyCaller
INVARIANTS TypeOK SessionsClosed NothingLeaked CopiedWhileLive
PROPERTY ImplementsWholeScan
