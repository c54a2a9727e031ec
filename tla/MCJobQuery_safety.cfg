SPECIFICATION Spec
CONSTANTS
  Requests = {r1, r2, r3}
  Jobs = {jRun, jDone}
  Finished = {jDone}
  MinInterval = 2
  SecondTicks = 2
  Boot = 4
  MaxTime = 6
  MaxQueries = 2
SYMMETRY Symmetry
INVARIANTS TypeOK SingleFlightInv RepliesNeverGoBack RefreshedMeansNew FilterLeavesCacheWhole
PROPERTIES RefreshesSpaced ImplementsSingleFlight
