SPECIFICATION Spec
CONSTANTS
  SecondTicks = 2
  WordLimit <- TenKB
  WordResults <- OnAmd64
  Jobs = {1,2}
  Entry <- Submitted
  HostLists <- SomeHosts
  Usage <- SomeUsage
  Payloads <- SomePayloads
  Ahead <- Clocks
  QueryAllJobs = TRUE
  MaxTime = 5
  MaxCollections = 1
INVARIANTS TypeOK RunTimeExcused SeriesCollideOnlyForDuplicates TotalsMatchInfo LabelsReadBack SlotsCounted
