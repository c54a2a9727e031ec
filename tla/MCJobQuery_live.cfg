SPECIFICATION HungSpec
CONSTANTS
  Requests = {r1, r2}
  Jobs = {jRun, jDone}
  Finished = {jDone}
  MinInterval = 1
  SecondTicks = 1
  Boot = 3
  MaxTime = 5
  MaxQueries = 2
PROPERTIES EveryRequestAnswered NeverWedged HungQueryBlocksNobodyElse
