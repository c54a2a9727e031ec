SPECIFICATION Spec
CONSTANTS
  Loop = loop
  Testers = {}
  Readers = {r1}
  Interval = 2
  MinInterval = 2
  SecondTicks = 2
  Boot = 8
  Offsets <- SetBack
  MaxUptime = 4
  MaxCalls = 0
INVARIANT ScrapeCoversSnapshot
PROPERTIES AttemptsSpaced SkipsOnlyWhenRecent
