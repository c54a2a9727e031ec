SPECIFICATION Spec
CONSTANTS
  Loop = loop
  Testers = {}
  Readers = {}
  Interval = 2
  MinInterval = 1
  SecondTicks = 1
  Boot = 8
  Offsets <- NoOffset
  MaxUptime = 8
  MaxCalls = 0
INVARIANT MissedRunIsSkipped
