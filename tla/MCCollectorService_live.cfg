SPECIFICATION HungSpec
CONSTANTS
  Loop = loop
  Testers = {t1}
  Readers = {}
  Interval = 2
  MinInterval = 1
  SecondTicks = 1
  Boot = 8
  Offsets <- NoOffset
  MaxUptime = 2
  MaxCalls = 3
INVARIANTS TypeOK SingleFlightInv EveryCallCounted
PROPERTIES ImplementsSingleFlight EveryCollectionShown StopEndsLoop
