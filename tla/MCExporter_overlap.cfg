SPECIFICATION Spec
CONSTANTS
  Requests = {r1, r2}
  Environments <- UsualFile
  Horizon = 2
  Unset = Unset
  Unparsable = Unparsable
  DefaultInterval = 6
  DefaultMinInterval = 2
  DefaultTimeout <- TickTimeouts
  ShutdownTimeout = 2
  StopTimeout = 6
  RestartSec = 1
INVARIANT OneScanAtATime
