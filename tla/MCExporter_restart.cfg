SPECIFICATION Spec
CONSTANTS
  Requests = {}
  Environments <- UsualFile
  Horizon = 2
  Unset = Unset
  Unparsable = Unparsable
  DefaultInterval = 6
  DefaultMinInterval = 2
  DefaultTimeout <- TickTimeouts
  ShutdownTimeout = 2
  StopTimeout = 6
  RestartSec = 1
PROPERTY ScansSpaced
