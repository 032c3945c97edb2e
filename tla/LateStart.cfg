SPECIFICATION HostSpec
CONSTANTS
  MaxAttempts = 1
  MaxEvents = 3
  NumAgents = 2
  CancelOnTransfer = {2}
CHECK_DEADLOCK FALSE
INVARIANT NoStartAfterStop
