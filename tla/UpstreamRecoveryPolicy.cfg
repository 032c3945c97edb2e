SPECIFICATION PolicySpec
CONSTANTS
  Requests = {r1}
  RequiredTicks = 2
  Limit = 2
  Cooldown = 2
  Backstop = 1
  FatalBackoff = 2
  Stable = 1
  BaseDelay = 1
  CapDelay = 2
  ParkDelay = 0
  StuckConnecting = 1
  IdlePark = 1
  MaxPolicyEvents = 2
PROPERTIES
  DialsAreOwned
  MovingIsRedialed
