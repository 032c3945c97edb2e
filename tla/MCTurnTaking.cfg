SPECIFICATION TurnTakingSpec
CONSTANTS
  Modes <- MCModes
  MaxResponses = 2
  MaxOutputs = 2
  MaxSegments = 1
  MaxSignals = 1
  MaxGreetings = 1
  MaxLosses = 1
  MaxTotal = 2
  MaxReconnectAttempts = 2
  MaxUtterances = 3
  MaxEvents = 3
CHECK_DEADLOCK FALSE
INVARIANTS
  TurnsEndInOrder
  OwedIsWatched
PROPERTIES
  FloorIsFree
