SPECIFICATION ActorsSpec
CONSTANTS
  MaxAttempts = 2
  MaxEvents = 4
  NumAgents = 2
  CancelOnTransfer = {2}
  Truncation = TRUE
  Keys = {reminder}
  NoKey = NoKey
  MaxRestarts = 1
  MaxMail = 2
  MaxPublish = 2
  MaxFailures = 2
CHECK_DEADLOCK FALSE
INVARIANTS
  ShutdownStopsAgents
  QueueIsFaithful
PROPERTIES
  LossesFollowThePolicy
  HeldWritesNothingNew
  ActorsRecover
