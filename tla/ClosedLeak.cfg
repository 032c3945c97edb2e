SPECIFICATION Spec
CONSTANTS
  Policies = {"close"}
  Credentialed = {TRUE}
  Reentrant = FALSE
  MaxAttempts = 2
  MaxRecoveries = 0
  MaxEvents = 3
CHECK_DEADLOCK FALSE
INVARIANTS ClosedIsDisconnected
