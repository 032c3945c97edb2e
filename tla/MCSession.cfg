SPECIFICATION SessionSpec
CONSTANTS
  Policies = {"close", "hold"}
  Credentialed = {TRUE, FALSE}
  Reentrant = FALSE
  MaxAttempts = 2
  MaxRecoveries = 2
  MaxEvents = 4
  Calls = {c1, c2}
  Blocking = {c1}
  Silent = {c2}
  Quiescible = TRUE
  MaxDials = 4
  MaxFlips = 1
  HostConns = {k1, k2}
  Guarded = {TRUE, FALSE}
  Sessions = {s1}
  Users = {u1}
  MaxTotalSessions = 1
  MaxSessionsPerUser = 1
CHECK_DEADLOCK FALSE
INVARIANTS
  RecoveryBooksAreKept
  PlacesAreCounted
PROPERTIES
  DialsLandWhereTheyBegan
  ResultsAreGated
  WaitsEnd
