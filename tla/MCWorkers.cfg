SPECIFICATION WorkersSpec
CONSTANTS
  NumActors = 2
  MaxMail = 5
  Actions = {"restart", "stop"}
  MaxActorRestarts = 2
  RestartWindow = 2
  MaxTicks = 2
  DeskAgents = {d1, d2}
  Stranger = d3
  MaxTransferAsks = 3
  GatewayCalls = {g1}
  Processors = {"distil", "index"}
  Distillation = "distil"
  MaxConcurrentRuns = 1
  MaxRuns = 3
  MaxDrains = 1
  MaxPresets = 1
  Gates = {"run", "runThrows"}
  ClawClients = {"ws", "http"}
  MaxInvokes = 2
  MaxClawEvents = 2
  MaxParts = 2
  MaxTasks = 2
  MaxParked = 1
  MaxCrashes = 1
  MaxRelayFaults = 1
  MaxLosses = 1
  NoticeSessions = {1, 2}
  InterviewKinds = {"interview", "deepdive"}
  MaxInterviewCalls = 5
  ReminderBudget = 2
  MaxClaudeRuns = 3
  MaxHistoryPerThread = 2
  MaxTotalHistory = 3
  MaxResponds = 1
  MaxInboundCalls = 3
  MaxMediaErrors = 1
  MaxClientSockets = 3
  MaxFrames = 2
  MaxWindows = 1
  MaxPendingJson = 1
  Capacity = 1
  MaxHostGates = 1
  MaxClientTotal = 4
CHECK_DEADLOCK FALSE
INVARIANTS
  ActorsAreScheduled
  PostSessionIsBooked
  DelegationsAreAnswered
  DelegationsAreAccounted
  InterviewIsOrderly
  RelaysKeepTheThread
  PhoneCallsAreKeptApart
  OneClientAtATime
