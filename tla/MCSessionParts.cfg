SPECIFICATION SessionPartsSpec
CONSTANTS
  Handoffs = {h1, h2}
  MainAgent = MainAgent
  MaxInputRetries = 2
  MaxQuestions = 2
  PersistentKeys = {k1, k2}
  MaxFactories = 4
  ToolCallIds = {1, 2}
  CanTruncate = FALSE
  MaxHostNotes = 1
  MaxExecutors = 2
  HistoryStores = {st1}
  HistoryModes = {"none", "attach"}
  ExternalStt = {TRUE}
  Recording = {TRUE, FALSE}
  Distilling = {TRUE}
  AgentNotes = {TRUE, FALSE}
  MemoryTurns = 2
  MaxItems = 3
  MaxHistoryTurns = 3
  MaxInputs = 3
  MaxTurns = 2
  MaxSynthetic = 1
  MaxInputRecoveries = 1
  MaxInputFlips = 1
  MaxUpdates = 4
  MaxSends = 2
  MaxServerTurns = 2
  MaxSessions = 2
  TextCalls = {1, 2}
  MaxToolRounds = 2
  ReplayLength = 3
  MaxReconnects = 1
  QwenResults = {1, 2, 3}
  MaxQwenUpdates = 2
  MaxQwenErrors = 1
  MaxMicFrames = 4
  SilenceTicks = 1
  PreRoll = 1
  MaxCut = 2
  MaxTransition = 2
  ReplayRecovery = {TRUE}
  MaxShadowTurns = 3
  MaxSnapshots = 2
  RingCapacity = 2
  MaxPlausible = 5
  MaxFacts = 10
  MaxLatTurns = 2
  MaxResets = 1
CHECK_DEADLOCK FALSE
INVARIANTS
  SubagentsAreKept
  ToolCallsAreAnswered
  HistoryIsFaithful
  InputsAreOrderly
  SendsAreOrderly
  TransportsKeepResults
  UserIsHeard
  SamplesAreSound
