SPECIFICATION ProvidersSpec
CONSTANTS
  ProviderOwned = {TRUE}
  Results = {r1}
  MaxSockets = 2
  MaxResponses = 2
  MaxUpdates = 1
  MaxHostCalls = 2
  MaxFaults = 1
  MaxTotal = 4
  GeminiProviders = {TRUE, FALSE}
  SlowCloses = {TRUE, FALSE}
  MaxDials = 3
  MaxCalls = 2
  MaxOwner = 3
  MaxServer = 2
  Credentialed = {TRUE, FALSE}
  MaxRetries = 1
  MaxConns = 3
  MaxSttCalls = 3
  StrProviders = {"whisper", "scribe"}
  MaxStrSockets = 3
  MaxTimers = 2
  MaxStrCalls = 3
  TtsProviders = {"cartesia", "elevenlabs", "hume"}
  MaxRequests = 3
  MaxTtsSockets = 2
CHECK_DEADLOCK FALSE
INVARIANTS
  ResponsesAreKeptApart
  DialsKeepTheirOwn
  RotationIsSeamless
  ReconnectsAreOwned
  CallbacksNameTheirRequest
PROPERTIES
  WaitersReturn
