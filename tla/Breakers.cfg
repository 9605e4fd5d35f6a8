SPECIFICATION FairBreakers
CONSTANTS
  Threshold = 2
  Recovery = 2
  NP = 3
  Registered = {"openai", "ollama"}
  NameOf <- MCNames
  Calls = {"c1", "c2"}
  Primary <- MCPrimary
  c1 = c1
  c2 = c2
  c3 = c3
  c4 = c4
  Callers = {c1, c2, c3, c4}
  FailureThreshold = 2
  RecoveryTimeout = 1
  HalfOpenMax = 2
  SuccessThreshold = 2
  MaxAttempts = 2
  MaxUnrecorded = 1
INVARIANTS
  AllFailedMeansAllAsked
  TrialsAreBounded
  NoSlotLeaks
PROPERTIES
  OpensForFailuresInARow
  OpenIsNotForever
  ChatsEnd
  HalfOpenResolvesUnlessLost
