SPECIFICATION FairCircuit
CONSTANTS
  c1 = c1
  c2 = c2
  Callers = {c1, c2}
  FailureThreshold = 1
  RecoveryTimeout = 1
  HalfOpenMax = 1
  SuccessThreshold = 1
  MaxAttempts = 1
  MaxUnrecorded = 1
PROPERTIES
  HalfOpenResolves
