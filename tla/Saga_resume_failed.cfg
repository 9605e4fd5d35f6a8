SPECIFICATION Spec
CONSTANTS
  N = 2
  StepName <- MCStepName
  Retries <- MCNoRetries
  Compensable = {1, 2}
  Idempotent = {}
  Threaded = {}
  Opaque = {2}
  GlobalTimeout = FALSE
  ResumeStatuses = {"failed"}
  MaxRuns = 2
  MaxInterrupts = 0
INVARIANT
  SuccessMeansAllLanded
CHECK_DEADLOCK FALSE
