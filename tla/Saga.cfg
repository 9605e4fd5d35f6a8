SPECIFICATION FairSpec
CONSTANTS
  N = 3
  StepName <- MCStepName
  Retries <- MCRetries
  Compensable = {1, 2}
  Idempotent = {1, 3}
  Threaded = {1}
  Opaque = {2}
  GlobalTimeout = TRUE
  ResumeStatuses = {"running", "failed", "completed"}
  MaxRuns = 3
  MaxInterrupts = 2
INVARIANTS
  TypeOK
  RecordedStepsLanded
  ReturnedMeansAllLanded
  NeverOvercompensated
  RepeatsArePaidFor
PROPERTIES
  RunsAreResolved
CHECK_DEADLOCK FALSE
