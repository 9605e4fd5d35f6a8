SPECIFICATION Spec
CONSTANTS
  NR = 1
  MaxTurns = 5
  Budget = 1
  MaxCost = 1
  MaxRepeats = 3
  Batches <- MCBatches
  CompressAbove = 10
  Window = 20
PROPERTIES
  TaskIsSaved
CHECK_DEADLOCK FALSE
