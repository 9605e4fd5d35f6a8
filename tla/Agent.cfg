SPECIFICATION FairSpec
CONSTANTS
  NR = 2
  MaxTurns = 2
  Budget = 1
  MaxCost = 1
  MaxRepeats = 2
  Batches <- MCBatches
  CompressAbove = 4
  Window = 8
INVARIANTS
  TypeOK
  TranscriptsAnswerCalls
  MemoryHoldsExchanges
  OverrunsByOneCall
  KillStopsCalls
PROPERTIES
  RunsEnd
CHECK_DEADLOCK FALSE
