SPECIFICATION FairSpec
CONSTANTS
  Workers = {"w1", "w2"}
  Operators = {"o1"}
  MaxRetries = 2
  BatchSize = 2
  MaxInserts = 2
  MaxErrors = 2
INVARIANTS
  OutboxTypeOK
  NoEventLost
  GivenUpAfterRetries
PROPERTIES
  DeadUnlessShared
  
CHECK_DEADLOCK FALSE
