SPECIFICATION MCSpec
CONSTANTS
  t1 = t1
  t2 = t2
  t3 = t3
  Procs = {"p1", "p2"}
  Threads <- MCThreads
  Home <- MCHome
  SnapshotEvery = 2
  MaxBatch = 2
  MaxEvents = 3
  MaxCrashes = 1
  w1 = w1
  w2 = w2
  Writers = {w1, w2}
  MaxRows = 3
SYMMETRY MCSymmetry
INVARIANTS
  StoreTypeOK
  SnapshotUnlessOvertaken
  CurrentUnlessBlocked
  AlarmsHaveACause
  VerifiedIsWhole
PROPERTIES
  ImplementsLog
  CheckedAppendIsNext
CHECK_DEADLOCK FALSE
