SPECIFICATION Spec
CONSTANTS
  c1 = c1
  c2 = c2
  c3 = c3
  d = d
  k = k
  l = l
  Calls = {c1, c2, c3, d}
  KeyOf <- MCKeyOf
  MaxSize = 1
  Ttl = 2
  Timeout = 1
  Retries = 1
  Delays = {0, 1}
  Threshold = 2
  Window = 1
  Cooldown = 2
  MaxNow = 4
SYMMETRY Symmetry
INVARIANTS
  SkipsAreEarned
  AnswersAreRecent
  NewerUnlessOverlapped
CHECK_DEADLOCK FALSE
