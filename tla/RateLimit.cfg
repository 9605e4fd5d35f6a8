SPECIFICATION Spec
CONSTANTS
  one = one
  other = other
  fast = fast
  Callers = {one, other, fast}
  Limiters = {"p1", "p2"}
  LimiterOf <- MCLimiterOf
  SkewOf <- MCSkewOf
  MaxSkew = 1
  Rate = 1
  Burst = 3
  KeyTtl = 2
  Latency = 1
  Costs = {1, 3}
  Timeouts = {1}
  MaxAttempts = 3
  LastTime = 6
SYMMETRY MCSymmetry
INVARIANTS
  GrantsAreBounded
  EndsInTime
CHECK_DEADLOCK FALSE
