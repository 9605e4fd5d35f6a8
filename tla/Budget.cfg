SPECIFICATION Spec
CONSTANTS
  c1 = c1
  c2 = c2
  c3 = c3
  Callers = {c1, c2, c3}
  Limits <- MCLimits
  Kinds = {"tokens", "cost"}
  Amounts <- MCAmounts
  MaxAmount = 2
  LastDay = 1
SYMMETRY Symmetry
INVARIANTS
  OverrunIsBounded
  CountersAgree
