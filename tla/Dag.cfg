SPECIFICATION Spec
CONSTANTS
  a = a
  b = b
  c = c
  Nodes = {a, b, c}
  Costs = {1}
  Budgets = {0, 2}
  MaxRuns = 2
  MaxLate = 1
SYMMETRY Symmetry
INVARIANTS
  ReturnedMeansAllRan
  ResultsSurvive
CHECK_DEADLOCK FALSE
