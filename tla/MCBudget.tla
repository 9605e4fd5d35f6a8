------------------------------ MODULE MCBudget ------------------------------
\* A tenant with three limits, of which two count the same tokens.
EXTENDS Budget, TLC

MCLimits == << [kind |-> "tokens", window |-> "day",   limit |-> 2],
               [kind |-> "cost",   window |-> "total", limit |-> 1],
               [kind |-> "tokens", window |-> "total", limit |-> 3] >>

MCAmounts == { [tokens |-> 2, cost |-> 0], [tokens |-> 1, cost |-> 1] }

ASSUME MCDistinct == DistinctLimits

Symmetry == Permutations(Callers)
=============================================================================
