--------------------------- MODULE MCToolExecutor ---------------------------
\* Three calls with the same parameters and one with others, for a cache that
\* holds one result.
EXTENDS ToolExecutor, TLC

CONSTANTS c1, c2, c3, d, k, l

MCKeyOf == [c \in Calls |-> IF c = d THEN l ELSE k]

Symmetry == Permutations(Calls \ {d})
=============================================================================
