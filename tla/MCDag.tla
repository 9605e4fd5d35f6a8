-------------------------------- MODULE MCDag --------------------------------
(* Three interchangeable nodes: every graph over them, in every order. *)
EXTENDS Dag, TLC

CONSTANTS a, b, c
Symmetry == Permutations({a, b, c})
=============================================================================
