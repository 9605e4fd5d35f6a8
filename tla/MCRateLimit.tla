---------------------------- MODULE MCRateLimit ----------------------------
(* Three callers in two processes, the clock of the second ahead by one. *)
EXTENDS RateLimit, TLC

CONSTANTS one, other, fast
MCLimiterOf == (one :> "p1") @@ (other :> "p1") @@ (fast :> "p2")
MCSkewOf == (one :> 0) @@ (other :> 0) @@ (fast :> 1)
MCSymmetry == Permutations({one, other})
=============================================================================
