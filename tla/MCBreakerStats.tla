--------------------------- MODULE MCBreakerStats ---------------------------
(***************************************************************************)
(* BreakerStats for TLC.  The goroutines that call Execute are             *)
(* interchangeable: the run without a liveness property uses the symmetry. *)
(***************************************************************************)
EXTENDS BreakerStats, TLC

Symmetry == Permutations(Calls)
=============================================================================
