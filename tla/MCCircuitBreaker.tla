-------------------------- MODULE MCCircuitBreaker --------------------------
(***************************************************************************)
(* CircuitBreaker for TLC.  The goroutines that call Execute are           *)
(* interchangeable: the runs without a liveness property use the symmetry. *)
(***************************************************************************)
EXTENDS CircuitBreaker, TLC

Symmetry == Permutations(Calls)
=============================================================================
