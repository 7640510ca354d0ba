----------------------------- MODULE MCRequest ------------------------------
(***************************************************************************)
(* Request for TLC.  The goroutines are interchangeable; the runs that     *)
(* check only safety use that.                                             *)
(***************************************************************************)
EXTENDS Request, TLC

Symmetry == Permutations(Calls)
=============================================================================
