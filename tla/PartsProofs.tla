---------------------------- MODULE PartsProofs -----------------------------
(***************************************************************************)
(* Parts is the sum of its parts: it implements the specification of each, *)
(* so that what is proved of each of them holds of Parts, whatever part a  *)
(* behaviour exercises.                                                    *)
(***************************************************************************)
EXTENDS Parts, HttpProofs, PIIScanProofs, SanitizerProofs

(***************************************************************************)
(* A step of Parts is a step of one part and leaves the others alone.      *)
(***************************************************************************)
LEMMA EachStep ==
  [PartsNext]_partsVars =>
    /\ [RateNext]_rateVars
    /\ [ScanNext]_scanVars
    /\ [BackoffNext]_backoffVars
    /\ [SanitizerNext]_sanitizerVars
BY DEF PartsNext, partsVars

(***************************************************************************)
(* The rate-limit callbacks, the scan, the delays and the sanitiser of     *)
(* Parts are those of their modules.                                       *)
(***************************************************************************)
THEOREM PartsImplementTheirModules ==
  PartsSpec => RateSpec /\ ScanSpec /\ BackoffSpec /\ SanitizerSpec
BY EachStep, PTL
   DEF PartsSpec, PartsInit, RateSpec, ScanSpec, BackoffSpec, SanitizerSpec

(***************************************************************************)
(* The variables of all parts keep their types.                            *)
(***************************************************************************)
THEOREM PartsTypeCorrect == PartsSpec => []PartsTypeOK
BY PartsImplementTheirModules, RateLimitTypeCorrect, ScanTypeCorrect, BackoffTypeCorrect,
   SanitizerTypeCorrect, PTL DEF PartsTypeOK

=============================================================================
