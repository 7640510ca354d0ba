------------------------------- MODULE Parts --------------------------------
(***************************************************************************)
(* The parts of the SDK that share no state with each other or with the    *)
(* breaker and the retry loop: the rate-limit callbacks, the scan for PII, *)
(* the delays and the sanitising of errors.  A behaviour exercises one of  *)
(* them, so that together they have as many states as the sum of theirs.   *)
(***************************************************************************)
EXTENDS RateLimit, PIIScan, Backoff, Sanitizer

VARIABLE part   \* the part this behaviour exercises

partsVars ==
  <<part, rateVars, scanVars, backoffVars, sanitizerVars>>

PartsTypeOK ==
  /\ RateTypeOK
  /\ ScanTypeOK
  /\ BackoffTypeOK
  /\ SanitizerTypeOK

PartsInit ==
  /\ part \in {"rate limit", "scan", "backoff", "sanitizer"}
  /\ RateInit
  /\ ScanInit
  /\ BackoffInit
  /\ SanitizerInit

PartsNext ==
  \/ /\ part = "rate limit"
     /\ RateNext
     /\ UNCHANGED <<part, scanVars, backoffVars, sanitizerVars>>
  \/ /\ part = "scan"
     /\ ScanNext
     /\ UNCHANGED <<part, rateVars, backoffVars, sanitizerVars>>
  \/ /\ part = "backoff"
     /\ BackoffNext
     /\ UNCHANGED <<part, rateVars, scanVars, sanitizerVars>>
  \/ /\ part = "sanitizer"
     /\ SanitizerNext
     /\ UNCHANGED <<part, rateVars, scanVars, backoffVars>>

(***************************************************************************)
(* Fair to the scan, the one part with something that must happen.         *)
(***************************************************************************)
PartsSpec ==
  /\ PartsInit
  /\ [][PartsNext]_partsVars
  /\ ScanFairness
=============================================================================
