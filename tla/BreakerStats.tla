---------------------------- MODULE BreakerStats ----------------------------
(***************************************************************************)
(* CircuitBreaker with what it tells its users: the statistics of GetStats *)
(* and the ResetAt of a CircuitOpenError.  No decision of the breaker      *)
(* reads them, so every step here is a step of CircuitBreaker with the     *)
(* counters beside it.  cb.lastFailureTime, which GetStats only passes on, *)
(* is left out.                                                            *)
(***************************************************************************)
EXTENDS CircuitBreaker, Integers

CONSTANT StatBound   \* the bound of the counters that only grow

ASSUME StatBoundAssumption == StatBound \in Nat

VARIABLES
  totalRequests,  \* cb.totalRequests, saturated at StatBound
  successCount,   \* cb.successCount, likewise
  resetIn         \* time.Until(ResetAt) of the last rejection; Void once a
                  \* failure has been recorded since, or before the first one

Void == -1

statVars  == <<totalRequests, successCount, resetIn>>
allVars   == <<vars, statVars>>

StatsTypeOK ==
  /\ TypeOK
  /\ totalRequests \in 0 .. StatBound
  /\ successCount \in 0 .. StatBound
  /\ resetIn \in {Void} \cup 0 .. ResetTimeout

Bump(n) == IF n < StatBound THEN n + 1 ELSE n

StatsInit ==
  /\ Init
  /\ totalRequests = 0
  /\ successCount = 0
  /\ resetIn = Void
-----------------------------------------------------------------------------
\* Mutant: the request is counted in the arm of the closed state only.
CountAdmittedClosed(c) ==
  /\ Admit(c)
  /\ totalRequests' = IF state = "CLOSED" THEN Bump(totalRequests) ELSE totalRequests
  /\ UNCHANGED <<successCount, resetIn>>

(***************************************************************************)
(* Execute counts every request, rejected ones too, before its switch.     *)
(***************************************************************************)
CountAdmitted(c) ==
  /\ Admit(c)
  /\ totalRequests' = Bump(totalRequests)
  /\ UNCHANGED <<successCount, resetIn>>

\* Mutant: ResetAt is openedAt, without the timeout.
ResetAtOpened == 0

\* Mutant: the age of the open period is added, where it is to be taken off.
ResetAtLate == ResetTimeout + openAge

\* openedAt + resetTimeout, seen from now: in the half-open state it is past.
ResetAt == ResetTimeout - openAge

CountRejected(c) ==
  /\ Reject(c)
  /\ totalRequests' = Bump(totalRequests)
  /\ resetIn' = ResetAt
  /\ UNCHANGED successCount

CountSuccess(c) ==
  /\ Succeed(c)
  /\ successCount' = Bump(successCount)
  /\ UNCHANGED <<totalRequests, resetIn>>

CountFailed(c) ==
  /\ Fail(c)
  /\ resetIn' = Void
  /\ UNCHANGED <<totalRequests, successCount>>

StatsPanic(c)  == Panic(c) /\ UNCHANGED statVars
StatsGetState  == GetState /\ UNCHANGED statVars

StatsReset ==
  /\ Reset
  /\ totalRequests' = 0
  /\ successCount' = 0
  /\ UNCHANGED resetIn

StatsTick ==
  /\ Tick
  /\ resetIn' = IF resetIn > 0 THEN resetIn - 1 ELSE resetIn
  /\ UNCHANGED <<totalRequests, successCount>>

StatsNext ==
  \/ \E c \in Calls : \/ CountAdmitted(c)
                      \/ CountRejected(c)
                      \/ CountSuccess(c)
                      \/ CountFailed(c)
                      \/ StatsPanic(c)
  \/ StatsGetState
  \/ StatsReset
  \/ StatsTick

StatsSpec == StatsInit /\ [][StatsNext]_allVars

(***************************************************************************)
(* The fairness of CircuitBreaker: the counters disable none of its steps. *)
(***************************************************************************)
StatsFairSpec == StatsSpec /\ Fairness
-----------------------------------------------------------------------------
(***************************************************************************)
(* GetStats adds up at any moment, with calls running and rejections in    *)
(* between: each request counted is rejected, running, a success, a        *)
(* failure since the last success, or an older failure.  It takes that     *)
(* nobody calls Reset, which clears the counters under running calls.      *)
(***************************************************************************)
StatsAddUp ==
  totalRequests < StatBound =>
    successCount + failureCount + Cardinality(Running) <= totalRequests

(***************************************************************************)
(* A caller that waits until the ResetAt it was given is not turned away   *)
(* by the same open period, unless a failure was recorded in between.      *)
(***************************************************************************)
ResetAtIsRight == state = "OPEN" /\ resetIn = 0 => Elapsed
=============================================================================
