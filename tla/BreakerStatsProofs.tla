------------------------- MODULE BreakerStatsProofs -------------------------
(***************************************************************************)
(* Theorems about BreakerStats, for any goroutines and any configuration.  *)
(***************************************************************************)
EXTENDS BreakerStats, CircuitBreakerProofs

USE CallsAssumption, ConfigAssumption, StatBoundAssumption

(***************************************************************************)
(* The statistics change nothing of what the breaker does: each step of    *)
(* StatsNext is a step of Next, and what is proved of Spec holds here.     *)
(***************************************************************************)
LEMMA StatsStep == [StatsNext]_allVars => [Next]_vars
BY DEF StatsNext, allVars, CountAdmitted, CountRejected, CountSuccess, CountFailed,
       StatsPanic, StatsGetState, StatsReset, StatsTick, Next, CallStep, Execute, Settle

(***************************************************************************)
(* The breaker with the statistics of GetStats implements CircuitBreaker.  *)
(***************************************************************************)
THEOREM StatsImplementBreaker == StatsSpec => Spec
BY StatsStep, PTL DEF StatsSpec, StatsInit, Spec

(***************************************************************************)
(* The invariant: the types, and openAge and resetIn together reach        *)
(* ResetTimeout, because the one grows as the other shrinks.               *)
(***************************************************************************)
StatsInv ==
  /\ StatsTypeOK
  /\ resetIn # Void => openAge + resetIn >= ResetTimeout

LEMMA StatsInitInv == StatsInit => StatsInv
BY InitTypeOK DEF StatsInit, Init, StatsInv, StatsTypeOK, Void

LEMMA StatsStepInv == StatsInv /\ [StatsNext]_allVars => StatsInv'
<1> SUFFICES ASSUME StatsInv, [StatsNext]_allVars PROVE StatsInv'
  OBVIOUS
<1>0. TypeOK'
  BY StatsStep, NextTypeOK DEF StatsInv, StatsTypeOK
<1> USE DEF StatsInv, StatsTypeOK, Void
<1>1. ASSUME NEW c \in Calls, CountAdmitted(c) PROVE StatsInv'
  <2>1. openAge' = openAge /\ (state' # "CLOSED" => state # "CLOSED")
    BY <1>1 DEF CountAdmitted, Admit, OpenProbe, HalfOpenProbe, ClosedAdmit
  <2> QED
    BY <1>0, <1>1, <2>1 DEF CountAdmitted, Bump
<1>2. ASSUME NEW c \in Calls, CountRejected(c) PROVE StatsInv'
  <2>1. UNCHANGED <<state, openAge>>
    BY <1>2 DEF CountRejected, Reject, OpenReject, HalfOpenReject, vars
  <2>2. resetIn' \in 0 .. ResetTimeout /\ openAge + resetIn' = ResetTimeout
    BY <1>2 DEF CountRejected, ResetAt, TypeOK
  <2> QED
    BY <1>0, <1>2, <2>1, <2>2 DEF CountRejected, Bump
<1>3. ASSUME NEW c \in Calls, CountSuccess(c) PROVE StatsInv'
  <2>1. openAge' = openAge /\ (state' # "CLOSED" => state # "CLOSED")
    BY <1>3 DEF CountSuccess, Succeed, ClosedSuccess, HalfOpenSuccess
  <2> QED
    BY <1>0, <1>3, <2>1 DEF CountSuccess, Bump
<1>4. ASSUME NEW c \in Calls, CountFailed(c) PROVE StatsInv'
  BY <1>0, <1>4 DEF CountFailed, TypeOK
<1>5. ASSUME NEW c \in Calls, StatsPanic(c) PROVE StatsInv'
  BY <1>0, <1>5 DEF StatsPanic, Panic, statVars
<1>6. CASE StatsGetState
  BY <1>0, <1>6 DEF StatsGetState, GetState, statVars
<1>7. CASE StatsReset
  BY <1>0, <1>7 DEF StatsReset, Reset, TypeOK
<1>8. CASE StatsTick
  BY <1>0, <1>8 DEF StatsTick, Tick, Elapsed, TypeOK
<1>9. CASE UNCHANGED allVars
  BY <1>0, <1>9 DEF allVars, statVars, vars
<1> QED
  BY <1>1, <1>2, <1>3, <1>4, <1>5, <1>6, <1>7, <1>8, <1>9 DEF StatsNext

LEMMA StatsInvHolds == StatsSpec => []StatsInv
BY StatsInitInv, StatsStepInv, PTL DEF StatsSpec

(***************************************************************************)
(* The breaker and its statistics keep their types.                        *)
(***************************************************************************)
THEOREM StatsTypeCorrect == StatsSpec => []StatsTypeOK
<1>1. StatsInv => StatsTypeOK
  BY DEF StatsInv
<1> QED BY StatsInvHolds, <1>1, PTL

(***************************************************************************)
(* Waiting until ResetAt is enough, unless a failure came in between.      *)
(***************************************************************************)
THEOREM ResetAtSuffices == StatsSpec => []ResetAtIsRight
<1>1. StatsInv => ResetAtIsRight
  BY DEF StatsInv, StatsTypeOK, ResetAtIsRight, Elapsed, Void, TypeOK
<1> QED BY StatsInvHolds, <1>1, PTL
-----------------------------------------------------------------------------
(***************************************************************************)
(* Every call that ends leaves Running, and takes one with it.             *)
(***************************************************************************)
LEMMA RunningFinite == IsFiniteSet(Running) /\ Cardinality(Running) \in Nat
<1>1. Running \subseteq Calls
  BY DEF Running
<1> QED BY <1>1, FS_Subset, FS_CardinalityType

LEMMA OneMoreRuns ==
  ASSUME TypeOK, NEW c \in Calls, Admit(c)
  PROVE  Cardinality(Running') = Cardinality(Running) + 1
<1>1. PICK how \in {"executeClosed", "executeHalfOpen"} : Enter(c, how)
  BY DEF Admit, OpenProbe, HalfOpenProbe, ClosedAdmit
<1>2. c \notin Running /\ Running' = Running \cup {c}
  BY <1>1 DEF Enter, Running, TypeOK
<1> QED BY <1>2, RunningFinite, FS_AddElement

LEMMA OneLessRuns ==
  ASSUME TypeOK, NEW c \in Calls, NEW how \in {"executeClosed", "executeHalfOpen"},
         Leave(c, how)
  PROVE  Cardinality(Running') = Cardinality(Running) - 1
<1>1. c \in Running /\ Running' = Running \ {c}
  BY DEF Leave, Running, TypeOK
<1> QED BY <1>1, RunningFinite, FS_RemoveElement

CountInv == StatsInv /\ StatsAddUp

LEMMA CountInit == StatsInit => CountInv
<1> SUFFICES ASSUME StatsInit PROVE CountInv
  OBVIOUS
<1>1. Running = {}
  BY DEF StatsInit, Init, Running
<1>2. Cardinality(Running) = 0
  BY <1>1, FS_EmptySet
<1> QED BY <1>2, StatsInitInv DEF CountInv, StatsAddUp, StatsInit, Init

LEMMA CountStep ==
  ASSUME ~MayReset
  PROVE  CountInv /\ [StatsNext]_allVars => CountInv'
<1> SUFFICES ASSUME CountInv, [StatsNext]_allVars PROVE CountInv'
  OBVIOUS
<1>0. StatsInv' /\ TypeOK /\ StatsTypeOK
  BY StatsStepInv DEF CountInv, StatsInv, StatsTypeOK
<1>n. /\ failureCount \in Nat /\ failureCount' \in Nat
      /\ totalRequests \in Nat /\ successCount \in Nat
      /\ Cardinality(Running) \in Nat
  BY <1>0, RunningFinite DEF StatsInv, TypeOK, StatsTypeOK
<1> USE DEF CountInv
<1>1. ASSUME NEW c \in Calls, CountAdmitted(c) PROVE StatsAddUp'
  <2>1. Cardinality(Running)' = Cardinality(Running) + 1
    BY <1>0, <1>1, OneMoreRuns DEF CountAdmitted
  <2>2. UNCHANGED <<failureCount, successCount>>
    BY <1>1 DEF CountAdmitted, Admit, OpenProbe, HalfOpenProbe, ClosedAdmit
  <2> QED BY <1>n, <1>1, <2>1, <2>2 DEF CountAdmitted, Bump, StatsAddUp
<1>2. ASSUME NEW c \in Calls, CountRejected(c) PROVE StatsAddUp'
  <2>1. UNCHANGED <<failureCount, successCount, call>>
    BY <1>2 DEF CountRejected, Reject, OpenReject, HalfOpenReject, vars
  <2>2. Running' = Running
    BY <2>1 DEF Running
  <2> QED BY <1>n, <1>2, <2>1, <2>2 DEF CountRejected, Bump, StatsAddUp
<1>3. ASSUME NEW c \in Calls, CountSuccess(c) PROVE StatsAddUp'
  <2>1. Cardinality(Running)' = Cardinality(Running) - 1 /\ failureCount' = 0
    BY <1>0, <1>3, OneLessRuns DEF CountSuccess, Succeed, ClosedSuccess, HalfOpenSuccess
  <2> QED BY <1>n, <1>3, <2>1 DEF CountSuccess, Bump, StatsAddUp
<1>4. ASSUME NEW c \in Calls, CountFailed(c) PROVE StatsAddUp'
  <2>1. Cardinality(Running)' = Cardinality(Running) - 1
    BY <1>0, <1>4, OneLessRuns DEF CountFailed, Fail, ClosedFailure, HalfOpenFailure
  <2>2. failureCount' <= failureCount + 1
    BY <1>n, <1>4 DEF CountFailed, Fail, ClosedFailure, HalfOpenFailure, CountFailure
  <2> QED BY <1>n, <1>4, <2>1, <2>2 DEF CountFailed, StatsAddUp
<1>5. ASSUME NEW c \in Calls, StatsPanic(c) PROVE StatsAddUp'
  <2>1. Cardinality(Running)' = Cardinality(Running) - 1
    BY <1>0, <1>5, OneLessRuns DEF StatsPanic, Panic
  <2> QED BY <1>n, <1>5, <2>1 DEF StatsPanic, Panic, statVars, StatsAddUp
<1>6. ASSUME UNCHANGED <<call, failureCount, totalRequests, successCount>>
      PROVE  StatsAddUp'
  <2>1. Running' = Running
    BY <1>6 DEF Running
  <2> QED BY <1>6, <2>1 DEF StatsAddUp
<1>7. StatsGetState => UNCHANGED <<call, failureCount, totalRequests, successCount>>
  BY DEF StatsGetState, GetState, statVars
<1>8. ~StatsReset
  BY DEF StatsReset, Reset
<1>9. ASSUME StatsTick PROVE StatsAddUp'
  <2>1. Running' = Running
    BY <1>9 DEF StatsTick, Tick, Running
  <2> QED BY <2>1, <1>9 DEF StatsTick, Tick, StatsAddUp
<1>10. UNCHANGED allVars => UNCHANGED <<call, failureCount, totalRequests, successCount>>
  BY DEF allVars, statVars, vars
<1>11. StatsAddUp'
  BY <1>1, <1>2, <1>3, <1>4, <1>5, <1>6, <1>7, <1>8, <1>9, <1>10 DEF StatsNext
<1> QED
  BY <1>0, <1>11

(***************************************************************************)
(* With nobody calling Reset, GetStats adds up at any moment.              *)
(***************************************************************************)
THEOREM StatisticsAddUp ==
  ASSUME ~MayReset
  PROVE  StatsSpec => []StatsAddUp
<1>1. CountInv /\ [StatsNext]_allVars => CountInv'
  BY CountStep
<1>2. CountInv => StatsAddUp
  BY DEF CountInv
<1> QED BY CountInit, <1>1, <1>2, PTL DEF StatsSpec
=============================================================================
