------------------------ MODULE CircuitBreakerProofs ------------------------
(***************************************************************************)
(* Theorems about CircuitBreaker, for any set of goroutines and any        *)
(* configuration.                                                          *)
(***************************************************************************)
EXTENDS CircuitBreaker, FiniteSetTheorems, TLAPS

USE CallsAssumption, ConfigAssumption

(***************************************************************************)
(* The breaker's variables keep their types: the counters stay in range    *)
(* and no call gets older than its timeout.                                *)
(***************************************************************************)
LEMMA InitTypeOK == Init => TypeOK
  BY DEF Init, TypeOK

LEMMA NextTypeOK == TypeOK /\ [Next]_vars => TypeOK'
<1> SUFFICES ASSUME TypeOK, [Next]_vars PROVE TypeOK'
  OBVIOUS
<1> USE DEF TypeOK
<1>1. ASSUME NEW c \in Calls, Execute(c) PROVE TypeOK'
  BY <1>1 DEF Execute, Admit, Reject, OpenProbe, HalfOpenProbe, ClosedAdmit,
              OpenReject, HalfOpenReject, Enter, vars
<1>2. ASSUME NEW c \in Calls, Succeed(c) PROVE TypeOK'
  BY <1>2 DEF Succeed, ClosedSuccess, HalfOpenSuccess, Leave
<1>3. ASSUME NEW c \in Calls, Fail(c) PROVE TypeOK'
  <2>1. CountFailure(failureCount) \in 0 .. FailureThreshold
    BY DEF CountFailure
  <2>2. CASE ClosedFailure(c)
    BY <2>1, <2>2 DEF ClosedFailure, Leave
  <2>3. CASE HalfOpenFailure(c)
    BY <2>1, <2>3 DEF HalfOpenFailure, Leave
  <2> QED BY <1>3, <2>2, <2>3 DEF Fail
<1>4. ASSUME NEW c \in Calls, Panic(c) PROVE TypeOK'
  BY <1>4 DEF Panic, Leave
<1>5. CASE GetState
  BY <1>5 DEF GetState
<1>6. CASE Reset
  BY <1>6 DEF Reset
<1>7. CASE Tick
  BY <1>7 DEF Tick, Elapsed, Running
<1>8. CASE UNCHANGED vars
  BY <1>8 DEF vars
<1> QED
  BY <1>1, <1>2, <1>3, <1>4, <1>5, <1>6, <1>7, <1>8 DEF Next, CallStep, Settle

(***************************************************************************)
(* The breaker's variables keep their types, whatever calls, results,      *)
(* panics, resets and ticks come in which order.                           *)
(***************************************************************************)
THEOREM TypeCorrect == Spec => []TypeOK
  BY InitTypeOK, NextTypeOK, PTL DEF Spec
-----------------------------------------------------------------------------
(***************************************************************************)
(* A half-open circuit is never stuck when probes do not panic.  The       *)
(* attempts that are claimed are those of probes still running: the first  *)
(* result of a probe ends the half-open state, and only GetState enters it *)
(* with no probe, and then with no attempt claimed.                        *)
(***************************************************************************)
ClaimsAreProbes == state = "HALF_OPEN" => halfOpenAttempts = 0 \/ Probes # {}

LEMMA ClaimsAreProbesInductive ==
  ASSUME ~MayPanic
  PROVE  TypeOK /\ ClaimsAreProbes /\ [Next]_vars => ClaimsAreProbes'
<1> SUFFICES ASSUME TypeOK, ClaimsAreProbes, [Next]_vars PROVE ClaimsAreProbes'
  OBVIOUS
<1> USE DEF TypeOK, ClaimsAreProbes, Probes
<1>1. ASSUME NEW c \in Calls, Execute(c) PROVE ClaimsAreProbes'
  BY <1>1 DEF Execute, Admit, Reject, OpenProbe, HalfOpenProbe, ClosedAdmit,
              OpenReject, HalfOpenReject, Enter, vars
<1>2. ASSUME NEW c \in Calls, ClosedSuccess(c) PROVE ClaimsAreProbes'
  BY <1>2 DEF ClosedSuccess, Leave
<1>3. ASSUME NEW c \in Calls, ClosedFailure(c) PROVE ClaimsAreProbes'
  BY <1>3 DEF ClosedFailure, Leave
<1>4. ASSUME NEW c \in Calls, HalfOpenSuccess(c) \/ HalfOpenFailure(c)
      PROVE  ClaimsAreProbes'
  BY <1>4 DEF HalfOpenSuccess, HalfOpenFailure
<1>5. ASSUME NEW c \in Calls, Panic(c) PROVE ClaimsAreProbes'
  BY <1>5 DEF Panic
<1>6. CASE GetState
  BY <1>6 DEF GetState
<1>7. CASE Reset
  BY <1>7 DEF Reset
<1>8. CASE Tick
  BY <1>8 DEF Tick
<1>9. CASE UNCHANGED vars
  BY <1>9 DEF vars
<1> QED
  BY <1>1, <1>2, <1>3, <1>4, <1>5, <1>6, <1>7, <1>8, <1>9
  DEF Next, CallStep, Settle, Succeed, Fail

(***************************************************************************)
(* If fn does not panic and HalfOpenRequests is positive, Execute either   *)
(* admits a probe in the half-open state or a probe is running whose       *)
(* result will end that state.                                             *)
(***************************************************************************)
THEOREM HalfOpenNeverStuck ==
  ASSUME ~MayPanic, HalfOpenRequests > 0
  PROVE  Spec => []HalfOpenCanMove
<1>1. Init => ClaimsAreProbes
  BY DEF Init, ClaimsAreProbes
<1>2. ClaimsAreProbes => HalfOpenCanMove
  BY DEF ClaimsAreProbes, HalfOpenCanMove
<1>3. TypeOK /\ ClaimsAreProbes /\ [Next]_vars => ClaimsAreProbes'
  BY ClaimsAreProbesInductive
<1> QED
  BY <1>1, <1>2, <1>3, TypeCorrect, PTL DEF Spec
-----------------------------------------------------------------------------
(***************************************************************************)
(* When calls time out before the circuit can turn half-open, no call      *)
(* survives from one half-open period to the next.  The argument: a call   *)
(* running in an open circuit is at least as old as the open period        *)
(* (Stragglers), so at its end everybody has left, and a half-open period  *)
(* starts with nobody running and admits only the probes it counts         *)
(* (ProbesCounted).                                                        *)
(***************************************************************************)
Stragglers == state = "OPEN" => \A c \in Running : openAge <= age[c]

ProbesCounted ==
  state = "HALF_OPEN" =>
    /\ Running = Probes
    /\ Cardinality(Probes) <= halfOpenAttempts
    /\ halfOpenAttempts <= MaxProbes

DrainInv == TypeOK /\ Stragglers /\ ProbesCounted /\ ProbeLimit

LEMMA MaxProbesType == MaxProbes \in Nat /\ MaxProbes >= 1 /\ MaxProbes >= HalfOpenRequests
  BY DEF MaxProbes

\* What admissions and departures do to the set of probes.
LEMMA ProbesFinite == IsFiniteSet(Probes) /\ Cardinality(Probes) \in Nat
<1>1. Probes \subseteq Calls
  BY DEF Probes
<1> QED BY <1>1, FS_Subset, FS_CardinalityType

LEMMA ProbesFinite2 == IsFiniteSet(Probes') /\ Cardinality(Probes') \in Nat
<1>1. Probes' \subseteq Calls
  BY DEF Probes
<1> QED BY <1>1, FS_Subset, FS_CardinalityType

LEMMA FewerProbes ==
  ASSUME Probes' \subseteq Probes
  PROVE  Cardinality(Probes') <= Cardinality(Probes)
  BY ProbesFinite, FS_Subset

LEMMA ProbeEnters ==
  ASSUME TypeOK, NEW c \in Calls, Enter(c, "executeHalfOpen")
  PROVE  /\ Probes' = Probes \cup {c}
         /\ Running' = Running \cup {c}
         /\ Cardinality(Probes') = Cardinality(Probes) + 1
<1>1. Probes' = Probes \cup {c}
  BY DEF Enter, Probes, TypeOK
<1>2. Running' = Running \cup {c}
  BY DEF Enter, Running, TypeOK
<1>3. c \notin Probes
  BY DEF Enter, Probes
<1> QED BY <1>1, <1>2, <1>3, ProbesFinite, FS_AddElement

LEMMA ClosedEnters ==
  ASSUME TypeOK, NEW c \in Calls, Enter(c, "executeClosed")
  PROVE  Probes' = Probes
  BY DEF Enter, Probes, TypeOK

LEMMA CallLeaves ==
  ASSUME TypeOK, NEW c \in Calls, NEW how \in {"executeClosed", "executeHalfOpen"},
         Leave(c, how)
  PROVE  /\ Running' = Running \ {c}
         /\ Probes' = Probes \ {c}
         /\ \A d \in Running' : age'[d] = age[d]
         /\ Cardinality(Probes') <= Cardinality(Probes)
<1>1. Running' = Running \ {c}
  BY DEF Leave, Running, TypeOK
<1>2. Probes' = Probes \ {c}
  BY DEF Leave, Probes, TypeOK
<1>3. \A d \in Running' : age'[d] = age[d]
  BY <1>1 DEF Leave, Running, TypeOK
<1> QED BY <1>1, <1>2, <1>3, FewerProbes

LEMMA NobodyWhenElapsed ==
  ASSUME Timeout < ResetTimeout, TypeOK, Stragglers, state = "OPEN", openAge > Timeout
  PROVE  Running = {} /\ Probes = {} /\ Cardinality(Probes) = 0
<1>1. Running = {}
  BY DEF Stragglers, Running, TypeOK
<1>2. Probes = {}
  BY <1>1 DEF Running, Probes
<1> QED BY <1>1, <1>2, FS_EmptySet

LEMMA DrainInvInductive ==
  ASSUME Timeout < ResetTimeout
  PROVE  DrainInv /\ [Next]_vars => DrainInv'
<1> SUFFICES ASSUME DrainInv, [Next]_vars PROVE DrainInv'
  OBVIOUS
<1> USE DEF DrainInv
<1>t. TypeOK'
  BY NextTypeOK
<1>a. ASSUME NEW c \in Calls, OpenProbe(c) PROVE DrainInv'
  <2>1. openAge > Timeout /\ state = "OPEN" /\ state' = "HALF_OPEN" /\ halfOpenAttempts' = 1
    BY <1>a DEF OpenProbe, Elapsed, TypeOK
  <2>2. Running = {} /\ Probes = {} /\ Cardinality(Probes) = 0
    BY <2>1, NobodyWhenElapsed
  <2>3. Running' = {c} /\ Probes' = {c} /\ Cardinality(Probes') = 1
    BY <1>a, <2>2, ProbeEnters DEF OpenProbe
  <2> QED BY <1>t, <2>1, <2>3, MaxProbesType DEF Stragglers, ProbesCounted, ProbeLimit, MaxProbes
<1>b. ASSUME NEW c \in Calls, HalfOpenProbe(c) PROVE DrainInv'
  <2>1. /\ state = "HALF_OPEN" /\ state' = "HALF_OPEN"
        /\ halfOpenAttempts < HalfOpenRequests
        /\ halfOpenAttempts' = halfOpenAttempts + 1
    BY <1>b DEF HalfOpenProbe
  <2>2. /\ Probes' = Probes \cup {c}
        /\ Running' = Running \cup {c}
        /\ Cardinality(Probes') = Cardinality(Probes) + 1
    BY <1>b, ProbeEnters DEF HalfOpenProbe
  <2>3. Running = Probes /\ Cardinality(Probes) <= halfOpenAttempts
    BY <2>1 DEF ProbesCounted
  <2>4. /\ Cardinality(Probes') <= halfOpenAttempts'
        /\ halfOpenAttempts' <= MaxProbes
        /\ Cardinality(Probes') <= MaxProbes
    BY <2>1, <2>2, <2>3, MaxProbesType, ProbesFinite DEF TypeOK
  <2>5. ProbeLimit'
    BY <2>4 DEF ProbeLimit, MaxProbes
  <2>6. ProbesCounted'
    BY <2>1, <2>2, <2>3, <2>4 DEF ProbesCounted, MaxProbes
  <2> QED BY <1>t, <2>1, <2>5, <2>6 DEF Stragglers
<1>c. ASSUME NEW c \in Calls, ClosedAdmit(c) PROVE DrainInv'
  <2>1. state' = "CLOSED" /\ Probes' = Probes
    BY <1>c, ClosedEnters DEF ClosedAdmit
  <2> QED BY <1>t, <2>1 DEF Stragglers, ProbesCounted, ProbeLimit, MaxProbes
<1>d. ASSUME NEW c \in Calls, Reject(c) PROVE DrainInv'
  BY <1>t, <1>d DEF Reject, OpenReject, HalfOpenReject, vars, Stragglers, ProbesCounted,
                    ProbeLimit, MaxProbes, Running, Probes
<1>e. ASSUME NEW c \in Calls, ClosedSuccess(c) \/ Panic(c) PROVE DrainInv'
  <2>1. PICK how \in {"executeClosed", "executeHalfOpen"} : Leave(c, how)
    BY <1>e DEF ClosedSuccess, Panic
  <2>2. UNCHANGED <<state, halfOpenAttempts, openAge>>
    BY <1>e DEF ClosedSuccess, Panic
  <2>3. /\ Running' = Running \ {c}
        /\ Probes' = Probes \ {c}
        /\ \A d \in Running' : age'[d] = age[d]
        /\ Cardinality(Probes') <= Cardinality(Probes)
    BY <2>1, CallLeaves
  <2>4. Stragglers'
    BY <2>2, <2>3 DEF Stragglers
  <2>5. ProbesCounted'
    BY <2>2, <2>3, ProbesFinite, ProbesFinite2, MaxProbesType DEF ProbesCounted, MaxProbes, TypeOK
  <2>6. ProbeLimit'
    BY <2>3, ProbesFinite, ProbesFinite2, MaxProbesType DEF ProbeLimit, MaxProbes
  <2> QED BY <1>t, <2>4, <2>5, <2>6
<1>f. ASSUME NEW c \in Calls, ClosedFailure(c) PROVE DrainInv'
  <2>1. Leave(c, "executeClosed") /\ halfOpenAttempts' = halfOpenAttempts
    BY <1>f DEF ClosedFailure
  <2>2. \/ UNCHANGED <<state, openAge>>
        \/ state' = "OPEN" /\ openAge' = 0
    BY <1>f DEF ClosedFailure
  <2>3. /\ Running' = Running \ {c}
        /\ Probes' = Probes \ {c}
        /\ \A d \in Running' : age'[d] = age[d]
        /\ Cardinality(Probes') <= Cardinality(Probes)
    BY <2>1, CallLeaves
  <2>4. Stragglers'
    <3>1. \A d \in Running' : age'[d] \in Nat
      BY <1>t DEF TypeOK, Running
    <3> QED BY <2>2, <2>3, <3>1 DEF Stragglers
  <2>5. ProbesCounted'
    BY <2>1, <2>2, <2>3, ProbesFinite, ProbesFinite2, MaxProbesType DEF ProbesCounted, MaxProbes, TypeOK
  <2>6. ProbeLimit'
    BY <2>3, ProbesFinite, ProbesFinite2, MaxProbesType DEF ProbeLimit, MaxProbes
  <2> QED BY <1>t, <2>4, <2>5, <2>6
<1>g. ASSUME NEW c \in Calls, HalfOpenSuccess(c) \/ HalfOpenFailure(c) PROVE DrainInv'
  <2>1. Leave(c, "executeHalfOpen") /\ (state' = "CLOSED" \/ (state' = "OPEN" /\ openAge' = 0))
    BY <1>g DEF HalfOpenSuccess, HalfOpenFailure
  <2>2. Cardinality(Probes') <= Cardinality(Probes)
    BY <2>1, CallLeaves
  <2>3. \A d \in Running' : age'[d] \in Nat
    BY <1>t DEF TypeOK, Running
  <2>4. ProbeLimit'
    BY <2>2, ProbesFinite, ProbesFinite2, MaxProbesType DEF ProbeLimit, MaxProbes
  <2> QED BY <1>t, <2>1, <2>3, <2>4 DEF Stragglers, ProbesCounted
<1>h. CASE GetState
  <2>1. openAge > Timeout /\ state = "OPEN" /\ state' = "HALF_OPEN" /\ halfOpenAttempts' = 0
    BY <1>h DEF GetState, Elapsed, TypeOK
  <2>2. Running = {} /\ Probes = {} /\ Cardinality(Probes) = 0
    BY <2>1, NobodyWhenElapsed
  <2>3. Running' = Running /\ Probes' = Probes
    BY <1>h DEF GetState, Running, Probes
  <2> QED BY <1>t, <2>1, <2>2, <2>3, MaxProbesType DEF Stragglers, ProbesCounted, ProbeLimit, MaxProbes
<1>i. CASE Reset
  BY <1>t, <1>i DEF Reset, Stragglers, ProbesCounted, ProbeLimit, MaxProbes, Probes
<1>j. CASE Tick
  <2>1. UNCHANGED <<state, halfOpenAttempts, call>>
    BY <1>j DEF Tick
  <2>2. Running' = Running /\ Probes' = Probes
    BY <2>1 DEF Running, Probes
  <2>3. Stragglers'
    <3>1. CASE Elapsed /\ state = "OPEN"
      <4>1. openAge > Timeout
        BY <3>1 DEF Elapsed, TypeOK
      <4>2. Running' = {}
        BY <2>2, <3>1, <4>1, NobodyWhenElapsed
      <4> QED BY <4>2 DEF Stragglers
    <3>2. CASE ~Elapsed
      <4>1. openAge' = openAge + 1 /\ \A c \in Running : age'[c] = age[c] + 1
        BY <1>j, <3>2 DEF Tick, Running
      <4>2. \A c \in Running : age[c] \in Nat /\ openAge \in Nat
        BY DEF Running, TypeOK
      <4> QED BY <2>1, <2>2, <4>1, <4>2 DEF Stragglers
    <3> QED BY <2>1, <3>1, <3>2 DEF Stragglers
  <2> QED BY <1>t, <2>1, <2>2, <2>3 DEF ProbesCounted, ProbeLimit, MaxProbes
<1>k. CASE UNCHANGED vars
  BY <1>t, <1>k DEF vars, Stragglers, ProbesCounted, ProbeLimit, MaxProbes, Running, Probes
<1> QED
  BY <1>a, <1>b, <1>c, <1>d, <1>e, <1>f, <1>g, <1>h, <1>i, <1>j, <1>k
  DEF Next, CallStep, Execute, Admit, Settle, Succeed, Fail

LEMMA DrainInvInit == Init => DrainInv
<1> SUFFICES ASSUME Init PROVE DrainInv
  OBVIOUS
<1>1. Probes = {}
  BY DEF Init, Probes
<1>2. Cardinality(Probes) = 0
  BY <1>1, FS_EmptySet
<1> QED
  BY <1>2, InitTypeOK, MaxProbesType DEF Init, DrainInv, Stragglers, ProbesCounted, ProbeLimit

LEMMA DrainInvHolds ==
  ASSUME Timeout < ResetTimeout
  PROVE  Spec => []DrainInv
<1>1. DrainInv /\ [Next]_vars => DrainInv'
  BY DrainInvInductive
<1> QED BY <1>1, DrainInvInit, PTL DEF Spec

(***************************************************************************)
(* With Timeout < ResetTimeout there are never more than HalfOpenRequests  *)
(* probes in flight (one, if that option is 0), with or without panics,    *)
(* calls of GetState and resets.                                           *)
(***************************************************************************)
THEOREM ProbesAreLimited ==
  ASSUME Timeout < ResetTimeout
  PROVE  Spec => []ProbeLimit
<1>1. DrainInv => ProbeLimit
  BY DEF DrainInv
<1> QED BY <1>1, DrainInvHolds, PTL

(***************************************************************************)
(* With Timeout < ResetTimeout a call from before the circuit tripped does *)
(* not decide a half-open period.                                          *)
(***************************************************************************)
THEOREM OnlyProbesDecide ==
  ASSUME Timeout < ResetTimeout
  PROVE  Spec => []ProbesDecide
<1>1. DrainInv => ProbesDecide
  BY DEF DrainInv, ProbesCounted, ProbesDecide
<1> QED BY <1>1, DrainInvHolds, PTL

(***************************************************************************)
(* With Timeout < ResetTimeout an open circuit keeps the service free of   *)
(* the client's calls from Timeout after it opened.                        *)
(***************************************************************************)
THEOREM OpenCircuitShields ==
  ASSUME Timeout < ResetTimeout
  PROVE  Spec => []OpenShields
<1>1. DrainInv => OpenShields
  BY NobodyWhenElapsed DEF DrainInv, OpenShields
<1> QED BY <1>1, DrainInvHolds, PTL
-----------------------------------------------------------------------------
(***************************************************************************)
(* With a single probe (and no Reset) a probe never outlives its half-open *)
(* period: its own result is what ends the period.                         *)
(***************************************************************************)
SingleProbeInv == DrainInv /\ (state # "HALF_OPEN" => Probes = {})

LEMMA PairCardinality ==
  ASSUME NEW c, NEW d, d # c
  PROVE  Cardinality({c, d}) = 2
<1>1. IsFiniteSet({c}) /\ Cardinality({c}) = 1
  BY FS_Singleton
<1>2. Cardinality({c} \cup {d}) = Cardinality({c}) + 1
  <2>1. d \notin {c}
    OBVIOUS
  <2>2. Cardinality({c} \cup {d}) = IF d \in {c} THEN Cardinality({c}) ELSE Cardinality({c}) + 1
    BY <1>1, FS_AddElement, Zenon
  <2> QED BY <2>1, <2>2, Zenon
<1>3. {c} \cup {d} = {c, d}
  OBVIOUS
<1> QED BY <1>1, <1>2, <1>3

LEMMA OnlyProbe ==
  ASSUME HalfOpenRequests <= 1, DrainInv, NEW c \in Probes
  PROVE  Probes = {c}
<1>1. Cardinality(Probes) <= 1
  BY DEF DrainInv, ProbeLimit, MaxProbes
<1>2. SUFFICES ASSUME NEW d \in Probes, d # c PROVE FALSE
  OBVIOUS
<1>3. Cardinality({c, d}) = 2
  BY <1>2, PairCardinality
<1>4. {c, d} \subseteq Probes
  BY <1>2
<1>5. Cardinality({c, d}) <= Cardinality(Probes)
  BY <1>4, ProbesFinite, FS_Subset
<1> QED BY <1>1, <1>3, <1>5, ProbesFinite

LEMMA SingleProbeInvInductive ==
  ASSUME Timeout < ResetTimeout, HalfOpenRequests <= 1, ~MayReset
  PROVE  SingleProbeInv /\ [Next]_vars => SingleProbeInv'
<1> SUFFICES ASSUME SingleProbeInv, [Next]_vars PROVE SingleProbeInv'
  OBVIOUS
<1>t. DrainInv' /\ DrainInv /\ TypeOK
  BY DrainInvInductive DEF SingleProbeInv, DrainInv
<1>a. ASSUME NEW c \in Calls, OpenProbe(c) \/ HalfOpenProbe(c) PROVE SingleProbeInv'
  BY <1>t, <1>a DEF OpenProbe, HalfOpenProbe, SingleProbeInv
<1>b. ASSUME NEW c \in Calls, ClosedAdmit(c) PROVE SingleProbeInv'
  BY <1>t, <1>b, ClosedEnters DEF ClosedAdmit, SingleProbeInv
<1>c. ASSUME NEW c \in Calls, Reject(c) PROVE SingleProbeInv'
  BY <1>t, <1>c DEF Reject, OpenReject, HalfOpenReject, vars, SingleProbeInv, Probes
<1>d. ASSUME NEW c \in Calls, ClosedSuccess(c) \/ ClosedFailure(c) \/ Panic(c)
      PROVE  SingleProbeInv'
  <2>1. PICK how \in {"executeClosed", "executeHalfOpen"} : Leave(c, how)
    BY <1>d DEF ClosedSuccess, ClosedFailure, Panic
  <2>2. Probes' = Probes \ {c}
    BY <1>t, <2>1, CallLeaves
  <2>3. CASE state # "HALF_OPEN"
    BY <1>t, <2>2, <2>3 DEF SingleProbeInv
  <2>4. CASE state = "HALF_OPEN"
    <3>1. ~ClosedSuccess(c) /\ ~ClosedFailure(c)
      BY <1>t, <2>4 DEF ClosedSuccess, ClosedFailure, Leave, DrainInv, ProbesCounted,
                        Running, Probes
    <3>2. state' = "HALF_OPEN"
      BY <1>d, <2>4, <3>1 DEF Panic
    <3> QED BY <1>t, <3>2 DEF SingleProbeInv
  <2> QED BY <2>3, <2>4
<1>e. ASSUME NEW c \in Calls, HalfOpenSuccess(c) \/ HalfOpenFailure(c) PROVE SingleProbeInv'
  <2>1. Leave(c, "executeHalfOpen")
    BY <1>e DEF HalfOpenSuccess, HalfOpenFailure
  <2>2. Probes' = Probes \ {c}
    BY <1>t, <2>1, CallLeaves
  <2>3. c \in Probes
    BY <2>1 DEF Leave, Probes
  <2>4. Probes = {c}
    BY <1>t, <2>3, OnlyProbe
  <2> QED BY <1>t, <2>2, <2>4 DEF SingleProbeInv
<1>f. CASE GetState
  BY <1>t, <1>f DEF GetState, SingleProbeInv
<1>g. CASE Tick
  BY <1>t, <1>g DEF Tick, SingleProbeInv, Probes
<1>h. CASE UNCHANGED vars
  BY <1>t, <1>h DEF vars, SingleProbeInv, Probes
<1> QED
  BY <1>a, <1>b, <1>c, <1>d, <1>e, <1>f, <1>g, <1>h
  DEF Next, CallStep, Execute, Admit, Settle, Succeed, Fail, Reset

\* What a step out of a state with no probe left over can do.
LEMMA SingleProbeStep ==
  ASSUME HalfOpenRequests <= 1, ~MayReset, SingleProbeInv, [Next]_vars
  PROVE  /\ state = "OPEN" /\ state' # "OPEN" => Elapsed
         /\ state = "CLOSED" /\ state' = "OPEN" => failureCount' >= FailureThreshold
<1>1. CASE state = "HALF_OPEN"
  BY <1>1
<1>2. CASE state # "HALF_OPEN"
  <2>1. ASSUME NEW c \in Calls PROVE ~HalfOpenSuccess(c) /\ ~HalfOpenFailure(c)
    BY <1>2 DEF SingleProbeInv, HalfOpenSuccess, HalfOpenFailure, Leave, Probes
  <2> QED
    BY <1>2, <2>1
    DEF Next, CallStep, Execute, Admit, Reject, Settle, Succeed, Fail, OpenProbe,
        HalfOpenProbe, ClosedAdmit, OpenReject, HalfOpenReject, ClosedSuccess,
        ClosedFailure, Panic, GetState, Reset, Tick, vars
<1> QED BY <1>1, <1>2

LEMMA SingleProbeInvHolds ==
  ASSUME Timeout < ResetTimeout, HalfOpenRequests <= 1, ~MayReset
  PROVE  Spec => []SingleProbeInv
<1>1. Init => SingleProbeInv
  BY DrainInvInit DEF SingleProbeInv, Init, Probes
<1>2. SingleProbeInv /\ [Next]_vars => SingleProbeInv'
  BY SingleProbeInvInductive
<1> QED BY <1>1, <1>2, PTL DEF Spec

(***************************************************************************)
(* With Timeout < ResetTimeout and HalfOpenRequests = 1 the circuit stays  *)
(* open for ResetTimeout.                                                  *)
(***************************************************************************)
THEOREM OpenForResetTimeout ==
  ASSUME Timeout < ResetTimeout, HalfOpenRequests <= 1, ~MayReset
  PROVE  Spec => OpenHolds
<1>1. SingleProbeInv /\ [Next]_vars => [state = "OPEN" /\ state' # "OPEN" => Elapsed]_vars
  BY SingleProbeStep
<1> QED BY <1>1, SingleProbeInvHolds, PTL DEF Spec, OpenHolds

(***************************************************************************)
(* With Timeout < ResetTimeout and HalfOpenRequests = 1 it takes           *)
(* FailureThreshold failures to open a closed circuit.                     *)
(***************************************************************************)
THEOREM OpensAtThreshold ==
  ASSUME Timeout < ResetTimeout, HalfOpenRequests <= 1, ~MayReset
  PROVE  Spec => TripsAtThreshold
<1>1. SingleProbeInv /\ [Next]_vars =>
        [state = "CLOSED" /\ state' = "OPEN" => failureCount' >= FailureThreshold]_vars
  BY SingleProbeStep
<1> QED BY <1>1, SingleProbeInvHolds, PTL DEF Spec, TripsAtThreshold
-----------------------------------------------------------------------------
(***************************************************************************)
(* With Timeout < ResetTimeout and HalfOpenRequests = 1 the breaker        *)
(* implements BreakerContract: results of calls are found in the state     *)
(* they belong to (SingleProbeInv for probes, ProbesCounted for the        *)
(* others).                                                                *)
(***************************************************************************)
LEMMA ContractStep ==
  ASSUME HalfOpenRequests <= 1, ~MayReset, SingleProbeInv, [Next]_vars
  PROVE  [Contract!Next]_(Contract!vars)
<1> USE DEF Contract!Next, Contract!vars
<1>1. ASSUME NEW c \in Calls, OpenProbe(c) PROVE Contract!ResetTimeoutOver
  BY <1>1 DEF OpenProbe, Elapsed, Contract!ResetTimeoutOver
<1>2. ASSUME NEW c \in Calls, HalfOpenProbe(c) \/ ClosedAdmit(c) \/ Reject(c) \/ Panic(c)
      PROVE  UNCHANGED Contract!vars
  BY <1>2 DEF HalfOpenProbe, ClosedAdmit, Reject, OpenReject, HalfOpenReject, Panic, vars
<1>3. ASSUME NEW c \in Calls, ClosedSuccess(c) \/ ClosedFailure(c)
      PROVE  Contract!Success \/ Contract!Failure
  <2>1. state # "HALF_OPEN"
    BY <1>3 DEF ClosedSuccess, ClosedFailure, Leave, SingleProbeInv, DrainInv,
                ProbesCounted, Running, Probes
  <2> QED
    BY <1>3, <2>1 DEF ClosedSuccess, ClosedFailure, CountFailure, Contract!Success,
                      Contract!Failure, Contract!OneMore, Contract!Open
<1>4. ASSUME NEW c \in Calls, HalfOpenSuccess(c) \/ HalfOpenFailure(c)
      PROVE  Contract!ProbeSucceeds \/ Contract!ProbeFails
  <2>1. state = "HALF_OPEN"
    BY <1>4 DEF HalfOpenSuccess, HalfOpenFailure, Leave, SingleProbeInv, Probes
  <2> QED
    BY <1>4, <2>1 DEF HalfOpenSuccess, HalfOpenFailure, CountFailure, Contract!ProbeSucceeds,
                      Contract!ProbeFails, Contract!OneMore, Contract!Open
<1>5. CASE GetState
  BY <1>5 DEF GetState, Elapsed, Contract!ResetTimeoutOver
<1>6. CASE Tick
  BY <1>6 DEF Tick, Elapsed, SingleProbeInv, DrainInv, TypeOK, Contract!TimePasses
<1>7. CASE UNCHANGED vars
  BY <1>7 DEF vars
<1> QED
  BY <1>1, <1>2, <1>3, <1>4, <1>5, <1>6, <1>7
  DEF Next, CallStep, Execute, Admit, Settle, Succeed, Fail, Reset

(***************************************************************************)
(* With Timeout < ResetTimeout, at most one probe and no Reset, Execute,   *)
(* GetState and the results of fn take the shared breaker only where the   *)
(* three-state machine of BreakerContract may go.                          *)
(***************************************************************************)
THEOREM BreakerMeetsContract ==
  ASSUME Timeout < ResetTimeout, HalfOpenRequests <= 1, ~MayReset
  PROVE  Spec => ThreeStates
<1>1. Init => Contract!Init
  BY DEF Init, Contract!Init
<1>2. SingleProbeInv /\ [Next]_vars => [Contract!Next]_(Contract!vars)
  BY ContractStep
<1> QED
  BY <1>1, <1>2, SingleProbeInvHolds, PTL DEF Spec, ThreeStates, Contract!Spec
=============================================================================
