---------------------------- MODULE RequestProofs ---------------------------
(***************************************************************************)
(* Theorems about Request, for any number of goroutines, any configuration *)
(* and any faults.                                                         *)
(***************************************************************************)
EXTENDS Request, TLAPS

LEMMA MaxRetriesType == MaxRetries \in Int
  BY RequestAssumption

LEMMA DelaysType == Delays \subseteq Nat
  BY RequestAssumption

Proofs == INSTANCE CircuitBreakerProofs WITH MayPanic <- FALSE, MayReset <- FALSE

(***************************************************************************)
(* Every step of a request is a step of the breaker, or leaves the breaker *)
(* alone.                                                                  *)
(***************************************************************************)
LEMMA StepRefines == [Next]_vars => [Breaker!Next]_(Breaker!vars)
<1> SUFFICES ASSUME [Next]_vars PROVE [Breaker!Next]_(Breaker!vars)
  OBVIOUS
<1> USE DEF Breaker!Next, Breaker!CallStep, Breaker!vars, breakerVars
<1>1. ASSUME NEW c \in Calls, Attempt(c) PROVE Breaker!Next
  BY <1>1 DEF Attempt, Send, Rejected, Breaker!Execute
<1>2. ASSUME NEW c \in Calls, Succeeds(c) \/ Redirected(c) PROVE Breaker!Next
  BY <1>2 DEF Succeeds, Redirected, Breaker!Settle
<1>3. ASSUME NEW c \in Calls, Transient(c) \/ Unauthorized(c) \/ BadRequest(c)
      PROVE  Breaker!Next
  BY <1>3 DEF Transient, Unauthorized, BadRequest, Breaker!Settle
<1>4. ASSUME NEW c \in Calls, Start(c) \/ Accept(c) \/ Backoff(c) \/ Late(c) \/ Cancel(c)
      PROVE  UNCHANGED breakerVars
  BY <1>4 DEF Start, Accept, Backoff, TimerFires, BackoffCancelled, Late, Cancel
<1>5. ASSUME Outage \/ Revoke PROVE UNCHANGED breakerVars
  BY <1>5 DEF Outage, Revoke
<1>6. CASE Tick
  BY <1>6 DEF Tick
<1>7. CASE UNCHANGED vars
  BY <1>7 DEF vars
<1> QED
  BY <1>1, <1>2, <1>3, <1>4, <1>5, <1>6, <1>7 DEF Next, Answer

(***************************************************************************)
(* retryFn, WithRetry and doRequestFull use the breaker through Execute    *)
(* alone, so that what is proved of a breaker holds of the one they share. *)
(***************************************************************************)
THEOREM BreakerRefined == Spec => BreakerSpec
<1>1. Init => Breaker!Init
  BY DEF Init
<1> QED
  BY <1>1, StepRefines, PTL DEF Spec, BreakerSpec, Breaker!Spec

-----------------------------------------------------------------------------
(***************************************************************************)
(* What CircuitBreakerProofs proves of a breaker holds of the breaker the  *)
(* requests share.                                                         *)
(***************************************************************************)
LEMMA BreakerConfigured == Proofs!CallsAssumption /\ Proofs!ConfigAssumption
  BY RequestAssumption
  DEF Proofs!CallsAssumption, Proofs!ConfigAssumption, Proofs!IsFiniteSet, IsFiniteSet

LEMMA SameNext == [Breaker!Next]_(Breaker!vars) => [Proofs!Next]_(Proofs!vars)
  BY DEF Proofs!Next, Proofs!CallStep, Proofs!Execute, Proofs!Admit,
      Proofs!Reject, Proofs!OpenProbe, Proofs!OpenReject,
      Proofs!HalfOpenProbe, Proofs!HalfOpenReject, Proofs!ClosedAdmit,
      Proofs!Enter, Proofs!Leave, Proofs!Settle, Proofs!Succeed,
      Proofs!Fail, Proofs!ClosedSuccess, Proofs!ClosedFailure,
      Proofs!HalfOpenSuccess, Proofs!HalfOpenFailure,
      Proofs!CountFailure, Proofs!Panic, Proofs!GetState, Proofs!Reset,
      Proofs!Tick, Proofs!Elapsed, Proofs!Running, Proofs!vars,
      Breaker!Next, Breaker!CallStep, Breaker!Execute, Breaker!Admit,
      Breaker!Reject, Breaker!OpenProbe, Breaker!OpenReject,
      Breaker!HalfOpenProbe, Breaker!HalfOpenReject,
      Breaker!ClosedAdmit, Breaker!Enter, Breaker!Leave, Breaker!Settle,
      Breaker!Succeed, Breaker!Fail, Breaker!ClosedSuccess,
      Breaker!ClosedFailure, Breaker!HalfOpenSuccess,
      Breaker!HalfOpenFailure, Breaker!CountFailure, Breaker!Panic,
      Breaker!GetState, Breaker!Reset, Breaker!Tick, Breaker!Elapsed,
      Breaker!Running, Breaker!vars

LEMMA SpecMeetsBreaker == Spec => Proofs!Spec
<1>1. Init => Proofs!Init
  BY DEF Init, Breaker!Init, Proofs!Init
<1> QED
  BY <1>1, StepRefines, SameNext, PTL DEF Spec, Proofs!Spec

(***************************************************************************)
(* With Timeout < ResetTimeout the retries, rotations and cancellations of *)
(* all the requests of a client never bring more probes to the service     *)
(* than HalfOpenRequests.                                                  *)
(***************************************************************************)
THEOREM RequestsProbeInTurn ==
  ASSUME Timeout < ResetTimeout
  PROVE  Spec => []Breaker!ProbeLimit
<1>1. Proofs!Spec => []Proofs!ProbeLimit
  BY Proofs!ProbesAreLimited, BreakerConfigured
<1>2. Proofs!ProbeLimit => Breaker!ProbeLimit
  BY DEF Proofs!ProbeLimit, Breaker!ProbeLimit, Proofs!Probes, Breaker!Probes,
         Proofs!MaxProbes, Breaker!MaxProbes, Proofs!Cardinality, Breaker!Cardinality
<1> QED BY <1>1, <1>2, SpecMeetsBreaker, PTL

(***************************************************************************)
(* The requests of a client never leave its breaker half-open for good.    *)
(***************************************************************************)
THEOREM RequestsNeverStuckHalfOpen ==
  ASSUME HalfOpenRequests > 0
  PROVE  Spec => []Breaker!HalfOpenCanMove
<1>1. Proofs!Spec => []Proofs!HalfOpenCanMove
  BY Proofs!HalfOpenNeverStuck, BreakerConfigured
<1>2. Proofs!HalfOpenCanMove => Breaker!HalfOpenCanMove
  BY DEF Proofs!HalfOpenCanMove, Breaker!HalfOpenCanMove, Proofs!Probes, Breaker!Probes
<1> QED BY <1>1, <1>2, SpecMeetsBreaker, PTL

(***************************************************************************)
(* However the attempts of all requests interleave, an open breaker turns  *)
(* them away for ResetTimeout, and a closed one opens on FailureThreshold  *)
(* failures and no fewer.                                                  *)
(***************************************************************************)
THEOREM RequestsOpenAndTrip ==
  ASSUME Timeout < ResetTimeout, HalfOpenRequests <= 1
  PROVE  Spec => Breaker!OpenHolds /\ Breaker!TripsAtThreshold
<1>1. Proofs!Spec => Proofs!OpenHolds
  BY Proofs!OpenForResetTimeout, BreakerConfigured
<1>2. Proofs!Spec => Proofs!TripsAtThreshold
  BY Proofs!OpensAtThreshold, BreakerConfigured
<1>3. Proofs!OpenHolds => Breaker!OpenHolds
  BY DEF Proofs!OpenHolds, Breaker!OpenHolds, Proofs!Elapsed, Breaker!Elapsed,
         Proofs!vars, Breaker!vars
<1>4. Proofs!TripsAtThreshold => Breaker!TripsAtThreshold
  BY DEF Proofs!TripsAtThreshold, Breaker!TripsAtThreshold, Proofs!vars, Breaker!vars
<1> QED BY <1>1, <1>2, <1>3, <1>4, SpecMeetsBreaker, PTL
-----------------------------------------------------------------------------
(***************************************************************************)
(* The types of a request's variables.  HandleError is taken apart once:   *)
(* either the request goes to the backoff of its next attempt, or it       *)
(* returns the outcome.                                                    *)
(***************************************************************************)
LocalTypeOK ==
  /\ pc \in [Calls -> {"idle", "ready", "sent", "accepted", "backoff"}]
  /\ attempt \in [Calls -> Nat]
  /\ key \in [Calls -> Keys]
  /\ wait \in [Calls -> Nat]
  /\ result \in [Calls -> Outcomes]
  /\ valid \subseteq Keys
  /\ accepted \in [Calls -> Nat]
  /\ stray \in [Calls -> Nat]
  /\ lost \in [Calls -> Nat]
  /\ refused \in [Calls -> SUBSET Keys]

FlagsOK == cancelled \in [Calls -> BOOLEAN] /\ healthy \in BOOLEAN

LEMMA HandleErrorTypes ==
  ASSUME LocalTypeOK, NEW c \in Calls, NEW outcome \in Outcomes, HandleError(c, outcome)
  PROVE  /\ pc' \in [Calls -> {"idle", "ready", "sent", "accepted", "backoff"}]
         /\ attempt' \in [Calls -> Nat]
         /\ key' \in [Calls -> Keys]
         /\ wait' \in [Calls -> Nat]
         /\ result' \in [Calls -> Outcomes]
<1> USE DEF LocalTypeOK
<1>1. key' \in [Calls -> Keys]
  BY DEF HandleError, Keys
<1>2. CASE Retry(c)
  <2>1. PICK d \in Delays : wait' = [wait EXCEPT ![c] = d]
    BY <1>2 DEF Retry
  <2>2. wait' \in [Calls -> Nat]
    BY <2>1, DelaysType
  <2> QED BY <1>1, <1>2, <2>2 DEF Retry
<1>3. CASE GiveUp(c, outcome)
  BY <1>1, <1>3 DEF GiveUp, Return
<1> QED BY <1>2, <1>3 DEF HandleError

LEMMA FlagsInductive == FlagsOK /\ [Next]_vars => FlagsOK'
<1> SUFFICES ASSUME FlagsOK, [Next]_vars PROVE FlagsOK'
  OBVIOUS
<1> USE DEF FlagsOK
<1>1. ASSUME NEW c \in Calls, Start(c) \/ Cancel(c) PROVE FlagsOK'
  <2>1. \E b \in BOOLEAN : cancelled' = [cancelled EXCEPT ![c] = b]
    BY <1>1, Zenon DEF Start, Cancel
  <2>2. healthy' = healthy
    BY <1>1, Zenon DEF Start, Cancel, serviceVars
  <2> QED BY <2>1, <2>2, Zenon
<1>2. ASSUME NEW c \in Calls, Attempt(c) \/ Answer(c) \/ Backoff(c) \/ Late(c)
      PROVE  FlagsOK'
  BY <1>2 DEF Attempt, Send, Rejected, Answer, Accept, Succeeds, Redirected, Transient,
              Unauthorized, BadRequest, Backoff, TimerFires, BackoffCancelled, Late, serviceVars
<1>3. CASE Outage
  BY <1>3, Zenon DEF Outage
<1>4. CASE Revoke \/ Tick
  BY <1>4 DEF Revoke, Tick, serviceVars
<1>5. CASE UNCHANGED vars
  BY <1>5 DEF vars, serviceVars
<1> QED BY <1>1, <1>2, <1>3, <1>4, <1>5 DEF Next

LEMMA LocalTypeInductive == LocalTypeOK /\ [Next]_vars => LocalTypeOK'
<1> SUFFICES ASSUME LocalTypeOK, [Next]_vars PROVE LocalTypeOK'
  OBVIOUS
<1> USE DEF LocalTypeOK, loopVars, serviceVars, countVars
<1>1. ASSUME NEW c \in Calls, Start(c) PROVE LocalTypeOK'
  BY <1>1 DEF Start, Keys, Outcomes
<1>2. ASSUME NEW c \in Calls, Attempt(c) PROVE LocalTypeOK'
  BY <1>2 DEF Attempt, Send, Rejected, Return, Outcomes
<1>3. ASSUME NEW c \in Calls, Accept(c) PROVE LocalTypeOK'
  BY <1>3 DEF Accept
<1>4. ASSUME NEW c \in Calls, Succeeds(c) \/ Redirected(c) PROVE LocalTypeOK'
  BY <1>4 DEF Succeeds, Redirected, Return, Outcomes
<1>5. ASSUME NEW c \in Calls, Transient(c) PROVE LocalTypeOK'
  <2>1. "transient" \in Outcomes
    BY DEF Outcomes
  <2>2. stray' \in [Calls -> Nat] /\ lost' \in [Calls -> Nat]
    BY <1>5 DEF Transient
  <2>3. HandleError(c, "transient") /\ UNCHANGED <<valid, accepted, refused>>
    BY <1>5 DEF Transient
  <2> QED BY <2>1, <2>2, <2>3, HandleErrorTypes
<1>6. ASSUME NEW c \in Calls, Unauthorized(c) PROVE LocalTypeOK'
  <2>1. "auth" \in Outcomes
    BY DEF Outcomes
  <2>2. HandleError(c, "auth") /\ UNCHANGED <<valid, countVars>>
    BY <1>6 DEF Unauthorized
  <2>3. refused' \in [Calls -> SUBSET Keys]
    BY <1>6 DEF Unauthorized
  <2> QED BY <2>1, <2>2, <2>3, HandleErrorTypes
<1>7. ASSUME NEW c \in Calls, BadRequest(c) PROVE LocalTypeOK'
  <2>1. "fatal" \in Outcomes
    BY DEF Outcomes
  <2> QED BY <1>7, <2>1, HandleErrorTypes DEF BadRequest
<1>8. ASSUME NEW c \in Calls, Backoff(c) PROVE LocalTypeOK'
  BY <1>8 DEF Backoff, TimerFires, BackoffCancelled, Return, Outcomes
<1>9. ASSUME NEW c \in Calls, Late(c) \/ Cancel(c) PROVE LocalTypeOK'
  BY <1>9 DEF Late, Cancel
<1>10. CASE Outage
  BY <1>10 DEF Outage
<1>11. CASE Revoke
  BY <1>11 DEF Revoke
<1>12. CASE Tick
  BY <1>12 DEF Tick
<1>13. CASE UNCHANGED vars
  BY <1>13 DEF vars
<1> QED
  BY <1>1, <1>2, <1>3, <1>4, <1>5, <1>6, <1>7, <1>8, <1>9, <1>10, <1>11, <1>12, <1>13
  DEF Next, Answer

(***************************************************************************)
(* The variables of the requests, the service and their breaker keep their *)
(* types.                                                                  *)
(***************************************************************************)
THEOREM RequestTypeCorrect == Spec => []TypeOK
<1>1. Init => LocalTypeOK /\ FlagsOK
  <2>1. Init => LocalTypeOK
    BY DEF Init, LocalTypeOK, Keys, Outcomes
  <2>2. Init => FlagsOK
    BY Zenon DEF Init, FlagsOK
  <2> QED BY <2>1, <2>2
<1>2. Proofs!Spec => []Proofs!TypeOK
  BY Proofs!TypeCorrect, BreakerConfigured
<1>3. Proofs!TypeOK /\ LocalTypeOK /\ FlagsOK => TypeOK
  BY DEF Proofs!TypeOK, Breaker!TypeOK, LocalTypeOK, FlagsOK, TypeOK
<1> QED BY <1>1, <1>2, <1>3, LocalTypeInductive, FlagsInductive, SpecMeetsBreaker, PTL DEF Spec

(***************************************************************************)
(* The attempts in flight are the calls that are running in the breaker:   *)
(* no request returns, or waits for its next attempt, without settling the *)
(* one before, and none is at the service past the breaker.                *)
(***************************************************************************)
InFlightInv == LocalTypeOK /\ Breaker!TypeOK /\ Breaker!Running = InFlight

\* The breaker and the loop agree on what a step makes of c.
LEMMA Agree ==
  ASSUME InFlightInv, NEW c \in Calls, NEW p, NEW k,
         call' = [call EXCEPT ![c] = k], pc' = [pc EXCEPT ![c] = p],
         k # "idle" <=> p \in {"sent", "accepted"}
  PROVE  (Breaker!Running = InFlight)'
  BY DEF InFlightInv, LocalTypeOK, Breaker!TypeOK, Breaker!Running, InFlight

LEMMA InFlightInductive ==
  ASSUME InFlightInv, Breaker!TypeOK', [Next]_vars
  PROVE  InFlightInv'
<1>t. LocalTypeOK'
  BY LocalTypeInductive DEF InFlightInv
<1> SUFFICES (Breaker!Running = InFlight)'
  BY <1>t DEF InFlightInv
<1> USE DEF breakerVars, loopVars, serviceVars, countVars
<1>1. ASSUME NEW c \in Calls, Start(c) PROVE (Breaker!Running = InFlight)'
  BY <1>1 DEF Start, InFlightInv, LocalTypeOK, Breaker!Running, InFlight
<1>2. ASSUME NEW c \in Calls, Send(c) PROVE (Breaker!Running = InFlight)'
  <2>1. PICK k \in {"executeClosed", "executeHalfOpen"} : call' = [call EXCEPT ![c] = k]
    BY <1>2 DEF Send, Breaker!Admit, Breaker!OpenProbe, Breaker!HalfOpenProbe,
                Breaker!ClosedAdmit, Breaker!Enter
  <2>2. pc' = [pc EXCEPT ![c] = "sent"] /\ k # "idle"
    BY <1>2 DEF Send
  <2> QED BY <2>1, <2>2, Agree
<1>3. ASSUME NEW c \in Calls, Rejected(c) PROVE (Breaker!Running = InFlight)'
  BY <1>3 DEF Rejected, Return, Breaker!Reject, Breaker!OpenReject, Breaker!HalfOpenReject,
              Breaker!vars, InFlightInv, LocalTypeOK, Breaker!Running, InFlight
<1>4. ASSUME NEW c \in Calls, Accept(c) PROVE (Breaker!Running = InFlight)'
  BY <1>4 DEF Accept, InFlightInv, LocalTypeOK, Breaker!Running, InFlight
<1>5. ASSUME NEW c \in Calls, Breaker!Settle(c), NEW p \in {"idle", "backoff"},
             pc' = [pc EXCEPT ![c] = p]
      PROVE  (Breaker!Running = InFlight)'
  <2>1. call' = [call EXCEPT ![c] = "idle"]
    BY <1>5 DEF Breaker!Settle, Breaker!Succeed, Breaker!Fail, Breaker!ClosedSuccess,
                Breaker!ClosedFailure, Breaker!HalfOpenSuccess, Breaker!HalfOpenFailure,
                Breaker!Leave
  <2> QED BY <1>5, <2>1, Agree
<1>6. ASSUME NEW c \in Calls, Succeeds(c) \/ Redirected(c) PROVE (Breaker!Running = InFlight)'
  BY <1>5, <1>6 DEF Succeeds, Redirected, Return, Breaker!Settle
<1>7. ASSUME NEW c \in Calls, Transient(c) \/ Unauthorized(c) \/ BadRequest(c)
      PROVE  (Breaker!Running = InFlight)'
  <2>1. Breaker!Settle(c)
    BY <1>7 DEF Transient, Unauthorized, BadRequest, Breaker!Settle
  <2>2. PICK p \in {"idle", "backoff"} : pc' = [pc EXCEPT ![c] = p]
    BY <1>7 DEF Transient, Unauthorized, BadRequest, HandleError, Retry, GiveUp, Return
  <2> QED BY <1>5, <2>1, <2>2
<1>8. ASSUME NEW c \in Calls, Backoff(c) PROVE (Breaker!Running = InFlight)'
  BY <1>8 DEF Backoff, TimerFires, BackoffCancelled, Return, InFlightInv, LocalTypeOK,
              Breaker!Running, InFlight
<1>9. ASSUME UNCHANGED <<pc, call>> PROVE (Breaker!Running = InFlight)'
  BY <1>9 DEF InFlightInv, Breaker!Running, InFlight
<1> QED
  BY <1>1, <1>2, <1>3, <1>4, <1>6, <1>7, <1>8, <1>9
  DEF Next, Attempt, Answer, Late, Cancel, Outage, Revoke, Tick, Breaker!Tick, vars

LEMMA InFlightHolds == Spec => []InFlightInv
<1>1. Init => Breaker!Running = InFlight
  BY DEF Init, Breaker!Init, Breaker!Running, InFlight
<1>2. Init => LocalTypeOK
  BY DEF Init, LocalTypeOK, Keys, Outcomes
<1>3. TypeOK => Breaker!TypeOK
  BY DEF TypeOK
<1>4. InFlightInv /\ Breaker!TypeOK' /\ [Next]_vars => InFlightInv'
  BY InFlightInductive
<1> QED BY <1>1, <1>2, <1>3, <1>4, RequestTypeCorrect, PTL DEF Spec, InFlightInv

(***************************************************************************)
(* Every attempt that waits for an answer is a call of the breaker, so     *)
(* that the breaker's bounds are bounds on the service's load:             *)
(* ServiceIsShielded, for any number of requests.                          *)
(***************************************************************************)
THEOREM ServiceShielded ==
  ASSUME Timeout < ResetTimeout
  PROVE  Spec => []ServiceIsShielded
<1>1. Proofs!Spec => []Proofs!OpenShields
  BY Proofs!OpenCircuitShields, BreakerConfigured
<1>2. Proofs!Spec => []Proofs!ProbesDecide
  BY Proofs!OnlyProbesDecide, BreakerConfigured
<1>3. Proofs!Spec => []Proofs!ProbeLimit
  BY Proofs!ProbesAreLimited, BreakerConfigured
<1>4. InFlightInv /\ Proofs!OpenShields /\ Proofs!ProbesDecide /\ Proofs!ProbeLimit
        => ServiceIsShielded
  <2> SUFFICES ASSUME InFlightInv, Proofs!OpenShields, Proofs!ProbesDecide, Proofs!ProbeLimit
               PROVE  ServiceIsShielded
    OBVIOUS
  <2>1. Proofs!Running = InFlight
    BY DEF InFlightInv, Proofs!Running, Breaker!Running
  <2>2. state = "HALF_OPEN" => Proofs!Probes = InFlight
    BY <2>1 DEF Proofs!ProbesDecide
  <2>3. Cardinality(Proofs!Probes) <= Breaker!MaxProbes
    BY DEF Proofs!ProbeLimit, Proofs!MaxProbes, Breaker!MaxProbes, Proofs!Cardinality, Cardinality
  <2> QED BY <2>1, <2>2, <2>3 DEF ServiceIsShielded, Proofs!OpenShields
<1> QED BY <1>1, <1>2, <1>3, <1>4, InFlightHolds, SpecMeetsBreaker, PTL
-----------------------------------------------------------------------------
(***************************************************************************)
(* The account of a request.  What the service has carried out, or may     *)
(* still carry out, are attempts that ended "transient" and the one that   *)
(* was answered; and each attempt before the current one can have been     *)
(* lost only once.                                                         *)
(***************************************************************************)
Answered(c) == IF pc[c] = "accepted" \/ result[c] = "ok" THEN 1 ELSE 0

Budget(c) ==
  /\ pc[c] = "idle" => attempt[c] = 0
  /\ attempt[c] <= MaxRetries
  /\ pc[c] # "idle" => lost[c] <= attempt[c] /\ result[c] = "none"
  /\ lost[c] <= MaxRetries + 1
  /\ accepted[c] + stray[c] <= lost[c] + Answered(c)
  /\ pc[c] = "accepted" => accepted[c] > 0
  /\ result[c] = "ok" => accepted[c] > 0 /\ lost[c] <= MaxRetries

BudgetInv == LocalTypeOK /\ \A c \in Calls : Budget(c)

\* A step of one request leaves the budgets of the others alone.
LEMMA OthersKeepBudget ==
  ASSUME BudgetInv, NEW d \in Calls,
         pc'[d] = pc[d], attempt'[d] = attempt[d], result'[d] = result[d],
         accepted'[d] = accepted[d], stray'[d] = stray[d], lost'[d] = lost[d]
  PROVE  Budget(d)'
  BY MaxRetriesType DEF BudgetInv, Budget, Answered

\* A definite error: the attempt was not carried out.
LEMMA HandleErrorBudget ==
  ASSUME BudgetInv, NEW c \in Calls, NEW outcome \in Outcomes \ {"ok"},
         pc[c] = "sent", UNCHANGED countVars, HandleError(c, outcome)
  PROVE  \A d \in Calls : Budget(d)'
<1> USE DEF countVars
<1>1. ASSUME NEW d \in Calls, d # c PROVE Budget(d)'
  <2>1. pc'[d] = pc[d] /\ attempt'[d] = attempt[d] /\ result'[d] = result[d]
    BY <1>1 DEF HandleError, Retry, GiveUp, Return, BudgetInv, LocalTypeOK
  <2> QED BY <2>1, OthersKeepBudget
<1>2. Budget(c)'
  <2>1. CASE Retry(c)
    BY <2>1, MaxRetriesType DEF Retry, BudgetInv, Budget, Answered, LocalTypeOK
  <2>2. CASE GiveUp(c, outcome)
    BY <2>2, MaxRetriesType DEF GiveUp, Return, BudgetInv, Budget, Answered, LocalTypeOK
  <2> QED BY <2>1, <2>2 DEF HandleError
<1> QED BY <1>1, <1>2

\* A transient one: the attempt, carried out, on its way or neither, is lost.
LEMMA TransientBudget ==
  ASSUME BudgetInv, NEW c \in Calls, Transient(c)
  PROVE  \A d \in Calls : Budget(d)'
<1>1. /\ pc[c] \in {"sent", "accepted"} /\ HandleError(c, "transient") /\ accepted' = accepted
      /\ stray' = [stray EXCEPT ![c] = IF pc[c] = "sent" /\ key[c] \in valid THEN @ + 1 ELSE @]
      /\ lost' = [lost EXCEPT ![c] = @ + 1]
  BY DEF Transient
<1>2. ASSUME NEW d \in Calls, d # c PROVE Budget(d)'
  <2>1. pc'[d] = pc[d] /\ attempt'[d] = attempt[d] /\ result'[d] = result[d]
    BY <1>1, <1>2 DEF HandleError, Retry, GiveUp, Return, BudgetInv, LocalTypeOK
  <2>2. stray'[d] = stray[d] /\ lost'[d] = lost[d]
    BY <1>1, <1>2 DEF BudgetInv, LocalTypeOK
  <2> QED BY <1>1, <2>1, <2>2, OthersKeepBudget
<1>3. Budget(c)'
  <2>1. /\ lost'[c] = lost[c] + 1 /\ lost[c] \in Nat /\ stray[c] \in Nat /\ accepted[c] \in Nat
        /\ stray'[c] = (IF pc[c] = "sent" /\ key[c] \in valid THEN stray[c] + 1 ELSE stray[c])
        /\ accepted'[c] = accepted[c] /\ attempt[c] \in Nat
    BY <1>1 DEF BudgetInv, LocalTypeOK
  <2>2. /\ lost[c] <= attempt[c] /\ result[c] = "none" /\ attempt[c] <= MaxRetries
        /\ accepted[c] + stray[c] <= lost[c] + (IF pc[c] = "accepted" THEN 1 ELSE 0)
    BY <1>1 DEF BudgetInv, Budget, Answered
  <2>3. accepted'[c] + stray'[c] <= lost'[c]
    BY <1>1, <2>1, <2>2
  <2>4. CASE Retry(c)
    <3>1. pc'[c] = "backoff" /\ attempt'[c] = attempt[c] + 1 /\ result'[c] = "none"
          /\ attempt[c] < MaxRetries
      BY <2>2, <2>4 DEF Retry, BudgetInv, LocalTypeOK
    <3> QED BY <2>1, <2>2, <2>3, <3>1, MaxRetriesType DEF Budget, Answered
  <2>5. CASE GiveUp(c, "transient")
    <3>1. pc'[c] = "idle" /\ attempt'[c] = 0 /\ result'[c] = "transient"
      BY <2>5 DEF GiveUp, Return, BudgetInv, LocalTypeOK
    <3> QED BY <2>1, <2>2, <2>3, <3>1, MaxRetriesType DEF Budget, Answered
  <2> QED BY <1>1, <2>4, <2>5 DEF HandleError
<1> QED BY <1>2, <1>3

LEMMA BudgetInductive ==
  ASSUME MaxRetries >= 0
  PROVE  BudgetInv /\ [Next]_vars => BudgetInv'
<1> SUFFICES ASSUME BudgetInv, [Next]_vars PROVE BudgetInv'
  OBVIOUS
<1>t. LocalTypeOK /\ LocalTypeOK'
  BY LocalTypeInductive DEF BudgetInv
<1> SUFFICES \A d \in Calls : Budget(d)'
  BY <1>t DEF BudgetInv
<1> USE DEF loopVars, serviceVars, countVars
<1>1. ASSUME NEW c \in Calls, Start(c) PROVE \A d \in Calls : Budget(d)'
  BY <1>1, MaxRetriesType DEF Start, BudgetInv, Budget, Answered, LocalTypeOK
<1>2. ASSUME NEW c \in Calls, Send(c) \/ TimerFires(c) PROVE \A d \in Calls : Budget(d)'
  BY <1>2, MaxRetriesType DEF Send, TimerFires, BudgetInv, Budget, Answered, LocalTypeOK
<1>3. ASSUME NEW c \in Calls, Rejected(c) \/ BackoffCancelled(c) \/ Redirected(c)
      PROVE  \A d \in Calls : Budget(d)'
  BY <1>3, MaxRetriesType
  DEF Rejected, BackoffCancelled, Redirected, Return, BudgetInv, Budget, Answered, LocalTypeOK
<1>4. ASSUME NEW c \in Calls, Accept(c) PROVE \A d \in Calls : Budget(d)'
  BY <1>4, MaxRetriesType DEF Accept, BudgetInv, Budget, Answered, LocalTypeOK
<1>5. ASSUME NEW c \in Calls, Succeeds(c) PROVE \A d \in Calls : Budget(d)'
  BY <1>5, MaxRetriesType DEF Succeeds, Return, BudgetInv, Budget, Answered, LocalTypeOK
<1>6. ASSUME NEW c \in Calls, Unauthorized(c) \/ BadRequest(c)
      PROVE  \A d \in Calls : Budget(d)'
  <2>1. PICK outcome \in {"auth", "fatal"} : HandleError(c, outcome)
    BY <1>6 DEF Unauthorized, BadRequest
  <2>2. pc[c] = "sent" /\ UNCHANGED countVars
    BY <1>6 DEF Unauthorized, BadRequest
  <2>3. outcome \in Outcomes \ {"ok"}
    BY DEF Outcomes
  <2> QED BY <2>1, <2>2, <2>3, HandleErrorBudget
<1>7. ASSUME NEW c \in Calls, Late(c) PROVE \A d \in Calls : Budget(d)'
  BY <1>7, MaxRetriesType DEF Late, BudgetInv, Budget, Answered, LocalTypeOK
<1>8. ASSUME UNCHANGED <<pc, attempt, result, countVars>> PROVE \A d \in Calls : Budget(d)'
  BY <1>8, OthersKeepBudget
<1> QED
  BY <1>1, <1>2, <1>3, <1>4, <1>5, <1>6, <1>7, <1>8, TransientBudget
  DEF Next, Attempt, Answer, Backoff, Cancel, Outage, Revoke, Tick, vars

LEMMA BudgetHolds ==
  ASSUME MaxRetries >= 0
  PROVE  Spec => []BudgetInv
<1>1. Init => BudgetInv
  BY MaxRetriesType DEF Init, BudgetInv, Budget, Answered, LocalTypeOK, Keys, Outcomes
<1>2. BudgetInv /\ [Next]_vars => BudgetInv'
  BY BudgetInductive
<1> QED BY <1>1, <1>2, PTL DEF Spec

\* Whatever may still be carried out fits the retry budget.
LEMMA WithinBudget ==
  ASSUME BudgetInv, NEW c \in Calls
  PROVE  accepted[c] + stray[c] <= MaxRetries + 1
<1>1. CASE pc[c] = "accepted" \/ result[c] = "ok"
  <2>1. lost[c] <= MaxRetries
    BY <1>1, MaxRetriesType DEF BudgetInv, Budget, LocalTypeOK
  <2> QED BY <1>1, <2>1, MaxRetriesType DEF BudgetInv, Budget, Answered, LocalTypeOK
<1>2. CASE ~(pc[c] = "accepted" \/ result[c] = "ok")
  BY <1>2, MaxRetriesType DEF BudgetInv, Budget, Answered, LocalTypeOK
<1> QED BY <1>1, <1>2

(***************************************************************************)
(* With MaxRetries >= 0 a request is carried out at most MaxRetries + 1    *)
(* times, through lost answers, a rotation and cancellations, and counting *)
(* what arrives after it has returned.                                     *)
(***************************************************************************)
THEOREM BudgetKept ==
  ASSUME MaxRetries >= 0
  PROVE  Spec => []RetryBudget
<1>1. BudgetInv => RetryBudget
  BY WithinBudget DEF RetryBudget
<1> QED BY <1>1, BudgetHolds, PTL

(***************************************************************************)
(* With MaxRetries >= 0 a request is carried out beyond the success it     *)
(* returns only by attempts that ended "transient".                        *)
(***************************************************************************)
THEOREM DuplicatesAreLost ==
  ASSUME MaxRetries >= 0
  PROVE  Spec => []OnlyLossDuplicates
<1>1. BudgetInv => OnlyLossDuplicates
  BY DEF BudgetInv, Budget, Answered, OnlyLossDuplicates
<1> QED BY <1>1, BudgetHolds, PTL
-----------------------------------------------------------------------------
(***************************************************************************)
(* With MaxRetries >= 0 a request keeps its contract: starting is the      *)
(* call, Accept and Late carry it out, everything that ends in "idle"      *)
(* returns, a transient error before a retry is an attempt lost, and the   *)
(* rest is nobody's business.                                              *)
(***************************************************************************)
Pending == {c \in Calls : pc[c] # "idle"}

ContractFailures == {"auth", "fatal", "rejected", "cancelled"}

LEMMA ReturnStep ==
  ASSUME BudgetInv, NEW c \in Calls, NEW o, pc[c] # "idle", accepted' = accepted, Return(c, o)
  PROVE  Contract!Return(c, o)
<1>1. Pending' = Pending \ {c}
  BY DEF Return, Pending, BudgetInv, LocalTypeOK
<1> QED BY <1>1 DEF Return, Pending, Contract!Return

LEMMA FailStep ==
  ASSUME BudgetInv, NEW c \in Calls, NEW o \in ContractFailures \cup {"moved"},
         pc[c] \in {"ready", "sent", "backoff"}, UNCHANGED countVars, Return(c, o)
  PROVE  Contract!Next
<1>1. accepted[c] <= lost[c]
  BY DEF BudgetInv, Budget, Answered, LocalTypeOK
<1>2. Contract!Fail(c, o)
  BY <1>1, ReturnStep DEF Contract!Fail, countVars
<1> QED BY <1>2 DEF Contract!Next, ContractFailures

\* What the contract does not see of a pending request.
LEMMA PendingStep ==
  ASSUME BudgetInv, NEW c \in Calls, NEW p \in {"ready", "sent", "accepted", "backoff"},
         pc[c] # "idle", pc' = [pc EXCEPT ![c] = p],
         accepted' = accepted, lost' = lost, result' = result
  PROVE  UNCHANGED Contract!vars
<1>1. Pending' = Pending
  BY DEF Pending, BudgetInv, LocalTypeOK
<1> QED BY <1>1 DEF Pending, Contract!vars

LEMMA HandleErrorStep ==
  ASSUME BudgetInv, NEW c \in Calls, NEW outcome \in {"auth", "fatal"},
         pc[c] = "sent", UNCHANGED countVars, HandleError(c, outcome)
  PROVE  [Contract!Next]_(Contract!vars)
<1>1. CASE Retry(c)
  BY <1>1, PendingStep DEF Retry, countVars
<1>2. CASE GiveUp(c, outcome)
  <2>1. outcome \in ContractFailures \cup {"moved"}
    BY DEF ContractFailures
  <2> QED BY <1>2, <2>1, FailStep DEF GiveUp
<1> QED BY <1>1, <1>2 DEF HandleError

LEMMA TransientStep ==
  ASSUME BudgetInv, NEW c \in Calls, Transient(c)
  PROVE  Contract!Next
<1>1. /\ pc[c] # "idle" /\ accepted' = accepted /\ lost' = [lost EXCEPT ![c] = @ + 1]
      /\ HandleError(c, "transient")
  BY DEF Transient
<1>2. lost[c] < MaxRetries + 1 /\ accepted[c] <= lost[c] + 1
  BY <1>1, MaxRetriesType DEF BudgetInv, Budget, Answered, LocalTypeOK
<1>3. CASE Retry(c)
  <2>1. Pending' = Pending
    BY <1>1, <1>3 DEF Retry, Pending, BudgetInv, LocalTypeOK
  <2>2. Contract!Lose(c)
    BY <1>1, <1>2, <1>3, <2>1 DEF Retry, Pending, Contract!Lose
  <2> QED BY <2>2 DEF Contract!Next
<1>4. CASE GiveUp(c, "transient")
  <2>1. Contract!Return(c, "transient")
    BY <1>1, <1>4, ReturnStep DEF GiveUp
  <2>2. Contract!GiveUp(c)
    BY <1>1, <1>2, <2>1 DEF Contract!GiveUp
  <2> QED BY <2>2 DEF Contract!Next
<1> QED BY <1>1, <1>3, <1>4 DEF HandleError

LEMMA KeepsContractStep ==
  ASSUME MaxRetries >= 0, BudgetInv, [Next]_vars
  PROVE  [Contract!Next]_(Contract!vars)
<1> USE DEF loopVars, serviceVars, countVars
<1>1. ASSUME NEW c \in Calls, Start(c) PROVE [Contract!Next]_(Contract!vars)
  <2>1. Contract!Call(c)
    <3>1. Pending' = Pending \cup {c}
      BY <1>1, MaxRetriesType DEF Start, Pending, BudgetInv, LocalTypeOK
    <3> QED BY <1>1, <3>1 DEF Start, Pending, Contract!Call
  <2> QED BY <2>1 DEF Contract!Next
<1>2. ASSUME NEW c \in Calls, Send(c) PROVE [Contract!Next]_(Contract!vars)
  BY <1>2, PendingStep DEF Send
<1>3. ASSUME NEW c \in Calls, TimerFires(c) PROVE [Contract!Next]_(Contract!vars)
  BY <1>3, PendingStep DEF TimerFires
<1>4. ASSUME NEW c \in Calls, Accept(c) \/ Late(c) PROVE [Contract!Next]_(Contract!vars)
  <2>1. Pending' = Pending /\ accepted' = [accepted EXCEPT ![c] = @ + 1]
        /\ UNCHANGED <<lost, result>>
    BY <1>4 DEF Accept, Late, Pending, BudgetInv, LocalTypeOK
  <2>2. accepted[c] < MaxRetries + 1
    <3>1. CASE Accept(c)
      BY <3>1, MaxRetriesType DEF Accept, BudgetInv, Budget, Answered, LocalTypeOK
    <3>2. CASE Late(c)
      BY <3>2, WithinBudget, MaxRetriesType DEF Late, BudgetInv, LocalTypeOK
    <3> QED BY <1>4, <3>1, <3>2
  <2>3. accepted[c] < lost[c] + (IF c \in Pending \/ result[c] = "ok" THEN 1 ELSE 0)
    BY <1>4 DEF Accept, Late, Pending, BudgetInv, Budget, Answered, LocalTypeOK
  <2>4. Contract!CarryOut(c)
    BY <2>1, <2>2, <2>3 DEF Pending, Contract!CarryOut, Contract!Due
  <2> QED BY <2>4 DEF Contract!Next
<1>5. ASSUME NEW c \in Calls, Succeeds(c) PROVE [Contract!Next]_(Contract!vars)
  <2>1. accepted[c] > 0 /\ pc[c] # "idle" /\ UNCHANGED countVars /\ Return(c, "ok")
    BY <1>5 DEF Succeeds, BudgetInv, Budget
  <2>2. Contract!Succeed(c)
    BY <2>1, ReturnStep DEF Contract!Succeed
  <2> QED BY <2>2 DEF Contract!Next
<1>6. ASSUME NEW c \in Calls, Rejected(c) \/ BackoffCancelled(c) \/ Redirected(c)
      PROVE  [Contract!Next]_(Contract!vars)
  <2>1. PICK o \in {"rejected", "cancelled", "moved"} : Return(c, o)
    BY <1>6 DEF Rejected, BackoffCancelled, Redirected
  <2>2. pc[c] \in {"ready", "sent", "backoff"} /\ UNCHANGED countVars
    BY <1>6 DEF Rejected, BackoffCancelled, Redirected
  <2>3. o \in ContractFailures \cup {"moved"}
    BY DEF ContractFailures
  <2> QED BY <2>1, <2>2, <2>3, FailStep
<1>7. ASSUME NEW c \in Calls, Unauthorized(c) \/ BadRequest(c)
      PROVE  [Contract!Next]_(Contract!vars)
  <2>1. PICK o \in {"auth", "fatal"} : HandleError(c, o)
    BY <1>7 DEF Unauthorized, BadRequest
  <2>2. pc[c] = "sent" /\ UNCHANGED countVars
    BY <1>7 DEF Unauthorized, BadRequest
  <2> QED BY <2>1, <2>2, HandleErrorStep
<1>8. ASSUME UNCHANGED <<pc, accepted, lost, result>> PROVE [Contract!Next]_(Contract!vars)
  BY <1>8 DEF Contract!vars
<1> QED
  BY <1>1, <1>2, <1>3, <1>4, <1>5, <1>6, <1>7, <1>8, TransientStep
  DEF Next, Attempt, Answer, Backoff, Cancel, Outage, Revoke, Tick, vars

(***************************************************************************)
(* With MaxRetries >= 0 Client.Request implements RequestContract: a       *)
(* request that returns "ok" was carried out, one that returns an error    *)
(* was not, except for the attempts that ended without a definite answer.  *)
(***************************************************************************)
THEOREM RequestMeetsContract ==
  ASSUME MaxRetries >= 0
  PROVE  Spec => KeepsContract
<1>1. Init => Contract!Init
  BY DEF Init, Contract!Init
<1>2. BudgetInv /\ [Next]_vars => [Contract!Next]_(Contract!vars)
  BY KeepsContractStep
<1> QED
  BY <1>1, <1>2, BudgetHolds, PTL DEF Spec, KeepsContract, Contract!Spec
-----------------------------------------------------------------------------
(***************************************************************************)
(* Progress.  A step of one request leaves the others alone, and brings    *)
(* its own return nearer: HandleError either returns, or spends one of the *)
(* MaxRetries attempts.                                                    *)
(***************************************************************************)
Untouched(d) == UNCHANGED <<pc[d], attempt[d], key[d], lost[d], result[d]>>

LEMMA StageValues ==
  Stage["accepted"] = 1 /\ Stage["sent"] = 2 /\ Stage["ready"] = 3 /\ Stage["backoff"] = 4
BY DEF Stage

LEMMA StepsLeftType ==
  ASSUME BudgetInv, NEW c \in Calls
  PROVE  /\ StepsLeft(c) \in Nat
         /\ pc[c] # "idle" => StepsLeft(c) > 4 * (MaxRetries - attempt[c])
<1>1. /\ pc[c] \in {"idle", "ready", "sent", "accepted", "backoff"}
      /\ attempt[c] \in Nat /\ attempt[c] <= MaxRetries
  BY DEF BudgetInv, Budget, LocalTypeOK
<1> QED BY <1>1, MaxRetriesType, StageValues DEF StepsLeft

LEMMA ReturnProgress ==
  ASSUME BudgetInv, NEW c \in Calls, pc[c] # "idle", NEW o, Return(c, o)
  PROVE  StepsLeft(c)' < StepsLeft(c)
<1>1. pc'[c] = "idle"
  BY DEF Return, BudgetInv, LocalTypeOK
<1>2. attempt[c] \in Nat /\ attempt[c] <= MaxRetries
  BY DEF BudgetInv, Budget, LocalTypeOK
<1>3. StepsLeft(c)' = 0
  BY <1>1 DEF StepsLeft
<1> QED BY <1>2, <1>3, StepsLeftType, MaxRetriesType

\* To the next stage of the same attempt.
LEMMA AdvanceProgress ==
  ASSUME BudgetInv, NEW c \in Calls, attempt' = attempt,
         NEW q \in {"accepted", "sent", "ready"}, pc' = [pc EXCEPT ![c] = q],
         pc[c] # "idle", Stage[q] < Stage[pc[c]]
  PROVE  StepsLeft(c)' < StepsLeft(c)
<1>1. pc'[c] = q /\ attempt[c] \in Nat
  BY DEF BudgetInv, LocalTypeOK
<1>2. pc[c] \in {"ready", "sent", "accepted", "backoff"}
  BY DEF BudgetInv, LocalTypeOK
<1> QED BY <1>1, <1>2, MaxRetriesType, StageValues DEF StepsLeft

LEMMA HandleErrorProgress ==
  ASSUME BudgetInv, NEW c \in Calls, NEW outcome, pc[c] # "idle", HandleError(c, outcome)
  PROVE  StepsLeft(c)' < StepsLeft(c)
<1>1. CASE Retry(c)
  <2>1. /\ pc'[c] = "backoff" /\ attempt'[c] = attempt[c] + 1
        /\ attempt[c] \in Nat /\ attempt[c] < MaxRetries
    BY <1>1 DEF Retry, BudgetInv, LocalTypeOK
  <2>2. StepsLeft(c)' = 4 * (MaxRetries - (attempt[c] + 1)) + 4
    BY <2>1, StageValues DEF StepsLeft
  <2> QED BY <2>1, <2>2, StepsLeftType, MaxRetriesType
<1>2. CASE GiveUp(c, outcome)
  BY <1>2, ReturnProgress DEF GiveUp
<1> QED BY <1>1, <1>2 DEF HandleError

\* What a request's own step changes, it changes for that request only.
LEMMA OthersUntouched ==
  ASSUME LocalTypeOK, NEW c \in Calls, NEW d \in Calls, d # c,
         Attempt(c) \/ Answer(c) \/ Backoff(c) \/ Start(c)
  PROVE  Untouched(d)
<1> USE DEF LocalTypeOK, Untouched, loopVars, serviceVars, countVars
<1>1. CASE Start(c)
  BY <1>1 DEF Start
<1>2. CASE Attempt(c) \/ Backoff(c)
  BY <1>2 DEF Attempt, Send, Rejected, Backoff, TimerFires, BackoffCancelled, Return
<1>3. CASE Accept(c) \/ Succeeds(c) \/ Redirected(c)
  BY <1>3 DEF Accept, Succeeds, Redirected, Return
<1>4. ASSUME NEW o, HandleError(c, o), lost'[d] = lost[d]
      PROVE  Untouched(d)
  BY <1>4 DEF HandleError, Retry, GiveUp, Return
<1>5. CASE Transient(c)
  <2>1. lost'[d] = lost[d] /\ HandleError(c, "transient")
    BY <1>5 DEF Transient
  <2> QED BY <2>1, <1>4
<1> QED
  BY <1>1, <1>2, <1>3, <1>4, <1>5 DEF Answer, Unauthorized, BadRequest

LEMMA OwnStepProgress ==
  ASSUME BudgetInv, NEW c \in Calls, pc[c] # "idle",
         Attempt(c) \/ Answer(c) \/ Backoff(c)
  PROVE  StepsLeft(c)' < StepsLeft(c)
<1> USE StageValues DEF loopVars, serviceVars, countVars
<1>1. CASE Send(c)
  <2>1. attempt' = attempt /\ pc[c] = "ready" /\ pc' = [pc EXCEPT ![c] = "sent"]
    BY <1>1 DEF Send
  <2>2. Stage["sent"] < Stage[pc[c]]
    BY <2>1
  <2> QED BY <2>1, <2>2, AdvanceProgress
<1>2. CASE Accept(c)
  <2>1. attempt' = attempt /\ pc[c] = "sent" /\ pc' = [pc EXCEPT ![c] = "accepted"]
    BY <1>2 DEF Accept
  <2>2. Stage["accepted"] < Stage[pc[c]]
    BY <2>1
  <2> QED BY <2>1, <2>2, AdvanceProgress
<1>3. CASE TimerFires(c)
  <2>1. attempt' = attempt /\ pc[c] = "backoff" /\ pc' = [pc EXCEPT ![c] = "ready"]
    BY <1>3 DEF TimerFires
  <2>2. Stage["ready"] < Stage[pc[c]]
    BY <2>1
  <2> QED BY <2>1, <2>2, AdvanceProgress
<1>4. CASE Rejected(c) \/ Succeeds(c) \/ Redirected(c) \/ BackoffCancelled(c)
  BY <1>4, ReturnProgress DEF Rejected, Succeeds, Redirected, BackoffCancelled
<1>5. CASE Transient(c) \/ Unauthorized(c) \/ BadRequest(c)
  BY <1>5, HandleErrorProgress DEF Transient, Unauthorized, BadRequest
<1> QED BY <1>1, <1>2, <1>3, <1>4, <1>5 DEF Attempt, Answer, Backoff

(***************************************************************************)
(* A pending request takes at most StepsLeft more steps, 4 * MaxRetries +  *)
(* 3 from its start: StepsLeft is a natural number, and nothing happens to *)
(* a request that does not make it smaller.                                *)
(***************************************************************************)
THEOREM RequestsProgress ==
  ASSUME MaxRetries >= 0
  PROVE  Spec => [](\A c \in Calls : StepsLeft(c) \in Nat) /\ RequestProgress
<1>1. BudgetInv => \A c \in Calls : StepsLeft(c) \in Nat
  BY StepsLeftType
<1>2. BudgetInv /\ [Next]_vars =>
        [\A c \in Calls : pc[c] # "idle" =>
           \/ StepsLeft(c)' < StepsLeft(c)
           \/ UNCHANGED <<pc[c], attempt[c], key[c], lost[c], result[c]>>]_vars
  <2> SUFFICES ASSUME BudgetInv, Next, NEW d \in Calls, pc[d] # "idle"
               PROVE  StepsLeft(d)' < StepsLeft(d) \/ Untouched(d)
    BY DEF Untouched
  <2>1. ASSUME NEW c \in Calls, Start(c) \/ Attempt(c) \/ Answer(c) \/ Backoff(c), c # d
        PROVE  Untouched(d)
    BY <2>1, OthersUntouched DEF BudgetInv
  <2>2. CASE Attempt(d) \/ Answer(d) \/ Backoff(d)
    BY <2>2, OwnStepProgress
  <2>3. ~Start(d)
    BY DEF Start
  <2>4. ASSUME NEW c \in Calls, Late(c) \/ Cancel(c) PROVE Untouched(d)
    BY <2>4 DEF Late, Cancel, Untouched, loopVars, serviceVars, countVars
  <2>5. CASE Outage \/ Revoke
    BY <2>5 DEF Outage, Revoke, Untouched, loopVars, countVars
  <2>6. CASE Tick
    BY <2>6 DEF Tick, Untouched, serviceVars, countVars
  <2> QED BY <2>1, <2>2, <2>3, <2>4, <2>5, <2>6 DEF Next
<1> QED BY BudgetHolds, <1>1, <1>2, PTL DEF Spec, RequestProgress
-----------------------------------------------------------------------------
(***************************************************************************)
(* When the findings do not apply.  What the runs request_last_attempt and *)
(* request_masked refute holds of a service without outages: the 401 of a  *)
(* rotation then has a retry left, and no answer is lost.                  *)
(***************************************************************************)
RotationInv(c) ==
  /\ pc[c] # "idle" /\ ~cancelled[c] /\ key[c] = "primary" => attempt[c] = 0
  /\ pc[c] # "idle" /\ key[c] = "secondary" => "primary" \in refused[c]
  /\ SecondaryKey /\ result[c] = "auth" => refused[c] = Keys

AuthInv == BudgetInv /\ FlagsOK /\ healthy /\ \A c \in Calls : RotationInv(c)

LEMMA AuthOthers ==
  ASSUME AuthInv, NEW d \in Calls, Untouched(d),
         refused'[d] = refused[d], cancelled'[d] = cancelled[d] \/ cancelled'[d]
  PROVE  RotationInv(d)'
BY DEF AuthInv, RotationInv, Untouched

LEMMA OthersUntouchedToo ==
  ASSUME LocalTypeOK, FlagsOK, NEW c \in Calls, NEW d \in Calls, d # c,
         Attempt(c) \/ Answer(c) \/ Backoff(c) \/ Start(c)
  PROVE  /\ refused'[d] = refused[d] /\ cancelled'[d] = cancelled[d]
         /\ accepted'[d] = accepted[d] /\ stray'[d] = stray[d]
<1> USE DEF LocalTypeOK, FlagsOK, loopVars, serviceVars, countVars
<1>1. CASE Start(c)
  BY <1>1 DEF Start
<1>2. CASE Attempt(c) \/ Backoff(c)
  BY <1>2 DEF Attempt, Send, Rejected, Backoff, TimerFires, BackoffCancelled
<1>3. CASE Answer(c)
  BY <1>3 DEF Answer, Accept, Succeeds, Redirected, Transient, Unauthorized, BadRequest
<1> QED BY <1>1, <1>2, <1>3

LEMMA AuthOwnStep ==
  ASSUME MaxRetries >= 1, AuthInv, NEW c \in Calls,
         Start(c) \/ Attempt(c) \/ Answer(c) \/ Backoff(c)
  PROVE  RotationInv(c)'
<1> USE DEF AuthInv, BudgetInv, LocalTypeOK, FlagsOK, RotationInv, loopVars, serviceVars, countVars
<1>1. CASE Start(c)
  BY <1>1 DEF Start, Budget
<1>2. CASE Send(c) \/ TimerFires(c)
  BY <1>2 DEF Send, TimerFires
<1>3. CASE Rejected(c) \/ BackoffCancelled(c)
  BY <1>3 DEF Rejected, BackoffCancelled, Return
<1>4. CASE Accept(c)
  BY <1>4 DEF Accept
<1>5. CASE Succeeds(c) \/ Redirected(c)
  BY <1>5 DEF Succeeds, Redirected, Return
<1>6. CASE Transient(c)
  <2>1. cancelled[c] /\ cancelled' = cancelled /\ refused' = refused /\ HandleError(c, "transient")
    BY <1>6 DEF Transient
  <2>2. key' = key
    BY <2>1 DEF HandleError, Rotates
  <2>3. CASE Retry(c)
    BY <1>6, <2>1, <2>2, <2>3 DEF Retry, Transient
  <2>4. CASE GiveUp(c, "transient")
    BY <2>1, <2>2, <2>4 DEF GiveUp, Return
  <2> QED BY <2>1, <2>3, <2>4 DEF HandleError
<1>7. CASE Unauthorized(c)
  <2>1. /\ ~cancelled[c] /\ cancelled' = cancelled /\ pc[c] = "sent"
        /\ refused'[c] = refused[c] \cup {key[c]} /\ HandleError(c, "auth")
    BY <1>7 DEF Unauthorized
  <2>2. CASE Retry(c) /\ Recoverable(c, "auth")
    <3>1. key[c] = "primary" /\ key'[c] = "secondary"
      BY <2>1, <2>2 DEF Recoverable, Rotates, HandleError
    <3>2. pc'[c] = "backoff" /\ result' = result
      BY <2>2 DEF Retry
    <3>3. result[c] # "auth" \/ ~SecondaryKey \/ refused'[c] = Keys
      BY <2>1 DEF Keys
    <3> QED BY <2>1, <3>1, <3>2, <3>3
  <2>3. CASE GiveUp(c, "auth")
    <3>1. ~Rotates(c, "auth") \/ attempt[c] >= MaxRetries
      BY <2>3, MaxRetriesType DEF GiveUp, Recoverable
    <3>2. SecondaryKey => key[c] = "secondary"
      BY <2>1, <3>1, MaxRetriesType DEF Rotates, Keys
    <3>3. SecondaryKey => refused'[c] = Keys
      BY <2>1, <3>2 DEF Keys
    <3>4. pc'[c] = "idle" /\ result'[c] = "auth"
      BY <2>3 DEF GiveUp, Return
    <3> QED BY <3>3, <3>4
  <2> QED BY <2>1, <2>2, <2>3 DEF HandleError
<1>8. CASE BadRequest(c)
  <2>1. GiveUp(c, "fatal")
    BY <1>8 DEF BadRequest, HandleError, Recoverable, Rotates
  <2> QED BY <2>1 DEF GiveUp, Return
<1> QED
  BY <1>1, <1>2, <1>3, <1>4, <1>5, <1>6, <1>7, <1>8 DEF Attempt, Answer, Backoff

(***************************************************************************)
(* A 401 is final only after every key was tried, as long as there is a    *)
(* retry for the rotation and no outage spends it.                         *)
(***************************************************************************)
THEOREM AuthErrorsAreFinal ==
  ASSUME MaxRetries >= 1, "outage" \notin Faults
  PROVE  Spec => []AuthErrorIsFinal
<1>1. Init => FlagsOK /\ healthy /\ \A c \in Calls : RotationInv(c)
  <2> SUFFICES ASSUME Init PROVE FlagsOK /\ healthy /\ \A c \in Calls : RotationInv(c)
    OBVIOUS
  <2>1. FlagsOK /\ healthy
    BY Zenon DEF Init, FlagsOK
  <2> QED BY <2>1 DEF Init, RotationInv
<1>2. Init => BudgetInv
  BY MaxRetriesType DEF Init, BudgetInv, Budget, Answered, LocalTypeOK, Keys, Outcomes
<1>3. AuthInv /\ [Next]_vars => AuthInv'
  <2> SUFFICES ASSUME AuthInv, [Next]_vars PROVE AuthInv'
    OBVIOUS
  <2>1. BudgetInv' /\ FlagsOK'
    BY BudgetInductive, FlagsInductive, MaxRetriesType DEF AuthInv
  <2>2. healthy'
    BY DEF AuthInv, Next, Start, Attempt, Send, Rejected, Answer, Accept, Succeeds, Redirected,
           Transient, Unauthorized, BadRequest, Backoff, TimerFires, BackoffCancelled, Late,
           Cancel, Outage, Revoke, Tick, vars, serviceVars
  <2> SUFFICES ASSUME NEW d \in Calls PROVE RotationInv(d)'
    BY <2>1, <2>2 DEF AuthInv
  <2>3. ASSUME NEW c \in Calls, Start(c) \/ Attempt(c) \/ Answer(c) \/ Backoff(c)
        PROVE  RotationInv(d)'
    <3>1. CASE c = d
      BY <2>3, <3>1, AuthOwnStep
    <3>2. CASE c # d
      BY <2>3, <3>2, OthersUntouched, OthersUntouchedToo, AuthOthers DEF AuthInv, BudgetInv
    <3> QED BY <3>1, <3>2
  <2>4. ASSUME NEW c \in Calls, Late(c) \/ Cancel(c) PROVE RotationInv(d)'
    <3>1. Untouched(d) /\ refused' = refused
      BY <2>4 DEF Late, Cancel, Untouched, loopVars, serviceVars, countVars
    <3>2. cancelled'[d] = cancelled[d] \/ cancelled'[d]
      BY <2>4 DEF Late, Cancel, AuthInv, FlagsOK
    <3> QED BY <3>1, <3>2, AuthOthers
  <2>5. CASE Outage \/ Revoke \/ Tick \/ UNCHANGED vars
    <3>1. Untouched(d) /\ refused' = refused /\ cancelled' = cancelled
      BY <2>5 DEF Outage, Revoke, Tick, vars, Untouched, loopVars, serviceVars, countVars
    <3> QED BY <3>1, AuthOthers
  <2> QED BY <2>3, <2>4, <2>5 DEF Next
<1>4. AuthInv => AuthErrorIsFinal
  BY DEF AuthInv, RotationInv, AuthErrorIsFinal
<1> QED BY <1>1, <1>2, <1>3, <1>4, PTL DEF Spec, AuthInv

(***************************************************************************)
(* Without outages and cancellations no answer is lost: what was carried   *)
(* out is returned as a success, and nothing is carried out twice or late. *)
(***************************************************************************)
OnceInv(c) ==
  /\ ~cancelled[c]
  /\ lost[c] = 0 /\ stray[c] = 0
  /\ accepted[c] = (IF pc[c] = "accepted" \/ result[c] = "ok" THEN 1 ELSE 0)

OutcomeIsTrue ==
  \A c \in Calls : /\ result[c] = "ok" => accepted[c] = 1
                   /\ result[c] \notin {"none", "ok"} => accepted[c] + stray[c] = 0

LostNothingInv == BudgetInv /\ FlagsOK /\ healthy /\ \A c \in Calls : OnceInv(c)

LEMMA OnceOwnStep ==
  ASSUME MaxRetries >= 0, LostNothingInv, NEW c \in Calls,
         Start(c) \/ Attempt(c) \/ Answer(c) \/ Backoff(c)
  PROVE  OnceInv(c)'
<1> USE DEF LostNothingInv, BudgetInv, Budget, LocalTypeOK, FlagsOK, OnceInv, loopVars, serviceVars, countVars
<1>1. CASE Start(c)
  BY <1>1, MaxRetriesType DEF Start
<1>2. CASE Send(c) \/ TimerFires(c)
  BY <1>2 DEF Send, TimerFires
<1>3. CASE Rejected(c) \/ BackoffCancelled(c)
  BY <1>3 DEF Rejected, BackoffCancelled, Return
<1>4. CASE Accept(c)
  BY <1>4 DEF Accept
<1>5. CASE Succeeds(c) \/ Redirected(c)
  BY <1>5 DEF Succeeds, Redirected, Return
<1>6. ~Transient(c)
  BY DEF Transient
<1>7. CASE Unauthorized(c) \/ BadRequest(c)
  <2>1. PICK o \in {"auth", "fatal"} : HandleError(c, o)
    BY <1>7 DEF Unauthorized, BadRequest
  <2>2. pc[c] = "sent" /\ UNCHANGED countVars /\ cancelled' = cancelled /\ o # "ok"
    BY <1>7 DEF Unauthorized, BadRequest
  <2>3. CASE Retry(c)
    BY <2>2, <2>3 DEF Retry
  <2>4. CASE GiveUp(c, o)
    BY <2>2, <2>4 DEF GiveUp, Return
  <2> QED BY <2>1, <2>3, <2>4 DEF HandleError
<1> QED BY <1>1, <1>2, <1>3, <1>4, <1>5, <1>6, <1>7 DEF Attempt, Answer, Backoff

LEMMA OnceOthers ==
  ASSUME LostNothingInv, NEW d \in Calls, Untouched(d), cancelled'[d] = cancelled[d],
         accepted'[d] = accepted[d], stray'[d] = stray[d]
  PROVE  OnceInv(d)'
BY DEF LostNothingInv, OnceInv, Untouched

LEMMA LostNothingHolds ==
  ASSUME MaxRetries >= 0, "outage" \notin Faults, "cancel" \notin Faults
  PROVE  Spec => []LostNothingInv
<1>1. Init => FlagsOK /\ healthy /\ \A c \in Calls : OnceInv(c)
  <2> SUFFICES ASSUME Init PROVE FlagsOK /\ healthy /\ \A c \in Calls : OnceInv(c)
    OBVIOUS
  <2>1. FlagsOK /\ healthy
    BY Zenon DEF Init, FlagsOK
  <2>2. \A c \in Calls : ~cancelled[c]
    BY Zenon DEF Init
  <2> QED BY <2>1, <2>2 DEF Init, OnceInv
<1>2. Init => BudgetInv
  BY MaxRetriesType DEF Init, BudgetInv, Budget, Answered, LocalTypeOK, Keys, Outcomes
<1>3. LostNothingInv /\ [Next]_vars => LostNothingInv'
  <2> SUFFICES ASSUME LostNothingInv, [Next]_vars PROVE LostNothingInv'
    OBVIOUS
  <2>1. BudgetInv' /\ FlagsOK'
    BY BudgetInductive, FlagsInductive DEF LostNothingInv
  <2>2. healthy'
    BY DEF LostNothingInv, Next, Start, Attempt, Send, Rejected, Answer, Accept, Succeeds,
           Redirected, Transient, Unauthorized, BadRequest, Backoff, TimerFires,
           BackoffCancelled, Late, Cancel, Outage, Revoke, Tick, vars, serviceVars
  <2> SUFFICES ASSUME NEW d \in Calls PROVE OnceInv(d)'
    BY <2>1, <2>2 DEF LostNothingInv
  <2>3. ASSUME NEW c \in Calls, Start(c) \/ Attempt(c) \/ Answer(c) \/ Backoff(c)
        PROVE  OnceInv(d)'
    <3>1. CASE c = d
      BY <2>3, <3>1, OnceOwnStep
    <3>2. CASE c # d
      BY <2>3, <3>2, OthersUntouched, OthersUntouchedToo, OnceOthers
         DEF LostNothingInv, BudgetInv
    <3> QED BY <3>1, <3>2
  <2>4. ASSUME NEW c \in Calls PROVE ~Late(c) /\ ~Cancel(c)
    <3>1. stray[c] = 0
      BY DEF LostNothingInv, OnceInv
    <3> QED BY <3>1 DEF Late, Cancel
  <2>5. CASE Outage \/ Revoke \/ Tick \/ UNCHANGED vars
    <3>1. Untouched(d) /\ UNCHANGED <<cancelled, accepted, stray>>
      BY <2>5 DEF Outage, Revoke, Tick, vars, Untouched, loopVars, serviceVars, countVars
    <3> QED BY <3>1, OnceOthers
  <2> QED BY <2>3, <2>4, <2>5 DEF Next
<1> QED BY <1>1, <1>2, <1>3, PTL DEF Spec, LostNothingInv

(***************************************************************************)
(* Without outages and cancellations what Request returns is what the      *)
(* service did, with rotations, rejections and retries: "ok" for a request *)
(* carried out once, anything else (an error, or the nil of a redirected   *)
(* answer) for one that was not carried out and will not be.               *)
(***************************************************************************)
THEOREM OutcomesAreTrue ==
  ASSUME MaxRetries >= 0, "outage" \notin Faults, "cancel" \notin Faults
  PROVE  Spec => []OutcomeIsTrue
<1>1. LostNothingInv => OutcomeIsTrue
  BY DEF LostNothingInv, BudgetInv, Budget, OnceInv, OutcomeIsTrue
<1> QED BY <1>1, LostNothingHolds, PTL

(***************************************************************************)
(* A rejected request was not carried out, "without being attempted", if   *)
(* no answer was lost before the rejection.                                *)
(***************************************************************************)
THEOREM RejectedIsUntouched ==
  ASSUME MaxRetries >= 0, "outage" \notin Faults, "cancel" \notin Faults
  PROVE  Spec => []RejectedMeansUntouched
<1>1. LostNothingInv => RejectedMeansUntouched
  BY DEF LostNothingInv, BudgetInv, Budget, OnceInv, RejectedMeansUntouched
<1> QED BY <1>1, LostNothingHolds, PTL
=============================================================================
